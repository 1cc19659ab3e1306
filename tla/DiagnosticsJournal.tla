------------------------- MODULE DiagnosticsJournal -------------------------
(***************************************************************************)
(* PersistentDiagnostics (plugin/qgis_agent_mcp/store.py:15-217): which    *)
(* bridge calls are in progress, kept so that the next QGIS session can    *)
(* tell what the previous one was doing when it died.                      *)
(*                                                                         *)
(* On disk there are a snapshot, replaced as a whole, and an append-only   *)
(* journal of what has happened since.  A save replaces the snapshot and   *)
(* then removes the journal; QGIS may crash between the two, and each may  *)
(* fail.  A journal write that fails part-way (a full disk) leaves a line  *)
(* without its newline, and the next line is glued to it.  What the        *)
(* operating system has accepted survives a crash of QGIS, but a start may *)
(* be unable to read either file: it then takes it as empty and goes on.   *)
(***************************************************************************)
EXTENDS Integers, Sequences, FiniteSets, Functions

CONSTANTS
    HistoryLimit,   \* history_limit
    CompactAt,      \* journal events after which begin or finish saves
    MaxCalls,       \* bound: calls begun in one behaviour
    MaxDepth,       \* bound: calls in progress at once (they nest)
    MaxCrashes      \* bound: crashes in one behaviour

ASSUME JournalAssumption ==
    /\ HistoryLimit \in Nat \ {0}
    /\ CompactAt \in Nat \ {0}
    /\ MaxCalls \in Nat /\ MaxDepth \in Nat /\ MaxCrashes \in Nat

VARIABLES
    snapActive, snapHistory,  \* the snapshot file
    journal,                  \* the journal's readable lines
    torn,                     \* the journal ends in a line without newline
    pc,                       \* what the process is doing
    active, history,          \* _state, in memory
    position,                 \* the next journal line _load will read
    events,                   \* _journal_event_count
    dirty,                    \* _dirty
    previous,                 \* _previous_interruption
    missed,       \* history: the files that the start under way could not read
    durable,                  \* the calls begun with durable=True
    started,                  \* calls begun so far
    crashes,                  \* crashes so far
    open,         \* history: unfinished, unreported calls whose begin line is
                  \* in the journal or was
    acknowledged, \* history: durable calls whose begin raised no error
    done,         \* history: calls that finished
    unwritten,    \* history: of them, those whose finish line was not written
    reported,     \* history: calls reported as interrupted
    settled       \* history: of them, those reported before a complete save

disk == <<snapActive, snapHistory, journal, torn>>
ghosts == <<open, acknowledged, done, unwritten, reported, settled>>
vars == <<snapActive, snapHistory, journal, torn, pc, active, history, position, events,
          dirty, previous, missed, durable, started, crashes, open, acknowledged,
          done, unwritten, reported, settled>>

Calls == 1..MaxCalls
Interrupted == 0    \* the history record that a recovered interruption leaves
Files == {"snapshot", "journal"}
Line == [op : {"begin", "finish"}, call : Calls]

Init ==
    /\ snapActive = {} /\ snapHistory = <<>> /\ journal = <<>> /\ torn = FALSE
    /\ pc = "down"
    /\ active = {} /\ history = <<>> /\ position = 1 /\ events = 0 /\ dirty = FALSE
    /\ previous = {} /\ missed = {}
    /\ durable = {} /\ started = 0 /\ crashes = 0
    /\ open = {} /\ acknowledged = {} /\ done = {} /\ unwritten = {}
    /\ reported = {} /\ settled = {}
-----------------------------------------------------------------------------
(* _append_journal.  Written: the line ends the journal, unless a torn one  *)
(* was there to swallow it.  Cut: an OSError, with or without a torn line   *)
(* left behind; the error is ignored.                                       *)
Written(line) ==
    /\ journal' = IF torn THEN journal ELSE Append(journal, line)
    /\ torn' = FALSE
    /\ events' = events + 1
    /\ pc' = IF events + 1 >= CompactAt THEN "saving" ELSE "running"
Cut ==
    /\ torn' \in {torn, TRUE}
    /\ pc' = "running"
    /\ UNCHANGED <<journal, events>>

(* begin *)
Enter(call) ==
    /\ pc = "running"
    /\ call = started + 1 /\ call \in Calls
    /\ Cardinality(active) < MaxDepth
    /\ started' = call
    /\ active' = active \union {call}
    /\ dirty' = TRUE
    /\ UNCHANGED <<snapActive, snapHistory, history, position, previous, missed, crashes,
                   done, unwritten, reported, settled>>

BeginDurable(call) ==
    /\ Enter(call)
    /\ durable' = durable \union {call}
    /\ \/ /\ Written([op |-> "begin", call |-> call])
          /\ open' = IF torn THEN open ELSE open \union {call}
          /\ acknowledged' = acknowledged \union {call}
       \/ Cut /\ UNCHANGED <<open, acknowledged>>

BeginTransient(call) ==
    /\ Enter(call)
    /\ UNCHANGED <<journal, torn, pc, events, durable, open, acknowledged>>

(* finish.  The calls nest, so it is the youngest that returns. *)
Truncated(seq) ==
    IF Len(seq) > HistoryLimit
    THEN SubSeq(seq, Len(seq) - HistoryLimit + 1, Len(seq))
    ELSE seq

Leave(call) ==
    /\ pc = "running"
    /\ call \in active
    /\ \A other \in active : other <= call
    /\ active' = active \ {call}
    /\ history' = Truncated(Append(history, call))
    /\ dirty' = TRUE
    /\ open' = open \ {call}
    /\ acknowledged' = acknowledged \ {call}
    /\ done' = done \union {call}
    /\ UNCHANGED <<snapActive, snapHistory, position, previous, missed, durable, started,
                   crashes, reported, settled>>

FinishUnjournaled(call) ==   \* mutant: finish only saves now and then
    /\ call \in durable
    /\ Leave(call)
    /\ pc' \in {"running", "saving"}
    /\ UNCHANGED <<journal, torn, events, unwritten>>
FinishDurable(call) ==
    /\ call \in durable
    /\ Leave(call)
    /\ \/ /\ Written([op |-> "finish", call |-> call])
          /\ unwritten' = IF torn THEN unwritten \union {call} ELSE unwritten
       \/ Cut /\ unwritten' = unwritten \union {call}

(* _maybe_save saves when the last save is long enough ago. *)
FinishTransient(call) ==
    /\ call \notin durable
    /\ Leave(call)
    /\ pc' \in {"running", "saving"}
    /\ UNCHANGED <<journal, torn, events, unwritten>>

(* flush, by snapshot() and when the plugin is unloaded. *)
Flush ==
    /\ pc = "running" /\ dirty
    /\ pc' = "saving"
    /\ UNCHANGED <<disk, active, history, position, events, dirty, previous, missed,
                   durable, started, crashes, ghosts>>
-----------------------------------------------------------------------------
(* _save: the temporary file cannot be written, or it replaces the snapshot; *)
(* then the journal is removed, or cannot be (and the code does not mind).   *)
SaveFails ==
    /\ pc = "saving"
    /\ pc' = "running"
    /\ UNCHANGED <<disk, active, history, position, events, dirty, previous, missed,
                   durable, started, crashes, ghosts>>

PersistEverything(calls) == calls   \* mutant
PersistNothing(calls) == {}         \* mutant
Persisted(calls) == calls \intersect durable

Replace ==
    /\ pc = "saving"
    /\ pc' = "unlinking"
    /\ snapActive' = Persisted(active)
    /\ snapHistory' = history
    /\ UNCHANGED <<journal, torn, active, history, position, events, dirty, previous,
                   missed, durable, started, crashes, ghosts>>

Saved ==
    /\ pc = "unlinking"
    /\ pc' = "running"
    /\ dirty' = FALSE
    /\ events' = 0
    /\ UNCHANGED <<snapActive, snapHistory, active, history, position, previous, missed,
                   durable, started, crashes, open, acknowledged, done, unwritten, reported>>

Unlink ==
    /\ Saved
    /\ journal' = <<>> /\ torn' = FALSE
    /\ settled' = reported
UnlinkFails ==
    /\ Saved
    /\ UNCHANGED <<journal, torn, settled>>
-----------------------------------------------------------------------------
Crash ==
    /\ pc # "down" /\ crashes < MaxCrashes
    /\ crashes' = crashes + 1
    /\ pc' = "down"
    /\ active' = {} /\ history' = <<>> /\ position' = 1
    /\ events' = 0 /\ dirty' = FALSE /\ previous' = {} /\ missed' = {}
    /\ UNCHANGED <<disk, durable, started, ghosts>>

(* __init__ and _load: the snapshot, then the journal line by line, then the *)
(* calls still active are the previous session's interruption.  A snapshot   *)
(* that cannot be read or parsed counts as an empty one, and a journal that  *)
(* cannot be read as one without lines; neither file is touched.             *)
Start ==
    /\ pc = "down"
    /\ pc' = "loading"
    /\ missed' \in SUBSET Files
    /\ active' = IF "snapshot" \in missed' THEN {} ELSE snapActive
    /\ history' = IF "snapshot" \in missed' THEN <<>> ELSE snapHistory
    /\ position' = IF "journal" \in missed' THEN Len(journal) + 1 ELSE 1
    /\ UNCHANGED <<disk, events, dirty, previous, durable, started, crashes, ghosts>>

Known(call) == call \in active \/ call \in Range(history)

ReplayBegin(call) ==
    /\ active' = IF Known(call) THEN active ELSE active \union {call}
    /\ UNCHANGED history
ReplayFinishAgain(call) ==   \* mutant
    /\ active' = active \ {call}
    /\ history' = Append(history, call)
ReplayFinish(call) ==
    /\ active' = active \ {call}
    /\ history' = IF call \in Range(history) THEN history ELSE Append(history, call)

ReplayLine ==
    /\ pc = "loading" /\ position <= Len(journal)
    /\ LET line == journal[position]
       IN  \/ line.op = "begin" /\ ReplayBegin(line.call)
           \/ line.op = "finish" /\ ReplayFinish(line.call)
    /\ position' = position + 1
    /\ events' = events + 1
    /\ dirty' = TRUE
    /\ UNCHANGED <<disk, pc, previous, missed, durable, started, crashes, ghosts>>

Report ==
    /\ pc = "loading" /\ position > Len(journal)
    /\ previous' = active /\ missed' = {}
    /\ reported' = reported \union active
    /\ open' = {} /\ acknowledged' = {}
    /\ UNCHANGED <<disk, position, events, dirty, durable, started, crashes, done,
                   unwritten, settled>>

FindNothing ==
    /\ active = {}
    /\ Report
    /\ pc' = "running"
    /\ UNCHANGED <<active, history>>

FindInterruptionKeepingIt ==   \* mutant
    /\ active # {}
    /\ Report
    /\ pc' = "saving"
    /\ history' = Append(history, Interrupted)
    /\ UNCHANGED active
FindInterruption ==
    /\ active # {}
    /\ Report
    /\ pc' = "saving"
    /\ history' = Append(history, Interrupted)
    /\ active' = {}

Next ==
    \/ \E c \in Calls : BeginDurable(c)
    \/ \E c \in Calls : BeginTransient(c)
    \/ \E c \in Calls : FinishDurable(c)
    \/ \E c \in Calls : FinishTransient(c)
    \/ Flush
    \/ SaveFails
    \/ Replace
    \/ Unlink
    \/ UnlinkFails
    \/ Crash
    \/ Start
    \/ ReplayLine
    \/ FindNothing
    \/ FindInterruption

Spec == Init /\ [][Next]_vars
-----------------------------------------------------------------------------
TypeOK ==
    /\ snapActive \subseteq Calls \intersect durable
    /\ snapHistory \in Seq(Calls \union {Interrupted})
    /\ history \in Seq(Calls \union {Interrupted})
    /\ journal \in Seq(Line)
    /\ pc \in {"down", "loading", "running", "saving", "unlinking"}
    /\ torn \in BOOLEAN /\ dirty \in BOOLEAN
    /\ active \subseteq Calls /\ durable \subseteq Calls
    /\ started \in 0..MaxCalls /\ crashes \in 0..MaxCrashes
    /\ position \in Nat \ {0} /\ events \in Nat
    /\ open \subseteq Calls /\ missed \subseteq Files

Recovers == pc = "loading" /\ pc' \in {"running", "saving"}

(* A call whose begin line reached an undamaged journal and that had not   *)
(* finished when QGIS crashed is reported as interrupted by the next start *)
(* (store.py:30-44), wherever the crash falls, also between the two halves *)
(* of a save, and although saves, removals and later writes may fail.  A   *)
(* start that cannot read one of the files is the exception.               *)
InterruptionsReported == [][Recovers /\ missed = {} => open \subseteq previous']_vars

(* A finished call is reported as interrupted for two reasons only: the      *)
(* write of its finish line failed or was glued to a torn line, or this very *)
(* start could not read the journal (store.py:138-139).  A journal that      *)
(* outlives its compaction, a truncated history, a snapshot that cannot be   *)
(* read and an earlier start that missed either file bring no call back      *)
(* (store.py:151-167).                                                       *)
NoFalseInterruption ==
    [][Recovers /\ "journal" \notin missed => previous' \intersect done \subseteq unwritten]_vars

(* Once a save has completed, what was reported before it is not reported *)
(* by any later start, whichever files that start or an earlier one could *)
(* read.                                                                  *)
SettledNotReportedAgain == [][Recovers => previous' \intersect settled = {}]_vars

(* A call is in the history at most once, in memory and on disk, although *)
(* a journal that outlived its compaction is replayed over the snapshot.  *)
Once(seq) == \A i, j \in DOMAIN seq : seq[i] = seq[j] /\ seq[i] # Interrupted => i = j
HistoryOnce == Once(history) /\ Once(snapHistory)

(* README.md:96 calls the journal crash-resilient: a call whose begin was   *)
(* written and synced without an error is reported when QGIS dies under it, *)
(* by a start that can read both files.                                     *)
AcknowledgedReported == [][Recovers /\ missed = {} => acknowledged \subseteq previous']_vars
=============================================================================
