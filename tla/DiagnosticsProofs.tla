------------------------- MODULE DiagnosticsProofs -------------------------
(***************************************************************************)
(* That no interruption is lost, that none is made up or reported again    *)
(* after a complete save, and that a call is in the history once, for      *)
(* every history limit, every compaction threshold and any number of calls *)
(* and crashes.                                                            *)
(***************************************************************************)
EXTENDS DiagnosticsJournal, TLAPS

(* The inductive invariant.  On disk, an open call is in the snapshot or   *)
(* has its begin line in the journal, and nothing there says it finished;  *)
(* in memory it is active whenever the process could save.  Between the    *)
(* two halves of a save the snapshot alone must do, since the journal may  *)
(* be gone after the next step.                                            *)
InJournal(op, call, from) ==
    \E i \in from..Len(journal) : journal[i] = [op |-> op, call |-> call]

OpenOnDisk == \A c \in open :
    /\ c \notin Range(snapHistory)
    /\ ~InJournal("finish", c, 1)
    /\ c \in snapActive \/ InJournal("begin", c, 1)

Serving == pc \in {"running", "saving", "unlinking"}
OpenInMemory == Serving =>
    \A c \in open : c \in active /\ c \in durable /\ c \notin Range(history)

OpenInSnapshot == pc = "unlinking" =>
    \A c \in open : c \in snapActive

OpenWhileLoading == pc = "loading" /\ missed = {} =>
    \A c \in open :
        /\ c \notin Range(history)
        /\ c \in active \/ InJournal("begin", c, position)

(* Nothing anywhere mentions a call that has not begun. *)
NothingFromTheFuture ==
    /\ \A c \in Range(snapHistory) \union Range(history) : c <= started
    /\ \A i \in 1..Len(journal) : journal[i].call <= started
    /\ \A c \in active \union snapActive \union open : c <= started

IInv ==
    /\ TypeOK
    /\ OpenOnDisk
    /\ OpenInMemory
    /\ OpenInSnapshot
    /\ OpenWhileLoading
    /\ NothingFromTheFuture
-----------------------------------------------------------------------------
Entries == Calls \union {Interrupted}

(* What the two operations on a history keep: its type, and no entry that *)
(* was not in it or is not the one appended.                              *)
LEMMA AppendedHistory ==
    ASSUME NEW seq \in Seq(Entries), NEW e \in Entries
    PROVE  /\ Append(seq, e) \in Seq(Entries)
           /\ Range(Append(seq, e)) \subseteq Range(seq) \union {e}
  <1>1. Append(seq, e) \in Seq(Entries)
    OBVIOUS
  <1>2. ASSUME NEW i \in DOMAIN Append(seq, e)
        PROVE  Append(seq, e)[i] \in Range(seq) \union {e}
    <2>1. i \in 1..Len(seq) + 1
      OBVIOUS
    <2>2. CASE i = Len(seq) + 1
      BY <2>2
    <2>3. CASE i \in 1..Len(seq)
      BY <2>3 DEF Range
    <2>4. QED
      BY <2>1, <2>2, <2>3
  <1>3. QED
    BY <1>1, <1>2 DEF Range

LEMMA TruncatedHistory ==
    ASSUME NEW seq \in Seq(Entries)
    PROVE  /\ Truncated(seq) \in Seq(Entries)
           /\ Range(Truncated(seq)) \subseteq Range(seq)
  <1>1. CASE ~(Len(seq) > HistoryLimit)
    BY <1>1 DEF Truncated
  <1>2. CASE Len(seq) > HistoryLimit
    <2> DEFINE first == Len(seq) - HistoryLimit + 1
               tail  == SubSeq(seq, first, Len(seq))
    <2>1. first \in 1..Len(seq) /\ Len(seq) \in Nat
      BY <1>2, JournalAssumption
    <2>2. tail = [i \in 1..(Len(seq) - first + 1) |-> seq[i + first - 1]]
      BY <2>1
    <2>3. \A i \in 1..(Len(seq) - first + 1) : i + first - 1 \in 1..Len(seq)
      BY <2>1
    <2>4. DOMAIN tail = 1..(Len(seq) - first + 1)
      BY <2>2
    <2>5. ASSUME NEW i \in DOMAIN tail PROVE tail[i] \in Range(seq)
      <3>1. tail[i] = seq[i + first - 1] /\ i + first - 1 \in DOMAIN seq
        BY <2>1, <2>2, <2>3, <2>4, <2>5
      <3>2. QED
        BY ONLY <3>1 DEF Range
    <2>6. tail \in Seq(Entries)
      BY <2>1
    <2>7. Truncated(seq) = tail
      BY <1>2 DEF Truncated
    <2>8. QED
      BY <2>5, <2>6, <2>7 DEF Range
  <1>3. QED
    BY <1>1, <1>2

LEMMA LeftHistory ==
    ASSUME NEW seq \in Seq(Entries), NEW c \in Calls
    PROVE  /\ Truncated(Append(seq, c)) \in Seq(Entries)
           /\ Range(Truncated(Append(seq, c))) \subseteq Range(seq) \union {c}
  <1>1. c \in Entries
    BY DEF Entries
  <1>2. /\ Append(seq, c) \in Seq(Entries)
        /\ Range(Append(seq, c)) \subseteq Range(seq) \union {c}
    BY <1>1, AppendedHistory
  <1>3. QED
    BY <1>2, TruncatedHistory
-----------------------------------------------------------------------------
(* Writing a line or failing to keeps the disk and the counters typed. *)
LEMMA WrittenTyped ==
    ASSUME TypeOK, NEW line \in Line, Written(line)
    PROVE  /\ journal' \in Seq(Line)
           /\ torn' \in BOOLEAN
           /\ events' \in Nat
           /\ pc' \in {"running", "saving"}
  <1>1. Append(journal, line) \in Seq(Line)
    BY DEF TypeOK
  <1>2. torn' \in BOOLEAN
    BY DEF Written
  <1>3. journal' \in Seq(Line)
    BY <1>1 DEF TypeOK, Written
  <1>4. events' \in Nat /\ pc' \in {"running", "saving"}
    BY DEF TypeOK, Written
  <1>5. QED
    BY <1>2, <1>3, <1>4

LEMMA CutTyped ==
    ASSUME TypeOK, Cut
    PROVE  /\ journal' \in Seq(Line)
           /\ torn' \in BOOLEAN
           /\ events' \in Nat
           /\ pc' = "running"
  BY DEF TypeOK, Cut

LEMMA TypeInductive == TypeOK /\ [Next]_vars => TypeOK'
  <1> SUFFICES ASSUME TypeOK, [Next]_vars PROVE TypeOK'
    OBVIOUS
  <1> USE DEF disk, ghosts
  <1>1. ASSUME NEW c \in Calls, BeginDurable(c) PROVE TypeOK'
    <2>1. [op |-> "begin", call |-> c] \in Line
      BY DEF Line
    <2>2. /\ journal' \in Seq(Line) /\ torn' \in BOOLEAN /\ events' \in Nat
          /\ pc' \in {"running", "saving"}
      BY <1>1, <2>1, WrittenTyped, CutTyped DEF BeginDurable
    <2>3. QED
      <3>1. open' \subseteq Calls
        BY <1>1 DEF BeginDurable, TypeOK
      <3>2. dirty' \in BOOLEAN
        BY <1>1 DEF BeginDurable, Enter
      <3>3. started' \in 0..MaxCalls
        BY <1>1, JournalAssumption DEF BeginDurable, Enter, Calls
      <3>4. QED
        BY <1>1, <2>2, <3>1, <3>2, <3>3 DEF BeginDurable, Enter, TypeOK
  <1>2. ASSUME NEW c \in Calls, BeginTransient(c) PROVE TypeOK'
    BY <1>2 DEF BeginTransient, Enter, TypeOK, Calls
  <1>3. ASSUME NEW c \in Calls, Leave(c)
        PROVE  /\ history' \in Seq(Entries)
               /\ active' \subseteq Calls /\ open' \subseteq Calls
    BY <1>3, LeftHistory DEF Leave, TypeOK, Entries
  <1>4. ASSUME NEW c \in Calls, FinishDurable(c) PROVE TypeOK'
    <2>1. [op |-> "finish", call |-> c] \in Line
      BY DEF Line
    <2>2. /\ journal' \in Seq(Line) /\ torn' \in BOOLEAN /\ events' \in Nat
          /\ pc' \in {"running", "saving"}
      BY <1>4, <2>1, WrittenTyped, CutTyped DEF FinishDurable
    <2>3. Leave(c)
      BY <1>4 DEF FinishDurable
    <2>4. QED
      BY <1>3, <2>2, <2>3 DEF Leave, TypeOK, Entries
  <1>5. ASSUME NEW c \in Calls, FinishTransient(c) PROVE TypeOK'
    <2>1. Leave(c)
      BY <1>5 DEF FinishTransient
    <2>2. QED
      BY <1>3, <1>5, <2>1 DEF FinishTransient, Leave, TypeOK, Entries
  <1>6. CASE Flush
    BY <1>6 DEF Flush, TypeOK
  <1>7. CASE SaveFails
    BY <1>7 DEF SaveFails, TypeOK
  <1>8. CASE Replace
    BY <1>8 DEF Replace, Persisted, TypeOK
  <1>9. CASE Unlink
    <2>1. /\ journal' = <<>> /\ torn' = FALSE /\ dirty' = FALSE
          /\ events' = 0 /\ pc' = "running"
      BY <1>9 DEF Unlink, Saved
    <2>2. journal' \in Seq(Line) /\ events' \in Nat
      BY <2>1
    <2>3. torn' \in BOOLEAN /\ dirty' \in BOOLEAN
      BY <2>1
    <2>4. QED
      BY <1>9, <2>1, <2>2, <2>3 DEF Unlink, Saved, TypeOK
  <1>10. CASE UnlinkFails
    BY <1>10 DEF UnlinkFails, Saved, TypeOK
  <1>11. CASE Crash
    <2>1. crashes' \in 0..MaxCrashes /\ events' \in Nat /\ position' \in Nat \ {0}
      BY <1>11, JournalAssumption DEF Crash, TypeOK
    <2>2. history' \in Seq(Entries) /\ active' \subseteq Calls
      BY <1>11 DEF Crash
    <2>3. dirty' \in BOOLEAN
      BY <1>11 DEF Crash
    <2>4. QED
      BY <1>11, <2>1, <2>2, <2>3 DEF Crash, TypeOK, Entries
  <1>12. CASE Start
    <2>1. active' \subseteq Calls /\ history' \in Seq(Entries)
      BY <1>12 DEF Start, TypeOK, Entries
    <2>2. position' \in Nat \ {0}
      BY <1>12 DEF Start, TypeOK
    <2>3. QED
      BY <1>12, <2>1, <2>2 DEF Start, TypeOK, Entries
  <1>13. CASE ReplayLine
    <2> DEFINE line == journal[position]
    <2>1. line \in Line /\ line.call \in Calls
      <3>1. position \in 1..Len(journal) /\ journal \in Seq(Line)
        BY <1>13 DEF ReplayLine, TypeOK
      <3>2. line \in Line
        BY <3>1
      <3>3. QED
        BY <3>2 DEF Line
    <2>2. active' \subseteq Calls
      BY <1>13, <2>1 DEF ReplayLine, ReplayBegin, ReplayFinish, TypeOK
    <2>3. Append(history, line.call) \in Seq(Entries)
      BY <2>1 DEF TypeOK, Entries
    <2>4. history' \in Seq(Entries)
      BY <1>13, <2>1, <2>3 DEF ReplayLine, ReplayBegin, ReplayFinish, TypeOK, Entries
    <2>5. QED
      BY <1>13, <2>2, <2>4 DEF ReplayLine, TypeOK, Entries
  <1>14. CASE FindNothing
    BY <1>14 DEF FindNothing, Report, TypeOK
  <1>15. CASE FindInterruption
    BY <1>15 DEF FindInterruption, Report, TypeOK
  <1>16. CASE UNCHANGED vars
    BY <1>16 DEF vars, TypeOK
  <1>17. QED
    BY <1>1, <1>2, <1>4, <1>5, <1>6, <1>7, <1>8, <1>9, <1>10, <1>11, <1>12, <1>13,
       <1>14, <1>15, <1>16 DEF Next
-----------------------------------------------------------------------------
(* What a written or a failed line does to what the journal says. *)
LEMMA WrittenKeepsLines ==
    ASSUME TypeOK, NEW line \in Line, Written(line)
    PROVE  /\ Len(journal) <= Len(journal')
           /\ \A i \in 1..Len(journal) : journal'[i] = journal[i]
           /\ \A i \in 1..Len(journal') :
                  i \in 1..Len(journal) \/ journal'[i] = line
           /\ ~torn => journal'[Len(journal')] = line /\ Len(journal') = Len(journal) + 1
  <1>1. journal \in Seq(Line)
    BY DEF TypeOK
  <1>2. CASE torn
    BY <1>1, <1>2 DEF Written
  <1>3. CASE ~torn
    <2>1. journal' = Append(journal, line)
      BY <1>3 DEF Written
    <2>2. QED
      BY <1>1, <1>3, <2>1
  <1>4. QED
    BY <1>2, <1>3

(* Call numbers and history entries are numbers. *)
LEMMA NumbersEverywhere ==
    ASSUME TypeOK
    PROVE  /\ started \in Nat
           /\ \A d \in Range(snapHistory) \union Range(history) : d \in Nat
           /\ \A i \in 1..Len(journal) : journal[i].call \in Nat
           /\ \A d \in active \union snapActive \union open : d \in Nat
  <1>1. Entries \subseteq Nat /\ Calls \subseteq Nat
    BY JournalAssumption DEF Entries, Calls, Interrupted
  <1>2. ASSUME NEW seq \in Seq(Entries) PROVE Range(seq) \subseteq Entries
    <2>1. \A i \in DOMAIN seq : seq[i] \in Entries
      OBVIOUS
    <2>2. QED
      BY <2>1 DEF Range
  <1>3. snapHistory \in Seq(Entries) /\ history \in Seq(Entries)
    BY DEF TypeOK, Entries
  <1>4. ASSUME NEW i \in 1..Len(journal) PROVE journal[i].call \in Calls
    <2>1. journal[i] \in Line
      BY DEF TypeOK
    <2>2. QED
      BY <2>1 DEF Line
  <1>5. started \in Nat /\ active \union snapActive \union open \subseteq Calls
    BY JournalAssumption DEF TypeOK
  <1>6. QED
    BY <1>1, <1>2, <1>3, <1>4, <1>5

LEMMA InitEstablishesIInv == Init => IInv
  <1> SUFFICES ASSUME Init PROVE IInv
    OBVIOUS
  <1>1. TypeOK
    <2>1. snapHistory \in Seq(Entries) /\ history \in Seq(Entries) /\ journal \in Seq(Line)
      BY DEF Init
    <2>2. torn \in BOOLEAN /\ dirty \in BOOLEAN
      BY DEF Init
    <2>3. started \in 0..MaxCalls /\ crashes \in 0..MaxCrashes
      BY JournalAssumption DEF Init
    <2>4. QED
      BY <2>1, <2>2, <2>3 DEF Init, TypeOK, Entries
  <1>2. Range(<<>>) = {} /\ Len(<<>>) = 0
    BY DEF Range
  <1>3. OpenOnDisk /\ OpenInMemory /\ OpenInSnapshot /\ OpenWhileLoading
    BY DEF Init, OpenOnDisk, OpenInMemory, OpenInSnapshot, OpenWhileLoading
  <1>4. NothingFromTheFuture
    BY <1>2 DEF Init, NothingFromTheFuture
  <1>5. QED
    BY <1>1, <1>3, <1>4 DEF IInv

(* begin: the new call is unlike any other, so nothing says it finished. *)
LEMMA BeginKeepsOpen ==
    ASSUME IInv, TypeOK', NEW c \in Calls, BeginDurable(c)
    PROVE  IInv'
  <1> DEFINE line == [op |-> "begin", call |-> c]
  <1>0. TypeOK /\ line \in Line /\ c = started + 1 /\ started \in Nat
    BY JournalAssumption DEF IInv, TypeOK, BeginDurable, Enter, Line
  <1>1. /\ UNCHANGED <<snapActive, snapHistory, history>>
        /\ active' = active \union {c} /\ durable' = durable \union {c}
        /\ started' = c /\ pc = "running" /\ pc' \in {"running", "saving"}
    BY <1>0, WrittenTyped, CutTyped DEF BeginDurable, Enter
  <1>2. CASE Cut /\ open' = open
    <2>1. journal' = journal
      BY <1>2 DEF Cut
    <2>2. OpenOnDisk'
      BY <1>1, <1>2, <2>1 DEF IInv, OpenOnDisk, InJournal
    <2>3. OpenInMemory' /\ OpenInSnapshot' /\ OpenWhileLoading'
      BY <1>1, <1>2 DEF IInv, OpenInMemory, OpenInSnapshot, OpenWhileLoading, Serving
    <2>4. NothingFromTheFuture'
      BY <1>0, <1>1, <1>2, <2>1, NumbersEverywhere DEF IInv, NothingFromTheFuture
    <2>5. QED
      BY <2>2, <2>3, <2>4 DEF IInv
  <1>3. CASE Written(line) /\ open' = IF torn THEN open ELSE open \union {c}
    <2> DEFINE J == 1..Len(journal)
               K == 1..Len(journal')
    <2>1. /\ Len(journal) <= Len(journal')
          /\ \A i \in J : journal'[i] = journal[i]
          /\ \A i \in K : i \in J \/ journal'[i] = line
          /\ ~torn => journal'[Len(journal')] = line /\ Len(journal') = Len(journal) + 1
      BY <1>0, <1>3, WrittenKeepsLines
    <2>2. Len(journal) \in Nat /\ Len(journal') \in Nat
      BY <1>0 DEF TypeOK
    <2>3. /\ \A d \in Range(snapHistory) \union Range(history) : d \in Nat /\ d <= started
          /\ \A i \in J : journal[i].call \in Nat /\ journal[i].call <= started
          /\ \A d \in active \union snapActive \union open : d \in Nat /\ d <= started
      BY <1>0, NumbersEverywhere DEF IInv, NothingFromTheFuture
    <2>4. c \notin Range(snapHistory) /\ c \notin Range(history)
      BY <1>0, <2>3
    <2>5. \A i \in K : journal'[i].op = "finish" => i \in J
      BY <2>1
    <2>6. \A d \in open' : ~InJournal("finish", d, 1)'
      <3> SUFFICES ASSUME NEW d \in open', NEW i \in K,
                          journal'[i] = [op |-> "finish", call |-> d]
                   PROVE  FALSE
        BY DEF InJournal
      <3>1. i \in J /\ journal[i] = [op |-> "finish", call |-> d]
        BY <2>1, <2>5
      <3>2. d <= started
        BY <2>3, <3>1
      <3>3. d \in open
        BY <1>0, <1>3, <3>2
      <3>4. QED
        BY <3>1, <3>3 DEF IInv, OpenOnDisk, InJournal
    <2>7. \A d \in open' : d \in snapActive' \/ InJournal("begin", d, 1)'
      <3> SUFFICES ASSUME NEW d \in open', d \notin snapActive
                   PROVE  \E i \in K : journal'[i] = [op |-> "begin", call |-> d]
        BY <1>1 DEF InJournal
      <3>1. CASE d \in open
        <4>1. PICK i \in J : journal[i] = [op |-> "begin", call |-> d]
          BY <3>1 DEF IInv, OpenOnDisk, InJournal
        <4>2. i \in K /\ journal'[i] = journal[i]
          BY <2>1, <2>2
        <4>3. QED
          BY <4>1, <4>2
      <3>2. CASE d = c /\ ~torn
        BY <2>1, <2>2, <3>2
      <3>3. QED
        BY <1>3, <3>1, <3>2
    <2>8. OpenOnDisk'
      BY <1>1, <1>3, <2>4, <2>6, <2>7 DEF IInv, OpenOnDisk
    <2>9. OpenInMemory' /\ OpenInSnapshot' /\ OpenWhileLoading'
      BY <1>1, <1>3, <2>4 DEF IInv, OpenInMemory, OpenInSnapshot, OpenWhileLoading, Serving
    <2>10. NothingFromTheFuture'
      <3>1. \A i \in K : journal'[i].call <= c
        BY <1>0, <2>1, <2>3
      <3>2. \A d \in active' \union snapActive' \union open' : d <= c
        BY <1>0, <1>1, <1>3, <2>3
      <3>3. QED
        BY <1>0, <1>1, <2>3, <3>1, <3>2 DEF NothingFromTheFuture
    <2>11. QED
      BY <2>8, <2>9, <2>10 DEF IInv
  <1>4. QED
    BY <1>2, <1>3 DEF BeginDurable

(* finish: the finished call is no longer open, and the line says so. *)
LEMMA FinishKeepsOpen ==
    ASSUME IInv, TypeOK', NEW c \in Calls,
           FinishDurable(c) \/ FinishTransient(c)
    PROVE  IInv'
  <1> DEFINE line == [op |-> "finish", call |-> c]
             J == 1..Len(journal)
             K == 1..Len(journal')
  <1>0. TypeOK /\ line \in Line
    BY DEF IInv, Line
  <1>1. /\ Leave(c)
        /\ pc' \in {"running", "saving"}
        /\ Written(line) \/ journal' = journal
    BY <1>0, WrittenTyped, CutTyped DEF FinishDurable, FinishTransient, Cut
  <1>2. /\ UNCHANGED <<snapActive, snapHistory, durable, started>>
        /\ active' = active \ {c} /\ open' = open \ {c} /\ pc = "running" /\ c \in active
        /\ history' = Truncated(Append(history, c))
    BY <1>1 DEF Leave
  <1>3. Range(history') \subseteq Range(history) \union {c}
    BY <1>0, <1>2, LeftHistory DEF TypeOK, Entries
  <1>4. /\ Len(journal) <= Len(journal')
        /\ \A i \in J : journal'[i] = journal[i]
        /\ \A i \in K : i \in J \/ journal'[i] = line
    BY <1>0, <1>1, WrittenKeepsLines DEF TypeOK
  <1>5. Len(journal) \in Nat /\ Len(journal') \in Nat
    BY <1>0 DEF TypeOK
  <1>6. ASSUME NEW d \in open'
        PROVE  ~InJournal("finish", d, 1)' /\ (d \in snapActive' \/ InJournal("begin", d, 1)')
    <2>0. d \in open /\ d # c
      BY <1>2
    <2>1. ASSUME NEW i \in K, journal'[i] = [op |-> "finish", call |-> d] PROVE FALSE
      <3>1. i \in J /\ journal[i] = [op |-> "finish", call |-> d]
        BY <1>4, <2>0, <2>1
      <3>2. QED
        BY <2>0, <3>1 DEF IInv, OpenOnDisk, InJournal
    <2>2. ASSUME d \notin snapActive
          PROVE  \E i \in K : journal'[i] = [op |-> "begin", call |-> d]
      <3>1. PICK i \in J : journal[i] = [op |-> "begin", call |-> d]
        BY <2>0, <2>2 DEF IInv, OpenOnDisk, InJournal
      <3>2. i \in K /\ journal'[i] = journal[i]
        BY <1>4, <1>5
      <3>3. QED
        BY <3>1, <3>2
    <2>3. QED
      BY <1>2, <2>1, <2>2 DEF InJournal
  <1>7. OpenOnDisk'
    BY <1>2, <1>6 DEF IInv, OpenOnDisk
  <1>8. OpenInMemory' /\ OpenInSnapshot' /\ OpenWhileLoading'
    BY <1>1, <1>2, <1>3 DEF IInv, OpenInMemory, OpenInSnapshot, OpenWhileLoading, Serving
  <1>9. NothingFromTheFuture'
    <2>1. c <= started
      BY <1>0, <1>2 DEF IInv, NothingFromTheFuture
    <2>2. QED
      BY <1>2, <1>3, <1>4, <2>1 DEF IInv, NothingFromTheFuture
  <1>10. QED
    BY <1>7, <1>8, <1>9 DEF IInv

(* A save: the snapshot carries every open call before the journal goes. *)
LEMMA SaveKeepsOpen ==
    ASSUME IInv, TypeOK', SaveFails \/ Replace \/ Unlink \/ UnlinkFails
    PROVE  IInv'
  <1> USE DEF disk, ghosts
  <1>1. /\ UNCHANGED <<active, history, durable, started, open>>
        /\ pc \in {"saving", "unlinking"} /\ pc' \in {"running", "unlinking"}
    BY DEF SaveFails, Replace, Unlink, UnlinkFails, Saved
  <1>2. OpenInMemory' /\ OpenWhileLoading'
    BY <1>1 DEF IInv, OpenInMemory, OpenWhileLoading, Serving
  <1>3. CASE SaveFails \/ UnlinkFails
    <2>1. UNCHANGED <<snapActive, snapHistory, journal>> /\ pc' = "running"
      BY <1>3 DEF SaveFails, UnlinkFails, Saved
    <2>2. OpenOnDisk' /\ OpenInSnapshot' /\ NothingFromTheFuture'
      BY <1>1, <2>1 DEF IInv, OpenOnDisk, OpenInSnapshot, NothingFromTheFuture, InJournal
    <2>3. QED
      BY <1>2, <2>2 DEF IInv
  <1>4. CASE Replace
    <2>1. /\ snapActive' = active \intersect durable /\ snapHistory' = history
          /\ journal' = journal /\ pc = "saving"
      BY <1>4 DEF Replace, Persisted
    <2>2. \A c \in open : c \in snapActive' /\ c \notin Range(snapHistory')
      BY <2>1 DEF IInv, OpenInMemory, Serving
    <2>3. OpenOnDisk' /\ OpenInSnapshot'
      BY <1>1, <2>1, <2>2 DEF IInv, OpenOnDisk, OpenInSnapshot, InJournal
    <2>4. NothingFromTheFuture'
      BY <1>1, <2>1 DEF IInv, NothingFromTheFuture
    <2>5. QED
      BY <1>2, <2>3, <2>4 DEF IInv
  <1>5. CASE Unlink
    <2>1. /\ UNCHANGED <<snapActive, snapHistory>> /\ journal' = <<>>
          /\ pc = "unlinking" /\ pc' = "running"
      BY <1>5 DEF Unlink, Saved
    <2>2. Len(journal') = 0 /\ 1..0 = {}
      BY <2>1
    <2>3. OpenOnDisk' /\ OpenInSnapshot'
      BY <1>1, <2>1, <2>2 DEF IInv, OpenOnDisk, OpenInSnapshot, InJournal
    <2>4. NothingFromTheFuture'
      BY <1>1, <2>1, <2>2 DEF IInv, NothingFromTheFuture
    <2>5. QED
      BY <1>2, <2>3, <2>4 DEF IInv
  <1>6. QED
    BY <1>3, <1>4, <1>5

(* Replaying one line: an open call that it begins becomes active. *)
LEMMA ReplayKeepsOpen ==
    ASSUME IInv, TypeOK', ReplayLine
    PROVE  IInv'
  <1> USE DEF disk, ghosts
  <1> DEFINE line == journal[position]
  <1>1. /\ TypeOK /\ pc = "loading" /\ pc' = "loading"
        /\ position \in 1..Len(journal) /\ position' = position + 1
        /\ UNCHANGED <<snapActive, snapHistory, journal, open, durable, started>>
    BY DEF IInv, ReplayLine, TypeOK
  <1>2. /\ journal \in Seq(Line) /\ Len(journal) \in Nat /\ line \in Line
        /\ history \in Seq(Entries)
    BY <1>1 DEF TypeOK, Entries
  <1>3. line.op \in {"begin", "finish"} /\ line.call \in Calls
        /\ line = [op |-> line.op, call |-> line.call]
    BY <1>2 DEF Line
  <1>4. \/ line.op = "begin" /\ ReplayBegin(line.call)
        \/ line.op = "finish" /\ ReplayFinish(line.call)
    BY DEF ReplayLine
  <1>5. /\ Range(history') \subseteq Range(history) \union {line.call}
        /\ active' \subseteq active \union {line.call}
        /\ active \subseteq active' \union {line.call}
    <2>1. line.call \in Entries
      BY <1>3 DEF Entries
    <2>2. Range(Append(history, line.call)) \subseteq Range(history) \union {line.call}
      BY <1>2, <2>1, AppendedHistory
    <2>3. QED
      BY <1>4, <2>2 DEF ReplayBegin, ReplayFinish
  <1>6. OpenOnDisk' /\ OpenInMemory' /\ OpenInSnapshot'
    BY <1>1 DEF IInv, OpenOnDisk, OpenInMemory, OpenInSnapshot, InJournal, Serving
  <1>7. NothingFromTheFuture'
    BY <1>1, <1>5 DEF IInv, NothingFromTheFuture
  <1>8. ASSUME NEW c \in open, missed = {}
        PROVE  /\ c \notin Range(history')
               /\ c \in active' \/ InJournal("begin", c, position)'
    <2>1. /\ c \notin Range(history)
          /\ c \in active \/ InJournal("begin", c, position)
          /\ ~InJournal("finish", c, 1)
      BY <1>1, <1>8 DEF IInv, OpenWhileLoading, OpenOnDisk
    <2>2. CASE line.call # c
      <3>1. c \notin Range(history')
        BY <1>5, <2>1, <2>2
      <3>2. CASE c \in active
        BY <1>5, <2>2, <3>1, <3>2
      <3>3. CASE InJournal("begin", c, position)
        <4>1. PICK i \in position..Len(journal) : journal[i] = [op |-> "begin", call |-> c]
          BY <3>3 DEF InJournal
        <4>2. journal[i].call = c
          BY <4>1
        <4>3. i # position
          BY <2>2, <4>2
        <4>4. i \in (position + 1)..Len(journal)
          BY <1>1, <1>2, <4>3
        <4>5. QED
          BY <1>1, <3>1, <4>1, <4>4 DEF InJournal
      <3>4. QED
        BY <2>1, <3>2, <3>3
    <2>3. CASE line.call = c
      <3>1. line.op # "finish"
        BY <1>1, <1>3, <2>1, <2>3 DEF InJournal
      <3>2. ReplayBegin(c)
        BY <1>4, <2>3, <3>1
      <3>3. QED
        BY <2>1, <3>2 DEF ReplayBegin, Known
    <2>4. QED
      BY <2>2, <2>3
  <1>9. OpenWhileLoading'
    <2>1. missed' = missed /\ open' = open
      BY DEF ReplayLine
    <2>2. QED
      BY <1>8, <2>1 DEF OpenWhileLoading
  <1>10. QED
    BY <1>6, <1>7, <1>9 DEF IInv

LEMMA NextKeepsIInv == IInv /\ [Next]_vars => IInv'
  <1> SUFFICES ASSUME IInv, [Next]_vars PROVE IInv'
    OBVIOUS
  <1> USE DEF disk, ghosts
  <1>0. TypeOK /\ TypeOK'
    BY TypeInductive DEF IInv
  <1>1. ASSUME NEW c \in Calls, BeginDurable(c) PROVE IInv'
    BY <1>0, <1>1, BeginKeepsOpen
  <1>2. ASSUME NEW c \in Calls, BeginTransient(c) PROVE IInv'
    <2>1. /\ UNCHANGED <<snapActive, snapHistory, journal, history, open, durable>>
          /\ active' = active \union {c} /\ started' = c /\ c = started + 1
          /\ pc = "running" /\ pc' = "running"
      BY <1>2 DEF BeginTransient, Enter
    <2>2. OpenOnDisk' /\ OpenInMemory' /\ OpenInSnapshot' /\ OpenWhileLoading'
      BY <2>1 DEF IInv, OpenOnDisk, OpenInMemory, OpenInSnapshot, OpenWhileLoading,
                  InJournal, Serving
    <2>3. NothingFromTheFuture'
      BY <1>0, <2>1, NumbersEverywhere DEF IInv, NothingFromTheFuture
    <2>4. QED
      BY <1>0, <2>2, <2>3 DEF IInv
  <1>3. ASSUME NEW c \in Calls, FinishDurable(c) \/ FinishTransient(c) PROVE IInv'
    BY <1>0, <1>3, FinishKeepsOpen
  <1>4. CASE Flush
    BY <1>0, <1>4 DEF Flush, IInv, OpenOnDisk, OpenInMemory, OpenInSnapshot,
                      OpenWhileLoading, NothingFromTheFuture, InJournal, Serving
  <1>5. CASE SaveFails \/ Replace \/ Unlink \/ UnlinkFails
    BY <1>0, <1>5, SaveKeepsOpen
  <1>6. CASE Crash
    <2>1. /\ UNCHANGED <<snapActive, snapHistory, journal, open, started>>
          /\ active' = {} /\ history' = <<>> /\ pc' = "down"
      BY <1>6 DEF Crash
    <2>2. Range(history') = {}
      BY <2>1 DEF Range
    <2>3. OpenOnDisk' /\ OpenInMemory' /\ OpenInSnapshot' /\ OpenWhileLoading'
      BY <2>1 DEF IInv, OpenOnDisk, OpenInMemory, OpenInSnapshot, OpenWhileLoading,
                  InJournal, Serving
    <2>4. NothingFromTheFuture'
      BY <2>1, <2>2 DEF IInv, NothingFromTheFuture
    <2>5. QED
      BY <1>0, <2>3, <2>4 DEF IInv
  <1>7. CASE Start
    <2>1. /\ UNCHANGED <<snapActive, snapHistory, journal, open, started>>
          /\ pc = "down" /\ pc' = "loading"
          /\ active' = snapActive \/ active' = {}
          /\ history' = snapHistory \/ history' = <<>>
          /\ missed' = {} => active' = snapActive /\ history' = snapHistory /\ position' = 1
      BY <1>7 DEF Start
    <2>2. Range(<<>>) = {}
      BY DEF Range
    <2>3. OpenOnDisk' /\ OpenInMemory' /\ OpenInSnapshot' /\ OpenWhileLoading'
      BY <2>1 DEF IInv, OpenOnDisk, OpenInMemory, OpenInSnapshot, OpenWhileLoading,
                        InJournal, Serving
    <2>4. NothingFromTheFuture'
      BY <2>1, <2>2 DEF IInv, NothingFromTheFuture
    <2>5. QED
      BY <1>0, <2>3, <2>4 DEF IInv
  <1>8. CASE ReplayLine
    BY <1>0, <1>8, ReplayKeepsOpen
  <1>9. CASE FindNothing \/ FindInterruption
    <2>1. /\ UNCHANGED <<snapActive, snapHistory, journal, started>>
          /\ active' = {} /\ open' = {} /\ pc' \in {"running", "saving"}
          /\ history' = history \/ history' = Append(history, Interrupted)
      BY <1>9 DEF FindNothing, FindInterruption, Report
    <2>2. OpenOnDisk' /\ OpenInMemory' /\ OpenInSnapshot' /\ OpenWhileLoading'
      BY <2>1 DEF OpenOnDisk, OpenInMemory, OpenInSnapshot, OpenWhileLoading
    <2>3. Range(history') \subseteq Range(history) \union {Interrupted}
      BY <1>0, <2>1, AppendedHistory DEF TypeOK, Entries
    <2>4. Interrupted <= started
      BY <1>0, NumbersEverywhere DEF Interrupted
    <2>5. NothingFromTheFuture'
      BY <2>1, <2>3, <2>4 DEF IInv, NothingFromTheFuture
    <2>6. QED
      BY <1>0, <2>2, <2>5 DEF IInv
  <1>10. CASE UNCHANGED vars
    BY <1>0, <1>10 DEF vars, IInv, OpenOnDisk, OpenInMemory, OpenInSnapshot,
                       OpenWhileLoading, NothingFromTheFuture, InJournal, Serving
  <1>11. QED
    BY <1>1, <1>2, <1>3, <1>4, <1>5, <1>6, <1>7, <1>8, <1>9, <1>10 DEF Next

(* The inductive invariant holds in every state: an unfinished durable call *)
(* is in the snapshot, in the journal or in memory (store.py:28-216).       *)
THEOREM IInvHolds == Spec => []IInv
  BY InitEstablishesIInv, NextKeepsIInv, PTL DEF Spec

(* The state stays well typed, and only durable calls are ever on disk, *)
(* whatever fails and wherever QGIS crashes.                            *)
THEOREM JournalTypeCorrect == Spec => []TypeOK
  <1>1. IInv => TypeOK
    BY DEF IInv
  <1>2. QED
    BY <1>1, IInvHolds, PTL

(* No interruption is lost: the start that follows a crash reports every *)
(* call that was open when QGIS died, if it can read the snapshot and    *)
(* the journal (store.py:30-44, 127-139).                                *)
THEOREM NoInterruptionLost == Spec => InterruptionsReported
  <1>1. IInv /\ [Next]_vars => [Recovers /\ missed = {} => open \subseteq previous']_vars
    <2> SUFFICES ASSUME IInv, Next, Recovers, missed = {} PROVE open \subseteq previous'
      BY DEF vars, Recovers
    <2> USE DEF disk, ghosts
    <2>1. FindNothing \/ FindInterruption
      BY DEF Next, Recovers, BeginDurable, BeginTransient, Enter, FinishDurable,
             FinishTransient, Leave, Flush, SaveFails, Replace, Unlink, UnlinkFails,
             Saved, Crash, Start, ReplayLine
    <2>2. previous' = active /\ position > Len(journal) /\ pc = "loading"
      BY <2>1 DEF FindNothing, FindInterruption, Report
    <2>3. Len(journal) \in Nat /\ position \in Nat
      BY DEF IInv, TypeOK
    <2>4. \A c \in open : ~InJournal("begin", c, position)
      BY <2>2, <2>3 DEF InJournal
    <2>5. QED
      BY <2>2, <2>4 DEF IInv, OpenWhileLoading
  <1>2. QED
    BY <1>1, IInvHolds, PTL DEF Spec, InterruptionsReported
-----------------------------------------------------------------------------
(* The second invariant is about the calls that are over, finished or      *)
(* reported.  On disk, what finished with a line of its own either has     *)
(* that line, after its begin line, or is not there at all; in memory it   *)
(* is never active again.                                                  *)
LinesAreDurable == \A i \in 1..Len(journal) : journal[i].call \in durable

FinishIsLast ==
    \A i, j \in 1..Len(journal) :
        journal[i].op = "finish" /\ journal[j].op = "begin" /\ journal[i].call = journal[j].call
            => j < i

PastHasBegun ==
    /\ \A c \in done \union reported : c \in Calls /\ c <= started
    /\ settled \subseteq reported

ActiveIsNew == Serving => active \intersect (done \union reported \union Range(history)) = {}

SnapshotIsNew == pc = "unlinking" => snapActive \intersect (done \union reported) = {}

FinishedOnDisk ==
    \A c \in done \ unwritten :
        InJournal("finish", c, 1) \/ (c \notin snapActive /\ ~InJournal("begin", c, 1))

FinishedWhileLoading == pc = "loading" /\ "journal" \notin missed =>
    \A c \in done \ unwritten :
        c \in active \/ InJournal("begin", c, position) => InJournal("finish", c, position)

SettledIsGone ==
    \A c \in settled :
        /\ c \notin snapActive /\ ~InJournal("begin", c, 1)
        /\ pc = "loading" => c \notin active

PastInv ==
    /\ LinesAreDurable
    /\ FinishIsLast
    /\ PastHasBegun
    /\ ActiveIsNew
    /\ SnapshotIsNew
    /\ FinishedOnDisk
    /\ FinishedWhileLoading
    /\ SettledIsGone

LEMMA InitEstablishesPastInv == Init => PastInv
  <1> SUFFICES ASSUME Init PROVE PastInv
    OBVIOUS
  <1>1. Len(journal) = 0 /\ 1..0 = {}
    BY DEF Init
  <1>2. QED
    BY <1>1 DEF Init, PastInv, LinesAreDurable, FinishIsLast, PastHasBegun, ActiveIsNew,
       SnapshotIsNew, FinishedOnDisk, FinishedWhileLoading, SettledIsGone, Serving

(* What the journal says after a line was to be written. *)
LEMMA LinesAfterwards ==
    ASSUME TypeOK, NEW line \in Line, Written(line) \/ Cut
    PROVE  /\ \A op, call : InJournal(op, call, 1) => InJournal(op, call, 1)'
           /\ \A op, call : InJournal(op, call, 1)' =>
                InJournal(op, call, 1) \/ line = [op |-> op, call |-> call]
           /\ Written(line) /\ ~torn => InJournal(line.op, line.call, 1)'
           /\ \A i \in 1..Len(journal') :
                \/ i \in 1..Len(journal) /\ journal'[i] = journal[i]
                \/ journal'[i] = line /\ i = Len(journal')
           /\ Len(journal) \in Nat /\ Len(journal') \in Nat
  <1>1. Len(journal) \in Nat /\ Len(journal') \in Nat
    BY WrittenTyped, CutTyped DEF TypeOK
  <1>2. CASE Cut /\ ~Written(line)
    <2>1. journal' = journal
      BY <1>2 DEF Cut
    <2>2. \A op, call : InJournal(op, call, 1)' <=> InJournal(op, call, 1)
      BY <2>1 DEF InJournal
    <2>3. QED
      BY <1>1, <1>2, <2>1, <2>2
  <1>3. CASE Written(line)
    <2>1. /\ Len(journal) <= Len(journal')
          /\ \A i \in 1..Len(journal) : journal'[i] = journal[i]
          /\ \A i \in 1..Len(journal') : i \in 1..Len(journal) \/ journal'[i] = line
          /\ ~torn => journal'[Len(journal')] = line /\ Len(journal') = Len(journal) + 1
          /\ torn => journal' = journal
      BY <1>3, WrittenKeepsLines DEF Written
    <2>2. ASSUME NEW op, NEW call, InJournal(op, call, 1) PROVE InJournal(op, call, 1)'
      <3>1. PICK i \in 1..Len(journal) : journal[i] = [op |-> op, call |-> call]
        BY <2>2 DEF InJournal
      <3>2. i \in 1..Len(journal') /\ journal'[i] = [op |-> op, call |-> call]
        BY <1>1, <2>1, <3>1
      <3>3. QED
        BY <3>2 DEF InJournal
    <2>3. ASSUME NEW op, NEW call, InJournal(op, call, 1)'
          PROVE  InJournal(op, call, 1) \/ line = [op |-> op, call |-> call]
      BY <2>1, <2>3 DEF InJournal
    <2>4. ASSUME ~torn PROVE InJournal(line.op, line.call, 1)'
      <3>1. line = [op |-> line.op, call |-> line.call]
        BY DEF Line
      <3>2. Len(journal') \in 1..Len(journal')
        BY <1>1, <2>1, <2>4
      <3>3. QED
        BY <2>1, <2>4, <3>1, <3>2 DEF InJournal
    <2>5. ASSUME NEW i \in 1..Len(journal')
          PROVE  \/ i \in 1..Len(journal) /\ journal'[i] = journal[i]
                 \/ journal'[i] = line /\ i = Len(journal')
      <3>1. CASE torn
        BY <2>1, <3>1
      <3>2. CASE ~torn
        <4>1. i \in 1..Len(journal) \/ i = Len(journal')
          BY <1>1, <2>1, <3>2
        <4>2. QED
          BY <2>1, <3>2, <4>1
      <3>3. QED
        BY <3>1, <3>2
    <2>6. QED
      BY <1>1, <2>2, <2>3, <2>4, <2>5
  <1>4. QED
    BY <1>2, <1>3

(* begin: the new call is unlike any that is over. *)
LEMMA BeginKeepsPast ==
    ASSUME IInv, PastInv, NEW c \in Calls, BeginDurable(c)
    PROVE  PastInv'
  <1> DEFINE line == [op |-> "begin", call |-> c]
  <1>0. TypeOK /\ line \in Line /\ c = started + 1 /\ started \in Nat
    BY JournalAssumption DEF IInv, TypeOK, BeginDurable, Enter, Line
  <1>1. /\ UNCHANGED <<snapActive, history, done, unwritten, reported, settled>>
        /\ active' = active \union {c} /\ durable' = durable \union {c}
        /\ started' = c /\ pc = "running" /\ pc' \in {"running", "saving"}
        /\ Written(line) \/ Cut
    BY <1>0, WrittenTyped, CutTyped DEF BeginDurable, Enter
  <1>2. /\ \A op, call : InJournal(op, call, 1) => InJournal(op, call, 1)'
        /\ \A op, call : InJournal(op, call, 1)' =>
             InJournal(op, call, 1) \/ line = [op |-> op, call |-> call]
        /\ \A i \in 1..Len(journal') :
             \/ i \in 1..Len(journal) /\ journal'[i] = journal[i]
             \/ journal'[i] = line /\ i = Len(journal')
        /\ Len(journal) \in Nat /\ Len(journal') \in Nat
    BY <1>0, <1>1, LinesAfterwards
  <1>3. /\ \A i \in 1..Len(journal) : journal[i].call # c
        /\ c \notin Range(history)
        /\ c \notin done /\ c \notin reported /\ c \notin settled
    <2>1. /\ \A i \in 1..Len(journal) : journal[i].call \in Nat /\ journal[i].call <= started
          /\ \A d \in Range(history) : d \in Nat /\ d <= started
      BY <1>0, NumbersEverywhere DEF IInv, NothingFromTheFuture
    <2>2. QED
      BY <1>0, <2>1 DEF PastInv, PastHasBegun
  <1>4. LinesAreDurable'
    BY <1>1, <1>2 DEF PastInv, LinesAreDurable
  <1>5. FinishIsLast'
    <2> SUFFICES ASSUME NEW i \in 1..Len(journal'), NEW j \in 1..Len(journal'),
                        journal'[i].op = "finish", journal'[j].op = "begin",
                        journal'[i].call = journal'[j].call
                 PROVE  j < i
      BY DEF FinishIsLast
    <2>1. i \in 1..Len(journal) /\ journal'[i] = journal[i]
      BY <1>2
    <2>2. j \in 1..Len(journal) /\ journal'[j] = journal[j]
      BY <1>2, <1>3, <2>1
    <2>3. QED
      BY <2>1, <2>2 DEF PastInv, FinishIsLast
  <1>6. PastHasBegun' /\ ActiveIsNew'
    BY <1>0, <1>1, <1>3, JournalAssumption
    DEF PastInv, PastHasBegun, ActiveIsNew, Serving, Calls
  <1>7. SnapshotIsNew' /\ FinishedWhileLoading'
    BY <1>1 DEF SnapshotIsNew, FinishedWhileLoading
  <1>8. FinishedOnDisk' /\ SettledIsGone'
    <2>1. \A d : d # c /\ InJournal("begin", d, 1)' => InJournal("begin", d, 1)
      BY <1>2
    <2>2. QED
      BY <1>1, <1>2, <1>3, <2>1 DEF PastInv, FinishedOnDisk, SettledIsGone
  <1>9. QED
    BY <1>4, <1>5, <1>6, <1>7, <1>8 DEF PastInv

(* finish: the line comes after all others, or the call is unwritten, or it  *)
(* never was on disk.                                                        *)
LEMMA FinishKeepsPast ==
    ASSUME IInv, PastInv, NEW c \in Calls, FinishDurable(c) \/ FinishTransient(c)
    PROVE  PastInv'
  <1> DEFINE line == [op |-> "finish", call |-> c]
  <1>0. TypeOK /\ line \in Line
    BY DEF IInv, Line
  <1>1. /\ UNCHANGED <<snapActive, durable, started, reported, settled>>
        /\ active' = active \ {c} /\ c \in active /\ done' = done \union {c}
        /\ history' = Truncated(Append(history, c))
        /\ pc = "running" /\ pc' \in {"running", "saving"}
    BY <1>0, WrittenTyped, CutTyped DEF FinishDurable, FinishTransient, Leave
  <1>2. Range(history') \subseteq Range(history) \union {c}
    BY <1>0, <1>1, LeftHistory DEF TypeOK, Entries
  <1>3. c <= started
    BY <1>1 DEF IInv, NothingFromTheFuture
  <1>4. /\ unwritten \subseteq unwritten'
        /\ \A op, call : InJournal(op, call, 1) => InJournal(op, call, 1)'
        /\ \A call : InJournal("begin", call, 1)' => InJournal("begin", call, 1)
        /\ Len(journal) \in Nat /\ Len(journal') \in Nat
        /\ \A i \in 1..Len(journal') :
             \/ i \in 1..Len(journal) /\ journal'[i] = journal[i]
             \/ journal'[i] = line /\ i = Len(journal') /\ c \in durable
        /\ c \in unwritten' \/ InJournal("finish", c, 1)'
           \/ (c \notin snapActive /\ ~InJournal("begin", c, 1)')
    <2>1. CASE FinishTransient(c)
      <3>1. c \notin durable /\ journal' = journal /\ unwritten' = unwritten
        BY <2>1 DEF FinishTransient
      <3>2. c \notin snapActive /\ ~InJournal("begin", c, 1)
        BY <1>0, <3>1 DEF TypeOK, PastInv, LinesAreDurable, InJournal
      <3>3. \A op, call : InJournal(op, call, 1)' <=> InJournal(op, call, 1)
        BY <3>1 DEF InJournal
      <3>4. Len(journal) \in Nat
        BY <1>0 DEF TypeOK
      <3>5. \A i \in 1..Len(journal') : i \in 1..Len(journal) /\ journal'[i] = journal[i]
        BY <3>1
      <3>6. QED
        BY <3>1, <3>2, <3>3, <3>4, <3>5
    <2>2. CASE FinishDurable(c)
      <3>1. /\ c \in durable
            /\ \/ Written(line) /\ unwritten' = IF torn THEN unwritten \union {c} ELSE unwritten
               \/ Cut /\ unwritten' = unwritten \union {c}
        BY <2>2 DEF FinishDurable
      <3>2. /\ \A op, call : InJournal(op, call, 1) => InJournal(op, call, 1)'
            /\ \A op, call : InJournal(op, call, 1)' =>
                 InJournal(op, call, 1) \/ line = [op |-> op, call |-> call]
            /\ Written(line) /\ ~torn => InJournal("finish", c, 1)'
            /\ \A i \in 1..Len(journal') :
                 \/ i \in 1..Len(journal) /\ journal'[i] = journal[i]
                 \/ journal'[i] = line /\ i = Len(journal')
            /\ Len(journal) \in Nat /\ Len(journal') \in Nat
        <4>1. line.op = "finish" /\ line.call = c
          OBVIOUS
        <4> HIDE DEF line
        <4>2. QED
          BY <1>0, <3>1, <4>1, LinesAfterwards
      <3>3. \A call : line # [op |-> "begin", call |-> call]
        OBVIOUS
      <3>4. QED
        BY <3>1, <3>2, <3>3
    <2>3. QED
      BY <2>1, <2>2
  <1>5. LinesAreDurable'
    BY <1>1, <1>4 DEF PastInv, LinesAreDurable
  <1>6. FinishIsLast'
    <2> SUFFICES ASSUME NEW i \in 1..Len(journal'), NEW j \in 1..Len(journal'),
                        journal'[i].op = "finish", journal'[j].op = "begin",
                        journal'[i].call = journal'[j].call
                 PROVE  j < i
      BY DEF FinishIsLast
    <2>1. j \in 1..Len(journal) /\ journal'[j] = journal[j]
      BY <1>4
    <2>2. CASE i \in 1..Len(journal) /\ journal'[i] = journal[i]
      BY <2>1, <2>2 DEF PastInv, FinishIsLast
    <2>3. CASE i = Len(journal') /\ journal'[i] = line
      <3>1. j # i
        BY <2>3
      <3>2. QED
        BY <1>4, <2>3, <3>1
    <2>4. QED
      BY <1>4, <2>2, <2>3
  <1>7. PastHasBegun' /\ ActiveIsNew'
    BY <1>1, <1>2, <1>3 DEF PastInv, PastHasBegun, ActiveIsNew, Serving
  <1>8. SnapshotIsNew' /\ FinishedWhileLoading'
    BY <1>1 DEF SnapshotIsNew, FinishedWhileLoading
  <1>9. FinishedOnDisk' /\ SettledIsGone'
    BY <1>1, <1>4 DEF PastInv, FinishedOnDisk, SettledIsGone
  <1>10. QED
    BY <1>5, <1>6, <1>7, <1>8, <1>9 DEF PastInv

(* A save: what is over is not active, so the snapshot is without it before *)
(* the journal goes.                                                        *)
LEMMA SaveKeepsPast ==
    ASSUME IInv, PastInv, SaveFails \/ Replace \/ Unlink \/ UnlinkFails
    PROVE  PastInv'
  <1> USE DEF disk, ghosts
  <1>1. /\ UNCHANGED <<active, history, durable, started, done, unwritten, reported>>
        /\ pc \in {"saving", "unlinking"} /\ pc' \in {"running", "unlinking"}
    BY DEF SaveFails, Replace, Unlink, UnlinkFails, Saved
  <1>2. ActiveIsNew' /\ FinishedWhileLoading'
    BY <1>1 DEF PastInv, ActiveIsNew, FinishedWhileLoading, Serving
  <1>3. CASE SaveFails \/ UnlinkFails
    <2>1. UNCHANGED <<snapActive, journal, settled>> /\ pc' = "running"
      BY <1>3 DEF SaveFails, UnlinkFails, Saved
    <2>2. LinesAreDurable' /\ FinishIsLast' /\ PastHasBegun'
      BY <1>1, <2>1 DEF PastInv, LinesAreDurable, FinishIsLast, PastHasBegun
    <2>3. SnapshotIsNew' /\ FinishedOnDisk' /\ SettledIsGone'
      BY <1>1, <2>1 DEF PastInv, SnapshotIsNew, FinishedOnDisk, SettledIsGone, InJournal
    <2>4. QED
      BY <1>2, <2>2, <2>3 DEF PastInv
  <1>4. CASE Replace
    <2>1. /\ snapActive' = active \intersect durable /\ UNCHANGED <<journal, settled>>
          /\ pc = "saving"
      BY <1>4 DEF Replace, Persisted
    <2>2. snapActive' \intersect (done \union reported) = {}
      BY <2>1 DEF PastInv, ActiveIsNew, Serving
    <2>3. LinesAreDurable' /\ FinishIsLast' /\ PastHasBegun'
      BY <1>1, <2>1 DEF PastInv, LinesAreDurable, FinishIsLast, PastHasBegun
    <2>4. SnapshotIsNew' /\ FinishedOnDisk' /\ SettledIsGone'
      BY <1>1, <2>1, <2>2
      DEF PastInv, SnapshotIsNew, FinishedOnDisk, SettledIsGone, PastHasBegun, InJournal
    <2>5. QED
      BY <1>2, <2>3, <2>4 DEF PastInv
  <1>5. CASE Unlink
    <2>1. /\ snapActive' = snapActive /\ journal' = <<>> /\ settled' = reported
          /\ pc = "unlinking" /\ pc' = "running"
      BY <1>5 DEF Unlink, Saved
    <2>2. Len(journal') = 0 /\ 1..0 = {}
      BY <2>1
    <2>3. snapActive \intersect (done \union reported) = {}
      BY <2>1 DEF PastInv, SnapshotIsNew
    <2>4. LinesAreDurable' /\ FinishIsLast' /\ PastHasBegun'
      BY <1>1, <2>1, <2>2 DEF PastInv, LinesAreDurable, FinishIsLast, PastHasBegun
    <2>5. SnapshotIsNew' /\ FinishedOnDisk' /\ SettledIsGone'
      BY <1>1, <2>1, <2>2, <2>3 DEF SnapshotIsNew, FinishedOnDisk, SettledIsGone, InJournal
    <2>6. QED
      BY <1>2, <2>4, <2>5 DEF PastInv
  <1>6. QED
    BY <1>3, <1>4, <1>5

(* Replaying one line: the finish line of a call comes last. *)
LEMMA ReplayKeepsPast ==
    ASSUME IInv, PastInv, ReplayLine
    PROVE  PastInv'
  <1> USE DEF disk, ghosts
  <1> DEFINE line == journal[position]
  <1>1. /\ TypeOK /\ pc = "loading" /\ pc' = "loading"
        /\ position \in 1..Len(journal) /\ position' = position + 1
        /\ UNCHANGED <<snapActive, journal, durable, started, done, unwritten, reported, settled>>
    BY DEF IInv, ReplayLine, TypeOK
  <1>2. Len(journal) \in Nat /\ line \in Line
    BY <1>1 DEF TypeOK
  <1>3. line.op \in {"begin", "finish"} /\ line = [op |-> line.op, call |-> line.call]
    BY <1>2 DEF Line
  <1>4. \/ line.op = "begin" /\ active' \subseteq active \union {line.call}
        \/ line.op = "finish" /\ active' = active \ {line.call}
    BY DEF ReplayLine, ReplayBegin, ReplayFinish
  <1>5. LinesAreDurable' /\ FinishIsLast' /\ PastHasBegun' /\ FinishedOnDisk'
    BY <1>1 DEF PastInv, LinesAreDurable, FinishIsLast, PastHasBegun, FinishedOnDisk, InJournal
  <1>6. ActiveIsNew' /\ SnapshotIsNew'
    BY <1>1 DEF ActiveIsNew, SnapshotIsNew, Serving
  <1>7. \A op, c : InJournal(op, c, position)' <=>
            \E i \in (position + 1)..Len(journal) : journal[i] = [op |-> op, call |-> c]
    BY <1>1 DEF InJournal
  <1>8. ASSUME NEW c \in done \ unwritten, "journal" \notin missed,
               c \in active' \/ InJournal("begin", c, position)'
        PROVE  InJournal("finish", c, position)'
    <2>1. c \in active \/ InJournal("begin", c, position)
      <3>1. CASE c \in active'
        <4>1. CASE c \in active
          BY <4>1
        <4>2. CASE line.op = "begin" /\ line.call = c
          <5>1. position \in position..Len(journal)
            BY <1>1
          <5>2. QED
            BY <1>3, <4>2, <5>1 DEF InJournal
        <4>3. QED
          BY <1>4, <3>1, <4>1, <4>2
      <3>2. CASE InJournal("begin", c, position)'
        <4>1. PICK i \in (position + 1)..Len(journal) : journal[i] = [op |-> "begin", call |-> c]
          BY <1>7, <3>2
        <4>2. i \in position..Len(journal)
          BY <1>1, <1>2
        <4>3. QED
          BY <4>1, <4>2 DEF InJournal
      <3>3. QED
        BY <1>8, <3>1, <3>2
    <2>2. PICK i \in position..Len(journal) : journal[i] = [op |-> "finish", call |-> c]
      BY <1>1, <1>8, <2>1 DEF PastInv, FinishedWhileLoading, InJournal
    <2>3. i # position
      <3> SUFFICES ASSUME line = [op |-> "finish", call |-> c] PROVE FALSE
        BY <2>2
      <3>1. c \notin active'
        BY <1>4
      <3>2. PICK j \in (position + 1)..Len(journal) : journal[j] = [op |-> "begin", call |-> c]
        BY <1>7, <1>8, <3>1
      <3>3. /\ j \in 1..Len(journal) /\ position \in 1..Len(journal) /\ position < j
        BY <1>1, <1>2
      <3>4. journal[position].op = "finish" /\ journal[j].op = "begin"
            /\ journal[position].call = journal[j].call
        BY <3>2
      <3>5. j < position
        BY <3>3, <3>4 DEF PastInv, FinishIsLast
      <3>6. QED
        BY <3>3, <3>5
    <2>4. i \in (position + 1)..Len(journal)
      BY <1>1, <1>2, <2>3
    <2>5. QED
      BY <1>7, <2>2, <2>4
  <1>9. FinishedWhileLoading'
    <2>1. missed' = missed
      BY DEF ReplayLine
    <2>2. QED
      BY <1>1, <1>8, <2>1 DEF FinishedWhileLoading
  <1>10. SettledIsGone'
    <2> SUFFICES ASSUME NEW c \in settled, c \in active' PROVE FALSE
      BY <1>1 DEF PastInv, SettledIsGone, InJournal
    <2>1. c \notin active /\ ~InJournal("begin", c, 1)
      BY <1>1 DEF PastInv, SettledIsGone
    <2>2. line.op = "begin" /\ line.call = c
      BY <1>4, <2>1
    <2>3. QED
      BY <1>1, <1>3, <2>1, <2>2 DEF InJournal
  <1>11. QED
    BY <1>5, <1>6, <1>9, <1>10 DEF PastInv

LEMMA NextKeepsPastInv == IInv /\ PastInv /\ [Next]_vars => PastInv'
  <1> SUFFICES ASSUME IInv, PastInv, [Next]_vars PROVE PastInv'
    OBVIOUS
  <1> USE DEF disk, ghosts
  <1>1. ASSUME NEW c \in Calls, BeginDurable(c) PROVE PastInv'
    BY <1>1, BeginKeepsPast
  <1>2. ASSUME NEW c \in Calls, BeginTransient(c) PROVE PastInv'
    <2>1. /\ UNCHANGED <<snapActive, journal, history, durable, done, unwritten, reported, settled>>
          /\ active' = active \union {c} /\ started' = c /\ c = started + 1
          /\ pc = "running" /\ pc' = "running"
      BY <1>2 DEF BeginTransient, Enter
    <2>2. c \notin Range(history) /\ c \notin done /\ c \notin reported /\ started \in Nat
      <3>1. \A d \in Range(history) : d \in Nat /\ d <= started
        BY NumbersEverywhere DEF IInv, NothingFromTheFuture
      <3>2. started \in Nat
        BY NumbersEverywhere DEF IInv
      <3>3. QED
        BY <2>1, <3>1, <3>2 DEF PastInv, PastHasBegun
    <2>3. LinesAreDurable' /\ FinishIsLast' /\ FinishedOnDisk' /\ SettledIsGone'
      BY <2>1 DEF PastInv, LinesAreDurable, FinishIsLast, FinishedOnDisk, SettledIsGone,
                  InJournal
    <2>4. PastHasBegun' /\ ActiveIsNew' /\ SnapshotIsNew' /\ FinishedWhileLoading'
      BY <2>1, <2>2, JournalAssumption DEF PastInv, PastHasBegun, ActiveIsNew, SnapshotIsNew,
         FinishedWhileLoading, Serving, Calls
    <2>5. QED
      BY <2>3, <2>4 DEF PastInv
  <1>3. ASSUME NEW c \in Calls, FinishDurable(c) \/ FinishTransient(c) PROVE PastInv'
    BY <1>3, FinishKeepsPast
  <1>4. CASE Flush
    BY <1>4 DEF Flush, PastInv, LinesAreDurable, FinishIsLast, PastHasBegun, ActiveIsNew,
       SnapshotIsNew, FinishedOnDisk, FinishedWhileLoading, SettledIsGone, InJournal, Serving
  <1>5. CASE SaveFails \/ Replace \/ Unlink \/ UnlinkFails
    BY <1>5, SaveKeepsPast
  <1>6. CASE Crash
    BY <1>6 DEF Crash, PastInv, LinesAreDurable, FinishIsLast, PastHasBegun, ActiveIsNew,
       SnapshotIsNew, FinishedOnDisk, FinishedWhileLoading, SettledIsGone, InJournal, Serving
  <1>7. CASE Start
    <2>1. /\ UNCHANGED <<snapActive, journal, durable, started, done, unwritten, reported, settled>>
          /\ active' = snapActive \/ active' = {}
          /\ "journal" \notin missed' => position' = 1
          /\ pc' = "loading"
      BY <1>7 DEF Start
    <2>2. LinesAreDurable' /\ FinishIsLast' /\ PastHasBegun' /\ FinishedOnDisk'
      BY <2>1 DEF PastInv, LinesAreDurable, FinishIsLast, PastHasBegun, FinishedOnDisk,
                  InJournal
    <2>3. ActiveIsNew' /\ SnapshotIsNew' /\ FinishedWhileLoading' /\ SettledIsGone'
      BY <2>1 DEF PastInv, ActiveIsNew, SnapshotIsNew, FinishedWhileLoading, FinishedOnDisk,
         SettledIsGone, InJournal, Serving
    <2>4. QED
      BY <2>2, <2>3 DEF PastInv
  <1>8. CASE ReplayLine
    BY <1>8, ReplayKeepsPast
  <1>9. CASE FindNothing \/ FindInterruption
    <2>1. /\ UNCHANGED <<snapActive, journal, durable, started, done, unwritten, settled>>
          /\ active' = {} /\ pc' \in {"running", "saving"} /\ reported' = reported \union active
      BY <1>9 DEF FindNothing, FindInterruption, Report
    <2>2. \A c \in active : c \in Calls /\ c <= started
      BY DEF IInv, TypeOK, NothingFromTheFuture
    <2>3. PastHasBegun'
      BY <2>1, <2>2 DEF PastInv, PastHasBegun
    <2>4. LinesAreDurable' /\ FinishIsLast' /\ FinishedOnDisk' /\ SettledIsGone'
      BY <2>1 DEF PastInv, LinesAreDurable, FinishIsLast, FinishedOnDisk, SettledIsGone,
                  InJournal
    <2>5. ActiveIsNew' /\ SnapshotIsNew' /\ FinishedWhileLoading'
      BY <2>1 DEF ActiveIsNew, SnapshotIsNew, FinishedWhileLoading
    <2>6. QED
      BY <2>3, <2>4, <2>5 DEF PastInv
  <1>10. CASE UNCHANGED vars
    BY <1>10 DEF vars, PastInv, LinesAreDurable, FinishIsLast, PastHasBegun, ActiveIsNew,
       SnapshotIsNew, FinishedOnDisk, FinishedWhileLoading, SettledIsGone, InJournal, Serving
  <1>11. QED
    BY <1>1, <1>2, <1>3, <1>4, <1>5, <1>6, <1>7, <1>8, <1>9, <1>10 DEF Next

(* The second inductive invariant holds in every state: what is over is not *)
(* active, and what of it is still on disk ends with its finish line        *)
(* (store.py:151-216).                                                      *)
THEOREM PastInvHolds == Spec => []PastInv
  BY InitEstablishesPastInv, NextKeepsPastInv, IInvHolds, PTL DEF Spec

(* A start that recovers has read the whole journal and reports what is active. *)
LEMMA RecoveryReports ==
    ASSUME IInv, Next, Recovers
    PROVE  previous' = active /\ pc = "loading" /\ position > Len(journal)
           /\ \A op, c : ~InJournal(op, c, position)
  <1> USE DEF disk, ghosts
  <1>1. FindNothing \/ FindInterruption
    BY DEF Next, Recovers, BeginDurable, BeginTransient, Enter, FinishDurable, FinishTransient,
       Leave, Flush, SaveFails, Replace, Unlink, UnlinkFails, Saved, Crash, Start, ReplayLine
  <1>2. previous' = active /\ position > Len(journal) /\ pc = "loading"
    BY <1>1 DEF FindNothing, FindInterruption, Report
  <1>3. Len(journal) \in Nat /\ position \in Nat
    BY DEF IInv, TypeOK
  <1>4. QED
    BY <1>2, <1>3 DEF InJournal

(* No interruption is made up: a call that finished is not reported unless *)
(* the write of its finish line failed or the journal that has it cannot   *)
(* be read, although a journal may outlive its compaction and a history    *)
(* may be truncated (store.py:135-139, 151-167).                           *)
THEOREM NoInterruptionMadeUp == Spec => NoFalseInterruption
  <1>1. IInv /\ PastInv /\ [Next]_vars
          => [Recovers /\ "journal" \notin missed
                => previous' \intersect done \subseteq unwritten]_vars
    <2> SUFFICES ASSUME IInv, PastInv, Next, Recovers, "journal" \notin missed
                 PROVE  previous' \intersect done \subseteq unwritten
      BY DEF vars, Recovers
    <2>1. QED
      BY RecoveryReports DEF PastInv, FinishedWhileLoading
  <1>2. QED
    BY <1>1, IInvHolds, PastInvHolds, PTL DEF Spec, NoFalseInterruption

(* What was reported before a complete save is not reported again by any *)
(* later start (store.py:172-216).                                       *)
THEOREM NotReportedTwice == Spec => SettledNotReportedAgain
  <1>1. IInv /\ PastInv /\ [Next]_vars => [Recovers => previous' \intersect settled = {}]_vars
    <2> SUFFICES ASSUME IInv, PastInv, Next, Recovers
                 PROVE  previous' \intersect settled = {}
      BY DEF vars, Recovers
    <2>1. QED
      BY RecoveryReports DEF PastInv, SettledIsGone
  <1>2. QED
    BY <1>1, IInvHolds, PastInvHolds, PTL DEF Spec, SettledNotReportedAgain
-----------------------------------------------------------------------------
(* A history with an entry more, or with its oldest entries dropped, has   *)
(* each call once if the new entry is new.                                 *)
LEMMA AppendedOnce ==
    ASSUME NEW seq \in Seq(Entries), Once(seq), NEW e \in Entries,
           e \notin Range(seq) \/ e = Interrupted
    PROVE  Once(Append(seq, e))
  <1>1. PICK n \in Nat : n = Len(seq)
    OBVIOUS
  <1>a. Append(seq, e) \in Seq(Entries)
    OBVIOUS
  <1>2. PICK longer \in Seq(Entries) : longer = Append(seq, e)
    BY <1>a
  <1>3. /\ DOMAIN longer = 1..(n + 1) /\ longer[n + 1] = e
        /\ \A i \in 1..n : longer[i] = seq[i]
    BY <1>1, <1>2
  <1>4. \A i \in 1..n : e = Interrupted \/ seq[i] # e
    BY <1>1 DEF Range
  <1>5. \A i, j \in 1..n : seq[i] = seq[j] /\ seq[i] # Interrupted => i = j
    BY <1>1 DEF Once
  <1> SUFFICES ASSUME NEW i \in 1..(n + 1), NEW j \in 1..(n + 1),
                      longer[i] = longer[j], longer[i] # Interrupted
               PROVE  i = j
    BY <1>2, <1>3 DEF Once
  <1>6. (i \in 1..n \/ i = n + 1) /\ (j \in 1..n \/ j = n + 1)
    BY <1>1
  <1>7. QED
    BY <1>3, <1>4, <1>5, <1>6

LEMMA TruncatedOnce ==
    ASSUME NEW seq \in Seq(Entries), Once(seq)
    PROVE  Once(Truncated(seq))
  <1>1. CASE ~(Len(seq) > HistoryLimit)
    BY <1>1 DEF Truncated
  <1>2. CASE Len(seq) > HistoryLimit
    <2>1. PICK n \in Nat : n = Len(seq)
      OBVIOUS
    <2>a. n - HistoryLimit \in Nat /\ n - HistoryLimit < n
      BY <1>2, <2>1, JournalAssumption
    <2>2. PICK k \in Nat : k = n - HistoryLimit /\ k < n
      BY <2>a
    <2>3. PICK tail \in Seq(Entries) :
            /\ tail = Truncated(seq) /\ DOMAIN tail = 1..(n - k)
            /\ \A i \in 1..(n - k) : tail[i] = seq[i + k]
      <3>1. Truncated(seq) = SubSeq(seq, k + 1, n)
        BY <1>2, <2>1, <2>2 DEF Truncated
      <3>2. SubSeq(seq, k + 1, n) = [i \in 1..(n - k) |-> seq[i + k]]
        BY <2>1, <2>2
      <3>3. QED
        BY <3>1, <3>2, TruncatedHistory
    <2>4. \A i, j \in 1..n : seq[i] = seq[j] /\ seq[i] # Interrupted => i = j
      BY <2>1 DEF Once
    <2> SUFFICES ASSUME NEW i \in 1..(n - k), NEW j \in 1..(n - k),
                        tail[i] = tail[j], tail[i] # Interrupted
                 PROVE  i = j
      BY <2>3 DEF Once
    <2>5. i + k \in 1..n /\ j + k \in 1..n
      BY <2>2
    <2>6. i + k = j + k
      BY <2>3, <2>4, <2>5
    <2>7. QED
      BY <2>2, <2>6
  <1>3. QED
    BY <1>1, <1>2

LEMMA NextKeepsHistoryOnce ==
    ASSUME IInv, PastInv, HistoryOnce, [Next]_vars
    PROVE  HistoryOnce'
  <1> USE DEF disk, ghosts
  <1>1. /\ history \in Seq(Entries) /\ snapHistory \in Seq(Entries)
        /\ Once(history) /\ Once(snapHistory)
    BY DEF IInv, TypeOK, Entries, HistoryOnce
  <1>2. ASSUME NEW c \in Calls, Leave(c) PROVE HistoryOnce'
    <2>1. /\ history' = Truncated(Append(history, c)) /\ snapHistory' = snapHistory
          /\ pc = "running" /\ c \in active
      BY <1>2 DEF Leave
    <2>2. c \notin Range(history) /\ c \in Entries
      BY <2>1 DEF PastInv, ActiveIsNew, Serving, Entries
    <2>3. Once(Append(history, c)) /\ Append(history, c) \in Seq(Entries)
      BY <1>1, <2>2, AppendedOnce
    <2>4. Once(history')
      BY <2>1, <2>3, TruncatedOnce
    <2>5. QED
      BY <1>1, <2>1, <2>4 DEF HistoryOnce
  <1>3. CASE ReplayLine
    <2> DEFINE line == journal[position]
    <2>1. line \in Line /\ snapHistory' = snapHistory
      BY <1>3 DEF ReplayLine, IInv, TypeOK
    <2>2. line.call \in Entries
      BY <2>1 DEF Line, Entries
    <2>3. \/ history' = history
          \/ line.call \notin Range(history) /\ history' = Append(history, line.call)
      BY <1>3 DEF ReplayLine, ReplayBegin, ReplayFinish
    <2>4. Once(history')
      BY <1>1, <2>2, <2>3, AppendedOnce
    <2>5. QED
      BY <1>1, <2>1, <2>4 DEF HistoryOnce
  <1>4. CASE FindInterruption
    <2>1. Interrupted \in Entries
      BY DEF Entries
    <2>2. history' = Append(history, Interrupted) /\ snapHistory' = snapHistory
      BY <1>4 DEF FindInterruption, Report
    <2>3. Once(history')
      BY <1>1, <2>1, <2>2, AppendedOnce
    <2>4. QED
      BY <1>1, <2>2, <2>3 DEF HistoryOnce
  <1>5. CASE Crash
    <2>1. history' = <<>> /\ snapHistory' = snapHistory
      BY <1>5 DEF Crash
    <2>2. QED
      BY <1>1, <2>1 DEF HistoryOnce, Once
  <1>6. CASE /\ history' = history \/ history' = snapHistory \/ history' = <<>>
             /\ snapHistory' = snapHistory \/ snapHistory' = history
    BY <1>1, <1>6 DEF HistoryOnce, Once
  <1>7. ASSUME NEW c \in Calls, BeginDurable(c) \/ BeginTransient(c) PROVE HistoryOnce'
    BY <1>6, <1>7 DEF BeginDurable, BeginTransient, Enter
  <1>8. ASSUME NEW c \in Calls, FinishDurable(c) \/ FinishTransient(c) PROVE HistoryOnce'
    BY <1>2, <1>8 DEF FinishDurable, FinishTransient
  <1>9. CASE Flush \/ SaveFails \/ Replace \/ Unlink \/ UnlinkFails \/ Start \/ FindNothing
             \/ UNCHANGED vars
    BY <1>6, <1>9 DEF Flush, SaveFails, Replace, Unlink, UnlinkFails, Saved, Start, FindNothing,
       Report, vars
  <1>10. QED
    BY <1>3, <1>4, <1>5, <1>7, <1>8, <1>9 DEF Next

(* A call is in the history at most once, in memory and on disk, although a *)
(* journal that outlived its compaction is replayed over the snapshot       *)
(* (store.py:151-167).                                                      *)
THEOREM HistoryOnceHolds == Spec => []HistoryOnce
  <1>1. Init => HistoryOnce
    BY DEF Init, HistoryOnce, Once
  <1>2. QED
    BY <1>1, NextKeepsHistoryOnce, IInvHolds, PastInvHolds, PTL DEF Spec
=============================================================================
