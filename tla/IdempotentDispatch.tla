------------------------- MODULE IdempotentDispatch -------------------------
(***************************************************************************)
(* Mutations with an idempotency key: Dispatcher.dispatch                  *)
(* (plugin/qgis_agent_mcp/dispatcher.py:368-466) and the MutationGuard     *)
(* that remembers their results (plugin/qgis_agent_mcp/reliability.py).    *)
(*                                                                         *)
(* dispatch looks the key up, runs the handler, and remembers the result.  *)
(* In between QGIS may crash, and a handler that pumps the event loop      *)
(* (visual.review) lets further requests be dispatched.  A retry is        *)
(* another request with the same key and call.                             *)
(*                                                                         *)
(* The guard's OrderedDict is a set of entries stamped with the clock of   *)
(* their last use; its left end is the least recently used.                *)
(***************************************************************************)
EXTENDS Integers, Sequences, FiniteSets

CONSTANTS
    Keys,           \* idempotency keys
    Calls,          \* what a fingerprint tells apart: method and parameters
    Pumping,        \* calls whose handler pumps the event loop
    Durable,        \* calls whose effect outlives QGIS (files, data sources)
    Large,          \* calls whose result exceeds max_result_bytes
    MaxEntries,     \* max_entries
    MaxStored,      \* entries that fit in max_storage_bytes
    MaxRequests,    \* bound: requests in one behaviour
    MaxFrames,      \* bound: handlers in progress at once
    MaxCrashes      \* bound: crashes in one behaviour

ASSUME DispatchAssumption ==
    /\ Pumping \subseteq Calls /\ Durable \subseteq Calls /\ Large \subseteq Calls
    /\ MaxEntries \in Nat \ {0} /\ MaxStored \in Nat \ {0}
    /\ MaxRequests \in Nat /\ MaxFrames \in Nat /\ MaxCrashes \in Nat

VARIABLES
    up,         \* QGIS is running
    entries,    \* the guard's _entries
    stored,     \* the entries in its file
    clock,      \* stamps given so far
    expired,    \* entries remembered up to this stamp are past ttl_seconds
    frames,     \* the handlers in progress, the innermost last
    requests,   \* the requests run or replayed so far, as [key, call]
    effects,    \* requests whose effect is in place
    replies,    \* the successful answers: to request n, the result of request by
    crashes,
    returned,   \* history: requests whose handler returned
    thisSession,\* history: of them, those of the running session
    doubtful    \* history: keys whose record may be missing although a handler
                \* of theirs took effect

vars == <<up, entries, stored, clock, expired, frames, requests, effects, replies,
          crashes, returned, thisSession, doubtful>>
guard == <<entries, stored, clock>>

Frame == [n : 1..MaxRequests, key : Keys, call : Calls]
Entry == [key : Keys, call : Calls, by : 1..MaxRequests, whole : BOOLEAN,
          born : Nat, used : Nat]
Reply == [n : 1..MaxRequests, by : 1..MaxRequests, whole : BOOLEAN]

Init ==
    /\ up = TRUE
    /\ entries = {} /\ stored = {} /\ clock = 0 /\ expired = 0
    /\ frames = <<>> /\ requests = <<>> /\ effects = {} /\ replies = {}
    /\ crashes = 0 /\ returned = {} /\ thisSession = {} /\ doubtful = {}

KeysOf(set) == {e.key : e \in set}
-----------------------------------------------------------------------------
(* The guard: prune, the limits, and _save, which writes copies. *)
Fresh(set) == {e \in set : e.born > expired}
Live == Fresh(entries)

NewestOffByOne(limit, set) ==   \* mutant
    {e \in set : Cardinality({f \in set : f.used > e.used}) <= limit}
Newest(limit, set) ==
    {e \in set : Cardinality({f \in set : f.used > e.used}) < limit}

Shrunk(e) == [e EXCEPT !.whole = e.whole /\ e.call \notin Large]

PersistOldest(set) ==   \* mutant: reversed() forgotten
    {Shrunk(e) : e \in {e \in set : Cardinality({f \in set : f.used < e.used}) < MaxStored}}
Persist(set) == {Shrunk(e) : e \in Newest(MaxStored, set)}
NotStored(set) == KeysOf(set \ Newest(MaxStored, set))

ShrunkInMemory(set) == {Shrunk(e) : e \in set}   \* mutant: shrinks what it saves
AfterSave(set) == set

(* prune saves only when it dropped something. *)
SavePruned(live) ==
    stored' = IF live = entries THEN stored ELSE Persist(live)

(* What may go unrecorded when `entries' is pruned, and then saved. *)
Pruned == KeysOf(entries \ Live) \union NotStored(Live)
-----------------------------------------------------------------------------
CanDispatch ==
    /\ up
    /\ frames # <<>> => frames[Len(frames)].call \in Pumping

Arrive(key, call) ==
    /\ CanDispatch
    /\ Len(requests) < MaxRequests
    /\ requests' = Append(requests, [key |-> key, call |-> call])

Answer(n, by, whole) ==
    replies' = replies \union {[n |-> n, by |-> by, whole |-> whole]}

MatchesKeyOnly(e, key, call) == e.key = key   \* mutant
Matches(e, key, call) == e.key = key /\ e.call = call

(* lookup begins with prune. *)
LookupPrunes ==
    /\ SavePruned(Live)
    /\ doubtful' = doubtful \union IF Live = entries THEN {} ELSE Pruned

(* Nothing catches the exception when it cannot save. *)
PruneRaises ==
    /\ CanDispatch
    /\ Live # entries
    /\ entries' = Live
    /\ doubtful' = doubtful \union KeysOf(entries \ Live)
    /\ UNCHANGED <<up, stored, clock, expired, frames, requests, effects, replies,
                   crashes, returned, thisSession>>

(* IdempotencyConflict, or a precondition or the handler refuses the call  *)
(* before it has done anything: the answer is an error, and all that has   *)
(* happened is the prune.                                                  *)
Refuse(key, call) ==
    /\ CanDispatch
    /\ \A e \in Live : ~Matches(e, key, call)
    /\ LookupPrunes
    /\ entries' = Live
    /\ UNCHANGED <<up, clock, expired, frames, requests, effects, replies, crashes,
                   returned, thisSession>>

Replay(key, call) ==
    /\ Arrive(key, call)
    /\ LookupPrunes
    /\ clock' = clock + 1
    /\ \E e \in Live :
         /\ Matches(e, key, call)
         /\ entries' = (Live \ {e}) \union {[e EXCEPT !.used = clock + 1]}
         /\ Answer(Len(requests'), e.by, e.whole)
    /\ UNCHANGED <<up, expired, frames, effects, crashes, returned, thisSession>>

Execute(key, call) ==
    /\ Arrive(key, call)
    /\ SavePruned(Live)
    /\ key \notin KeysOf(Live)
    /\ Len(frames) < MaxFrames
    /\ entries' = Live
    /\ frames' = Append(frames, [n |-> Len(requests'), key |-> key, call |-> call])
    /\ effects' = effects \union {Len(requests')}
    /\ doubtful' = doubtful
         \union (IF Live = entries THEN {} ELSE Pruned)
         \union ({key} \intersect {frames[i].key : i \in DOMAIN frames})
    /\ UNCHANGED <<up, clock, expired, replies, crashes, returned, thisSession>>

Dispatch(key, call) ==
    \/ Refuse(key, call)
    \/ Replay(key, call)
    \/ Execute(key, call)
-----------------------------------------------------------------------------
(* The innermost handler ends.  If it returns, remember prunes, adds the   *)
(* entry, drops the least recently used ones, and saves.                   *)
Top == frames[Len(frames)]
Leaves ==
    /\ frames # <<>>
    /\ frames' = SubSeq(frames, 1, Len(frames) - 1)
    /\ UNCHANGED <<up, expired, requests, effects, crashes>>

NewEntry == [key |-> Top.key, call |-> Top.call, by |-> Top.n, whole |-> TRUE,
             born |-> clock + 1, used |-> clock + 1]
Others == {e \in Live : e.key # Top.key}
Kept == Newest(MaxEntries, Others \union {NewEntry})
Evicted == KeysOf((Others \union {NewEntry}) \ Kept)

Return ==
    /\ Leaves
    /\ entries' = AfterSave(Kept)
    /\ stored' = Persist(Kept)
    /\ clock' = clock + 1
    /\ Answer(Top.n, Top.n, TRUE)
    /\ returned' = returned \union {Top.n}
    /\ thisSession' = thisSession \union {Top.n}
    /\ doubtful' = doubtful \union Pruned \union Evicted \union NotStored(Kept)

(* One of the two saves fails: before the entry is added, or after. *)
ReturnUnsaved ==
    /\ Leaves
    /\ \/ /\ Live # entries
          /\ entries' = Live
          /\ UNCHANGED <<stored, clock, returned, thisSession>>
       \/ /\ entries' = Kept
          /\ SavePruned(Live)
          /\ clock' = clock + 1
          /\ returned' = returned \union {Top.n}
          /\ thisSession' = thisSession \union {Top.n}
    /\ doubtful' = doubtful \union Pruned \union Evicted \union {Top.key}
    /\ UNCHANGED replies

(* The handler raises after it has done something. *)
Raise ==
    /\ Leaves
    /\ doubtful' = doubtful \union {Top.key}
    /\ UNCHANGED <<guard, replies, returned, thisSession>>
-----------------------------------------------------------------------------
Expire ==
    /\ expired < clock
    /\ expired' = expired + 1
    /\ UNCHANGED <<up, guard, frames, requests, effects, replies, crashes, returned,
                   thisSession, doubtful>>

(* What was only in the project is gone with QGIS. *)
Crash ==
    /\ up /\ crashes < MaxCrashes
    /\ up' = FALSE
    /\ crashes' = crashes + 1
    /\ entries' = {} /\ frames' = <<>> /\ thisSession' = {}
    /\ effects' = {n \in effects : requests[n].call \in Durable}
    /\ doubtful' = doubtful \union {frames[i].key : i \in DOMAIN frames}
    /\ UNCHANGED <<stored, clock, expired, requests, replies, returned>>

(* __init__: _load, and the prune that follows it.  A file that cannot be *)
(* read or parsed leaves the guard empty, and stays as it is until the    *)
(* next save overwrites it.                                               *)
Load ==
    LET live == Fresh(stored)
    IN  /\ entries' = live
        /\ stored' = IF live = stored THEN stored ELSE Persist(live)
        /\ doubtful' = doubtful \union KeysOf(stored \ live)
                         \union IF live = stored THEN {} ELSE NotStored(live)
LoadNothing ==
    /\ entries' = {}
    /\ UNCHANGED stored
    /\ doubtful' = doubtful \union KeysOf(stored)

Restart ==
    /\ ~up
    /\ up' = TRUE
    /\ Load \/ LoadNothing
    /\ UNCHANGED <<clock, expired, frames, requests, effects, replies, crashes, returned,
                   thisSession>>

Next ==
    \/ \E key \in Keys, call \in Calls : Dispatch(key, call)
    \/ PruneRaises
    \/ Return
    \/ ReturnUnsaved
    \/ Raise
    \/ Expire
    \/ Crash
    \/ Restart

Spec == Init /\ [][Next]_vars
-----------------------------------------------------------------------------
TypeOK ==
    /\ up \in BOOLEAN
    /\ entries \subseteq Entry /\ Cardinality(entries) <= MaxEntries
    /\ stored \subseteq Entry
    /\ clock \in Nat /\ expired \in Nat /\ crashes \in 0..MaxCrashes
    /\ frames \in Seq(Frame)
    /\ requests \in Seq([key : Keys, call : Calls]) /\ Len(requests) <= MaxRequests
    /\ effects \subseteq 1..Len(requests)
    /\ replies \subseteq Reply
    /\ doubtful \subseteq Keys

(* A successful answer, replayed or not, is the result of a request with    *)
(* the same key and the same call whose handler really returned, however    *)
(* many crashes, evictions and overlapping calls lie between the two        *)
(* (reliability.py:47-58).                                                  *)
ReplayFaithful ==
    \A r \in replies : r.by \in returned /\ requests[r.by] = requests[r.n]

(* The only ways to a second effect under one key: the first handler raised *)
(* or was cut short by a crash or ran at the same time, its record could    *)
(* not be saved, it expired or was displaced by the limits, or QGIS started *)
(* without being able to read the file it was in (reliability.py:98-99).    *)
SecondEffectOnlyInDoubt ==
    \A m, n \in effects :
        m # n /\ requests[m].key = requests[n].key => requests[n].key \in doubtful

(* In the session that ran a call its result is replayed whole: the size *)
(* limit of the file never reaches into memory (reliability.py:106-117). *)
WholeUntilRestart == \A e \in entries : e.by \in thisSession => e.whole

(* The tool catalog (tool_catalog.py:2265) offers the key "for safely       *)
(* retrying this mutation": whoever is told that a call succeeded finds its *)
(* effect in place, once.                                                   *)
SafelyRetried ==
    [][\A r \in replies' \ replies :
         Cardinality({m \in effects' : requests'[m].key = requests'[r.n].key}) = 1]_vars
=============================================================================
