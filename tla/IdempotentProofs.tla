-------------------------- MODULE IdempotentProofs --------------------------
(***************************************************************************)
(* What a replayed answer is worth, and when a key can act twice, for      *)
(* every set of keys and calls, every limit of the guard, and any number   *)
(* of requests, overlapping handlers and crashes.                          *)
(***************************************************************************)
EXTENDS IdempotentDispatch, FiniteSetTheorems, TLAPS

Typed ==
    /\ up \in BOOLEAN
    /\ entries \subseteq Entry /\ stored \subseteq Entry
    /\ clock \in Nat /\ expired \in Nat
    /\ frames \in Seq(Frame)
    /\ requests \in Seq([key : Keys, call : Calls]) /\ Len(requests) <= MaxRequests
    /\ effects \subseteq 1..Len(requests)
    /\ returned \subseteq 1..Len(requests)
    /\ thisSession \subseteq returned
    /\ replies \subseteq Reply

(* An entry belongs to a request whose handler returned, a frame to one *)
(* whose handler has not, and an answer to two requests for the same.   *)
EntriesLinked == \A e \in entries \union stored :
    e.by \in returned /\ requests[e.by] = [key |-> e.key, call |-> e.call]

FramesLinked == \A i \in 1..Len(frames) :
    /\ frames[i].n \in 1..Len(requests) /\ frames[i].n \notin returned
    /\ requests[frames[i].n] = [key |-> frames[i].key, call |-> frames[i].call]
    /\ \A j \in 1..Len(frames) : frames[j].n = frames[i].n => j = i

RepliesLinked == \A r \in replies :
    r.n \in 1..Len(requests) /\ r.by \in returned /\ requests[r.by] = requests[r.n]

DownIsEmpty == ~up => frames = <<>> /\ entries = {} /\ thisSession = {}

(* A request with an effect is still running, or its key is recorded in *)
(* memory and on disk, or it is in doubt.                               *)
Running(n) == \E i \in 1..Len(frames) : frames[i].n = n
Recorded(key) == key \in KeysOf(stored) /\ (up => key \in KeysOf(entries))
Accounted == \A n \in effects :
    requests[n].key \in doubtful \/ Running(n) \/ Recorded(requests[n].key)

IInv ==
    /\ Typed
    /\ EntriesLinked
    /\ FramesLinked
    /\ RepliesLinked
    /\ DownIsEmpty
    /\ WholeUntilRestart
    /\ Accounted
    /\ SecondEffectOnlyInDoubt
-----------------------------------------------------------------------------
(* Saving makes copies of entries that exist, and misses no key without *)
(* putting it in doubt.                                                  *)
CopyOf(p, e) == p.by = e.by /\ p.key = e.key /\ p.call = e.call

LEMMA PersistedEntries ==
    ASSUME NEW set \in SUBSET Entry
    PROVE  /\ Persist(set) \subseteq Entry
           /\ \A p \in Persist(set) : \E e \in set : CopyOf(p, e)
           /\ KeysOf(set) \subseteq KeysOf(Persist(set)) \union NotStored(set)
  <1>1. Newest(MaxStored, set) \subseteq set
    BY DEF Newest
  <1>2. ASSUME NEW e \in Entry
        PROVE  Shrunk(e) \in Entry /\ CopyOf(Shrunk(e), e)
    BY DEF Shrunk, Entry, CopyOf
  <1>3. \A p \in Persist(set) : \E e \in Newest(MaxStored, set) : p = Shrunk(e)
    BY DEF Persist
  <1>4. Persist(set) \subseteq Entry
        /\ \A p \in Persist(set) : \E e \in set : CopyOf(p, e)
    BY <1>1, <1>2, <1>3
  <1>5. ASSUME NEW e \in set, e \in Newest(MaxStored, set)
        PROVE  e.key \in KeysOf(Persist(set))
    <2>1. Shrunk(e) \in Persist(set)
      BY <1>5 DEF Persist
    <2>2. Shrunk(e).key = e.key
      BY <1>2 DEF CopyOf
    <2>3. QED
      BY <2>1, <2>2 DEF KeysOf
  <1>6. KeysOf(set) \subseteq KeysOf(Persist(set)) \union NotStored(set)
    BY <1>5 DEF KeysOf, NotStored
  <1>7. QED
    BY <1>4, <1>6

LEMMA PrunedEntries ==
    ASSUME Typed, SavePruned(Live)
    PROVE  /\ Live \subseteq Entry /\ stored' \subseteq Entry
           /\ \A p \in stored' : \E e \in entries \union stored : CopyOf(p, e)
           /\ \A key \in KeysOf(entries) \intersect KeysOf(stored) :
                \/ key \in KeysOf(Live) /\ key \in KeysOf(stored')
                \/ key \in IF Live = entries THEN {} ELSE Pruned
  <1>1. Live \subseteq entries /\ Live \subseteq Entry
    BY DEF Live, Fresh, Typed
  <1>2. CASE Live = entries
    <2>1. stored' = stored /\ stored \subseteq Entry
      BY <1>2 DEF SavePruned, Typed
    <2>2. QED
      BY <1>1, <1>2, <2>1 DEF CopyOf
  <1>3. CASE Live # entries
    <2>1. stored' = Persist(Live)
      BY <1>3 DEF SavePruned
    <2>2. /\ Persist(Live) \subseteq Entry
          /\ \A p \in Persist(Live) : \E e \in Live : CopyOf(p, e)
          /\ KeysOf(Live) \subseteq KeysOf(Persist(Live)) \union NotStored(Live)
      BY <1>1, PersistedEntries
    <2>3. KeysOf(entries) \subseteq KeysOf(Live) \union KeysOf(entries \ Live)
      BY DEF KeysOf
    <2>4. QED
      BY <1>1, <1>3, <2>1, <2>2, <2>3 DEF Pruned
  <1>4. QED
    BY <1>2, <1>3

(* What remember keeps: entries that exist and the new one; every key it *)
(* drops is in doubt.                                                    *)
LEMMA KeptEntries ==
    ASSUME Typed, frames # <<>>
    PROVE  /\ Top \in Frame /\ NewEntry \in Entry
           /\ NewEntry.by = Top.n /\ NewEntry.key = Top.key /\ NewEntry.call = Top.call
           /\ NewEntry.whole
           /\ Kept \subseteq Live \union {NewEntry} /\ Kept \subseteq Entry
           /\ KeysOf(entries) \union {Top.key}
                \subseteq KeysOf(Kept) \union Pruned \union Evicted
  <1>1. Top \in Frame
    BY DEF Top, Typed
  <1>2. /\ NewEntry \in Entry /\ NewEntry.by = Top.n
        /\ NewEntry.key = Top.key /\ NewEntry.call = Top.call
    BY <1>1 DEF NewEntry, Entry, Frame, Typed
  <1>3. NewEntry.whole
    BY DEF NewEntry
  <1>4. Live \subseteq entries /\ Live \subseteq Entry
    BY DEF Live, Fresh, Typed
  <1>5. Kept \subseteq Others \union {NewEntry} /\ Others \subseteq Live
    BY DEF Kept, Newest, Others
  <1>6. KeysOf(Others \union {NewEntry}) \subseteq KeysOf(Kept) \union Evicted
    BY DEF Evicted, KeysOf
  <1>7. KeysOf(entries) \subseteq KeysOf(Live) \union Pruned
    BY DEF KeysOf, Pruned
  <1>8. KeysOf(Live) \union {Top.key} \subseteq KeysOf(Others \union {NewEntry})
    BY <1>2 DEF KeysOf, Others
  <1>9. QED
    BY <1>1, <1>2, <1>3, <1>4, <1>5, <1>6, <1>7, <1>8

LEMMA PoppedFrames ==
    ASSUME Typed, Leaves
    PROVE  /\ Len(frames) \in Nat \ {0} /\ Len(frames') = Len(frames) - 1
           /\ frames' \in Seq(Frame)
           /\ \A i \in 1..Len(frames') : frames'[i] = frames[i]
           /\ Top = frames[Len(frames)]
  <1>1. Len(frames) \in Nat /\ Len(frames) # 0 /\ frames \in Seq(Frame)
    BY DEF Typed, Leaves
  <1> DEFINE len == Len(frames)
  <1>2. frames' = SubSeq(frames, 1, len - 1)
    BY DEF Leaves
  <1>3. frames' = [i \in 1..(len - 1) |-> frames[i]]
    BY <1>1, <1>2
  <1>4. \A i \in 1..(len - 1) : frames[i] \in Frame
    BY <1>1
  <1>5. frames' \in Seq(Frame) /\ Len(frames') = len - 1
    BY <1>1, <1>3, <1>4
  <1>6. QED
    BY <1>1, <1>3, <1>5 DEF Top

-----------------------------------------------------------------------------
LEMMA InitEstablishes == Init => IInv
  <1> SUFFICES ASSUME Init PROVE IInv
    OBVIOUS
  <1>1. Typed
    <2>1. frames \in Seq(Frame) /\ requests \in Seq([key : Keys, call : Calls])
      BY DEF Init
    <2>2. Len(requests) = 0 /\ MaxRequests \in Nat
      BY DispatchAssumption DEF Init
    <2>3. QED
      BY <2>1, <2>2 DEF Typed, Init
  <1>2. EntriesLinked /\ RepliesLinked /\ DownIsEmpty /\ WholeUntilRestart
        /\ Accounted /\ SecondEffectOnlyInDoubt
    BY DEF Init, EntriesLinked, RepliesLinked, DownIsEmpty, WholeUntilRestart, Accounted,
           SecondEffectOnlyInDoubt
  <1>3. FramesLinked
    BY DEF Init, FramesLinked
  <1>4. QED
    BY <1>1, <1>2, <1>3 DEF IInv

(* The parts an action keeps when it adds no request, no effect and no    *)
(* entry that is not a copy of one: all it must see to is its own typing, *)
(* its frames, and that keys it loses are in doubt.                       *)
LEMMA QuietStep ==
    ASSUME IInv, Typed',
           requests' = requests, replies' = replies, effects' \subseteq effects,
           returned' = returned, thisSession' \subseteq thisSession,
           doubtful \subseteq doubtful',
           \A p \in entries' \union stored' : \E e \in entries \union stored : CopyOf(p, e)
    PROVE  EntriesLinked' /\ RepliesLinked' /\ SecondEffectOnlyInDoubt'
  <1>1. EntriesLinked'
    <2>1. SUFFICES ASSUME NEW p \in entries' \union stored'
                   PROVE  p.by \in returned
                          /\ requests[p.by] = [key |-> p.key, call |-> p.call]
      BY DEF EntriesLinked
    <2>2. PICK e \in entries \union stored : CopyOf(p, e)
      OBVIOUS
    <2>3. e.by \in returned /\ requests[e.by] = [key |-> e.key, call |-> e.call]
      BY DEF IInv, EntriesLinked
    <2>4. QED
      BY <2>2, <2>3 DEF CopyOf
  <1>2. RepliesLinked'
    BY DEF IInv, RepliesLinked
  <1>3. SecondEffectOnlyInDoubt'
    BY DEF IInv, SecondEffectOnlyInDoubt
  <1>4. QED
    BY <1>1, <1>2, <1>3

LEMMA PruneRaisesPreserves == IInv /\ PruneRaises => IInv'
  <1> SUFFICES ASSUME IInv, PruneRaises PROVE IInv'
    OBVIOUS
  <1>1. Live \subseteq entries
    BY DEF Live, Fresh
  <1>2. Typed'
    BY <1>1 DEF IInv, Typed, PruneRaises
  <1>3. EntriesLinked' /\ RepliesLinked' /\ SecondEffectOnlyInDoubt'
    BY <1>1, <1>2, QuietStep DEF PruneRaises, CopyOf
  <1>4. FramesLinked' /\ DownIsEmpty' /\ WholeUntilRestart'
    BY <1>1 DEF IInv, FramesLinked, DownIsEmpty, WholeUntilRestart, PruneRaises, CanDispatch
  <1>5. KeysOf(entries) \subseteq KeysOf(Live) \union KeysOf(entries \ Live)
    BY DEF KeysOf
  <1>6. \A key : Recorded(key) => Recorded(key)' \/ key \in doubtful'
    BY <1>5 DEF Recorded, PruneRaises, CanDispatch, KeysOf
  <1>7. Accounted'
    BY <1>6 DEF IInv, Accounted, Running, PruneRaises
  <1>8. QED
    BY <1>2, <1>3, <1>4, <1>7 DEF IInv

LEMMA RefusePreserves ==
    ASSUME NEW key \in Keys, NEW call \in Calls
    PROVE  IInv /\ Refuse(key, call) => IInv'
  <1> SUFFICES ASSUME IInv, Refuse(key, call) PROVE IInv'
    OBVIOUS
  <1>1. Live \subseteq entries
    BY DEF Live, Fresh
  <1>2. Typed /\ SavePruned(Live)
    BY DEF IInv, Refuse, LookupPrunes
  <1>3. /\ Live \subseteq Entry /\ stored' \subseteq Entry
        /\ \A p \in stored' : \E e \in entries \union stored : CopyOf(p, e)
        /\ \A k \in KeysOf(entries) \intersect KeysOf(stored) :
                \/ k \in KeysOf(Live) /\ k \in KeysOf(stored')
                \/ k \in IF Live = entries THEN {} ELSE Pruned
    BY <1>2, PrunedEntries
  <1>4. Typed'
    BY <1>3 DEF IInv, Typed, Refuse
  <1>5. EntriesLinked' /\ RepliesLinked' /\ SecondEffectOnlyInDoubt'
    <2>1. \A p \in entries' : p \in entries /\ CopyOf(p, p)
      BY <1>1 DEF Refuse, CopyOf
    <2>2. QED
      BY <1>3, <1>4, <2>1, QuietStep DEF Refuse, LookupPrunes
  <1>6. FramesLinked' /\ DownIsEmpty' /\ WholeUntilRestart'
    BY <1>1 DEF IInv, FramesLinked, DownIsEmpty, WholeUntilRestart, Refuse, CanDispatch
  <1>7. \A k : Recorded(k) => Recorded(k)' \/ k \in doubtful'
    <2>1. up /\ up' /\ entries' = Live
          /\ doubtful' = doubtful \union IF Live = entries THEN {} ELSE Pruned
      BY DEF Refuse, CanDispatch, LookupPrunes
    <2>2. QED
      BY <1>3, <2>1 DEF Recorded, KeysOf
  <1>8. Accounted'
    <2>1. doubtful \subseteq doubtful'
      BY DEF Refuse, LookupPrunes
    <2>2. QED
      BY <1>7, <2>1 DEF IInv, Accounted, Running, Refuse
  <1>9. QED
    BY <1>4, <1>5, <1>6, <1>8 DEF IInv

LEMMA AppendedRequest ==
    ASSUME Typed, NEW key \in Keys, NEW call \in Calls, Arrive(key, call)
    PROVE  /\ requests' \in Seq([key : Keys, call : Calls])
           /\ Len(requests) \in Nat /\ Len(requests') = Len(requests) + 1
           /\ Len(requests') <= MaxRequests
           /\ requests'[Len(requests')] = [key |-> key, call |-> call]
           /\ \A i \in 1..Len(requests) : i \in 1..Len(requests') /\ requests'[i] = requests[i]
  <1>1. requests \in Seq([key : Keys, call : Calls]) /\ Len(requests) < MaxRequests
        /\ MaxRequests \in Nat /\ Len(requests) \in Nat
    BY DispatchAssumption DEF Typed, Arrive
  <1> DEFINE new == [key |-> key, call |-> call]
  <1>2. requests' = Append(requests, new) /\ new \in [key : Keys, call : Calls]
    BY DEF Arrive
  <1> HIDE DEF new
  <1>3. requests' \in Seq([key : Keys, call : Calls])
    BY <1>1, <1>2
  <1>4. Len(requests') = Len(requests) + 1 /\ requests'[Len(requests) + 1] = new
        /\ \A i \in 1..Len(requests) : requests'[i] = requests[i]
    BY <1>1, <1>2
  <1>5. QED
    BY <1>1, <1>3, <1>4 DEF new

LEMMA ReplayPreserves ==
    ASSUME NEW key \in Keys, NEW call \in Calls
    PROVE  IInv /\ Replay(key, call) => IInv'
  <1> SUFFICES ASSUME IInv, Replay(key, call) PROVE IInv'
    OBVIOUS
  <1>1. Live \subseteq entries
    BY DEF Live, Fresh
  <1>2. Typed /\ SavePruned(Live) /\ Arrive(key, call) /\ up
    BY DEF IInv, Replay, LookupPrunes, Arrive, CanDispatch
  <1>3. /\ Live \subseteq Entry /\ stored' \subseteq Entry
        /\ \A p \in stored' : \E e \in entries \union stored : CopyOf(p, e)
        /\ \A k \in KeysOf(entries) \intersect KeysOf(stored) :
                \/ k \in KeysOf(Live) /\ k \in KeysOf(stored')
                \/ k \in IF Live = entries THEN {} ELSE Pruned
    BY <1>2, PrunedEntries
  <1>4. /\ requests' \in Seq([key : Keys, call : Calls])
        /\ Len(requests) \in Nat /\ Len(requests') = Len(requests) + 1
        /\ Len(requests') <= MaxRequests
        /\ requests'[Len(requests')] = [key |-> key, call |-> call]
        /\ \A i \in 1..Len(requests) : i \in 1..Len(requests') /\ requests'[i] = requests[i]
    BY <1>2, AppendedRequest
  <1>5. PICK e \in Live :
          /\ Matches(e, key, call)
          /\ entries' = (Live \ {e}) \union {[e EXCEPT !.used = clock + 1]}
          /\ Answer(Len(requests'), e.by, e.whole)
    BY DEF Replay
  <1> DEFINE f == [e EXCEPT !.used = clock + 1]
  <1>6. f \in Entry /\ CopyOf(f, e) /\ f.whole = e.whole /\ e \in Entry
    BY <1>2, <1>3 DEF Entry, CopyOf, Typed
  <1>7. entries' = (Live \ {e}) \union {f}
    BY <1>5
  <1> HIDE DEF f
  <1>8. UNCHANGED <<up, expired, frames, effects, crashes, returned, thisSession>>
        /\ clock' = clock + 1 /\ clock' \in Nat
        /\ doubtful \subseteq doubtful'
    BY <1>2 DEF Replay, LookupPrunes, Typed
  <1>9. Typed'
    <2>1. returned \subseteq 1..Len(requests') /\ effects \subseteq 1..Len(requests')
      BY <1>2, <1>4 DEF Typed
    <2>2. entries' \subseteq Entry
      BY <1>3, <1>6, <1>7
    <2>3. Len(requests') \in 1..MaxRequests /\ e.by \in 1..MaxRequests /\ e.whole \in BOOLEAN
      BY <1>4, <1>6, DispatchAssumption DEF Entry
    <2>4. replies' \subseteq Reply
      BY <1>2, <1>5, <2>3 DEF Answer, Reply, Typed
    <2>5. QED
      BY <1>2, <1>3, <1>4, <1>8, <2>1, <2>2, <2>4 DEF Typed
  <1>10. EntriesLinked'
    <2>1. SUFFICES ASSUME NEW p \in entries' \union stored'
                   PROVE  p.by \in returned
                          /\ requests'[p.by] = [key |-> p.key, call |-> p.call]
      BY <1>8 DEF EntriesLinked
    <2>2. PICK o \in entries \union stored : CopyOf(p, o)
      BY <1>1, <1>3, <1>6, <1>7 DEF CopyOf
    <2>3. o.by \in returned /\ requests[o.by] = [key |-> o.key, call |-> o.call]
      BY DEF IInv, EntriesLinked
    <2>4. QED
      BY <1>2, <1>4, <2>2, <2>3 DEF CopyOf, Typed
  <1>11. FramesLinked'
    BY <1>4, <1>8 DEF IInv, FramesLinked
  <1>12. RepliesLinked'
    <2>1. SUFFICES ASSUME NEW r \in replies'
                   PROVE  r.n \in 1..Len(requests') /\ r.by \in returned
                          /\ requests'[r.by] = requests'[r.n]
      BY <1>8 DEF RepliesLinked
    <2>2. CASE r \in replies
      BY <1>2, <1>4, <2>2 DEF IInv, RepliesLinked, Typed
    <2>3. CASE r \notin replies
      <3>1. r.n = Len(requests') /\ r.by = e.by
        BY <1>5, <2>3 DEF Answer
      <3>2. e.by \in returned /\ requests[e.by] = [key |-> key, call |-> call]
        BY <1>1, <1>5 DEF IInv, EntriesLinked, Matches
      <3>3. e.by \in 1..Len(requests)
        BY <1>2, <3>2 DEF Typed
      <3>4. Len(requests') \in 1..Len(requests')
        BY <1>4
      <3>5. requests'[e.by] = requests[e.by]
        BY <1>4, <3>3
      <3>6. QED
        BY <1>4, <3>1, <3>2, <3>4, <3>5
    <2>4. QED
      BY <2>2, <2>3
  <1>13. DownIsEmpty' /\ WholeUntilRestart'
    <2>1. DownIsEmpty'
      BY <1>2, <1>8 DEF DownIsEmpty
    <2>2. f.by = e.by
      BY <1>6 DEF CopyOf
    <2>3. QED
      BY <1>1, <1>6, <1>7, <1>8, <2>1, <2>2 DEF IInv, WholeUntilRestart
  <1>14. KeysOf(entries') = KeysOf(Live)
    BY <1>6, <1>7 DEF KeysOf, CopyOf
  <1>15. \A k : Recorded(k) => Recorded(k)' \/ k \in doubtful'
    <2>1. doubtful' = doubtful \union IF Live = entries THEN {} ELSE Pruned
      BY DEF Replay, LookupPrunes
    <2>2. \A k : Recorded(k)' <=> k \in KeysOf(stored') /\ (up' => k \in KeysOf(entries'))
      BY DEF Recorded, KeysOf
    <2>3. QED
      BY <1>2, <1>3, <1>8, <1>14, <2>1, <2>2 DEF Recorded
  <1>16. Accounted'
    BY <1>2, <1>4, <1>8, <1>15 DEF IInv, Accounted, Running, Typed
  <1>17. SecondEffectOnlyInDoubt'
    BY <1>2, <1>4, <1>8 DEF IInv, SecondEffectOnlyInDoubt, Typed
  <1>18. QED
    BY <1>9, <1>10, <1>11, <1>12, <1>13, <1>16, <1>17 DEF IInv

LEMMA AppendedFrame ==
    ASSUME NEW seq \in Seq(Frame), NEW f \in Frame
    PROVE  /\ Append(seq, f) \in Seq(Frame)
           /\ Len(seq) \in Nat /\ Len(Append(seq, f)) = Len(seq) + 1
           /\ \A i \in 1..Len(seq) : Append(seq, f)[i] = seq[i]
           /\ Append(seq, f)[Len(seq) + 1] = f
  OBVIOUS

LEMMA ExecutePreserves ==
    ASSUME NEW key \in Keys, NEW call \in Calls
    PROVE  IInv /\ Execute(key, call) => IInv'
  <1> SUFFICES ASSUME IInv, Execute(key, call) PROVE IInv'
    OBVIOUS
  <1>1. Live \subseteq entries
    BY DEF Live, Fresh
  <1>2. Typed /\ SavePruned(Live) /\ Arrive(key, call) /\ up
    BY DEF IInv, Execute, Arrive, CanDispatch
  <1>3. /\ Live \subseteq Entry /\ stored' \subseteq Entry
        /\ \A p \in stored' : \E e \in entries \union stored : CopyOf(p, e)
        /\ \A k \in KeysOf(entries) \intersect KeysOf(stored) :
                \/ k \in KeysOf(Live) /\ k \in KeysOf(stored')
                \/ k \in IF Live = entries THEN {} ELSE Pruned
    BY <1>2, PrunedEntries
  <1> DEFINE new == Len(requests')
             len == Len(frames)
  <1>4. /\ requests' \in Seq([key : Keys, call : Calls])
        /\ Len(requests) \in Nat /\ new = Len(requests) + 1
        /\ new <= MaxRequests
        /\ requests'[new] = [key |-> key, call |-> call]
        /\ \A i \in 1..Len(requests) : i \in 1..new /\ requests'[i] = requests[i]
    BY <1>2, AppendedRequest
  <1>5. new \in 1..new /\ new \in 1..MaxRequests /\ new \notin 1..Len(requests)
    BY <1>4, DispatchAssumption
  <1>6. /\ key \notin KeysOf(Live) /\ entries' = Live
        /\ effects' = effects \union {new}
        /\ UNCHANGED <<up, clock, expired, replies, crashes, returned, thisSession>>
        /\ doubtful' = doubtful
             \union (IF Live = entries THEN {} ELSE Pruned)
             \union ({key} \intersect {frames[i].key : i \in 1..len})
    BY <1>2 DEF Execute, Typed
  <1>7. /\ frames' \in Seq(Frame) /\ len \in Nat /\ Len(frames') = len + 1
        /\ \A i \in 1..len : frames'[i] = frames[i]
        /\ frames'[len + 1] = [n |-> new, key |-> key, call |-> call]
    <2>1. /\ [n |-> new, key |-> key, call |-> call] \in Frame
          /\ frames \in Seq(Frame)
          /\ frames' = Append(frames, [n |-> new, key |-> key, call |-> call])
      BY <1>2, <1>5 DEF Frame, Typed, Execute
    <2>2. QED
      BY <2>1, AppendedFrame
  <1>8. returned \subseteq 1..Len(requests) /\ effects \subseteq 1..Len(requests)
    BY <1>2 DEF Typed
  <1> HIDE DEF new, len
  <1>9. Typed'
    <2>1. returned' \subseteq 1..Len(requests') /\ effects' \subseteq 1..Len(requests')
      BY <1>4, <1>5, <1>6, <1>8 DEF new
    <2>2. QED
      BY <1>2, <1>3, <1>4, <1>6, <1>7, <2>1 DEF Typed, new
  <1>10. EntriesLinked'
    <2>1. SUFFICES ASSUME NEW p \in entries' \union stored'
                   PROVE  p.by \in returned
                          /\ requests'[p.by] = [key |-> p.key, call |-> p.call]
      BY <1>6 DEF EntriesLinked
    <2>2. PICK o \in entries \union stored : CopyOf(p, o)
      BY <1>1, <1>3, <1>6 DEF CopyOf
    <2>3. o.by \in returned /\ requests[o.by] = [key |-> o.key, call |-> o.call]
      BY DEF IInv, EntriesLinked
    <2>4. QED
      BY <1>4, <1>8, <2>2, <2>3 DEF CopyOf
  <1>11. FramesLinked'
    <2>1. SUFFICES ASSUME NEW i \in 1..Len(frames')
                   PROVE  /\ frames'[i].n \in 1..new /\ frames'[i].n \notin returned
                          /\ requests'[frames'[i].n]
                               = [key |-> frames'[i].key, call |-> frames'[i].call]
                          /\ \A j \in 1..Len(frames') :
                               frames'[j].n = frames'[i].n => j = i
      BY <1>6 DEF FramesLinked, new
    <2>2. \A j \in 1..len :
            /\ frames[j].n \in 1..Len(requests) /\ frames[j].n \notin returned
            /\ requests[frames[j].n] = [key |-> frames[j].key, call |-> frames[j].call]
            /\ \A k \in 1..len : frames[k].n = frames[j].n => k = j
      BY DEF IInv, FramesLinked, len
    <2>3. \A j \in 1..Len(frames') : j \in 1..len \/ j = len + 1
      BY <1>7
    <2>4. frames'[len + 1].n = new
      BY <1>7
    <2>5. CASE i \in 1..len
      <3>1. frames'[i] = frames[i] /\ frames[i].n \in 1..Len(requests)
        BY <1>7, <2>2, <2>5
      <3>2. frames'[i].n \in 1..new /\ requests'[frames'[i].n] = requests[frames[i].n]
        BY <1>4, <3>1
      <3>3. frames'[i].n # new
        BY <1>5, <3>1
      <3>4. \A j \in 1..Len(frames') : frames'[j].n = frames'[i].n => j = i
        BY <1>7, <2>2, <2>3, <2>4, <2>5, <3>1, <3>3
      <3>5. QED
        BY <2>2, <2>5, <3>1, <3>2, <3>4
    <2>6. CASE i = len + 1
      <3>1. ASSUME NEW j \in 1..len PROVE frames'[j].n # new
        <4>1. frames'[j] = frames[j] /\ frames[j].n \in 1..Len(requests)
          BY <1>7, <2>2
        <4>2. QED
          BY <1>5, <4>1
      <3>2. \A j \in 1..Len(frames') : frames'[j].n = frames'[i].n => j = i
        BY <2>3, <2>4, <2>6, <3>1
      <3>3. frames'[i] = [n |-> new, key |-> key, call |-> call]
        BY <1>7, <2>6
      <3>4. QED
        BY <1>4, <1>5, <1>8, <3>2, <3>3
    <2>7. QED
      BY <2>3, <2>5, <2>6
  <1>12. RepliesLinked'
    BY <1>4, <1>6, <1>8 DEF IInv, RepliesLinked, new
  <1>13. DownIsEmpty' /\ WholeUntilRestart'
    BY <1>1, <1>2, <1>6 DEF IInv, DownIsEmpty, WholeUntilRestart
  <1>14. \A k : Recorded(k) => Recorded(k)' \/ k \in doubtful'
    BY <1>2, <1>3, <1>6 DEF Recorded, KeysOf
  <1>15. \A n : Running(n) => Running(n)'
    BY <1>7 DEF Running, len
  <1>16. \E i \in 1..Len(frames') : frames'[i].n = new
    <2>1. len + 1 \in 1..Len(frames') /\ frames'[len + 1].n = new
      BY <1>7
    <2>2. QED
      BY <2>1
  <1>17. Accounted'
    <2>1. SUFFICES ASSUME NEW n \in effects'
                   PROVE  (requests[n].key \in doubtful \/ Running(n)
                              \/ Recorded(requests[n].key))'
      BY DEF Accounted
    <2>2. CASE n \in effects
      <3>1. requests'[n] = requests[n]
        BY <1>4, <1>8, <2>2
      <3>2. requests[n].key \in doubtful \/ Running(n) \/ Recorded(requests[n].key)
        BY <2>2 DEF IInv, Accounted
      <3>3. Recorded(requests[n].key) => (Recorded(requests[n].key) \/ requests[n].key \in doubtful)'
        BY <1>14, <3>1 DEF Recorded
      <3>4. QED
        BY <1>6, <1>15, <3>1, <3>2, <3>3 DEF Recorded
    <2>3. CASE n = new
      BY <1>16, <2>3 DEF Running
    <2>4. QED
      BY <1>6, <2>2, <2>3
  <1>18. ASSUME NEW m \in effects, requests[m].key = key PROVE key \in doubtful'
    <2>1. CASE key \in doubtful
      BY <1>6, <2>1
    <2>2. CASE Running(m)
      <3>1. PICK i \in 1..len : frames[i].n = m
        BY <2>2 DEF Running, len
      <3>2. requests[m] = [key |-> frames[i].key, call |-> frames[i].call]
        BY <3>1 DEF IInv, FramesLinked, len
      <3>3. frames[i].key = key
        BY <1>18, <3>2
      <3>4. QED
        BY <1>6, <3>1, <3>3
    <2>3. CASE Recorded(key)
      BY <1>2, <1>3, <1>6, <2>3 DEF Recorded
    <2>4. QED
      BY <1>18, <2>1, <2>2, <2>3 DEF IInv, Accounted
  <1>19. SecondEffectOnlyInDoubt'
    <2>1. SUFFICES ASSUME NEW m \in effects', NEW n \in effects', m # n,
                          requests'[m].key = requests'[n].key
                   PROVE  requests'[n].key \in doubtful'
      BY DEF SecondEffectOnlyInDoubt
    <2>2. CASE m \in effects /\ n \in effects
      BY <1>4, <1>6, <1>8, <2>1, <2>2 DEF IInv, SecondEffectOnlyInDoubt
    <2>3. CASE m = new \/ n = new
      BY <1>4, <1>6, <1>8, <1>18, <2>1, <2>3
    <2>4. QED
      BY <1>6, <2>2, <2>3
  <1>20. QED
    BY <1>9, <1>10, <1>11, <1>12, <1>13, <1>17, <1>19 DEF IInv

(* The innermost handler ends: what that means for the frames. *)
LEMMA LeavingFrames ==
    ASSUME IInv, Leaves, returned' \subseteq returned \union {Top.n}
    PROVE  /\ up /\ up' /\ frames # <<>> /\ frames' \in Seq(Frame)
           /\ Top.n \in 1..Len(requests) /\ Top.n \notin returned
           /\ requests[Top.n] = [key |-> Top.key, call |-> Top.call]
           /\ FramesLinked'
           /\ \A n : Running(n) => Running(n)' \/ n = Top.n
  <1>1. Typed /\ FramesLinked /\ DownIsEmpty
    BY DEF IInv
  <1>2. up /\ up' /\ frames # <<>> /\ requests' = requests
    BY <1>1 DEF Leaves, DownIsEmpty, Typed
  <1> DEFINE len == Len(frames)
  <1>3. /\ len \in Nat \ {0} /\ Len(frames') = len - 1
        /\ frames' \in Seq(Frame)
        /\ \A i \in 1..Len(frames') : frames'[i] = frames[i]
        /\ Top = frames[len]
    BY <1>1, PoppedFrames
  <1> HIDE DEF len
  <1>4. /\ \A i \in 1..Len(frames') : i \in 1..len /\ i # len
        /\ \A i \in 1..len : i \in 1..Len(frames') \/ i = len
        /\ len \in 1..len
    BY <1>3
  <1>5. \A i \in 1..len :
          /\ frames[i].n \in 1..Len(requests) /\ frames[i].n \notin returned
          /\ requests[frames[i].n] = [key |-> frames[i].key, call |-> frames[i].call]
          /\ \A j \in 1..len : frames[j].n = frames[i].n => j = i
    BY <1>1 DEF FramesLinked, len
  <1>6. /\ Top.n \in 1..Len(requests) /\ Top.n \notin returned
        /\ requests[Top.n] = [key |-> Top.key, call |-> Top.call]
    BY <1>3, <1>4, <1>5
  <1>7. \A i \in 1..Len(frames') : frames'[i] = frames[i] /\ frames[i].n # Top.n
    BY <1>3, <1>4, <1>5
  <1>8. FramesLinked'
    <2>1. ASSUME NEW i \in 1..Len(frames') PROVE frames[i].n \notin returned'
      BY <1>4, <1>5, <1>7
    <2>2. QED
      BY <1>2, <1>4, <1>5, <1>7, <2>1 DEF FramesLinked
  <1>9. ASSUME NEW n, Running(n) PROVE Running(n)' \/ n = Top.n
    <2>1. PICK i \in 1..len : frames[i].n = n
      BY <1>9 DEF Running, len
    <2>2. QED
      BY <1>3, <1>4, <1>7, <2>1 DEF Running
  <1>10. QED
    BY <1>2, <1>3, <1>6, <1>8, <1>9

(* What remember leaves in memory belongs to requests whose handlers have *)
(* returned by then, and is whole if they ran in this session.            *)
LEMMA KeptLinked ==
    ASSUME IInv, frames # <<>>,
           Top.n \notin returned,
           requests[Top.n] = [key |-> Top.key, call |-> Top.call],
           NEW e \in Kept
    PROVE  /\ e.by \in returned \union {Top.n}
           /\ requests[e.by] = [key |-> e.key, call |-> e.call]
           /\ e.by \in thisSession \union {Top.n} => e.whole
  <1>1. /\ NewEntry.by = Top.n /\ NewEntry.key = Top.key /\ NewEntry.call = Top.call
        /\ NewEntry.whole
        /\ Kept \subseteq Live \union {NewEntry}
    BY KeptEntries DEF IInv
  <1>2. CASE e = NewEntry
    BY <1>1, <1>2
  <1>3. CASE e \in Live
    <2>1. e \in entries
      BY <1>3 DEF Live, Fresh
    <2>2. QED
      BY <2>1 DEF IInv, EntriesLinked, WholeUntilRestart
  <1>4. QED
    BY <1>1, <1>2, <1>3

LEMMA ReturnPreserves == IInv /\ Return => IInv'
  <1> SUFFICES ASSUME IInv, Return PROVE IInv'
    OBVIOUS
  <1>1. Typed /\ Leaves /\ frames # <<>>
    BY DEF IInv, Return, Leaves
  <1>2. /\ up /\ up' /\ frames' \in Seq(Frame)
        /\ Top.n \in 1..Len(requests) /\ Top.n \notin returned
        /\ requests[Top.n] = [key |-> Top.key, call |-> Top.call]
        /\ FramesLinked'
        /\ \A n : Running(n) => Running(n)' \/ n = Top.n
    BY <1>1, LeavingFrames DEF Return
  <1>3. /\ Kept \subseteq Entry
        /\ KeysOf(entries) \union {Top.key} \subseteq KeysOf(Kept) \union Pruned \union Evicted
    BY <1>1, KeptEntries
  <1>4. /\ Persist(Kept) \subseteq Entry
        /\ \A p \in Persist(Kept) : \E e \in Kept : CopyOf(p, e)
        /\ KeysOf(Kept) \subseteq KeysOf(Persist(Kept)) \union NotStored(Kept)
    BY <1>3, PersistedEntries
  <1>5. /\ entries' = Kept /\ stored' = Persist(Kept) /\ clock' = clock + 1
        /\ returned' = returned \union {Top.n} /\ thisSession' = thisSession \union {Top.n}
        /\ replies' = replies \union {[n |-> Top.n, by |-> Top.n, whole |-> TRUE]}
        /\ UNCHANGED <<expired, requests, effects>>
        /\ doubtful' = doubtful \union Pruned \union Evicted \union NotStored(Kept)
    BY <1>1 DEF Return, AfterSave, Answer, Leaves
  <1>6. Typed'
    <2>1. Top.n \in 1..MaxRequests
      BY <1>1, KeptEntries DEF Frame
    <2>2. [n |-> Top.n, by |-> Top.n, whole |-> TRUE] \in Reply
      BY <2>1 DEF Reply
    <2>3. replies' \subseteq Reply
      BY <1>1, <1>5, <2>2 DEF Typed
    <2>4. returned' \subseteq 1..Len(requests) /\ thisSession' \subseteq returned'
      BY <1>1, <1>2, <1>5 DEF Typed
    <2>5. clock' \in Nat
      BY <1>1, <1>5 DEF Typed
    <2>6. up' \in BOOLEAN
      BY <1>2
    <2>7. QED
      BY <1>1, <1>2, <1>3, <1>4, <1>5, <2>3, <2>4, <2>5, <2>6 DEF Typed
  <1>7. \A e \in Kept :
          /\ e.by \in returned' /\ requests[e.by] = [key |-> e.key, call |-> e.call]
          /\ e.by \in thisSession' => e.whole
    BY <1>1, <1>2, <1>5, KeptLinked
  <1>8. EntriesLinked'
    <2>1. SUFFICES ASSUME NEW p \in entries' \union stored'
                   PROVE  p.by \in returned'
                          /\ requests[p.by] = [key |-> p.key, call |-> p.call]
      BY <1>5 DEF EntriesLinked
    <2>2. PICK e \in Kept : CopyOf(p, e)
      BY <1>4, <1>5 DEF CopyOf
    <2>3. QED
      BY <1>7, <2>2 DEF CopyOf
  <1>9. RepliesLinked'
    BY <1>2, <1>5 DEF IInv, RepliesLinked
  <1>10. DownIsEmpty' /\ WholeUntilRestart'
    BY <1>2, <1>5, <1>7 DEF DownIsEmpty, WholeUntilRestart
  <1>11. \A key \in KeysOf(entries) \union {Top.key} : Recorded(key)' \/ key \in doubtful'
    BY <1>3, <1>4, <1>5 DEF Recorded, KeysOf
  <1>12. Accounted'
    <2>1. SUFFICES ASSUME NEW n \in effects
                   PROVE  (requests[n].key \in doubtful \/ Running(n)
                              \/ Recorded(requests[n].key))'
      BY <1>5 DEF Accounted
    <2>2. CASE n = Top.n
      BY <1>2, <1>5, <1>11, <2>2 DEF Recorded
    <2>3. CASE n # Top.n
      <3>1. requests[n].key \in doubtful \/ Running(n)' \/ requests[n].key \in KeysOf(entries)
        BY <1>2, <2>3 DEF IInv, Accounted, Recorded
      <3>2. QED
        BY <1>5, <1>11, <3>1 DEF Recorded
    <2>4. QED
      BY <2>2, <2>3
  <1>13. SecondEffectOnlyInDoubt'
    BY <1>5 DEF IInv, SecondEffectOnlyInDoubt
  <1>14. QED
    BY <1>2, <1>6, <1>8, <1>9, <1>10, <1>12, <1>13 DEF IInv

LEMMA ReturnUnsavedPreserves == IInv /\ ReturnUnsaved => IInv'
  <1> SUFFICES ASSUME IInv, ReturnUnsaved PROVE IInv'
    OBVIOUS
  <1>1. Typed /\ Leaves /\ frames # <<>> /\ returned' \subseteq returned \union {Top.n}
    BY DEF IInv, ReturnUnsaved, Leaves
  <1>2. /\ up /\ up' /\ frames' \in Seq(Frame)
        /\ Top.n \in 1..Len(requests) /\ Top.n \notin returned
        /\ requests[Top.n] = [key |-> Top.key, call |-> Top.call]
        /\ FramesLinked'
        /\ \A n : Running(n) => Running(n)' \/ n = Top.n
    BY <1>1, LeavingFrames
  <1>3. /\ UNCHANGED <<expired, requests, effects, replies>>
        /\ doubtful' = doubtful \union Pruned \union Evicted \union {Top.key}
    BY <1>1 DEF ReturnUnsaved, Leaves
  <1>4. up' \in BOOLEAN
    BY <1>2
  <1>5. SecondEffectOnlyInDoubt' /\ DownIsEmpty'
    BY <1>2, <1>3 DEF IInv, SecondEffectOnlyInDoubt, DownIsEmpty
  <1>6. ASSUME \A k : Recorded(k) => Recorded(k)' \/ k \in doubtful'
        PROVE  Accounted'
    <2>1. SUFFICES ASSUME NEW n \in effects
                   PROVE  (requests[n].key \in doubtful \/ Running(n)
                              \/ Recorded(requests[n].key))'
      BY <1>3 DEF Accounted
    <2>2. CASE n = Top.n
      BY <1>2, <1>3, <2>2
    <2>3. CASE n # Top.n
      <3>1. requests[n].key \in doubtful \/ Running(n)' \/ Recorded(requests[n].key)
        BY <1>2, <2>3 DEF IInv, Accounted
      <3>2. Recorded(requests[n].key)
              => (Recorded(requests[n].key) \/ requests[n].key \in doubtful)'
        BY <1>3, <1>6 DEF Recorded
      <3>3. QED
        BY <1>3, <3>1, <3>2
    <2>4. QED
      BY <2>2, <2>3
  <1>7. CASE /\ entries' = Live
             /\ UNCHANGED <<stored, clock, returned, thisSession>>
    <2>1. Live \subseteq entries
      BY DEF Live, Fresh
    <2>2. Typed'
      BY <1>1, <1>2, <1>3, <1>4, <1>7, <2>1 DEF Typed
    <2>3. EntriesLinked' /\ RepliesLinked' /\ WholeUntilRestart'
      BY <1>3, <1>7, <2>1 DEF IInv, EntriesLinked, RepliesLinked, WholeUntilRestart
    <2>4. KeysOf(entries) \subseteq KeysOf(Live) \union Pruned
      BY DEF KeysOf, Pruned
    <2>5. \A k : Recorded(k) => Recorded(k)' \/ k \in doubtful'
      BY <1>2, <1>3, <1>7, <2>4 DEF Recorded, KeysOf
    <2>6. QED
      BY <1>2, <1>5, <1>6, <2>2, <2>3, <2>5 DEF IInv
  <1>8. CASE /\ entries' = Kept /\ SavePruned(Live) /\ clock' = clock + 1
             /\ returned' = returned \union {Top.n}
             /\ thisSession' = thisSession \union {Top.n}
    <2>1. /\ Kept \subseteq Entry
          /\ KeysOf(entries) \union {Top.key}
               \subseteq KeysOf(Kept) \union Pruned \union Evicted
      BY <1>1, KeptEntries
    <2>2. /\ stored' \subseteq Entry
          /\ \A p \in stored' : \E e \in entries \union stored : CopyOf(p, e)
          /\ \A k \in KeysOf(entries) \intersect KeysOf(stored) :
                \/ k \in KeysOf(Live) /\ k \in KeysOf(stored')
                \/ k \in IF Live = entries THEN {} ELSE Pruned
      BY <1>1, <1>8, PrunedEntries
    <2>3. \A e \in Kept :
            /\ e.by \in returned' /\ requests[e.by] = [key |-> e.key, call |-> e.call]
            /\ e.by \in thisSession' => e.whole
      BY <1>1, <1>2, <1>8, KeptLinked
    <2>4. Typed'
      <3>1. returned' \subseteq 1..Len(requests) /\ thisSession' \subseteq returned'
        BY <1>1, <1>2, <1>8 DEF Typed
      <3>2. clock' \in Nat
        BY <1>1, <1>8 DEF Typed
      <3>3. QED
        BY <1>1, <1>2, <1>3, <1>4, <1>8, <2>1, <2>2, <3>1, <3>2 DEF Typed
    <2>5. EntriesLinked'
      <3>1. SUFFICES ASSUME NEW p \in entries' \union stored'
                     PROVE  p.by \in returned'
                            /\ requests[p.by] = [key |-> p.key, call |-> p.call]
        BY <1>3 DEF EntriesLinked
      <3>2. CASE p \in Kept
        BY <2>3, <3>2
      <3>3. CASE p \in stored'
        <4>1. PICK e \in entries \union stored : CopyOf(p, e)
          BY <2>2, <3>3
        <4>2. e.by \in returned /\ requests[e.by] = [key |-> e.key, call |-> e.call]
          BY DEF IInv, EntriesLinked
        <4>3. QED
          BY <1>8, <4>1, <4>2 DEF CopyOf
      <3>4. QED
        BY <1>8, <3>2, <3>3
    <2>6. RepliesLinked' /\ WholeUntilRestart'
      BY <1>3, <1>8, <2>3 DEF IInv, RepliesLinked, WholeUntilRestart
    <2>7. \A k : Recorded(k) => Recorded(k)' \/ k \in doubtful'
      BY <1>2, <1>3, <1>8, <2>1, <2>2 DEF Recorded, KeysOf
    <2>8. QED
      BY <1>2, <1>5, <1>6, <2>4, <2>5, <2>6, <2>7 DEF IInv
  <1>9. QED
    BY <1>7, <1>8 DEF ReturnUnsaved

LEMMA RaisePreserves == IInv /\ Raise => IInv'
  <1> SUFFICES ASSUME IInv, Raise PROVE IInv'
    OBVIOUS
  <1>1. /\ Typed /\ Leaves /\ frames # <<>>
        /\ UNCHANGED <<entries, stored, clock, expired, requests, effects, replies,
                       returned, thisSession>>
        /\ doubtful' = doubtful \union {Top.key}
    BY DEF IInv, Raise, Leaves, guard
  <1>2. /\ up /\ up' /\ frames' \in Seq(Frame)
        /\ requests[Top.n] = [key |-> Top.key, call |-> Top.call]
        /\ FramesLinked'
        /\ \A n : Running(n) => Running(n)' \/ n = Top.n
    BY <1>1, LeavingFrames
  <1>3. Typed'
    <2>1. up' \in BOOLEAN
      BY <1>2
    <2>2. QED
      BY <1>1, <1>2, <2>1 DEF Typed
  <1>4. EntriesLinked' /\ RepliesLinked' /\ SecondEffectOnlyInDoubt'
    BY <1>1, <1>3, QuietStep DEF CopyOf
  <1>5. DownIsEmpty' /\ WholeUntilRestart'
    BY <1>1, <1>2 DEF IInv, DownIsEmpty, WholeUntilRestart
  <1>6. Accounted'
    <2>1. SUFFICES ASSUME NEW n \in effects
                   PROVE  (requests[n].key \in doubtful \/ Running(n)
                              \/ Recorded(requests[n].key))'
      BY <1>1 DEF Accounted
    <2>2. requests[n].key \in doubtful \/ Running(n) \/ Recorded(requests[n].key)
      BY DEF IInv, Accounted
    <2>3. Recorded(requests[n].key) => Recorded(requests[n].key)'
      BY <1>1, <1>2 DEF Recorded, KeysOf
    <2>4. QED
      BY <1>1, <1>2, <2>2, <2>3
  <1>7. QED
    BY <1>2, <1>3, <1>4, <1>5, <1>6 DEF IInv

LEMMA ExpirePreserves == IInv /\ Expire => IInv'
  <1> SUFFICES ASSUME IInv, Expire PROVE IInv'
    OBVIOUS
  <1>1. /\ expired \in Nat /\ expired' = expired + 1
        /\ UNCHANGED <<up, entries, stored, clock, frames, requests, effects, replies,
                       returned, thisSession, doubtful>>
    BY DEF IInv, Typed, Expire, guard
  <1>2. expired' \in Nat
    BY <1>1
  <1>3. Typed'
    BY <1>1, <1>2 DEF IInv, Typed
  <1>4. EntriesLinked' /\ FramesLinked' /\ RepliesLinked' /\ DownIsEmpty'
        /\ WholeUntilRestart' /\ SecondEffectOnlyInDoubt'
    BY <1>1 DEF IInv, EntriesLinked, FramesLinked, RepliesLinked, DownIsEmpty,
                WholeUntilRestart, SecondEffectOnlyInDoubt
  <1>5. Accounted'
    BY <1>1 DEF IInv, Accounted, Running, Recorded, KeysOf
  <1>6. QED
    BY <1>3, <1>4, <1>5 DEF IInv

LEMMA CrashPreserves == IInv /\ Crash => IInv'
  <1> SUFFICES ASSUME IInv, Crash PROVE IInv'
    OBVIOUS
  <1>1. /\ Typed /\ up /\ ~up' /\ entries' = {} /\ frames' = <<>> /\ thisSession' = {}
        /\ effects' \subseteq effects
        /\ UNCHANGED <<stored, clock, expired, requests, replies, returned>>
    BY DEF IInv, Crash
  <1>2. doubtful' = doubtful \union {frames[i].key : i \in 1..Len(frames)}
    BY <1>1 DEF Crash, Typed
  <1>3. Typed'
    <2>1. up' = FALSE
      BY DEF Crash
    <2>2. frames' \in Seq(Frame)
      BY <1>1
    <2>3. QED
      BY <1>1, <2>1, <2>2 DEF Typed
  <1>4. EntriesLinked' /\ RepliesLinked' /\ SecondEffectOnlyInDoubt'
    BY <1>1, <1>2, <1>3, QuietStep DEF CopyOf
  <1>5. FramesLinked' /\ DownIsEmpty' /\ WholeUntilRestart'
    BY <1>1 DEF FramesLinked, DownIsEmpty, WholeUntilRestart
  <1>6. Accounted'
    <2>1. SUFFICES ASSUME NEW n \in effects
                   PROVE  (requests[n].key \in doubtful \/ Running(n)
                              \/ Recorded(requests[n].key))'
      BY <1>1 DEF Accounted
    <2>2. CASE Running(n)
      <3>1. PICK i \in 1..Len(frames) : frames[i].n = n
        BY <2>2 DEF Running
      <3>2. requests[n] = [key |-> frames[i].key, call |-> frames[i].call]
        BY <3>1 DEF IInv, FramesLinked
      <3>3. requests[n].key = frames[i].key
        BY <3>2
      <3>4. QED
        BY <1>1, <1>2, <3>3
    <2>3. CASE requests[n].key \in doubtful \/ Recorded(requests[n].key)
      BY <1>1, <1>2, <2>3 DEF Recorded, KeysOf
    <2>4. QED
      BY <2>2, <2>3 DEF IInv, Accounted
  <1>7. QED
    BY <1>3, <1>4, <1>5, <1>6 DEF IInv

LEMMA LoadPreserves ==
    ASSUME IInv, Restart, Load
    PROVE  IInv'
  <1> DEFINE live == Fresh(stored)
  <1>1. /\ Typed /\ ~up /\ up' /\ entries' = live /\ frames = <<>> /\ thisSession = {}
        /\ stored' = IF live = stored THEN stored ELSE Persist(live)
        /\ doubtful' = doubtful \union KeysOf(stored \ live)
                         \union IF live = stored THEN {} ELSE NotStored(live)
        /\ UNCHANGED <<clock, expired, frames, requests, effects, replies, returned,
                       thisSession>>
    BY DEF IInv, DownIsEmpty, Restart, Load
  <1>2. live \subseteq stored /\ live \subseteq Entry
    BY <1>1 DEF Fresh, Typed
  <1> HIDE DEF live
  <1>3. /\ Persist(live) \subseteq Entry
        /\ \A p \in Persist(live) : \E e \in live : CopyOf(p, e)
        /\ KeysOf(live) \subseteq KeysOf(Persist(live)) \union NotStored(live)
    BY <1>2, PersistedEntries
  <1>4. Typed'
    <2>1. up' \in BOOLEAN
      BY <1>1
    <2>2. QED
      BY <1>1, <1>2, <1>3, <2>1 DEF Typed
  <1>5. \A p \in entries' \union stored' : \E e \in entries \union stored : CopyOf(p, e)
    BY <1>1, <1>2, <1>3 DEF CopyOf
  <1>6. EntriesLinked' /\ RepliesLinked' /\ SecondEffectOnlyInDoubt'
    BY <1>1, <1>4, <1>5, QuietStep
  <1>7. FramesLinked' /\ DownIsEmpty' /\ WholeUntilRestart'
    BY <1>1 DEF IInv, FramesLinked, DownIsEmpty, WholeUntilRestart
  <1>8. KeysOf(stored) \subseteq KeysOf(live) \union KeysOf(stored \ live)
    BY DEF KeysOf
  <1>9. ASSUME NEW k, Recorded(k) PROVE Recorded(k)' \/ k \in doubtful'
    <2>1. k \in KeysOf(live) \/ k \in doubtful'
      BY <1>1, <1>8, <1>9 DEF Recorded
    <2>2. k \in KeysOf(stored') \/ k \in doubtful'
      BY <1>1, <1>3, <1>9, <2>1 DEF Recorded
    <2>3. QED
      BY <1>1, <2>1, <2>2 DEF Recorded, KeysOf
  <1>10. Accounted'
    <2>1. SUFFICES ASSUME NEW n \in effects
                   PROVE  (requests[n].key \in doubtful \/ Running(n)
                              \/ Recorded(requests[n].key))'
      BY <1>1 DEF Accounted
    <2>2. requests[n].key \in doubtful \/ Running(n) \/ Recorded(requests[n].key)
      BY DEF IInv, Accounted
    <2>3. Running(n) => Running(n)'
      BY <1>1 DEF Running
    <2>4. Recorded(requests[n].key)
            => (Recorded(requests[n].key) \/ requests[n].key \in doubtful)'
      BY <1>1, <1>9 DEF Recorded
    <2>5. QED
      BY <1>1, <2>2, <2>3, <2>4
  <1>11. QED
    BY <1>4, <1>6, <1>7, <1>10 DEF IInv
-----------------------------------------------------------------------------
(* An unreadable file: every key it records is in doubt from then on. *)
LEMMA LoadNothingPreserves ==
    ASSUME IInv, Restart, LoadNothing
    PROVE  IInv'
  <1>1. /\ Typed /\ ~up /\ up' /\ entries' = {} /\ frames = <<>> /\ thisSession = {}
        /\ stored' = stored /\ doubtful' = doubtful \union KeysOf(stored)
        /\ UNCHANGED <<clock, expired, frames, requests, effects, replies, returned,
                       thisSession>>
    BY DEF IInv, DownIsEmpty, Restart, LoadNothing
  <1>2. Typed'
    <2>1. up' \in BOOLEAN
      BY <1>1
    <2>2. QED
      BY <1>1, <2>1 DEF Typed
  <1>3. \A p \in entries' \union stored' : \E e \in entries \union stored : CopyOf(p, e)
    BY <1>1 DEF CopyOf
  <1>4. EntriesLinked' /\ RepliesLinked' /\ SecondEffectOnlyInDoubt'
    BY <1>1, <1>2, <1>3, QuietStep
  <1>5. FramesLinked' /\ DownIsEmpty' /\ WholeUntilRestart'
    BY <1>1 DEF IInv, FramesLinked, DownIsEmpty, WholeUntilRestart
  <1>6. ASSUME NEW n \in effects
        PROVE  requests[n].key \in doubtful' \/ Running(n)
    <2>1. requests[n].key \in doubtful \/ Running(n) \/ Recorded(requests[n].key)
      BY DEF IInv, Accounted
    <2>2. QED
      BY <1>1, <2>1 DEF Recorded
  <1>7. Accounted'
    BY <1>1, <1>6 DEF Accounted, Running
  <1>8. QED
    BY <1>2, <1>4, <1>5, <1>7 DEF IInv

LEMMA RestartPreserves == IInv /\ Restart => IInv'
  BY LoadPreserves, LoadNothingPreserves DEF Restart

LEMMA NextPreserves == IInv /\ [Next]_vars => IInv'
  <1> SUFFICES ASSUME IInv, [Next]_vars PROVE IInv'
    OBVIOUS
  <1>1. ASSUME NEW key \in Keys, NEW call \in Calls, Dispatch(key, call)
        PROVE  IInv'
    BY <1>1, RefusePreserves, ReplayPreserves, ExecutePreserves DEF Dispatch
  <1>2. CASE PruneRaises
    BY <1>2, PruneRaisesPreserves
  <1>3. CASE Return
    BY <1>3, ReturnPreserves
  <1>4. CASE ReturnUnsaved
    BY <1>4, ReturnUnsavedPreserves
  <1>5. CASE Raise
    BY <1>5, RaisePreserves
  <1>6. CASE Expire
    BY <1>6, ExpirePreserves
  <1>7. CASE Crash
    BY <1>7, CrashPreserves
  <1>8. CASE Restart
    BY <1>8, RestartPreserves
  <1>9. CASE UNCHANGED vars
    <2>1. Typed' /\ EntriesLinked' /\ FramesLinked' /\ RepliesLinked'
      BY <1>9 DEF vars, IInv, Typed, EntriesLinked, FramesLinked, RepliesLinked
    <2>2. DownIsEmpty' /\ WholeUntilRestart' /\ SecondEffectOnlyInDoubt'
      BY <1>9 DEF vars, IInv, DownIsEmpty, WholeUntilRestart, SecondEffectOnlyInDoubt
    <2>3. Accounted'
      BY <1>9 DEF vars, IInv, Accounted, Running, Recorded, KeysOf
    <2>4. QED
      BY <2>1, <2>2, <2>3 DEF IInv
  <1>10. QED
    BY <1>1, <1>2, <1>3, <1>4, <1>5, <1>6, <1>7, <1>8, <1>9 DEF Next

(* The inductive invariant holds in every state: entries, frames and answers *)
(* lead back to requests that ran (reliability.py:16-149, dispatcher.py:368- *)
(* 466).                                                                     *)
THEOREM IInvHolds == Spec => []IInv
  BY InitEstablishes, NextPreserves, PTL DEF Spec

(* Whatever the limits, crashes and overlaps, a successful answer is the   *)
(* result of a request with the same key and call whose handler returned   *)
(* (dispatcher.py:390-398, reliability.py:47-58).                          *)
THEOREM AnswersAreFaithful == Spec => []ReplayFaithful
  <1>1. IInv => ReplayFaithful
    BY DEF IInv, RepliesLinked, ReplayFaithful
  <1>2. QED
    BY <1>1, IInvHolds, PTL

(* A key acts twice only after a handler of it raised, was cut short by a  *)
(* crash or overlapped another, or its record was not saved, expired, was  *)
(* displaced by a limit, or went with a file that could not be read        *)
(* (reliability.py:60-149).                                                *)
THEOREM NoOtherSecondEffect == Spec => []SecondEffectOnlyInDoubt
  <1>1. IInv => SecondEffectOnlyInDoubt
    BY DEF IInv
  <1>2. QED
    BY <1>1, IInvHolds, PTL

(* Within the session that ran a call its result is never shrunk           *)
(* (reliability.py:106-117 shrinks only what goes to the file).            *)
THEOREM ResultsStayWhole == Spec => []WholeUntilRestart
  <1>1. IInv => WholeUntilRestart
    BY DEF IInv
  <1>2. QED
    BY <1>1, IInvHolds, PTL
-----------------------------------------------------------------------------
(* The limit on entries holds because no two entries share a stamp: an   *)
(* OrderedDict has one order, and Newest counts who comes later in it.   *)
Stamped(set, top) ==
    /\ IsFiniteSet(set)
    /\ \A e \in set : e \in Entry /\ e.used <= top
    /\ \A e, f \in set : e.used = f.used => e = f
Bounded(set, top) == Stamped(set, top) /\ Cardinality(set) <= MaxEntries

LimitsInv ==
    /\ clock \in Nat
    /\ Bounded(entries, clock) /\ Bounded(stored, clock)
    /\ crashes \in 0..MaxCrashes /\ doubtful \subseteq Keys

LEMMA PartStamped ==
    ASSUME NEW set, NEW top \in Nat, Stamped(set, top), NEW part \in SUBSET set
    PROVE  Stamped(part, top) /\ Cardinality(part) <= Cardinality(set)
  BY FS_Subset DEF Stamped

LEMMA PartBounded ==
    ASSUME NEW set, NEW top \in Nat, Bounded(set, top), NEW part \in SUBSET set
    PROVE  Bounded(part, top)
  <1>1. /\ Stamped(part, top) /\ Cardinality(part) <= Cardinality(set)
        /\ IsFiniteSet(part) /\ IsFiniteSet(set)
    BY PartStamped DEF Bounded, Stamped
  <1>2. Cardinality(part) \in Nat /\ Cardinality(set) \in Nat
    BY <1>1, FS_CardinalityType
  <1>3. QED
    BY <1>1, <1>2, DispatchAssumption DEF Bounded

LEMMA StampedLater ==
    ASSUME NEW set, NEW top \in Nat, Stamped(set, top)
    PROVE  Stamped(set, top + 1)
  <1>1. \A e \in set : e.used \in Nat
    BY DEF Stamped, Entry
  <1>2. QED
    BY <1>1 DEF Stamped

(* Of entries with different stamps, at most `limit' have fewer than `limit' *)
(* later ones: counting the later ones tells them apart.                     *)
LEMMA NewestBounded ==
    ASSUME NEW set, NEW top \in Nat, Stamped(set, top), NEW limit \in Nat \ {0}
    PROVE  Stamped(Newest(limit, set), top) /\ Cardinality(Newest(limit, set)) <= limit
  <1> DEFINE Later(e) == {f \in set : f.used > e.used}
             rank == [e \in Newest(limit, set) |-> Cardinality(Later(e))]
  <1>1. Newest(limit, set) \subseteq set
    BY DEF Newest
  <1>2. Stamped(Newest(limit, set), top)
    BY <1>1, PartStamped
  <1>3. \A e \in set : IsFiniteSet(Later(e)) /\ Cardinality(Later(e)) \in Nat
    <2>1. \A e \in set : IsFiniteSet(Later(e))
      BY FS_Subset DEF Stamped
    <2>2. QED
      BY <2>1, FS_CardinalityType
  <1>4. \A e \in Newest(limit, set) : Cardinality(Later(e)) \in 0..(limit - 1)
    <2>1. \A e \in Newest(limit, set) : Cardinality(Later(e)) < limit
      BY DEF Newest
    <2>2. \A k \in Nat : k < limit => k \in 0..(limit - 1)
      OBVIOUS
    <2>3. QED
      BY <1>1, <1>3, <2>1, <2>2 DEF Newest
  <1>5. ASSUME NEW e \in set, NEW f \in set, e.used < f.used
        PROVE  Cardinality(Later(e)) # Cardinality(Later(f))
    <2>1. e.used \in Nat /\ f.used \in Nat /\ \A g \in set : g.used \in Nat
      BY DEF Stamped, Entry
    <2>2. Later(f) \subseteq Later(e)
      BY <1>5, <2>1
    <2>3. f \in Later(e) /\ f \notin Later(f)
      BY <1>5, <2>1
    <2>4. QED
      BY <1>3, <2>2, <2>3, FS_Subset
  <1>6. rank \in Injection(Newest(limit, set), 0..(limit - 1))
    <2>1. rank \in [Newest(limit, set) -> 0..(limit - 1)]
      BY <1>4
    <2>2. ASSUME NEW e \in Newest(limit, set), NEW f \in Newest(limit, set), rank[e] = rank[f]
          PROVE  e = f
      <3>1. Cardinality(Later(e)) = Cardinality(Later(f)) /\ e \in set /\ f \in set
        BY <1>1, <2>2
      <3>2. ~(e.used < f.used) /\ ~(f.used < e.used)
        BY <1>5, <3>1
      <3>3. e.used \in Nat /\ f.used \in Nat
        BY <3>1 DEF Stamped, Entry
      <3>4. e.used = f.used
        BY <3>2, <3>3
      <3>5. QED
        BY <3>1, <3>4 DEF Stamped
    <2>3. QED
      BY <2>1, <2>2 DEF Injection, IsInjective
  <1>7. IsFiniteSet(0..(limit - 1)) /\ Cardinality(0..(limit - 1)) = limit
    BY FS_Interval
  <1>8. Cardinality(Newest(limit, set)) <= Cardinality(0..(limit - 1))
    BY <1>6, <1>7, FS_Injection
  <1>9. QED
    BY <1>2, <1>7, <1>8

(* Saving writes no more entries than there are, each with its stamp. *)
LEMMA PersistBounded ==
    ASSUME NEW set, NEW top \in Nat, Bounded(set, top)
    PROVE  Bounded(Persist(set), top)
  <1> DEFINE newest == Newest(MaxStored, set)
             copy == [e \in newest |-> Shrunk(e)]
  <1>1. Bounded(newest, top)
    BY PartBounded DEF Newest
  <1>2. \A e \in newest : Shrunk(e) \in Entry /\ Shrunk(e).used = e.used
    BY <1>1 DEF Bounded, Stamped, Shrunk, Entry
  <1>3. copy \in Surjection(newest, Persist(set))
    BY DEF Persist, Surjection
  <1>4. IsFiniteSet(Persist(set)) /\ Cardinality(Persist(set)) <= Cardinality(newest)
    BY <1>1, <1>3, FS_Surjection DEF Bounded, Stamped
  <1>5. \A p \in Persist(set) : \E e \in newest : p = Shrunk(e)
    BY DEF Persist
  <1>6. Stamped(Persist(set), top)
    BY <1>1, <1>2, <1>4, <1>5 DEF Bounded, Stamped
  <1>7. Cardinality(Persist(set)) \in Nat /\ Cardinality(newest) \in Nat
    BY <1>1, <1>4, FS_CardinalityType DEF Bounded, Stamped
  <1>8. QED
    BY <1>1, <1>4, <1>6, <1>7, DispatchAssumption DEF Bounded

LEMMA LiveBounded ==
    ASSUME LimitsInv
    PROVE  /\ Bounded(Live, clock) /\ Bounded(Persist(Live), clock)
           /\ Bounded(IF Live = entries THEN stored ELSE Persist(Live), clock)
           /\ KeysOf(entries) \subseteq Keys /\ KeysOf(stored) \subseteq Keys
           /\ Pruned \subseteq Keys
  <1>1. Live \subseteq entries
    BY DEF Live, Fresh
  <1>2. Bounded(Live, clock) /\ Bounded(Persist(Live), clock)
    BY <1>1, PartBounded, PersistBounded DEF LimitsInv
  <1>3. \A e \in entries \union stored : e.key \in Keys
    BY DEF LimitsInv, Bounded, Stamped, Entry
  <1>4. KeysOf(entries) \subseteq Keys /\ KeysOf(stored) \subseteq Keys
    BY <1>3 DEF KeysOf
  <1>5. Pruned \subseteq Keys
    BY <1>1, <1>3 DEF Pruned, NotStored, KeysOf
  <1>6. QED
    BY <1>2, <1>4, <1>5 DEF LimitsInv

LEMMA KeptBounded ==
    ASSUME LimitsInv, IInv, frames # <<>>
    PROVE  /\ Bounded(Kept, clock + 1) /\ Bounded(Persist(Kept), clock + 1)
           /\ Top.key \in Keys /\ Evicted \subseteq Keys /\ NotStored(Kept) \subseteq Keys
  <1> DEFINE before == Others \union {NewEntry}
  <1>1. /\ Top \in Frame /\ NewEntry \in Entry /\ Kept \subseteq Entry
    BY KeptEntries DEF IInv
  <1>2. Others \subseteq Live /\ clock \in Nat
    BY DEF Others, LimitsInv
  <1>3. Stamped(Others, clock)
    BY <1>2, LiveBounded, PartStamped DEF Bounded
  <1>4. NewEntry.used = clock + 1
    BY DEF NewEntry
  <1>5. \A e \in Others : e \in Entry /\ e.used \in Nat /\ e.used <= clock
    BY <1>3 DEF Stamped, Entry
  <1>6. Stamped(before, clock + 1)
    <2>1. IsFiniteSet(before)
      BY <1>3, FS_AddElement DEF Stamped
    <2>2. \A e \in before : e \in Entry /\ e.used <= clock + 1
      BY <1>1, <1>2, <1>4, <1>5
    <2>3. \A e, f \in before : e.used = f.used => e = f
      <3>1. \A e, f \in Others : e.used = f.used => e = f
        BY <1>3 DEF Stamped
      <3>2. \A e \in Others : e.used # clock + 1
        BY <1>2, <1>5
      <3>3. QED
        BY <1>4, <3>1, <3>2
    <2>4. QED
      BY <2>1, <2>2, <2>3 DEF Stamped
  <1>7. clock + 1 \in Nat
    BY <1>2
  <1>8. Bounded(Kept, clock + 1)
    BY <1>6, <1>7, NewestBounded, DispatchAssumption DEF Kept, Bounded
  <1>9. Bounded(Persist(Kept), clock + 1)
    BY <1>7, <1>8, PersistBounded
  <1>10. Top.key \in Keys /\ \A e \in before : e.key \in Keys
    BY <1>1, <1>5 DEF Frame, Entry
  <1>11. Kept \subseteq before
    BY DEF Kept, Newest
  <1>12. Evicted \subseteq Keys /\ NotStored(Kept) \subseteq Keys
    BY <1>10, <1>11 DEF Evicted, NotStored, KeysOf
  <1>13. QED
    BY <1>8, <1>9, <1>10, <1>12

LEMMA InitEstablishesLimits == Init => LimitsInv
  <1> SUFFICES ASSUME Init PROVE LimitsInv
    OBVIOUS
  <1>1. IsFiniteSet({}) /\ Cardinality({}) = 0
    BY FS_EmptySet
  <1>2. Bounded({}, 0)
    BY <1>1, DispatchAssumption DEF Bounded, Stamped
  <1>3. QED
    BY <1>2, DispatchAssumption DEF Init, LimitsInv

LEMMA BoundedLater ==
    ASSUME NEW set, NEW top \in Nat, Bounded(set, top)
    PROVE  Bounded(set, top + 1)
  BY StampedLater DEF Bounded

(* A replay moves one entry to the end of the order. *)
LEMMA ReplayedBounded ==
    ASSUME LimitsInv, NEW e \in Live
    PROVE  Bounded((Live \ {e}) \union {[e EXCEPT !.used = clock + 1]}, clock + 1)
  <1> DEFINE moved == [e EXCEPT !.used = clock + 1]
             others == Live \ {e}
  <1>1. Bounded(Live, clock) /\ clock \in Nat /\ e \in Entry
    BY LiveBounded DEF LimitsInv, Bounded, Stamped
  <1>2. Stamped(others, clock) /\ IsFiniteSet(Live)
    BY <1>1, PartStamped DEF Bounded, Stamped
  <1>3. moved \in Entry /\ moved.used = clock + 1
    BY <1>1 DEF Entry
  <1>4. \A f \in others : f \in Entry /\ f.used \in Nat /\ f.used <= clock
    BY <1>2 DEF Stamped, Entry
  <1> HIDE DEF moved, others
  <1>5. moved \notin others
    BY <1>1, <1>3, <1>4
  <1>6. IsFiniteSet(others) /\ Cardinality(others) = Cardinality(Live) - 1
    BY <1>2, FS_RemoveElement DEF others
  <1>7. /\ IsFiniteSet(others \union {moved})
        /\ Cardinality(others \union {moved}) = Cardinality(others) + 1
    BY <1>5, <1>6, FS_AddElement
  <1>8. Cardinality(others \union {moved}) <= MaxEntries
    <2>1. Cardinality(Live) \in Nat /\ Cardinality(Live) <= MaxEntries
      BY <1>1, <1>2, FS_CardinalityType DEF Bounded
    <2>2. QED
      BY <1>6, <1>7, <2>1
  <1>9. \A f \in others \union {moved} : f \in Entry /\ f.used <= clock + 1
    BY <1>1, <1>3, <1>4
  <1>10. \A f, g \in others \union {moved} : f.used = g.used => f = g
    <2>1. \A f, g \in others : f.used = g.used => f = g
      BY <1>2 DEF Stamped
    <2>2. \A f \in others : f.used # clock + 1
      BY <1>1, <1>4
    <2>3. QED
      BY <1>3, <2>1, <2>2
  <1>11. QED
    BY <1>7, <1>8, <1>9, <1>10 DEF Bounded, Stamped, moved, others
-----------------------------------------------------------------------------
LEMMA NextKeepsLimits == IInv /\ LimitsInv /\ [Next]_vars => LimitsInv'
  <1> SUFFICES ASSUME IInv, LimitsInv, [Next]_vars PROVE LimitsInv'
    OBVIOUS
  <1>0. /\ clock \in Nat /\ Bounded(entries, clock) /\ Bounded(stored, clock)
        /\ crashes \in 0..MaxCrashes /\ doubtful \subseteq Keys
        /\ Bounded({}, clock)
    <2>1. \A set : {} \in SUBSET set
      OBVIOUS
    <2>2. QED
      BY <2>1, PartBounded DEF LimitsInv
  <1>1. \A i \in DOMAIN frames : frames[i].key \in Keys
    <2>1. \A i \in DOMAIN frames : frames[i] \in Frame
      BY DEF IInv, Typed
    <2>2. QED
      BY <2>1 DEF Frame
  <1>2. ASSUME NEW key \in Keys, NEW call \in Calls, Refuse(key, call) PROVE LimitsInv'
    <2>1. /\ entries' = Live /\ clock' = clock /\ crashes' = crashes
          /\ stored' = IF Live = entries THEN stored ELSE Persist(Live)
          /\ doubtful' \subseteq doubtful \union Pruned
      BY <1>2 DEF Refuse, LookupPrunes, SavePruned
    <2>2. QED
      BY <1>0, <2>1, LiveBounded DEF LimitsInv
  <1>3. ASSUME NEW key \in Keys, NEW call \in Calls, Replay(key, call) PROVE LimitsInv'
    <2>1. /\ clock' = clock + 1 /\ crashes' = crashes
          /\ stored' = IF Live = entries THEN stored ELSE Persist(Live)
          /\ doubtful' \subseteq doubtful \union Pruned
      BY <1>3 DEF Replay, LookupPrunes, SavePruned
    <2>2. PICK e \in Live :
            entries' = (Live \ {e}) \union {[e EXCEPT !.used = clock + 1]}
      BY <1>3 DEF Replay
    <2>3. Bounded(entries', clock + 1)
      BY <2>2, ReplayedBounded
    <2>4. Bounded(stored', clock + 1)
      BY <1>0, <2>1, LiveBounded, BoundedLater
    <2>5. QED
      BY <1>0, <2>1, <2>3, <2>4, LiveBounded DEF LimitsInv
  <1>4. ASSUME NEW key \in Keys, NEW call \in Calls, Execute(key, call) PROVE LimitsInv'
    <2>1. /\ entries' = Live /\ clock' = clock /\ crashes' = crashes
          /\ stored' = IF Live = entries THEN stored ELSE Persist(Live)
          /\ doubtful' \subseteq doubtful \union Pruned \union {key}
      BY <1>4 DEF Execute, SavePruned
    <2>2. QED
      BY <1>0, <2>1, LiveBounded DEF LimitsInv
  <1>5. CASE PruneRaises
    <2>1. /\ entries' = Live /\ clock' = clock /\ crashes' = crashes /\ stored' = stored
          /\ doubtful' \subseteq doubtful \union Pruned
      BY <1>5 DEF PruneRaises, Pruned
    <2>2. QED
      BY <1>0, <2>1, LiveBounded DEF LimitsInv
  <1>6. CASE Return
    <2>1. /\ frames # <<>> /\ entries' = Kept /\ stored' = Persist(Kept)
          /\ clock' = clock + 1 /\ crashes' = crashes
          /\ doubtful' = doubtful \union Pruned \union Evicted \union NotStored(Kept)
      BY <1>6 DEF Return, Leaves, AfterSave
    <2>2. QED
      BY <1>0, <2>1, LiveBounded, KeptBounded DEF LimitsInv
  <1>7. CASE ReturnUnsaved
    <2>1. /\ frames # <<>> /\ crashes' = crashes
          /\ doubtful' = doubtful \union Pruned \union Evicted \union {Top.key}
          /\ \/ entries' = Live /\ stored' = stored /\ clock' = clock
             \/ /\ entries' = Kept /\ clock' = clock + 1
                /\ stored' = IF Live = entries THEN stored ELSE Persist(Live)
      BY <1>7 DEF ReturnUnsaved, Leaves, SavePruned
    <2>2. doubtful' \subseteq Keys
      BY <1>0, <2>1, LiveBounded, KeptBounded
    <2>3. CASE entries' = Live /\ stored' = stored /\ clock' = clock
      BY <1>0, <2>1, <2>2, <2>3, LiveBounded DEF LimitsInv
    <2>4. CASE /\ entries' = Kept /\ clock' = clock + 1
               /\ stored' = IF Live = entries THEN stored ELSE Persist(Live)
      <3>1. Bounded(stored', clock + 1)
        BY <1>0, <2>4, LiveBounded, BoundedLater
      <3>2. QED
        BY <1>0, <2>1, <2>2, <2>4, <3>1, KeptBounded DEF LimitsInv
    <2>5. QED
      BY <2>1, <2>3, <2>4
  <1>8. CASE Raise
    <2>1. /\ frames # <<>> /\ UNCHANGED <<entries, stored, clock, crashes>>
          /\ doubtful' = doubtful \union {Top.key}
      BY <1>8 DEF Raise, Leaves, guard
    <2>2. QED
      BY <1>0, <2>1, KeptBounded DEF LimitsInv
  <1>9. CASE Expire
    BY <1>0, <1>9 DEF Expire, guard, LimitsInv
  <1>10. CASE Crash
    <2>1. /\ entries' = {} /\ UNCHANGED <<stored, clock>> /\ crashes' \in 0..MaxCrashes
      BY <1>0, <1>10, DispatchAssumption DEF Crash
    <2>2. doubtful' \subseteq Keys
      BY <1>0, <1>1, <1>10 DEF Crash
    <2>3. QED
      BY <1>0, <2>1, <2>2 DEF LimitsInv
  <1>11. CASE Restart
    <2> DEFINE live == Fresh(stored)
    <2>1. /\ UNCHANGED <<clock, crashes>>
          /\ entries' = live \/ entries' = {}
          /\ stored' = stored \/ stored' = Persist(live)
          /\ doubtful' \subseteq doubtful \union KeysOf(stored)
      BY <1>11 DEF Restart, Load, LoadNothing, Fresh, KeysOf, NotStored
    <2>2. Bounded(live, clock) /\ Bounded(Persist(live), clock) /\ Bounded({}, clock)
      BY <1>0, PartBounded, PersistBounded DEF Fresh
    <2>3. QED
      BY <1>0, <2>1, <2>2, LiveBounded DEF LimitsInv
  <1>12. CASE UNCHANGED vars
    BY <1>0, <1>12 DEF vars, LimitsInv
  <1>13. QED
    BY <1>2, <1>3, <1>4, <1>5, <1>6, <1>7, <1>8, <1>9, <1>10, <1>11, <1>12
    DEF Next, Dispatch

(* The memory and the file never hold more than max_entries results, and *)
(* every variable keeps its type, whatever expires, crashes or overlaps  *)
(* (reliability.py:60-82, 135-149).                                      *)
THEOREM GuardStaysWithinLimits == Spec => []TypeOK
  <1>1. IInv /\ LimitsInv => TypeOK
    BY DEF IInv, Typed, LimitsInv, Bounded, TypeOK
  <1>2. Spec => []LimitsInv
    BY InitEstablishesLimits, NextKeepsLimits, IInvHolds, PTL DEF Spec
  <1>3. QED
    BY <1>1, <1>2, IInvHolds, PTL
=============================================================================
