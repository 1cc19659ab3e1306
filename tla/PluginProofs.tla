------------------------------- MODULE PluginProofs -------------------------------
(***************************************************************************)
(* The parts of the plugin behind the dispatcher. A client that follows    *)
(* the layers by deltas has them as they are, for any number of layers and *)
(* any length of the log of changes. What a client reads of a Processing   *)
(* operation is what became of it, for any number of operations that write *)
(* the same file at the same time. A 3D view is found under the name that  *)
(* was asked for, for any number of names and windows. What was handed out *)
(* is still stored, for any limits of the stores. The handlers are looked  *)
(* at script by script: each ends what it begins and touches after its     *)
(* last change. The proofs of a part are about its own specification; the  *)
(* last theorems put the parts together.                                   *)
(***************************************************************************)
EXTENDS MCPlugin, FiniteSetTheorems, SequenceTheorems, WellFoundedInduction, TLAPS

(* ------------------------------ state tracker ------------------------------ *)

Entries == [revision : Nat, removed : SUBSET Layers]
Looked == Tracker!Looks \cup {Tracker!Absent}

TrackerTyped ==
    /\ content \in [Layers -> Looked]
    /\ revision \in 0..MaxRevision
    /\ layerRevision \in [Layers -> 0..revision]
    /\ changes \in Seq(Entries) /\ Len(changes) <= MaxChanges
    /\ summaries \in [Layers -> Int \X Looked]
    /\ base \in -1..revision
    /\ view \in [Layers -> Looked]
    /\ untold \subseteq Layers

\* The revision of the newest change that is out of the log, or before any.
Forgotten == revision - Len(changes)

\* The log ends with the last revision and has every one since its first.
LogIsDense ==
    /\ Forgotten >= 0
    /\ Len(changes) = 0 => revision = 0
    /\ \A i \in 1..Len(changes) : changes[i].revision = Forgotten + i

\* Who removes a layer bumps its revision.
RemovedIsBumped ==
    \A i \in 1..Len(changes) : \A l \in changes[i].removed : changes[i].revision <= layerRevision[l]

\* The client has seen the summaries that hit, or has lost the layer since; they
\* are the content, unless it is untold.
HitsAreSeen ==
    \A l \in Layers : Tracker!Hit(l) =>
        /\ layerRevision[l] <= base
        /\ view[l] \in {summaries[l][2], Tracker!Absent}
        /\ content[l] # Tracker!Absent => summaries[l][2] = content[l] \/ l \in untold

\* What the client has not got right is bumped since its last snapshot.
WrongIsBumped ==
    base >= 0 => \A l \in Layers \ untold : view[l] = content[l] \/ layerRevision[l] > base

\* A layer that is gone was last bumped by its removal.
GoneIsLogged ==
    \A l \in Layers \ untold :
        content[l] = Tracker!Absent /\ layerRevision[l] > base /\ layerRevision[l] > Forgotten =>
            layerRevision[l] = 0 \/ l \in changes[layerRevision[l] - Forgotten].removed

TrackerInv ==
    /\ TrackerTyped /\ LogIsDense /\ RemovedIsBumped /\ HitsAreSeen /\ WrongIsBumped
    /\ GoneIsLogged

LEMMA TrackerInitKeeps == Tracker!Init => TrackerInv
<1> SUFFICES ASSUME Tracker!Init PROVE TrackerInv
  OBVIOUS
<1>1. TrackerTyped
  BY PluginAssumption DEF Tracker!Init, TrackerTyped, Looked, Tracker!Looks, Tracker!Absent,
     Tracker!NoSummary, Tracker!Never
<1>2. changes = <<>> /\ Len(changes) = 0 /\ revision = 0 /\ base = -1
      /\ \A l \in Layers : layerRevision[l] = 0 /\ summaries[l] = <<-1, Tracker!Absent>>
  BY DEF Tracker!Init, Tracker!NoSummary, Tracker!Never
<1>3. LogIsDense /\ RemovedIsBumped
  BY <1>2 DEF LogIsDense, RemovedIsBumped, Forgotten
<1>4. HitsAreSeen /\ WrongIsBumped /\ GoneIsLogged
  BY <1>2 DEF HitsAreSeen, Tracker!Hit, WrongIsBumped, GoneIsLogged
<1> QED BY <1>1, <1>3, <1>4 DEF TrackerInv

\* What a touch does to the log, the revisions and the summaries.
Logged(named, removed, dropped) ==
    /\ revision \in Nat /\ revision' = revision + 1 /\ revision' <= MaxRevision
    /\ changes' \in Seq(Entries) /\ Len(changes') <= MaxChanges /\ Len(changes') \in Nat
    /\ Len(changes') >= 1
    /\ changes'[Len(changes')] = [revision |-> revision + 1, removed |-> removed]
    /\ \E k \in {0, 1} :
         /\ Len(changes') = Len(changes) + 1 - k /\ Forgotten' = Forgotten + k
         /\ \A i \in 1..(Len(changes') - 1) :
              i + k \in 1..Len(changes) /\ changes'[i] = changes[i + k]
    /\ layerRevision' = [l \in Layers |-> IF l \in named THEN revision + 1
                                          ELSE layerRevision[l]]
    /\ summaries' = [l \in Layers |-> IF l \in dropped THEN <<-1, Tracker!Absent>>
                                      ELSE summaries[l]]

LEMMA TouchLogs ==
    ASSUME TrackerInv, NEW named \in SUBSET Layers, NEW removed \in SUBSET named,
           NEW dropped \in SUBSET Layers, Tracker!Touch(named, removed, dropped)
    PROVE  Logged(named, removed, dropped)
<1> DEFINE entry == [revision |-> revision + 1, removed |-> removed]
           log == Append(changes, entry)
<1>1. /\ revision \in Nat /\ changes \in Seq(Entries) /\ Len(changes) <= MaxChanges
      /\ Len(changes) \in Nat /\ MaxChanges \in Nat \ {0} /\ MaxRevision \in Nat
      /\ entry \in Entries
  BY PluginAssumption DEF TrackerInv, TrackerTyped, Entries
<1>2. /\ revision' = revision + 1 /\ revision' <= MaxRevision
      /\ changes' = (IF Len(log) > MaxChanges THEN Tail(log) ELSE log)
      /\ layerRevision' = [l \in Layers |-> IF l \in named THEN revision + 1
                                            ELSE layerRevision[l]]
      /\ summaries' = [l \in Layers |-> IF l \in dropped THEN <<-1, Tracker!Absent>>
                                        ELSE summaries[l]]
  BY <1>1 DEF Tracker!Touch, Tracker!Bump, Tracker!Newest, Tracker!NoSummary
<1> HIDE DEF entry
<1>3. /\ log \in Seq(Entries) /\ Len(log) = Len(changes) + 1 /\ log[Len(log)] = entry
      /\ \A i \in 1..Len(changes) : log[i] = changes[i]
  BY <1>1
<1> HIDE DEF log
<1>4. CASE Len(log) > MaxChanges
  <2>1. /\ Tail(log) \in Seq(Entries) /\ Len(Tail(log)) = Len(log) - 1
        /\ \A i \in 1..Len(Tail(log)) : Tail(log)[i] = log[i + 1]
    <3>1. log # <<>>
      BY <1>1, <1>3
    <3> QED BY <3>1, <1>3, HeadTailProperties
  <2>6. changes' = Tail(log)
    BY <1>2, <1>4
  <2>7. Len(changes') = Len(changes)
    BY <1>1, <1>3, <2>1, <2>6
  <2>2. Len(changes') = Len(changes) + 1 - 1 /\ Forgotten' = Forgotten + 1
    <3>1. Forgotten' = revision' - Len(changes') /\ Forgotten = revision - Len(changes)
      BY DEF Forgotten
    <3>2. revision' = revision + 1
      BY <1>2
    <3> QED BY <1>1, <2>7, <3>1, <3>2
  <2>3. Len(changes) >= 1
    BY <1>1, <1>3, <1>4
  <2>4. changes'[Len(changes')] = entry
    BY <1>1, <1>3, <2>1, <2>3, <2>6, <2>7
  <2>5. \A i \in 1..(Len(changes') - 1) : i + 1 \in 1..Len(changes) /\ changes'[i] = changes[i + 1]
    BY <1>1, <1>3, <2>1, <2>6, <2>7
  <2>8. /\ changes' \in Seq(Entries) /\ Len(changes') <= MaxChanges /\ Len(changes') \in Nat
        /\ Len(changes') >= 1
    BY <1>1, <2>1, <2>3, <2>6, <2>7
  <2> QED BY <1>1, <1>2, <2>2, <2>4, <2>5, <2>8 DEF entry, Logged
<1>5. CASE ~(Len(log) > MaxChanges)
  <2>1. Len(changes') = Len(changes) + 1 /\ Forgotten' = Forgotten
    BY <1>1, <1>2, <1>3, <1>5 DEF Forgotten
  <2>2. changes'[Len(changes')] = entry
    BY <1>2, <1>3, <1>5
  <2>3. \A i \in 1..(Len(changes') - 1) : i + 0 \in 1..Len(changes) /\ changes'[i] = changes[i + 0]
    BY <1>1, <1>2, <1>3, <1>5, <2>1
  <2>4. changes' = log /\ Len(changes') <= MaxChanges
    BY <1>1, <1>2, <1>3, <1>5
  <2>5. Forgotten' = Forgotten + 0 /\ Len(changes') = Len(changes) + 1 - 0 /\ Len(changes') >= 1
    BY <1>1, <2>1 DEF TrackerInv, LogIsDense, Forgotten
  <2> QED BY <1>1, <1>2, <1>3, <2>2, <2>3, <2>4, <2>5 DEF entry, Logged
<1> QED BY <1>4, <1>5

\* A change of the content that a touch goes with: what it does not name, of the
\* layers whose content changes, is untold.
LEMMA TouchKeeps ==
    ASSUME TrackerInv, NEW named \in SUBSET Layers, NEW removed \in SUBSET named,
           NEW dropped \in SUBSET Layers, Tracker!Touch(named, removed, dropped),
           named \subseteq dropped, content' \in [Layers -> Looked],
           untold \subseteq untold', untold' \subseteq Layers,
           \A l \in Layers \ untold' : content'[l] # content[l] => l \in named,
           \A l \in named : content'[l] = Tracker!Absent => l \in removed,
           UNCHANGED <<base, view>>
    PROVE  TrackerInv'
<1>11. Logged(named, removed, dropped)
  BY TouchLogs
<1>1. /\ revision \in Nat /\ revision' = revision + 1 /\ revision' <= MaxRevision
      /\ changes' \in Seq(Entries) /\ Len(changes') <= MaxChanges /\ Len(changes') \in Nat
      /\ Len(changes') >= 1
      /\ changes'[Len(changes')] = [revision |-> revision + 1, removed |-> removed]
      /\ layerRevision' = [l \in Layers |-> IF l \in named THEN revision + 1
                                            ELSE layerRevision[l]]
      /\ summaries' = [l \in Layers |-> IF l \in dropped THEN <<-1, Tracker!Absent>>
                                        ELSE summaries[l]]
  BY <1>11 DEF Logged
<1>2. PICK k \in {0, 1} :
        /\ Len(changes') = Len(changes) + 1 - k /\ Forgotten' = Forgotten + k
        /\ \A i \in 1..(Len(changes') - 1) :
            i + k \in 1..Len(changes) /\ changes'[i] = changes[i + k]
  BY <1>11 DEF Logged
<1>3. /\ layerRevision \in [Layers -> 0..revision] /\ base \in -1..revision /\ MaxRevision \in Nat
      /\ Len(changes) \in Nat /\ Forgotten \in Int /\ Forgotten = revision - Len(changes)
      /\ k \in Nat /\ Forgotten' \in Int /\ Forgotten' + Len(changes') = revision + 1
  <2>1. /\ layerRevision \in [Layers -> 0..revision] /\ base \in -1..revision /\ MaxRevision \in Nat
        /\ Len(changes) \in Nat
    BY PluginAssumption DEF TrackerInv, TrackerTyped
  <2>2. k \in Nat
    OBVIOUS
  <2>3. Forgotten' = revision' - Len(changes') /\ Forgotten = revision - Len(changes)
    BY DEF Forgotten
  <2>4. revision \in Nat /\ revision' = revision + 1 /\ Len(changes') \in Nat
    BY <1>1
  <2> QED BY <2>1, <2>2, <2>3, <2>4
<1>4. TrackerTyped'
  <2>1. layerRevision' \in [Layers -> 0..revision']
    BY <1>1, <1>3
  <2>2. summaries' \in [Layers -> Int \X Looked]
    BY <1>1 DEF TrackerInv, TrackerTyped, Looked
  <2>3. revision' \in 0..MaxRevision /\ base' \in -1..revision'
    BY <1>1, <1>3
  <2> QED BY <1>1, <2>1, <2>2, <2>3 DEF TrackerInv, TrackerTyped
<1>5. LogIsDense'
  <2>1. Forgotten' >= 0 /\ Len(changes') # 0
    <3>1. Forgotten >= 0
      BY DEF TrackerInv, LogIsDense
    <3> QED BY <3>1, <1>1, <1>2, <1>3
  <2>2. ASSUME NEW i \in 1..Len(changes')
        PROVE  changes'[i].revision = Forgotten' + i
    <3>1. CASE i = Len(changes')
      <4>1. Forgotten' + i = revision + 1
        BY <3>1, <1>3
      <4> QED BY <4>1, <3>1, <1>1
    <3>2. CASE i # Len(changes')
      <4>1. i \in 1..(Len(changes') - 1)
        BY <3>2, <1>1
      <4>2. i + k \in 1..Len(changes) /\ changes'[i] = changes[i + k]
        BY <4>1, <1>2
      <4>3. changes'[i].revision = Forgotten + (i + k)
        BY <4>2 DEF TrackerInv, LogIsDense
      <4> QED BY <4>3, <1>2, <1>3
    <3> QED BY <3>1, <3>2
  <2> QED BY <2>1, <2>2 DEF LogIsDense
<1>6. \A l \in Layers : layerRevision[l] <= layerRevision'[l]
  BY <1>1, <1>3
<1>7. RemovedIsBumped'
  <2> SUFFICES ASSUME NEW i \in 1..Len(changes'), NEW l \in changes'[i].removed
               PROVE  changes'[i].revision <= layerRevision'[l]
    BY DEF RemovedIsBumped
  <2>1. CASE i = Len(changes')
    BY <2>1, <1>1, <1>2
  <2>2. CASE i # Len(changes')
    <3>1. i \in 1..(Len(changes') - 1)
      BY <2>2, <1>1
    <3>2. i + k \in 1..Len(changes) /\ changes'[i] = changes[i + k]
      BY <3>1, <1>2
    <3>3. changes[i + k].revision <= layerRevision[l]
      BY <3>2 DEF TrackerInv, RemovedIsBumped
    <3>4. changes[i + k] \in Entries
      BY <3>2 DEF TrackerInv, TrackerTyped
    <3>5. l \in Layers /\ changes[i + k].revision \in Nat
      BY <3>2, <3>4 DEF Entries
    <3>6. layerRevision[l] \in Nat /\ layerRevision'[l] \in Nat
      BY <3>5, <1>1, <1>3
    <3> QED BY <3>2, <3>3, <3>5, <3>6, <1>6
  <2> QED BY <2>1, <2>2
<1>8. HitsAreSeen'
  <2> SUFFICES ASSUME NEW l \in Layers, summaries'[l][1] = layerRevision'[l]
               PROVE  /\ layerRevision'[l] <= base
                      /\ view[l] \in {summaries'[l][2], Tracker!Absent}
                      /\ content'[l] # Tracker!Absent =>
                           summaries'[l][2] = content'[l] \/ l \in untold'
    BY DEF HitsAreSeen, Tracker!Hit
  <2>1. l \notin dropped /\ l \notin named
    BY <1>1, <1>3
  <2>2. summaries'[l] = summaries[l] /\ layerRevision'[l] = layerRevision[l]
    BY <2>1, <1>1
  <2> QED BY <2>1, <2>2 DEF TrackerInv, HitsAreSeen, Tracker!Hit
<1>9. WrongIsBumped'
  <2> SUFFICES ASSUME base >= 0, NEW l \in Layers \ untold'
               PROVE  view[l] = content'[l] \/ layerRevision'[l] > base
    BY DEF WrongIsBumped
  <2>1. CASE l \in named
    BY <2>1, <1>1, <1>3
  <2>2. CASE l \notin named
    BY <2>2, <1>1 DEF TrackerInv, WrongIsBumped
  <2> QED BY <2>1, <2>2
<1>10. GoneIsLogged'
  <2> SUFFICES ASSUME NEW l \in Layers \ untold', content'[l] = Tracker!Absent,
                      layerRevision'[l] > base, layerRevision'[l] > Forgotten',
                      layerRevision'[l] # 0
               PROVE  l \in changes'[layerRevision'[l] - Forgotten'].removed
    BY DEF GoneIsLogged
  <2>1. CASE l \in named
    <3>1. layerRevision'[l] = revision + 1 /\ l \in removed
      BY <2>1, <1>1
    <3>2. layerRevision'[l] - Forgotten' = Len(changes')
      <4>1. ASSUME NEW a \in Int, NEW b \in Int, NEW c \in Int, a + b = c PROVE c - a = b
        BY <4>1
      <4>2. Forgotten' + Len(changes') = revision + 1 /\ Forgotten' \in Int
            /\ Len(changes') \in Int /\ revision + 1 \in Int
        BY <1>1, <1>3
      <4> QED BY <4>1, <4>2, <3>1
    <3> QED BY <3>1, <3>2, <1>1
  <2>2. CASE l \notin named
    <3>1. layerRevision'[l] = layerRevision[l] /\ content[l] = Tracker!Absent /\ l \notin untold
          /\ layerRevision[l] \in 0..revision
      BY <2>2, <1>1, <1>3
    <3>2. layerRevision[l] > Forgotten
      BY <3>1, <1>2, <1>3
    <3>3. l \in changes[layerRevision[l] - Forgotten].removed
      BY <3>1, <3>2 DEF TrackerInv, GoneIsLogged
    <3>4. layerRevision[l] - Forgotten' \in 1..(Len(changes') - 1)
      BY <3>1, <1>1, <1>2, <1>3
    <3>5. changes'[layerRevision[l] - Forgotten'] = changes[layerRevision[l] - Forgotten' + k]
      BY <3>4, <1>2
    <3>6. layerRevision[l] - Forgotten' + k = layerRevision[l] - Forgotten
      BY <3>1, <1>2, <1>3
    <3> QED BY <3>1, <3>3, <3>5, <3>6
  <2> QED BY <2>1, <2>2
<1> QED BY <1>4, <1>5, <1>7, <1>8, <1>9, <1>10 DEF TrackerInv

LEMMA LayersAddedKeeps ==
    ASSUME TrackerInv, NEW S \in SUBSET Layers, Tracker!LayersAdded(S)
    PROVE  TrackerInv'
<1>1. content' = [l \in Layers |-> IF l \in S THEN "new" ELSE content[l]] /\ UNCHANGED <<base, view>>
  BY DEF Tracker!LayersAdded
<1>2. PICK kept \in SUBSET S : Tracker!Touch(kept, {}, kept) /\ untold' = untold \cup (S \ kept)
  BY DEF Tracker!LayersAdded, Tracker!Listed
<1>3. content' \in [Layers -> Looked] /\ \A l \in S : content'[l] # Tracker!Absent
  BY <1>1 DEF TrackerInv, TrackerTyped, Looked, Tracker!Looks, Tracker!Absent
<1>4. untold \subseteq untold' /\ untold' \subseteq Layers
      /\ \A l \in Layers \ untold' : content'[l] # content[l] => l \in kept
  BY <1>1, <1>2 DEF TrackerInv, TrackerTyped
<1>5. kept \in SUBSET Layers /\ {} \in SUBSET kept /\ \A l \in kept : content'[l] # Tracker!Absent
  BY <1>3
<1> QED BY <1>1, <1>2, <1>3, <1>4, <1>5, TouchKeeps

LEMMA LayersRemovedKeeps ==
    ASSUME TrackerInv, NEW S \in SUBSET Layers, Tracker!LayersRemoved(S)
    PROVE  TrackerInv'
<1>1. content' = [l \in Layers |-> IF l \in S THEN Tracker!Absent ELSE content[l]]
      /\ UNCHANGED <<base, view>>
  BY DEF Tracker!LayersRemoved
<1>2. PICK kept \in SUBSET S : Tracker!Touch(kept, kept, kept) /\ untold' = untold \cup (S \ kept)
  BY DEF Tracker!LayersRemoved, Tracker!Listed
<1>3. content' \in [Layers -> Looked]
  BY <1>1 DEF TrackerInv, TrackerTyped, Looked
<1>4. untold \subseteq untold' /\ untold' \subseteq Layers
      /\ \A l \in Layers \ untold' : content'[l] # content[l] => l \in kept
  BY <1>1, <1>2 DEF TrackerInv, TrackerTyped
<1>5. kept \in SUBSET Layers /\ kept \in SUBSET kept
  OBVIOUS
<1> QED BY <1>1, <1>2, <1>3, <1>4, <1>5, TouchKeeps

\* An edit shows, and only at its layer.
LEMMA EditShows ==
    ASSUME TrackerInv, NEW l \in Layers, l \in Tracker!Present, content' = Tracker!Edited(l)
    PROVE  /\ content' \in [Layers -> Looked] /\ content'[l] # Tracker!Absent
           /\ content[l] # Tracker!Absent
           /\ \A m \in Layers : m # l => content'[m] = content[m]
<1>1. content[l] \in Tracker!Looks
  BY DEF Tracker!Present, TrackerInv, TrackerTyped, Looked
<1>2. Tracker!Other(content[l]) \in Tracker!Looks
  BY <1>1 DEF Tracker!Other, Tracker!Looks
<1>3. content' = [content EXCEPT ![l] = Tracker!Other(content[l])]
  BY DEF Tracker!Edited
<1>4. Tracker!Absent \notin Tracker!Looks
  BY DEF Tracker!Absent, Tracker!Looks
<1> QED BY <1>1, <1>2, <1>3, <1>4 DEF TrackerInv, TrackerTyped, Looked

LEMMA LayerChangedKeeps ==
    ASSUME TrackerInv, NEW l \in Layers, Tracker!LayerChanged(l)
    PROVE  TrackerInv'
<1>1. l \in Tracker!Present /\ content' = Tracker!Edited(l) /\ Tracker!Touch({l}, {}, {l})
      /\ UNCHANGED <<base, view, untold>>
  BY DEF Tracker!LayerChanged
<1>2. /\ content' \in [Layers -> Looked] /\ content'[l] # Tracker!Absent
      /\ \A m \in Layers : m # l => content'[m] = content[m]
  BY <1>1, EditShows
<1>3. untold \subseteq untold' /\ untold' \subseteq Layers
  BY <1>1 DEF TrackerInv, TrackerTyped
<1>4. {l} \in SUBSET Layers /\ {} \in SUBSET {l}
  OBVIOUS
<1> QED BY <1>1, <1>2, <1>3, <1>4, TouchKeeps

LEMMA ChangedByNameKeeps ==
    ASSUME TrackerInv, NEW l \in Layers, Tracker!ChangedByName(l)
    PROVE  TrackerInv'
<1>1. l \in Tracker!Present /\ content' = Tracker!Edited(l) /\ Tracker!Touch({}, {}, {})
      /\ untold' = untold \cup {l} /\ UNCHANGED <<base, view>>
  BY DEF Tracker!ChangedByName
<1>2. /\ content' \in [Layers -> Looked]
      /\ \A m \in Layers : m # l => content'[m] = content[m]
  BY <1>1, EditShows
<1>3. untold \subseteq untold' /\ untold' \subseteq Layers
      /\ \A m \in Layers \ untold' : content'[m] # content[m] => m \in {}
  BY <1>1, <1>2 DEF TrackerInv, TrackerTyped
<1>4. {} \in SUBSET Layers /\ {} \in SUBSET {}
  OBVIOUS
<1> QED BY <1>1, <1>2, <1>3, <1>4, TouchKeeps

LEMMA ChangedSilentlyKeeps ==
    ASSUME TrackerInv, NEW l \in Layers, Tracker!ChangedSilently(l)
    PROVE  TrackerInv'
<1>1. l \in Tracker!Present /\ content' = Tracker!Edited(l) /\ untold' = untold \cup {l}
      /\ UNCHANGED <<revision, layerRevision, changes, summaries, base, view>>
  BY DEF Tracker!ChangedSilently
<1>2. /\ content' \in [Layers -> Looked] /\ content[l] # Tracker!Absent
      /\ \A m \in Layers : m # l => content'[m] = content[m]
  BY <1>1, EditShows
<1>3. TrackerTyped' /\ LogIsDense' /\ RemovedIsBumped'
  BY <1>1, <1>2 DEF TrackerInv, TrackerTyped, LogIsDense, RemovedIsBumped, Forgotten
<1>4. HitsAreSeen'
  BY <1>1, <1>2 DEF TrackerInv, HitsAreSeen, Tracker!Hit
<1>5. WrongIsBumped' /\ GoneIsLogged'
  BY <1>1, <1>2 DEF TrackerInv, WrongIsBumped, GoneIsLogged, Forgotten
<1> QED BY <1>3, <1>4, <1>5 DEF TrackerInv

LEMMA ProjectReplacedKeeps == TrackerInv /\ Tracker!ProjectReplaced => TrackerInv'
<1> SUFFICES ASSUME TrackerInv, Tracker!ProjectReplaced PROVE TrackerInv'
  OBVIOUS
<1>1. Tracker!Touch({}, {}, Layers) /\ UNCHANGED <<content, base, view, untold>>
  BY DEF Tracker!ProjectReplaced
<1>2. content' \in [Layers -> Looked] /\ untold \subseteq untold' /\ untold' \subseteq Layers
  BY <1>1 DEF TrackerInv, TrackerTyped
<1>3. {} \in SUBSET Layers /\ {} \in SUBSET {} /\ Layers \in SUBSET Layers
  OBVIOUS
<1> QED BY <1>1, <1>2, <1>3, TouchKeeps

\* A snapshot that gets right whatever is not untold.
LEMMA AnswerKeeps ==
    ASSUME TrackerInv, NEW shown \in SUBSET Tracker!Present, NEW newView \in [Layers -> Looked],
           Tracker!Summarize(shown), Tracker!Answered(newView),
           \A l \in shown : newView[l] = Tracker!Summary(l),
           \A l \in Layers \ shown :
               Tracker!Hit(l) => newView[l] \in {summaries[l][2], Tracker!Absent},
           \A l \in Layers \ untold : newView[l] = content[l]
    PROVE  TrackerInv'
<1>1. /\ summaries' = [l \in Layers |-> IF l \in shown THEN <<layerRevision[l], Tracker!Summary(l)>>
                                        ELSE summaries[l]]
      /\ view' = newView /\ base' = revision
      /\ untold' = {l \in untold : newView[l] # content[l]}
      /\ UNCHANGED <<content, revision, layerRevision, changes>>
  BY DEF Tracker!Summarize, Tracker!Answered
<1>2. revision \in Nat /\ layerRevision \in [Layers -> 0..revision]
      /\ summaries \in [Layers -> Int \X Looked] /\ content \in [Layers -> Looked]
  BY PluginAssumption DEF TrackerInv, TrackerTyped
<1>3. TrackerTyped'
  <2>1. \A l \in Layers : Tracker!Summary(l) \in Looked
    BY <1>2 DEF Tracker!Summary
  <2>2. summaries' \in [Layers -> Int \X Looked]
    BY <1>1, <1>2, <2>1
  <2> QED BY <1>1, <1>2, <2>2 DEF TrackerInv, TrackerTyped
<1>4. LogIsDense' /\ RemovedIsBumped'
  BY <1>1 DEF TrackerInv, LogIsDense, RemovedIsBumped, Forgotten
<1>5. HitsAreSeen'
  <2> SUFFICES ASSUME NEW l \in Layers, summaries'[l][1] = layerRevision[l]
               PROVE  /\ layerRevision[l] <= revision
                      /\ newView[l] \in {summaries'[l][2], Tracker!Absent}
                      /\ content[l] # Tracker!Absent =>
                           summaries'[l][2] = content[l] \/ l \in untold'
    BY <1>1 DEF HitsAreSeen, Tracker!Hit
  <2>1. layerRevision[l] <= revision
    BY <1>2
  <2>2. CASE l \in shown
    <3>1. summaries'[l][2] = newView[l]
      BY <2>2, <1>1
    <3>2. newView[l] = content[l] \/ l \in untold'
      BY <1>1
    <3> QED BY <2>1, <3>1, <3>2
  <2>3. CASE l \notin shown
    <3>1. summaries'[l] = summaries[l] /\ Tracker!Hit(l)
      BY <2>3, <1>1 DEF Tracker!Hit
    <3>2. content[l] # Tracker!Absent => summaries[l][2] = content[l] \/ l \in untold
      BY <3>1 DEF TrackerInv, HitsAreSeen
    <3> QED BY <2>1, <2>3, <3>1, <3>2, <1>1
  <2> QED BY <2>2, <2>3
<1>6. WrongIsBumped' /\ GoneIsLogged'
  <2>1. \A l \in Layers \ untold' : newView[l] = content[l]
    BY <1>1
  <2>2. \A l \in Layers : ~(layerRevision[l] > revision)
    BY <1>2
  <2> QED BY <1>1, <2>1, <2>2 DEF WrongIsBumped, GoneIsLogged
<1> QED BY <1>3, <1>4, <1>5, <1>6 DEF TrackerInv

LEMMA SummariesOfToldLayers ==
    ASSUME TrackerInv, NEW l \in Layers, content[l] # Tracker!Absent
    PROVE  Tracker!Summary(l) \in Looked /\ (l \notin untold => Tracker!Summary(l) = content[l])
BY DEF TrackerInv, TrackerTyped, HitsAreSeen, Tracker!Summary

LEMMA SnapshotKeeps == TrackerInv /\ Tracker!Snapshot => TrackerInv'
<1> SUFFICES ASSUME TrackerInv, Tracker!Snapshot PROVE TrackerInv'
  OBVIOUS
<1> DEFINE new == [l \in Layers |-> IF l \in Tracker!Present THEN Tracker!Summary(l)
                                    ELSE Tracker!Absent]
<1>1. Tracker!Summarize(Tracker!Present) /\ Tracker!Answered(new)
  BY DEF Tracker!Snapshot
<1>2. \A l \in Layers : l \in Tracker!Present <=> content[l] # Tracker!Absent
  BY DEF Tracker!Present
<1>3. new \in [Layers -> Looked] /\ \A l \in Layers \ untold : new[l] = content[l]
  BY <1>2, SummariesOfToldLayers DEF Looked
<1>4. /\ \A l \in Tracker!Present : new[l] = Tracker!Summary(l)
      /\ \A l \in Layers \ Tracker!Present : new[l] = Tracker!Absent
  BY DEF Tracker!Present
<1> HIDE DEF new
<1> QED BY <1>1, <1>3, <1>4, AnswerKeeps

LEMMA DeltaKeeps == TrackerInv /\ Tracker!Delta => TrackerInv'
<1> SUFFICES ASSUME TrackerInv, Tracker!Delta PROVE TrackerInv'
  OBVIOUS
<1> DEFINE shown == {l \in Tracker!Present : layerRevision[l] > base}
           removed == UNION {c.removed : c \in Tracker!Since}
           new == [l \in Layers |-> IF l \in shown THEN Tracker!Summary(l)
                                    ELSE IF l \in removed THEN Tracker!Absent ELSE view[l]]
<1>1. base > 0 /\ Tracker!DeltaComplete /\ Tracker!Summarize(shown) /\ Tracker!Answered(new)
  BY DEF Tracker!Delta
<1>2. \A l \in Layers : l \in Tracker!Present <=> content[l] # Tracker!Absent
  BY DEF Tracker!Present
<1>3. /\ revision \in Nat /\ layerRevision \in [Layers -> 0..revision] /\ base \in Nat
      /\ base <= revision /\ changes \in Seq(Entries) /\ view \in [Layers -> Looked]
      /\ Len(changes) \in Nat
  BY <1>1, PluginAssumption DEF TrackerInv, TrackerTyped
<1>4. base >= Forgotten
  <2>1. Len(changes) # 0
    BY <1>1, <1>3 DEF TrackerInv, LogIsDense
  <2>2. changes[1].revision = Forgotten + 1 /\ changes # <<>>
    BY <2>1, <1>3 DEF TrackerInv, LogIsDense
  <2> QED BY <2>2, <1>1, <1>3 DEF Tracker!DeltaComplete, Tracker!Oldest, Forgotten
<1>5. \A c \in Tracker!Since : \E i \in 1..Len(changes) : c = changes[i] /\ changes[i].revision > base
  BY <1>3 DEF Tracker!Since, Tracker!ToSet
<1>6. \A l \in removed : l \in Layers /\ layerRevision[l] > base
  <2> SUFFICES ASSUME NEW l, NEW i \in 1..Len(changes), changes[i].revision > base,
                      l \in changes[i].removed
               PROVE  l \in Layers /\ layerRevision[l] > base
    BY <1>5
  <2>1. changes[i] \in Entries
    BY <1>3
  <2>2. l \in Layers /\ changes[i].revision \in Nat
    BY <2>1 DEF Entries
  <2>3. changes[i].revision <= layerRevision[l]
    BY DEF TrackerInv, RemovedIsBumped
  <2> QED BY <2>2, <2>3, <1>3
<1>7. ASSUME NEW l \in Layers \ untold, content[l] = Tracker!Absent, layerRevision[l] > base
      PROVE  l \in removed
  <2>1. layerRevision[l] > Forgotten /\ layerRevision[l] # 0 /\ layerRevision[l] \in Nat
        /\ layerRevision[l] - Forgotten \in 1..Len(changes)
    BY <1>1, <1>3, <1>4, <1>7 DEF Forgotten
  <2>2. PICK i \in 1..Len(changes) : i = layerRevision[l] - Forgotten
    BY <2>1
  <2>3. l \in changes[i].removed
    BY <2>1, <2>2, <1>7 DEF TrackerInv, GoneIsLogged
  <2>4. changes[i].revision > base
    <3>1. changes[i].revision = Forgotten + i
      BY DEF TrackerInv, LogIsDense
    <3> QED BY <3>1, <2>1, <2>2, <1>3, <1>7 DEF Forgotten
  <2>5. changes[i] \in Tracker!Since
    BY <2>4, <1>3 DEF Tracker!Since, Tracker!ToSet
  <2> QED BY <2>3, <2>5
<1>8. new \in [Layers -> Looked]
  BY <1>2, <1>3, SummariesOfToldLayers DEF Looked
<1>9. \A l \in shown : new[l] = Tracker!Summary(l)
  BY DEF Tracker!Present
<1>10. ASSUME NEW l \in Layers \ shown
       PROVE  Tracker!Hit(l) => new[l] \in {summaries[l][2], Tracker!Absent}
  BY DEF TrackerInv, HitsAreSeen
<1>11. ASSUME NEW l \in Layers \ untold
       PROVE  new[l] = content[l]
  <2>1. CASE l \in shown
    BY <2>1, <1>2, SummariesOfToldLayers
  <2>2. CASE l \notin shown /\ l \in Tracker!Present
    <3>1. ~(layerRevision[l] > base)
      BY <2>2
    <3>2. view[l] = content[l]
      BY <3>1, <1>3 DEF TrackerInv, WrongIsBumped
    <3>3. l \notin removed
      BY <3>1, <1>6
    <3> QED BY <3>2, <3>3, <2>2
  <2>3. CASE l \notin Tracker!Present
    <3>1. content[l] = Tracker!Absent /\ l \notin shown
      BY <2>3, <1>2
    <3>2. view[l] = content[l] \/ layerRevision[l] > base
      BY <1>3 DEF TrackerInv, WrongIsBumped
    <3> QED BY <3>1, <3>2, <1>7
  <2> QED BY <2>1, <2>2, <2>3
<1>12. shown \in SUBSET Tracker!Present
  OBVIOUS
<1> HIDE DEF new, shown, removed
<1> QED BY <1>1, <1>8, <1>9, <1>10, <1>11, <1>12, AnswerKeeps

LEMMA TrackerNextKeeps == TrackerInv /\ [Tracker!Next]_Tracker!trackerVars => TrackerInv'
<1> SUFFICES ASSUME TrackerInv, [Tracker!Next]_Tracker!trackerVars PROVE TrackerInv'
  OBVIOUS
<1>1. CASE UNCHANGED Tracker!trackerVars
  BY <1>1 DEF Tracker!trackerVars, TrackerInv, TrackerTyped, LogIsDense, RemovedIsBumped,
     HitsAreSeen, Tracker!Hit, WrongIsBumped, GoneIsLogged, Forgotten
<1> QED
  BY <1>1, LayersAddedKeeps, LayersRemovedKeeps, LayerChangedKeeps, ChangedByNameKeeps,
     ChangedSilentlyKeeps, ProjectReplacedKeeps, SnapshotKeeps, DeltaKeeps
  DEF Tracker!Next

LEMMA TrackerAlways == Tracker!Spec => []TrackerInv
BY TrackerInitKeeps, TrackerNextKeeps, PTL DEF Tracker!Spec

\* The state of the tracker has its type (StateTracker.tla), for any number of layers,
\* any length of the log and of the lists that _compact keeps.
THEOREM TrackerTypeCorrect == Tracker!Spec => []Tracker!TypeOK
<1>1. TrackerInv => Tracker!TypeOK
  <2> SUFFICES ASSUME TrackerInv PROVE Tracker!TypeOK
    OBVIOUS
  <2>1. revision \in Nat /\ changes \in Seq(Entries) /\ Len(changes) \in Nat
    BY PluginAssumption DEF TrackerInv, TrackerTyped
  <2>2. ASSUME NEW i \in 1..Len(changes)
        PROVE  changes[i] \in [revision : 1..revision, removed : SUBSET Layers]
    <3>1. changes[i] \in Entries /\ changes[i].revision = Forgotten + i
      BY <2>1 DEF TrackerInv, LogIsDense
    <3>2. changes[i].revision \in 1..revision
      BY <2>1, <3>1 DEF TrackerInv, LogIsDense, Forgotten
    <3> QED BY <3>1, <3>2 DEF Entries
  <2>3. Tracker!ToSet(changes) \subseteq [revision : 1..revision, removed : SUBSET Layers]
    BY <2>1, <2>2 DEF Tracker!ToSet
  <2>4. layerRevision \in [Layers -> 0..revision]
    BY DEF TrackerInv, TrackerTyped
  <2> QED BY <2>3, <2>4 DEF TrackerInv, TrackerTyped, Tracker!TypeOK, Looked, Tracker!Never
<1> QED BY <1>1, TrackerAlways, PTL

\* What a client merges from complete deltas of session.snapshot is what the project
\* shows, but for what is untold: the summaries that are served from the cache are of
\* the revision they say, and a removal that the log has lost makes the delta
\* incomplete (state.py, touch, changes_since and _cached_layer_summary).
THEOREM DeltasKeepUp == Tracker!Spec => []DeltaKeepsUp
<1>1. TrackerInv => DeltaKeepsUp
  <2> SUFFICES ASSUME TrackerInv, base = revision, NEW l \in Layers \ untold
               PROVE  view[l] = content[l]
    BY DEF DeltaKeepsUp, Tracker!DeltaKeepsUp
  <2>1. revision \in Nat /\ layerRevision[l] \in 0..revision
    BY PluginAssumption DEF TrackerInv, TrackerTyped
  <2> QED BY <2>1 DEF TrackerInv, WrongIsBumped
<1> QED BY <1>1, TrackerAlways, PTL

(* ------------------------- Processing operations ------------------------- *)

Fates == {"no", "added", "skipped", "refused"}

\* The types, without the bound of the model on the writes.
OperationTyped ==
    /\ status \in [Ops -> Terminal \cup {Processing!NotStarted, "queued", "running", "cancelling"}]
    /\ thread \in [Ops -> {"main_thread", "background_task"}]
    /\ work \in [Ops -> {"waiting", "working", "ended"}]
    /\ stopped \in [Ops -> BOOLEAN] /\ begun \in [Ops -> BOOLEAN]
    /\ wrote \in [Ops -> BOOLEAN] /\ file \in Nat /\ baseline \in [Ops -> Nat]
    /\ wanted \in [Ops -> BOOLEAN] /\ placed \in [Ops -> Fates]

\* An operation that was not started waits, and nobody stopped it.
NotStartedIsIdle ==
    \A o \in Ops : status[o] = Processing!NotStarted => ~stopped[o] /\ ~begun[o] /\ work[o] = "waiting"

\* The signal begun is delivered before the operation ends.
BegunComesFirst == \A o \in Ops : begun[o] => work[o] = "working"

\* A status that is final belongs to an operation that has ended.
FinalHasEnded == \A o \in Ops : status[o] \in Terminal => work[o] = "ended"

\* The file only grows, and if it did since an operation began, one of them wrote it.
WriterIsKnown ==
    \A o \in Ops : baseline[o] <= file /\ (baseline[o] < file => \E p \in Ops : wrote[p])

EndsSettled == \A o \in Ops : Settles(o)
SuccessesOwn == \A o \in Ops : SuccessIsOwn(o)
SuccessesAdded == \A o \in Ops : SuccessIsAdded(o)

OperationInv ==
    /\ OperationTyped /\ NotStartedIsIdle /\ BegunComesFirst /\ FinalHasEnded
    /\ WriterIsKnown /\ EndsSettled /\ SuccessesOwn /\ SuccessesAdded

LEMMA OperationInitKeeps == Processing!Init => OperationInv
BY DEF Processing!Init, OperationInv, OperationTyped, NotStartedIsIdle, BegunComesFirst,
       FinalHasEnded, WriterIsKnown, EndsSettled, SuccessesOwn, SuccessesAdded, Settles,
       SuccessIsOwn, SuccessIsAdded, Processing!NotStarted, Terminal, Fates

\* Nothing is unwritten: what explained a success or a change of the file goes
\* on to explain it.
LEMMA WritesOnlyAdd ==
    ASSUME OperationInv, NEW o \in Ops, Processing!Writes(o)
    PROVE  /\ file' \in Nat /\ wrote' \in [Ops -> BOOLEAN] /\ file <= file'
           /\ \A p \in Ops : wrote[p] => wrote'[p]
           /\ file < file' => wrote'[o]
           /\ \A p \in Ops : p # o => wrote'[p] = wrote[p]
<1>1. CASE UNCHANGED <<file, wrote>>
  BY <1>1 DEF OperationInv, OperationTyped
<1>2. CASE file' = file + 1 /\ wrote' = [wrote EXCEPT ![o] = TRUE]
  BY <1>2 DEF OperationInv, OperationTyped
<1> QED BY <1>1, <1>2 DEF Processing!Writes

\* The end of an operation, from a task or a timer: it may write, and its status
\* is an outcome.
LEMMA EndKeeps ==
    ASSUME OperationInv, NEW o \in Ops, NEW successful \in BOOLEAN, status[o] # Processing!NotStarted,
           Processing!Writes(o) \/ UNCHANGED <<file, wrote>>, ~begun[o],
           status' = [status EXCEPT ![o] = Processing!Outcome(o, successful)],
           work' = [work EXCEPT ![o] = "ended"],
           placed' \in [Ops -> Fates], \A p \in Ops : p # o => placed'[p] = placed[p],
           SuccessIsAdded(o)', UNCHANGED <<thread, stopped, begun, baseline, wanted>>
    PROVE  OperationInv'
<1>1. /\ file' \in Nat /\ wrote' \in [Ops -> BOOLEAN] /\ file <= file'
      /\ \A p \in Ops : wrote[p] => wrote'[p]
      /\ file < file' => wrote'[o]
      /\ \A p \in Ops : p # o => wrote'[p] = wrote[p]
  BY WritesOnlyAdd DEF OperationInv, OperationTyped
<1>2. Processing!Outcome(o, successful) \in Terminal
  BY DEF Processing!Outcome, Terminal
<1>3. OperationTyped'
  BY <1>1, <1>2 DEF OperationInv, OperationTyped
<1>4. NotStartedIsIdle'
  BY <1>2 DEF OperationInv, OperationTyped, NotStartedIsIdle, Terminal, Processing!NotStarted
<1>5. BegunComesFirst'
  BY DEF OperationInv, OperationTyped, BegunComesFirst
<1>6. FinalHasEnded'
  BY DEF OperationInv, OperationTyped, FinalHasEnded
<1>7. WriterIsKnown'
  BY <1>1 DEF OperationInv, OperationTyped, WriterIsKnown
<1>8. EndsSettled'
  BY <1>2 DEF OperationInv, OperationTyped, EndsSettled, Settles
<1>9. SuccessesOwn'
  <2> SUFFICES ASSUME NEW p \in Ops, status'[p] = "succeeded", ~wrote'[p]
               PROVE  \E q \in Ops \ {p} : wrote'[q] /\ file' > baseline[p]
    BY DEF SuccessesOwn, SuccessIsOwn
  <2>1. CASE p = o
    <3>1. file' # baseline[o]
      BY <2>1 DEF Processing!Outcome, Processing!Validated, OperationInv, OperationTyped
    <3>2. file' > baseline[o] /\ file' = file
      BY <1>1, <2>1, <3>1 DEF OperationInv, OperationTyped, WriterIsKnown
    <3>3. PICK q \in Ops : wrote[q]
      BY <3>2 DEF OperationInv, WriterIsKnown
    <3> QED BY <1>1, <2>1, <3>2, <3>3
  <2>2. CASE p # o
    <3>1. status[p] = "succeeded" /\ ~wrote[p]
      BY <1>1, <2>2 DEF OperationInv, OperationTyped
    <3>2. PICK q \in Ops \ {p} : wrote[q] /\ file > baseline[p]
      BY <3>1 DEF OperationInv, SuccessesOwn, SuccessIsOwn
    <3> QED BY <1>1, <3>2 DEF OperationInv, OperationTyped
  <2> QED BY <2>1, <2>2
<1>10. SuccessesAdded'
  <2> SUFFICES ASSUME NEW p \in Ops, p # o PROVE SuccessIsAdded(p)'
    BY DEF SuccessesAdded
  <2>1. status'[p] = status[p] /\ placed'[p] = placed[p]
    BY DEF OperationInv, OperationTyped
  <2> QED BY <2>1 DEF OperationInv, SuccessesAdded, SuccessIsAdded
<1> QED BY <1>3, <1>4, <1>5, <1>6, <1>7, <1>8, <1>9, <1>10 DEF OperationInv

LEMMA StartProcessingKeeps ==
    ASSUME OperationInv, NEW o \in Ops, Processing!StartProcessing(o)
    PROVE  OperationInv'
<1>1. OperationTyped'
  BY DEF Processing!StartProcessing, OperationInv, OperationTyped
<1>2. NotStartedIsIdle' /\ BegunComesFirst' /\ FinalHasEnded'
  BY DEF Processing!StartProcessing, OperationInv, OperationTyped, NotStartedIsIdle,
         BegunComesFirst, FinalHasEnded, Processing!NotStarted, Terminal
<1>3. WriterIsKnown'
  BY DEF Processing!StartProcessing, OperationInv, OperationTyped, WriterIsKnown
<1>4. EndsSettled'
  BY DEF Processing!StartProcessing, OperationInv, OperationTyped, EndsSettled, Settles,
         NotStartedIsIdle
<1>5. SuccessesOwn'
  BY DEF Processing!StartProcessing, OperationInv, OperationTyped, SuccessesOwn, SuccessIsOwn
<1>6. SuccessesAdded'
  BY DEF Processing!StartProcessing, OperationInv, OperationTyped, SuccessesAdded, SuccessIsAdded
<1> QED BY <1>1, <1>2, <1>3, <1>4, <1>5, <1>6 DEF OperationInv

LEMMA TaskBeginsKeeps ==
    ASSUME OperationInv, NEW o \in Ops, Processing!TaskBegins(o)
    PROVE  OperationInv'
<1>1. OperationTyped'
  BY DEF Processing!TaskBegins, OperationInv, OperationTyped
<1>2. NotStartedIsIdle' /\ BegunComesFirst' /\ FinalHasEnded'
  BY DEF Processing!TaskBegins, OperationInv, OperationTyped, NotStartedIsIdle, BegunComesFirst,
         FinalHasEnded
<1>3. WriterIsKnown' /\ SuccessesOwn'
  BY DEF Processing!TaskBegins, OperationInv, WriterIsKnown, SuccessesOwn, SuccessIsOwn
<1>4. EndsSettled'
  BY DEF Processing!TaskBegins, OperationInv, OperationTyped, EndsSettled, Settles
<1>5. SuccessesAdded'
  BY DEF Processing!TaskBegins, OperationInv, OperationTyped, SuccessesAdded, SuccessIsAdded
<1> QED BY <1>1, <1>2, <1>3, <1>4, <1>5 DEF OperationInv

LEMMA BegunArrivesKeeps ==
    ASSUME OperationInv, NEW o \in Ops, Processing!BegunArrives(o)
    PROVE  OperationInv'
<1>1. OperationTyped'
  BY DEF Processing!BegunArrives, OperationInv, OperationTyped
<1>2. NotStartedIsIdle' /\ BegunComesFirst' /\ FinalHasEnded'
  BY DEF Processing!BegunArrives, OperationInv, OperationTyped, NotStartedIsIdle,
         BegunComesFirst, FinalHasEnded, Processing!NotStarted, Terminal
<1>3. WriterIsKnown' /\ SuccessesOwn'
  BY DEF Processing!BegunArrives, OperationInv, OperationTyped, WriterIsKnown, SuccessesOwn,
         SuccessIsOwn
<1>4. EndsSettled'
  BY DEF Processing!BegunArrives, OperationInv, OperationTyped, EndsSettled, Settles,
         BegunComesFirst
<1>5. SuccessesAdded'
  BY DEF Processing!BegunArrives, OperationInv, OperationTyped, SuccessesAdded, SuccessIsAdded
<1> QED BY <1>1, <1>2, <1>3, <1>4, <1>5 DEF OperationInv

\* What retaining makes of the output of one operation.
LEMMA RetainsOne ==
    ASSUME OperationInv, NEW o \in Ops, NEW successful \in BOOLEAN,
           Processing!Retains(o, successful)
    PROVE  /\ placed' \in [Ops -> Fates] /\ \A p \in Ops : p # o => placed'[p] = placed[p]
           /\ wanted[o] /\ Processing!Outcome(o, successful) = "succeeded"
                => placed'[o] \in {"added", "skipped", "refused"}
<1>1. placed \in [Ops -> Fates]
  BY DEF OperationInv, OperationTyped
<1>2. CASE wanted[o] /\ Processing!Outcome(o, successful) = "succeeded"
  <2>1. PICK fate \in {"added", "skipped", "refused"} : placed' = [placed EXCEPT ![o] = fate]
    BY <1>2 DEF Processing!Retains
  <2> QED BY <1>1, <2>1 DEF Fates
<1>3. CASE ~(wanted[o] /\ Processing!Outcome(o, successful) = "succeeded")
  <2>1. placed' = placed
    BY <1>3 DEF Processing!Retains
  <2> QED BY <1>1, <1>3, <2>1
<1> QED BY <1>2, <1>3

LEMMA TaskFinishesKeeps ==
    ASSUME OperationInv, NEW o \in Ops, Processing!TaskFinishes(o)
    PROVE  OperationInv'
<1>1. /\ ~begun[o] /\ status[o] # Processing!NotStarted /\ thread[o] = "background_task"
      /\ work' = [work EXCEPT ![o] = "ended"]
      /\ UNCHANGED <<thread, stopped, begun, baseline, wanted>>
  BY DEF Processing!TaskFinishes, OperationInv, NotStartedIsIdle
<1>2. status \in [Ops -> Terminal \cup {Processing!NotStarted, "queued", "running", "cancelling"}]
      /\ placed \in [Ops -> Fates]
  BY DEF OperationInv, OperationTyped
<1>3. CASE work[o] = "working"
  <2>1. PICK successful \in BOOLEAN :
          /\ status' = [status EXCEPT ![o] = Processing!Outcome(o, successful)]
          /\ Processing!Retains(o, successful)
    BY <1>3 DEF Processing!TaskFinishes
  <2>2. /\ placed' \in [Ops -> Fates] /\ \A p \in Ops : p # o => placed'[p] = placed[p]
        /\ wanted[o] /\ Processing!Outcome(o, successful) = "succeeded"
             => placed'[o] \in {"added", "skipped", "refused"}
    BY <2>1, RetainsOne
  <2>3. SuccessIsAdded(o)'
    BY <1>1, <1>2, <2>1, <2>2 DEF SuccessIsAdded
  <2>4. Processing!Writes(o)
    BY <1>3 DEF Processing!TaskFinishes
  <2> QED BY <1>1, <2>1, <2>2, <2>3, <2>4, EndKeeps
<1>4. CASE work[o] = "waiting"
  <2>1. /\ status' = [status EXCEPT ![o] = Processing!Outcome(o, FALSE)]
        /\ UNCHANGED <<file, placed, wrote>>
    BY <1>4 DEF Processing!TaskFinishes
  <2>2. SuccessIsAdded(o)'
    BY <1>2, <2>1 DEF SuccessIsAdded, Processing!Outcome
  <2> QED BY <1>1, <1>2, <2>1, <2>2, EndKeeps
<1> QED BY <1>3, <1>4 DEF Processing!TaskFinishes

LEMMA TimerFindsCancelledKeeps ==
    ASSUME OperationInv, NEW o \in Ops, Processing!TimerFindsCancelled(o)
    PROVE  OperationInv'
<1>1. OperationTyped'
  BY DEF Processing!TimerFindsCancelled, OperationInv, OperationTyped
<1>2. NotStartedIsIdle' /\ BegunComesFirst' /\ FinalHasEnded'
  BY DEF Processing!TimerFindsCancelled, OperationInv, OperationTyped, NotStartedIsIdle,
         BegunComesFirst, FinalHasEnded, Processing!NotStarted
<1>3. WriterIsKnown' /\ SuccessesOwn'
  BY DEF Processing!TimerFindsCancelled, OperationInv, WriterIsKnown, SuccessesOwn, SuccessIsOwn
<1>4. EndsSettled'
  BY DEF Processing!TimerFindsCancelled, OperationInv, OperationTyped, EndsSettled, Settles
<1>5. SuccessesAdded'
  BY DEF Processing!TimerFindsCancelled, OperationInv, OperationTyped, SuccessesAdded, SuccessIsAdded
<1> QED BY <1>1, <1>2, <1>3, <1>4, <1>5 DEF OperationInv

LEMMA RunMainThreadKeeps ==
    ASSUME OperationInv, NEW o \in Ops, Processing!RunMainThread(o)
    PROVE  OperationInv'
<1>1. /\ ~begun[o] /\ status[o] # Processing!NotStarted /\ Processing!Writes(o)
      /\ work' = [work EXCEPT ![o] = "ended"]
      /\ UNCHANGED <<thread, stopped, begun, baseline, wanted>>
  BY DEF Processing!RunMainThread, OperationInv, BegunComesFirst, Processing!NotStarted
<1>2. status \in [Ops -> Terminal \cup {Processing!NotStarted, "queued", "running", "cancelling"}]
  BY DEF OperationInv, OperationTyped
<1>3. PICK raised \in BOOLEAN :
        /\ Processing!Retains(o, ~raised)
        /\ status' = [status EXCEPT ![o] =
                        Processing!Outcome(o, ~raised /\ placed'[o] # "refused")]
  BY DEF Processing!RunMainThread
<1>4. /\ placed' \in [Ops -> Fates] /\ \A p \in Ops : p # o => placed'[p] = placed[p]
      /\ wanted[o] /\ Processing!Outcome(o, ~raised) = "succeeded"
           => placed'[o] \in {"added", "skipped", "refused"}
  BY <1>3, RetainsOne
<1>5. SuccessIsAdded(o)'
  <2> SUFFICES ASSUME Processing!Outcome(o, ~raised /\ placed'[o] # "refused") = "succeeded",
                      wanted[o]
               PROVE  placed'[o] \in {"added", "skipped"}
    BY <1>1, <1>2, <1>3 DEF SuccessIsAdded
  <2>1. placed'[o] # "refused" /\ Processing!Outcome(o, ~raised) = "succeeded"
    BY DEF Processing!Outcome
  <2> QED BY <1>4, <2>1
<1>6. PICK successful \in BOOLEAN : successful = (~raised /\ placed'[o] # "refused")
  OBVIOUS
<1>7. status' = [status EXCEPT ![o] = Processing!Outcome(o, successful)]
  BY <1>3, <1>6
<1> QED BY <1>1, <1>4, <1>5, <1>7, EndKeeps

LEMMA CancelKeeps ==
    ASSUME OperationInv, NEW o \in Ops, Processing!Cancel(o)
    PROVE  OperationInv'
<1>1. OperationTyped'
  BY DEF Processing!Cancel, OperationInv, OperationTyped
<1>2. NotStartedIsIdle' /\ BegunComesFirst' /\ FinalHasEnded'
  BY DEF Processing!Cancel, OperationInv, OperationTyped, NotStartedIsIdle, BegunComesFirst,
         FinalHasEnded, Processing!NotStarted, Terminal
<1>3. WriterIsKnown' /\ SuccessesOwn'
  BY DEF Processing!Cancel, OperationInv, OperationTyped, WriterIsKnown, SuccessesOwn,
         SuccessIsOwn
<1>4. EndsSettled'
  BY DEF Processing!Cancel, OperationInv, OperationTyped, EndsSettled, Settles, Terminal
<1>5. SuccessesAdded'
  BY DEF Processing!Cancel, OperationInv, OperationTyped, SuccessesAdded, SuccessIsAdded
<1> QED BY <1>1, <1>2, <1>3, <1>4, <1>5 DEF OperationInv

LEMMA OperationNextKeeps == OperationInv /\ [Processing!Next]_Processing!operationVars => OperationInv'
<1> SUFFICES ASSUME OperationInv, [Processing!Next]_Processing!operationVars PROVE OperationInv'
  OBVIOUS
<1>1. CASE UNCHANGED Processing!operationVars
  BY <1>1 DEF Processing!operationVars, OperationInv, OperationTyped, NotStartedIsIdle,
              BegunComesFirst, FinalHasEnded, WriterIsKnown, EndsSettled, Settles, SuccessesOwn,
              SuccessIsOwn, SuccessesAdded, SuccessIsAdded
<1>2. ASSUME NEW o \in Ops, Processing!StartProcessing(o) PROVE OperationInv'
  BY <1>2, StartProcessingKeeps
<1>3. ASSUME NEW o \in Ops, Processing!TaskBegins(o) PROVE OperationInv'
  BY <1>3, TaskBeginsKeeps
<1>4. ASSUME NEW o \in Ops, Processing!BegunArrives(o) PROVE OperationInv'
  BY <1>4, BegunArrivesKeeps
<1>5. ASSUME NEW o \in Ops, Processing!TaskFinishes(o) PROVE OperationInv'
  BY <1>5, TaskFinishesKeeps
<1>6. ASSUME NEW o \in Ops, Processing!TimerFindsCancelled(o) PROVE OperationInv'
  BY <1>6, TimerFindsCancelledKeeps
<1>7. ASSUME NEW o \in Ops, Processing!RunMainThread(o) PROVE OperationInv'
  BY <1>7, RunMainThreadKeeps
<1>8. ASSUME NEW o \in Ops, Processing!Cancel(o) PROVE OperationInv'
  BY <1>8, CancelKeeps
<1> QED BY <1>1, <1>2, <1>3, <1>4, <1>5, <1>6, <1>7, <1>8 DEF Processing!Next

\* A final status is what became of the operation: one that ended has an outcome,
\* and one that succeeded produced its file or shares it with one that wrote it
\* meanwhile, and has added its output if it was to, unless that was no valid layer
\* or the project refused the output of a task (_finished, _retain_outputs and
\* _validate_processing_result of operations.py).
THEOREM OutcomesAreAlwaysTrue == Processing!Spec => []OutcomesAreTrue
<1>1. OperationInv => OutcomesAreTrue
  BY DEF OperationInv, EndsSettled, SuccessesOwn, SuccessesAdded, OutcomesAreTrue
<1> QED BY OperationInitKeeps, OperationNextKeeps, <1>1, PTL DEF Processing!Spec

\* The state of the operations has its type (Operations.tla), for any number of them
\* and of writes to the file they share.
THEOREM OperationsTypeCorrect == Processing!Spec => []Processing!TypeOK
<1> DEFINE Bounded == file <= MaxWrites
<1>1. Processing!Init => Bounded
  BY PluginAssumption DEF Processing!Init
<1>2. OperationInv /\ Bounded /\ [Processing!Next]_Processing!operationVars => Bounded'
  <2> SUFFICES ASSUME OperationInv, Bounded, [Processing!Next]_Processing!operationVars
               PROVE  file' <= MaxWrites
    OBVIOUS
  <2>1. ASSUME NEW o \in Ops, Processing!Writes(o) PROVE file' <= MaxWrites
    BY <2>1, PluginAssumption DEF Processing!Writes, OperationInv, OperationTyped
  <2> QED BY <2>1 DEF Processing!Next, Processing!operationVars, Processing!StartProcessing,
             Processing!TaskBegins, Processing!BegunArrives, Processing!TaskFinishes,
             Processing!TimerFindsCancelled, Processing!RunMainThread, Processing!Cancel
<1>3. OperationInv /\ Bounded => Processing!TypeOK
  <2> SUFFICES ASSUME OperationInv, Bounded PROVE Processing!TypeOK
    OBVIOUS
  <2>1. file \in 0..MaxWrites /\ baseline \in [Ops -> 0..file]
    BY PluginAssumption DEF OperationInv, OperationTyped, WriterIsKnown
  <2> QED BY <2>1 DEF OperationInv, OperationTyped, Processing!TypeOK, Terminal, Fates,
             Processing!Terminal, Processing!NotStarted
<1> QED BY <1>1, <1>2, <1>3, OperationInitKeeps, OperationNextKeeps, PTL DEF Processing!Spec

(* -------------------------- 3D views on Windows -------------------------- *)

ViewsTyped == Views!TypeOK

\* QGIS names no two open windows alike.
TitlesDiffer == \A v, w \in open : title[v] = title[w] => v = w

\* One view at a time is created; it has no alias yet, and while its slot waits it
\* is young and has no window.
OneIsCreated ==
    \A r \in Requested : pending[r] = "initializing" =>
        aliases[r] = NoName /\ \A q \in Requested : pending[q] = "initializing" => q = r
SlotIsFirst ==
    \A r \in Requested : slot[r] =>
        pending[r] = "initializing" /\ age[r] = "young" /\ opened[r] = Views!NoWindow

\* A window that appears while a view is created is its own or from an intrusion.
AppearedIsOwn ==
    \A r \in Requested : pending[r] = "initializing" =>
        \A w \in open \ before[r] : w = opened[r] \/ r \in intruded

\* What an alias may be without leading its client astray.
Leads(r, alias) ==
    alias # NoName =>
        r \in intruded \cup bereft \/ (opened[r] \in open /\ title[opened[r]] = alias)
AliasesLead == \A r \in Requested : Leads(r, aliases[r])

ViewsInv ==
    ViewsTyped /\ TitlesDiffer /\ OneIsCreated /\ SlotIsFirst /\ AppearedIsOwn /\ AliasesLead

LEMMA ViewsInitKeeps == Views!Init => ViewsInv
<1> SUFFICES ASSUME Views!Init PROVE ViewsInv
  OBVIOUS
<1>1. title = <<>> /\ title \in Seq(Native) /\ Len(title) = 0 /\ DOMAIN title = {} /\ open = {}
  BY DEF Views!Init
<1>2. ViewsTyped
  BY <1>1, PluginAssumption DEF Views!Init, ViewsTyped, Views!TypeOK, Views!NoWindow
<1> QED BY <1>1, <1>2 DEF Views!Init, ViewsInv, TitlesDiffer, OneIsCreated, SlotIsFirst,
           AppearedIsOwn, AliasesLead, Leads

LEMMA SizeOfNothing == Views!Cardinality({}) = 0
<1>1. ASSUME NEW S PROVE Views!Cardinality(S) = Cardinality(S)
  BY DEF Views!Cardinality, Cardinality
<1> QED BY <1>1, FS_EmptySet

\* What a refresh makes of the aliases and of the pending creations.
LEMMA RefreshLeads ==
    ASSUME ViewsInv
    PROVE  /\ Views!RefreshedAliases \in [Requested -> Native \cup {NoName}]
           /\ Views!RefreshedPending
                \in [Requested -> {"none", "initializing", "succeeded", "failed"}]
           /\ \A r \in Requested :
                /\ Leads(r, Views!RefreshedAliases[r])
                /\ Views!RefreshedPending[r] = "initializing" =>
                     pending[r] = "initializing" /\ Views!RefreshedAliases[r] = NoName
                /\ slot[r] => Views!RefreshedPending[r] = "initializing"
<1>1. ASSUME NEW r \in Requested, Views!Found(r)
      PROVE  /\ title[CHOOSE w \in Views!New(r) : TRUE] \in Native
             /\ Leads(r, title[CHOOSE w \in Views!New(r) : TRUE])
             /\ pending[r] = "initializing" /\ age[r] # "young"
  <2>1. Views!New(r) # {}
    BY <1>1, SizeOfNothing DEF Views!Found
  <2>2. PICK w : w \in Views!New(r) /\ w = CHOOSE v \in Views!New(r) : TRUE
    BY <2>1
  <2>3. pending[r] = "initializing" /\ age[r] # "young" /\ w \in open \ before[r]
    BY <1>1, <2>2 DEF Views!Found, Views!Due, Views!New
  <2>4. w = opened[r] \/ r \in intruded
    BY <2>3 DEF ViewsInv, AppearedIsOwn
  <2>5. title[w] \in Native
    BY <2>3 DEF ViewsInv, ViewsTyped, Views!TypeOK
  <2> QED BY <2>2, <2>3, <2>4, <2>5 DEF Leads
<1>2. /\ aliases \in [Requested -> Native \cup {NoName}]
      /\ pending \in [Requested -> {"none", "initializing", "succeeded", "failed"}]
  BY DEF ViewsInv, ViewsTyped, Views!TypeOK
<1>3. ASSUME NEW r \in Requested
      PROVE  /\ Views!RefreshedAliases[r] =
                  IF Views!Found(r) THEN title[CHOOSE w \in Views!New(r) : TRUE] ELSE aliases[r]
             /\ Views!RefreshedPending[r] =
                  IF Views!Found(r) THEN "succeeded"
                  ELSE IF Views!GivenUp(r) THEN "failed" ELSE pending[r]
  BY DEF Views!RefreshedAliases, Views!RefreshedPending
<1>4. Views!RefreshedAliases \in [Requested -> Native \cup {NoName}]
  BY <1>1, <1>2 DEF Views!RefreshedAliases
<1>5. Views!RefreshedPending \in [Requested -> {"none", "initializing", "succeeded", "failed"}]
  BY <1>2 DEF Views!RefreshedPending
<1>6. ASSUME NEW r \in Requested
      PROVE  /\ Leads(r, Views!RefreshedAliases[r])
             /\ Views!RefreshedPending[r] = "initializing" =>
                  pending[r] = "initializing" /\ Views!RefreshedAliases[r] = NoName
             /\ slot[r] => Views!RefreshedPending[r] = "initializing"
  <2>1. Leads(r, aliases[r]) /\ (pending[r] = "initializing" => aliases[r] = NoName)
    BY DEF ViewsInv, AliasesLead, OneIsCreated
  <2>2. slot[r] => pending[r] = "initializing" /\ ~Views!Due(r)
    BY DEF ViewsInv, SlotIsFirst, Views!Due
  <2>3. Views!GivenUp(r) => Views!Due(r)
    BY DEF Views!GivenUp
  <2>4. Views!Found(r) => Views!Due(r)
    BY DEF Views!Found
  <2> QED BY <1>1, <1>3, <2>1, <2>2, <2>3, <2>4
<1> QED BY <1>4, <1>5, <1>6

\* A window more, under a name no open one has.
LEMMA OpenedIsNew ==
    ASSUME ViewsInv, Views!OpensNext
    PROVE  /\ title' \in Seq(Native) /\ Len(title') <= MaxWindows /\ Len(title) + 1 \in Nat
           /\ DOMAIN title' = DOMAIN title \cup {Len(title) + 1}
           /\ Len(title) + 1 \notin DOMAIN title
           /\ \A w \in DOMAIN title : title'[w] = title[w]
           /\ open' = open \cup {Len(title) + 1} /\ open' \subseteq DOMAIN title'
           /\ TitlesDiffer'
<1>1. title \in Seq(Native) /\ Len(title) \in Nat /\ DOMAIN title = 1..Len(title)
      /\ open \subseteq DOMAIN title
  BY DEF ViewsInv, ViewsTyped, Views!TypeOK
<1>2. PICK name \in Native \ {title[v] : v \in open} : title' = Append(title, name)
  BY DEF Views!OpensNext
<1>3. /\ Len(title) < MaxWindows /\ open' = open \cup {Len(title) + 1}
  BY DEF Views!OpensNext
<1>4. /\ title' \in Seq(Native) /\ Len(title') = Len(title) + 1
      /\ DOMAIN title' = 1..(Len(title) + 1)
      /\ \A w \in DOMAIN title : title'[w] = title[w]
      /\ title'[Len(title) + 1] = name
  BY <1>1, <1>2
<1>5. TitlesDiffer'
  <2> SUFFICES ASSUME NEW v \in open', NEW w \in open', title'[v] = title'[w] PROVE v = w
    BY DEF TitlesDiffer
  <2>1. \A u \in open : title'[u] = title[u] /\ title[u] # name
    BY <1>1, <1>2, <1>4
  <2> QED BY <1>3, <1>4, <2>1 DEF ViewsInv, TitlesDiffer
<1> QED BY <1>1, <1>3, <1>4, <1>5, PluginAssumption

\* Closing a window breaks nothing but what leads to it.
LEMMA ClosingKeepsTitles ==
    ASSUME ViewsInv, NEW w, open' = open \ {w}, UNCHANGED title
    PROVE  TitlesDiffer' /\ open' \subseteq DOMAIN title'
BY DEF ViewsInv, TitlesDiffer, ViewsTyped, Views!TypeOK

LEMMA UserOpensKeeps == ViewsInv /\ Views!UserOpens => ViewsInv'
<1> SUFFICES ASSUME ViewsInv, Views!UserOpens PROVE ViewsInv'
  OBVIOUS
<1>1. /\ Views!OpensNext /\ intruded' = intruded \cup Views!Initializing
      /\ UNCHANGED <<aliases, pending, before, age, slot, opened, bereft>>
  BY DEF Views!UserOpens
<1>2. /\ title' \in Seq(Native) /\ Len(title') <= MaxWindows /\ DOMAIN title \subseteq DOMAIN title'
      /\ \A w \in DOMAIN title : title'[w] = title[w]
      /\ open \subseteq open' /\ open' \subseteq DOMAIN title' /\ TitlesDiffer'
  BY <1>1, OpenedIsNew
<1>3. Views!Initializing = {r \in Requested : pending[r] = "initializing"}
  BY DEF Views!Initializing
<1>4. ViewsTyped'
  BY <1>1, <1>2, <1>3 DEF ViewsInv, ViewsTyped, Views!TypeOK
<1>5. OneIsCreated' /\ SlotIsFirst'
  BY <1>1 DEF ViewsInv, OneIsCreated, SlotIsFirst
<1>6. AppearedIsOwn'
  BY <1>1, <1>3 DEF AppearedIsOwn
<1>7. AliasesLead'
  <2>1. open \subseteq DOMAIN title
    BY DEF ViewsInv, ViewsTyped, Views!TypeOK
  <2> QED BY <1>1, <1>2, <2>1 DEF ViewsInv, AliasesLead, Leads
<1> QED BY <1>2, <1>4, <1>5, <1>6, <1>7 DEF ViewsInv

LEMMA UserClosesKeeps ==
    ASSUME ViewsInv, NEW w \in open, Views!UserCloses(w)
    PROVE  ViewsInv'
<1>1. /\ open' = open \ {w} /\ bereft' = bereft \cup {r \in Requested : opened[r] = w}
      /\ UNCHANGED <<title, aliases, pending, before, age, slot, opened, intruded>>
  BY DEF Views!UserCloses
<1>2. TitlesDiffer' /\ open' \subseteq DOMAIN title'
  BY <1>1, ClosingKeepsTitles
<1>3. ViewsTyped'
  BY <1>1, <1>2 DEF ViewsInv, ViewsTyped, Views!TypeOK
<1>4. OneIsCreated' /\ SlotIsFirst' /\ AppearedIsOwn'
  BY <1>1 DEF ViewsInv, OneIsCreated, SlotIsFirst, AppearedIsOwn
<1>5. AliasesLead'
  BY <1>1 DEF ViewsInv, AliasesLead, Leads
<1> QED BY <1>2, <1>3, <1>4, <1>5 DEF ViewsInv

LEMMA SlotRunsKeeps ==
    ASSUME ViewsInv, NEW r \in Requested, Views!SlotRuns(r)
    PROVE  ViewsInv'
<1>1. /\ slot[r] /\ slot' = [slot EXCEPT ![r] = FALSE]
      /\ UNCHANGED <<aliases, pending, before, age, intruded, bereft>>
  BY DEF Views!SlotRuns
<1>2. /\ pending[r] = "initializing" /\ aliases[r] = NoName /\ opened[r] = Views!NoWindow
      /\ \A q \in Requested : pending[q] = "initializing" => q = r
  BY <1>1 DEF ViewsInv, OneIsCreated, SlotIsFirst
<1>3. /\ slot \in [Requested -> BOOLEAN] /\ open \subseteq DOMAIN title
      /\ opened \in [Requested -> DOMAIN title \cup {Views!NoWindow}]
      /\ title \in Seq(Native) /\ Views!NoWindow \notin DOMAIN title
      /\ before \in [Requested -> SUBSET DOMAIN title]
  BY DEF ViewsInv, ViewsTyped, Views!TypeOK, Views!NoWindow
<1>4. CASE UNCHANGED <<open, title, opened>>
  <2>1. ViewsTyped'
    BY <1>1, <1>4 DEF ViewsInv, ViewsTyped, Views!TypeOK
  <2>2. SlotIsFirst'
    BY <1>1, <1>3, <1>4 DEF ViewsInv, SlotIsFirst
  <2>3. TitlesDiffer' /\ OneIsCreated' /\ AppearedIsOwn' /\ AliasesLead'
    BY <1>1, <1>4 DEF ViewsInv, TitlesDiffer, OneIsCreated, AppearedIsOwn, AliasesLead, Leads
  <2> QED BY <2>1, <2>2, <2>3 DEF ViewsInv
<1>5. CASE Views!OpensNext /\ opened' = [opened EXCEPT ![r] = Len(title) + 1]
  <2>1. /\ title' \in Seq(Native) /\ Len(title') <= MaxWindows
        /\ DOMAIN title' = DOMAIN title \cup {Len(title) + 1}
        /\ \A w \in DOMAIN title : title'[w] = title[w]
        /\ open' = open \cup {Len(title) + 1} /\ open' \subseteq DOMAIN title' /\ TitlesDiffer'
    BY <1>5, OpenedIsNew
  <2>2. /\ opened' \in [Requested -> DOMAIN title' \cup {Views!NoWindow}]
        /\ opened'[r] = Len(title) + 1
        /\ \A q \in Requested : q # r => opened'[q] = opened[q]
    BY <1>3, <1>5, <2>1
  <2>3. ViewsTyped'
    BY <1>1, <2>1, <2>2 DEF ViewsInv, ViewsTyped, Views!TypeOK, Views!NoWindow
  <2>4. SlotIsFirst' /\ OneIsCreated'
    BY <1>1, <1>3, <2>2 DEF ViewsInv, SlotIsFirst, OneIsCreated, Views!NoWindow
  <2>5. AppearedIsOwn'
    <3> SUFFICES ASSUME NEW w \in open' \ before[r]
                 PROVE  w = opened'[r] \/ r \in intruded
      BY <1>1, <1>2 DEF AppearedIsOwn
    <3>1. CASE w = Len(title) + 1
      BY <3>1, <2>2
    <3>2. CASE w \in open \ before[r]
      <4>1. w = opened[r] \/ r \in intruded
        BY <3>2, <1>2 DEF ViewsInv, AppearedIsOwn
      <4> QED BY <4>1, <3>2, <1>2, <1>3
    <3> QED BY <3>1, <3>2, <2>1
  <2>6. AliasesLead'
    <3> SUFFICES ASSUME NEW q \in Requested, aliases[q] # NoName, q \notin intruded \cup bereft
                 PROVE  opened'[q] \in open' /\ title'[opened'[q]] = aliases[q]
      BY <1>1 DEF AliasesLead, Leads
    <3>1. q # r
      BY <1>2
    <3>2. opened[q] \in open /\ title[opened[q]] = aliases[q]
      BY DEF ViewsInv, AliasesLead, Leads
    <3> QED BY <3>1, <3>2, <2>1, <2>2, <1>3
  <2> QED BY <2>1, <2>3, <2>4, <2>5, <2>6 DEF ViewsInv
<1> QED BY <1>4, <1>5 DEF Views!SlotRuns

LEMMA WaitKeeps ==
    ASSUME ViewsInv, NEW r \in Requested, Views!Wait(r)
    PROVE  ViewsInv'
<1>1. /\ pending[r] = "initializing" /\ ~slot[r]
      /\ age' = [age EXCEPT ![r] = IF @ = "young" THEN "ready" ELSE "old"]
      /\ UNCHANGED <<open, title, aliases, pending, before, slot, opened, intruded, bereft>>
  BY DEF Views!Wait
<1>2. ViewsTyped'
  BY <1>1 DEF ViewsInv, ViewsTyped, Views!TypeOK
<1>3. SlotIsFirst'
  BY <1>1 DEF ViewsInv, SlotIsFirst, ViewsTyped, Views!TypeOK
<1>4. TitlesDiffer' /\ OneIsCreated' /\ AppearedIsOwn' /\ AliasesLead'
  BY <1>1 DEF ViewsInv, TitlesDiffer, OneIsCreated, AppearedIsOwn, AliasesLead, Leads
<1> QED BY <1>2, <1>3, <1>4 DEF ViewsInv

\* A call refreshes, may close windows, with all aliases of their names or leaving
\* those whose requests it bereaves, and may make some creations that are not
\* pending a matter of the past.
LEMMA CallKeeps ==
    ASSUME ViewsInv, NEW W \in SUBSET open, open' = open \ W,
           aliases' \in [Requested -> Native \cup {NoName}],
           pending' \in [Requested -> {"none", "initializing", "succeeded", "failed"}],
           bereft \subseteq bereft', bereft' \in SUBSET Requested,
           \A r \in Requested :
              /\ aliases'[r] \in {Views!RefreshedAliases[r], NoName}
              /\ \A w \in W : title[w] # aliases'[r] \/ aliases'[r] = NoName
                              \/ r \in intruded \cup bereft',
           \A r \in Requested : \/ pending'[r] = Views!RefreshedPending[r]
                                \/ pending'[r] # "initializing"
                                   /\ Views!RefreshedPending[r] # "initializing",
           UNCHANGED <<title, before, age, slot, opened, intruded>>
    PROVE  ViewsInv'
<1>1. ViewsTyped' /\ TitlesDiffer'
  BY DEF ViewsInv, ViewsTyped, Views!TypeOK, TitlesDiffer
<1>2. \A r \in Requested : pending'[r] = "initializing" =>
        pending[r] = "initializing" /\ aliases'[r] = NoName
  BY RefreshLeads
<1>3. OneIsCreated' /\ AppearedIsOwn'
  BY <1>2 DEF ViewsInv, OneIsCreated, AppearedIsOwn
<1>4. SlotIsFirst'
  BY RefreshLeads DEF ViewsInv, SlotIsFirst
<1>5. AliasesLead'
  <2> SUFFICES ASSUME NEW r \in Requested, aliases'[r] # NoName, r \notin intruded \cup bereft'
               PROVE  opened[r] \in open' /\ title[opened[r]] = aliases'[r]
    BY DEF AliasesLead, Leads
  <2>1. aliases'[r] = Views!RefreshedAliases[r] /\ \A w \in W : title[w] # aliases'[r]
    OBVIOUS
  <2>2. opened[r] \in open /\ title[opened[r]] = aliases'[r]
    BY <2>1, RefreshLeads DEF Leads
  <2> QED BY <2>1, <2>2
<1> QED BY <1>1, <1>3, <1>4, <1>5 DEF ViewsInv

LEMMA RefreshKeeps ==
    ASSUME ViewsInv, NEW W \in SUBSET open, open' = open \ W,
           aliases' \in [Requested -> Native \cup {NoName}],
           pending' \in [Requested -> {"none", "initializing", "succeeded", "failed"}],
           \A r \in Requested : aliases'[r] \in {Views!RefreshedAliases[r], NoName}
                                /\ \A w \in W : title[w] # aliases'[r] \/ aliases'[r] = NoName,
           \A r \in Requested : \/ pending'[r] = Views!RefreshedPending[r]
                                \/ pending'[r] # "initializing"
                                   /\ Views!RefreshedPending[r] # "initializing",
           UNCHANGED <<title, before, age, slot, opened, intruded, bereft>>
    PROVE  ViewsInv'
<1>1. bereft \subseteq bereft' /\ bereft' \in SUBSET Requested
  BY DEF ViewsInv, ViewsTyped, Views!TypeOK
<1> QED BY <1>1, CallKeeps

LEMMA ListViewsKeeps == ViewsInv /\ Views!ListViews => ViewsInv'
<1> SUFFICES ASSUME ViewsInv, Views!ListViews PROVE ViewsInv'
  OBVIOUS
<1>1. /\ aliases' = Views!RefreshedAliases /\ pending' = Views!RefreshedPending
      /\ UNCHANGED <<open, title, before, age, slot, opened, intruded, bereft>>
  BY DEF Views!ListViews
<1>2. {} \in SUBSET open /\ open' = open \ {}
  BY <1>1
<1> QED BY <1>1, <1>2, RefreshLeads, RefreshKeeps

\* What the aliases are without a name, and that no other one leads to its window.
LEMMA UnaliasedLeads ==
    ASSUME ViewsInv, NEW w \in open
    PROVE  /\ Views!Unaliased(title[w]) \in [Requested -> Native \cup {NoName}]
           /\ \A r \in Requested :
                /\ Views!Unaliased(title[w])[r] \in {Views!RefreshedAliases[r], NoName}
                /\ title[w] # Views!Unaliased(title[w])[r] \/ Views!Unaliased(title[w])[r] = NoName
BY RefreshLeads DEF Views!Unaliased

LEMMA CloseViewKeeps ==
    ASSUME ViewsInv, NEW r \in Requested, Views!CloseView(r)
    PROVE  ViewsInv'
<1>1. PICK w \in open : open' = open \ {w} /\ aliases' = Views!Unaliased(title[w])
  BY DEF Views!CloseView, Views!Target
<1>2. /\ Views!RefreshedPending[r] \notin {"initializing", "failed"}
      /\ pending' = [Views!RefreshedPending EXCEPT ![r] = "none"]
      /\ UNCHANGED <<title, before, age, slot, opened, intruded, bereft>>
  BY DEF Views!CloseView
<1>3. /\ pending' \in [Requested -> {"none", "initializing", "succeeded", "failed"}]
      /\ pending'[r] = "none"
      /\ \A q \in Requested : q # r => pending'[q] = Views!RefreshedPending[q]
  BY <1>2, RefreshLeads
<1>4. \A q \in Requested :
        /\ aliases'[q] \in {Views!RefreshedAliases[q], NoName}
        /\ \A v \in {w} : title[v] # aliases'[q] \/ aliases'[q] = NoName
  BY <1>1, UnaliasedLeads
<1>5. \A q \in Requested : \/ pending'[q] = Views!RefreshedPending[q]
                           \/ pending'[q] # "initializing"
                              /\ Views!RefreshedPending[q] # "initializing"
  BY <1>2, <1>3
<1>6. aliases' \in [Requested -> Native \cup {NoName}] /\ {w} \in SUBSET open
  BY <1>1, UnaliasedLeads
<1> QED BY <1>1, <1>2, <1>3, <1>4, <1>5, <1>6, RefreshKeeps

LEMMA CloseNativeKeeps ==
    ASSUME ViewsInv, NEW w \in open, Views!CloseNative(w)
    PROVE  ViewsInv'
<1>1. /\ open' = open \ {w} /\ aliases' = Views!Unaliased(title[w])
      /\ pending' = Views!RefreshedPending
      /\ UNCHANGED <<title, before, age, slot, opened, intruded, bereft>>
  BY DEF Views!CloseNative
<1>2. {w} \in SUBSET open
  OBVIOUS
<1> QED BY <1>1, <1>2, RefreshLeads, UnaliasedLeads, RefreshKeeps

\* An alias that stays leads to the closed window's request, which is bereft.
LEMMA CloseInOtherCaseKeeps ==
    ASSUME ViewsInv, NEW w \in open, Views!CloseInOtherCase(w)
    PROVE  ViewsInv'
<1>1. /\ open' = open \ {w} /\ aliases' = Views!RefreshedAliases
      /\ pending' = Views!RefreshedPending
      /\ bereft' = bereft \cup {r \in Requested : opened[r] = w}
      /\ UNCHANGED <<title, before, age, slot, opened, intruded>>
  BY DEF Views!CloseInOtherCase
<1>2. /\ {w} \in SUBSET open /\ bereft \subseteq bereft'
      /\ bereft' \in SUBSET Requested
  BY <1>1 DEF ViewsInv, ViewsTyped, Views!TypeOK
<1>3. ASSUME NEW r \in Requested, title[w] = aliases'[r], aliases'[r] # NoName,
             r \notin intruded \cup bereft
      PROVE  r \in bereft'
  <2>1. opened[r] \in open /\ title[opened[r]] = title[w]
    BY <1>1, <1>3, RefreshLeads DEF Leads
  <2>2. opened[r] = w
    BY <2>1 DEF ViewsInv, TitlesDiffer
  <2> QED BY <1>1, <2>2
<1>4. \A r \in Requested :
        /\ aliases'[r] \in {Views!RefreshedAliases[r], NoName}
        /\ \A v \in {w} : title[v] # aliases'[r] \/ aliases'[r] = NoName
                          \/ r \in intruded \cup bereft'
  BY <1>1, <1>2, <1>3
<1> QED BY <1>1, <1>2, <1>4, RefreshLeads, CallKeeps

LEMMA CreateViewKeeps ==
    ASSUME ViewsInv, NEW r \in Requested, Views!CreateView(r)
    PROVE  ViewsInv'
<1>1. /\ Views!RefreshedAliases[r] = NoName
      /\ \A q \in Requested : Views!RefreshedPending[q] # "initializing"
      /\ aliases' = Views!RefreshedAliases
      /\ pending' = [Views!RefreshedPending EXCEPT ![r] = "initializing"]
      /\ before' = [before EXCEPT ![r] = open]
      /\ age' = [age EXCEPT ![r] = "young"]
      /\ slot' = [slot EXCEPT ![r] = TRUE]
      /\ opened' = [opened EXCEPT ![r] = Views!NoWindow]
      /\ intruded' = intruded \ {r} /\ bereft' = bereft \ {r}
      /\ UNCHANGED <<open, title>>
  BY DEF Views!CreateView
<1>2. \A q \in Requested : ~slot[q] /\ Leads(q, Views!RefreshedAliases[q])
  BY <1>1, RefreshLeads
<1>3. Views!TypeOK
  BY DEF ViewsInv, ViewsTyped
<1>4. ViewsTyped'
  BY <1>1, <1>3, RefreshLeads DEF ViewsTyped, Views!TypeOK
<1>5. /\ pending'[r] = "initializing" /\ before'[r] = open /\ age'[r] = "young"
      /\ opened'[r] = Views!NoWindow
      /\ \A q \in Requested : q # r =>
            pending'[q] # "initializing" /\ ~slot'[q] /\ opened'[q] = opened[q]
  BY <1>1, <1>2, <1>3, RefreshLeads DEF Views!TypeOK
<1>6. OneIsCreated' /\ SlotIsFirst' /\ AppearedIsOwn'
  BY <1>1, <1>5 DEF OneIsCreated, SlotIsFirst, AppearedIsOwn, Views!NoWindow
<1>7. AliasesLead'
  BY <1>1, <1>2, <1>5 DEF AliasesLead, Leads
<1>8. TitlesDiffer'
  BY <1>1 DEF ViewsInv, TitlesDiffer
<1> QED BY <1>4, <1>6, <1>7, <1>8 DEF ViewsInv

LEMMA ViewsNextKeeps == ViewsInv /\ [Views!Next]_Views!viewVars => ViewsInv'
<1> SUFFICES ASSUME ViewsInv, [Views!Next]_Views!viewVars PROVE ViewsInv'
  OBVIOUS
<1>1. CASE UNCHANGED Views!viewVars
  BY <1>1 DEF Views!viewVars, ViewsInv, ViewsTyped, Views!TypeOK, TitlesDiffer, OneIsCreated,
     SlotIsFirst, AppearedIsOwn, AliasesLead, Leads
<1> QED
  BY <1>1, UserOpensKeeps, UserClosesKeeps, SlotRunsKeeps, WaitKeeps, ListViewsKeeps,
     CloseViewKeeps, CloseNativeKeeps, CloseInOtherCaseKeeps, CreateViewKeeps
  DEF Views!Next

LEMMA ViewsAlways == Views!Spec => []ViewsInv
BY ViewsInitKeeps, ViewsNextKeeps, PTL DEF Views!Spec

\* The state of the 3D views has its type (Native3DViews.tla), for any number of
\* names and windows.
THEOREM ViewsTypeCorrect == Views!Spec => []Views!TypeOK
<1>1. ViewsInv => Views!TypeOK
  BY DEF ViewsInv, ViewsTyped
<1> QED BY <1>1, ViewsAlways, PTL

\* The name a client asked for leads to the view that was created for it, although
\* QGIS names the windows and uses names again: closing a view drops every alias of
\* its name, unless the close is asked for in another letter case, and only a window
\* that appeared since is given one (_refresh_pending_native_3d and the close action
\* of ecosystem_tools.py).
THEOREM NamesLead == Views!Spec => []NamesLeadToOwnView
<1>1. ViewsInv => NamesLeadToOwnView
  BY DEF ViewsInv, TitlesDiffer, AliasesLead, Leads, NamesLeadToOwnView,
         Views!NamesLeadToOwnView
<1> QED BY <1>1, ViewsAlways, PTL

(* ------------------------- sums and parts of sequences ------------------------- *)

\* A set of natural numbers has a least one: the induction of this section.
LEMMA LeastNatural ==
    ASSUME NEW X \in SUBSET Nat, X # {}
    PROVE  \E x \in X : \A y \in X : x <= y
<1>1. PICK x \in X : \A y \in X : ~(<<y, x>> \in OpToRel(<, Nat))
  BY WFMin, NatLessThanWellFounded
<1>2. \A y \in Nat, z \in Nat : y < z => <<y, z>> \in OpToRel(<, Nat)
  BY DEF OpToRel
<1>3. ASSUME NEW y \in X PROVE x <= y
  <2>1. x \in Nat /\ y \in Nat
    OBVIOUS
  <2>2. ~(y < x)
    BY <1>1, <1>2, <2>1, Zenon
  <2> QED BY <2>1, <2>2
<1> QED BY <1>3

\* A function can be defined on 0..N by what each value makes of the one before.
Iterates(f, V, N, first, next) ==
    f \in [0..N -> V] /\ f[0] = first /\ \A n \in 1..N : f[n] = next[n][f[n - 1]]

LEMMA Iterated ==
    ASSUME NEW V, NEW first \in V, NEW N \in Nat, NEW next \in [1..N -> [V -> V]]
    PROVE  \E f : Iterates(f, V, N, first, next)
<1> DEFINE Good(m, f) == /\ f \in [0..m -> V] /\ f[0] = first
                         /\ \A n \in 1..m : f[n] = next[n][f[n - 1]]
           Bad == {m \in 0..N : \A f : ~Good(m, f)}
<1>1. N \in 0..N /\ (N \notin Bad => \E f : Iterates(f, V, N, first, next))
  BY DEF Iterates
<1>2. SUFFICES ASSUME Bad # {} PROVE FALSE
  <2> HIDE DEF Bad
  <2>1. N \notin Bad
    BY <1>2
  <2> QED BY <1>1, <2>1
<1>3. PICK m \in Bad : \A y \in Bad : m <= y
  <2>1. Bad \in SUBSET Nat
    OBVIOUS
  <2> HIDE DEF Bad
  <2> QED BY <2>1, <1>2, LeastNatural
<1>4. m \in 0..N /\ \A f : ~Good(m, f)
  OBVIOUS
<1>5. m # 0
  <2>1. Good(0, [n \in 0..0 |-> first])
    OBVIOUS
  <2> QED BY <2>1, <1>4
<1>6. m - 1 \in 0..N /\ m \in 1..N /\ ~(m <= m - 1)
  BY <1>4, <1>5
<1>7. PICK f : Good(m - 1, f)
  <2>1. m - 1 \notin Bad
    BY <1>3, <1>6
  <2> QED BY <2>1, <1>6
<1> DEFINE g == [n \in 0..m |-> IF n = m THEN next[m][f[m - 1]] ELSE f[n]]
<1>8. f[m - 1] \in V /\ next[m][f[m - 1]] \in V
  BY <1>6, <1>7
<1>9. \A n \in 0..(m - 1) : n \in 0..m /\ n # m /\ g[n] = f[n] /\ f[n] \in V
  BY <1>6, <1>7
<1>10. \A n \in 0..m : n \in 0..(m - 1) \/ n = m
  BY <1>6
<1>11. g \in [0..m -> V] /\ g[0] = first
  BY <1>6, <1>7, <1>8, <1>9, <1>10
<1>12. ASSUME NEW n \in 1..m PROVE g[n] = next[n][g[n - 1]]
  <2>1. n - 1 \in 0..(m - 1)
    BY <1>6
  <2>2. CASE n = m
    BY <2>1, <2>2, <1>6, <1>9
  <2>3. CASE n # m
    <3>1. n \in 1..(m - 1) /\ n \in 0..(m - 1)
      BY <2>3, <1>6
    <3>2. f[n] = next[n][f[n - 1]]
      BY <3>1, <1>7
    <3> QED BY <3>1, <3>2, <2>1, <1>9
  <2> QED BY <2>2, <2>3
<1>13. Good(m, g)
  BY <1>11, <1>12
<1> QED BY <1>4, <1>13

\* Sums begin with zero and grow by one number at a time.
LEMMA SumsUnfold ==
    ASSUME NEW N \in Nat, NEW numbers \in [1..N -> Nat]
    PROVE  /\ Stores!Sums(numbers) \in [0..N -> Nat] /\ Stores!Sums(numbers)[0] = 0
           /\ \A n \in 1..N :
                Stores!Sums(numbers)[n] = Stores!Sums(numbers)[n - 1] + numbers[n]
<1> DEFINE next == [n \in 1..N |-> [v \in Nat |-> v + numbers[n]]]
           Unfolds(f) == f = [n \in 0..N |-> IF n = 0 THEN 0 ELSE f[n - 1] + numbers[n]]
<1>1. Len(numbers) = N
  OBVIOUS
<1>2. PICK f : Iterates(f, Nat, N, 0, next)
  <2>1. next \in [1..N -> [Nat -> Nat]] /\ 0 \in Nat
    OBVIOUS
  <2> HIDE DEF next
  <2> QED BY <2>1, Iterated
<1>3. f \in [0..N -> Nat] /\ f[0] = 0 /\ \A n \in 1..N : f[n] = next[n][f[n - 1]]
  <2> HIDE DEF next
  <2> QED BY <1>2 DEF Iterates
<1>4. ASSUME NEW n \in 1..N PROVE n - 1 \in 0..N /\ f[n] = f[n - 1] + numbers[n]
  <2>1. n - 1 \in 0..N
    OBVIOUS
  <2>2. PICK v \in Nat : v = f[n - 1]
    BY <2>1, <1>3
  <2>3. next[n][v] = v + numbers[n]
    OBVIOUS
  <2> QED BY <2>1, <2>2, <2>3, <1>3
<1>5. Unfolds(f)
  BY <1>3, <1>4
<1>6. Stores!Sums(numbers) = CHOOSE g : Unfolds(g)
  BY <1>1 DEF Stores!Sums
<1>7. Unfolds(Stores!Sums(numbers))
  <2> HIDE DEF Unfolds
  <2> QED BY <1>5, <1>6, Zenon
<1>8. PICK g : g = Stores!Sums(numbers) /\ Unfolds(g)
  BY <1>7
<1>9. g[0] = 0 /\ \A n \in 1..N : g[n] = g[n - 1] + numbers[n]
  BY <1>8
<1>10. \A n \in 0..N : g[n] = f[n]
  <2> DEFINE Bad == {n \in 0..N : g[n] # f[n]}
  <2>1. SUFFICES ASSUME Bad # {} PROVE FALSE
    OBVIOUS
  <2>2. Bad \in SUBSET Nat
    OBVIOUS
  <2>3. PICK m \in Bad : \A y \in Bad : m <= y
    <3> HIDE DEF Bad
    <3> QED BY <2>1, <2>2, LeastNatural
  <2>4. m \in 1..N /\ m - 1 \in 0..N /\ ~(m <= m - 1)
    BY <1>3, <1>9
  <2>5. g[m - 1] = f[m - 1]
    BY <2>3, <2>4
  <2> QED BY <2>4, <2>5, <1>4, <1>9
<1>11. g \in [0..N -> Nat]
  <2>1. \A n \in 0..N : g[n] \in Nat
    BY <1>3, <1>10
  <2>2. g = [n \in 0..N |-> g[n]]
    BY <1>8
  <2> HIDE DEF Unfolds
  <2> QED BY <2>1, <2>2
<1> QED BY <1>8, <1>9, <1>11

\* Sums that grow alike stay as far apart as they are at first.
LEMMA ParallelSums ==
    ASSUME NEW N \in Nat, NEW f, NEW g,
           \A n \in 0..N : f[n] \in Int, \A n \in 0..N : g[n] \in Int,
           \A n \in 1..N : f[n] - f[n - 1] = g[n] - g[n - 1]
    PROVE  f[N] - g[N] = f[0] - g[0]
<1> DEFINE Bad == {n \in 0..N : f[n] - g[n] # f[0] - g[0]}
<1>0. N \in 0..N /\ (N \notin Bad => f[N] - g[N] = f[0] - g[0])
  OBVIOUS
<1>1. SUFFICES ASSUME Bad # {} PROVE FALSE
  <2> HIDE DEF Bad
  <2>1. N \notin Bad
    BY <1>1
  <2> QED BY <1>0, <2>1
<1>2. Bad \in SUBSET Nat
  OBVIOUS
<1>3. PICK m \in Bad : \A y \in Bad : m <= y
  <2> HIDE DEF Bad
  <2> QED BY <1>1, <1>2, LeastNatural
<1>4. m \in 1..N /\ m - 1 \in 0..N /\ ~(m <= m - 1)
  OBVIOUS
<1>5. f[m - 1] - g[m - 1] = f[0] - g[0]
  BY <1>3, <1>4
<1>6. f[m] \in Int /\ g[m] \in Int /\ f[m - 1] \in Int /\ g[m - 1] \in Int
  BY <1>4
<1>7. f[m] - f[m - 1] = g[m] - g[m - 1] /\ f[m] - g[m] # f[0] - g[0]
  BY <1>4
<1> QED BY <1>5, <1>6, <1>7

SizesOf(s) == [i \in DOMAIN s |-> s[i].size]

LEMMA BytesUnfold ==
    ASSUME NEW S, \A e \in S : e.size \in Nat, NEW s \in Seq(S)
    PROVE  /\ Len(s) \in Nat /\ SizesOf(s) \in [1..Len(s) -> Nat]
           /\ Stores!Bytes(s) = Stores!Sums(SizesOf(s))[Len(s)] /\ Stores!Bytes(s) \in Nat
           /\ Stores!Sums(SizesOf(s)) \in [0..Len(s) -> Nat]
           /\ Stores!Sums(SizesOf(s))[0] = 0
           /\ \A n \in 1..Len(s) :
                Stores!Sums(SizesOf(s))[n] = Stores!Sums(SizesOf(s))[n - 1] + s[n].size
<1>1. Len(s) \in Nat /\ DOMAIN s = 1..Len(s) /\ \A i \in 1..Len(s) : s[i] \in S
  OBVIOUS
<1>2. SizesOf(s) \in [1..Len(s) -> Nat] /\ \A i \in 1..Len(s) : SizesOf(s)[i] = s[i].size
  BY <1>1 DEF SizesOf
<1>3. /\ Stores!Sums(SizesOf(s)) \in [0..Len(s) -> Nat]
      /\ Stores!Sums(SizesOf(s))[0] = 0
      /\ \A n \in 1..Len(s) :
           Stores!Sums(SizesOf(s))[n] = Stores!Sums(SizesOf(s))[n - 1] + SizesOf(s)[n]
  BY <1>1, <1>2, SumsUnfold
<1>4. Stores!Bytes(s) = Stores!Sums(SizesOf(s))[Len(s)]
  BY DEF Stores!Bytes, SizesOf
<1>5. Len(s) \in 0..Len(s)
  BY <1>1
<1> QED BY <1>1, <1>2, <1>3, <1>4, <1>5

LEMMA BytesConcat ==
    ASSUME NEW S, \A e \in S : e.size \in Nat, NEW s \in Seq(S), NEW t \in Seq(S)
    PROVE  Stores!Bytes(s \o t) = Stores!Bytes(s) + Stores!Bytes(t)
<1>1. PICK n \in Nat, m \in Nat : n = Len(s) /\ m = Len(t)
  OBVIOUS
<1>2. PICK c : c = s \o t
  OBVIOUS
<1>3. /\ c \in Seq(S) /\ Len(c) = n + m
      /\ \A i \in 1..(n + m) : c[i] = IF i <= n THEN s[i] ELSE t[i - n]
  BY <1>1, <1>2, ConcatProperties
<1>4. PICK f : /\ f \in [0..n -> Nat] /\ f[0] = 0 /\ f[n] = Stores!Bytes(s)
               /\ \A i \in 1..n : f[i] = f[i - 1] + s[i].size
  BY <1>1, BytesUnfold
<1>5. PICK g : /\ g \in [0..m -> Nat] /\ g[0] = 0 /\ g[m] = Stores!Bytes(t)
               /\ \A i \in 1..m : g[i] = g[i - 1] + t[i].size
  BY <1>1, BytesUnfold
<1>6. PICK h : /\ h \in [0..Len(c) -> Nat] /\ h[0] = 0 /\ h[Len(c)] = Stores!Bytes(c)
               /\ \A i \in 1..Len(c) : h[i] = h[i - 1] + c[i].size
  BY <1>3, BytesUnfold
<1>7. \A i \in 0..n : f[i] \in Int
  BY <1>4
<1>8. \A i \in 0..m : g[i] \in Int
  BY <1>5
<1>9. \A i \in 0..(n + m) : h[i] \in Int
  BY <1>3, <1>6
<1>10. h[n] = f[n]
  <2>1. \A i \in 0..n : h[i] \in Int
    BY <1>9
  <2>2. ASSUME NEW i \in 1..n PROVE h[i] - h[i - 1] = f[i] - f[i - 1]
    <3>1. i \in 1..(n + m) /\ i - 1 \in 0..n /\ i \in 0..n
      OBVIOUS
    <3>2. c[i] = s[i] /\ s[i].size \in Nat
      BY <1>1, <1>3, <3>1
    <3>3. f[i] = f[i - 1] + s[i].size
      BY <1>4
    <3>4. h[i] = h[i - 1] + s[i].size
      BY <1>3, <1>6, <3>1, <3>2
    <3>5. f[i - 1] \in Int /\ h[i - 1] \in Int
      BY <3>1, <1>7, <2>1
    <3> QED BY <3>2, <3>3, <3>4, <3>5
  <2>3. h[n] - f[n] = h[0] - f[0]
    BY <2>1, <2>2, <1>7, ParallelSums
  <2>4. n \in 0..n
    OBVIOUS
  <2>5. h[n] \in Int /\ f[n] \in Int
    BY <2>1, <2>4, <1>7
  <2> QED BY <2>3, <2>5, <1>4, <1>6
<1>11. h[n + m] = g[m] + f[n]
  <2>1. PICK k : k = [i \in 0..m |-> h[n + i]]
    OBVIOUS
  <2>2. \A i \in 0..m : n + i \in 0..(n + m) /\ k[i] = h[n + i]
    BY <2>1
  <2>3. \A i \in 0..m : k[i] \in Int
    BY <2>2, <1>9
  <2>4. ASSUME NEW i \in 1..m PROVE k[i] - k[i - 1] = g[i] - g[i - 1]
    <3>1. /\ n + i \in 1..(n + m) /\ n + i - 1 = n + (i - 1) /\ i - 1 \in 0..m /\ i \in 0..m
          /\ ~(n + i <= n) /\ (n + i) - n = i
      OBVIOUS
    <3>2. c[n + i] = t[i] /\ t[i].size \in Nat
      <4>1. c[n + i] = t[(n + i) - n]
        BY <3>1, <1>3
      <4> QED BY <4>1, <3>1, <1>1
    <3>3. h[n + i] = h[n + i - 1] + c[n + i].size
      BY <3>1, <1>3, <1>6
    <3>4. k[i] = k[i - 1] + t[i].size
      BY <3>1, <3>2, <3>3, <2>2
    <3>5. g[i] = g[i - 1] + t[i].size
      BY <1>5
    <3>6. k[i - 1] \in Int /\ g[i - 1] \in Int
      BY <3>1, <2>3, <1>8
    <3> QED BY <3>2, <3>4, <3>5, <3>6
  <2>5. k[m] - g[m] = k[0] - g[0]
    BY <2>3, <2>4, <1>8, ParallelSums
  <2>6. m \in 0..m /\ 0 \in 0..m /\ n + 0 = n
    OBVIOUS
  <2>7. k[m] = h[n + m] /\ k[0] = f[n]
    BY <2>2, <2>6, <1>10
  <2>8. k[m] \in Int /\ g[m] \in Int /\ k[0] \in Int
    BY <2>3, <2>6, <1>8
  <2> QED BY <2>5, <2>7, <2>8, <1>5
<1>12. f[n] \in Nat /\ g[m] \in Nat
  BY <1>4, <1>5
<1> QED BY <1>2, <1>3, <1>4, <1>5, <1>6, <1>11, <1>12

LEMMA BytesOfOne ==
    ASSUME NEW S, \A e \in S : e.size \in Nat, NEW e \in S
    PROVE  Stores!Bytes(<<e>>) = e.size
<1>1. <<e>> \in Seq(S) /\ Len(<<e>>) = 1 /\ <<e>>[1] = e /\ 1 \in 1..1 /\ 1 - 1 = 0
  OBVIOUS
<1>2. PICK f : /\ f[0] = 0 /\ f[1] = Stores!Bytes(<<e>>)
               /\ \A i \in 1..1 : f[i] = f[i - 1] + <<e>>[i].size
  BY <1>1, BytesUnfold
<1>3. f[1] = f[0] + e.size
  BY <1>1, <1>2
<1> QED BY <1>2, <1>3

\* What is at some places of a sequence is a sequence of its elements, with the last
\* one if that place is among them.
LEMMA AtSomePlaces ==
    ASSUME NEW S, NEW s \in Seq(S), NEW places
    PROVE  /\ Stores!At(places, s) \in Seq(S)
           /\ Len(s) # 0 /\ Len(s) \in places
                => s[Len(s)] \in Stores!ToSet(Stores!At(places, s))
<1>1. PICK N \in Nat : N = Len(s)
  OBVIOUS
<1> DEFINE Step(n, v) == IF n \in places THEN Append(v, s[n]) ELSE v
           next == [n \in 1..N |-> [v \in Seq(S) |-> Step(n, v)]]
           Unfolds(f) == f = [n \in 0..N |-> IF n = 0 THEN <<>> ELSE IF n \in places
                                             THEN Append(f[n - 1], s[n]) ELSE f[n - 1]]
<1>2. \A n \in 1..N : s[n] \in S
  BY <1>1
<1>3. \A n \in 1..N : \A v \in Seq(S) : Step(n, v) \in Seq(S)
  BY <1>2
<1>4. PICK f : Iterates(f, Seq(S), N, <<>>, next)
  <2>1. next \in [1..N -> [Seq(S) -> Seq(S)]] /\ <<>> \in Seq(S)
    <3> HIDE DEF Step
    <3> QED BY <1>3
  <2> HIDE DEF next
  <2> QED BY <2>1, Iterated
<1>5. f \in [0..N -> Seq(S)] /\ f[0] = <<>> /\ \A n \in 1..N : f[n] = next[n][f[n - 1]]
  <2> HIDE DEF next
  <2> QED BY <1>4 DEF Iterates
<1>6. ASSUME NEW n \in 1..N
      PROVE  n - 1 \in 0..N /\ f[n - 1] \in Seq(S) /\ f[n] = Step(n, f[n - 1])
  <2>1. n - 1 \in 0..N
    OBVIOUS
  <2>2. PICK v \in Seq(S) : v = f[n - 1]
    BY <2>1, <1>5
  <2>3. next[n][v] = Step(n, v)
    <3> HIDE DEF Step
    <3> QED OBVIOUS
  <2> HIDE DEF next, Step
  <2> QED BY <2>1, <2>2, <2>3, <1>5
<1>7. Unfolds(f)
  <2>1. ASSUME NEW n \in 0..N
        PROVE  f[n] = IF n = 0 THEN <<>> ELSE IF n \in places
                               THEN Append(f[n - 1], s[n]) ELSE f[n - 1]
    <3>1. n = 0 \/ n \in 1..N
      OBVIOUS
    <3>2. n \in 1..N => n # 0
      OBVIOUS
    <3> QED BY <3>1, <3>2, <1>5, <1>6, Zenon
  <2> QED BY <2>1, <1>5, Zenon
<1>8. PICK g : Unfolds(g) /\ Stores!At(places, s) = g[N]
  <2>1. Stores!At(places, s) = (CHOOSE g : Unfolds(g))[N]
    BY <1>1 DEF Stores!At
  <2> HIDE DEF Unfolds
  <2>2. Unfolds(CHOOSE g : Unfolds(g))
    BY <1>7, Zenon
  <2> QED BY <2>1, <2>2
<1>9. g[0] = <<>> /\ \A n \in 1..N : g[n] = Step(n, g[n - 1])
  <2>1. \A n \in 0..N : g[n] = IF n = 0 THEN <<>> ELSE IF n \in places
                               THEN Append(g[n - 1], s[n]) ELSE g[n - 1]
    BY <1>8, Zenon
  <2>2. 0 \in 0..N /\ \A n \in 1..N : n \in 0..N /\ n # 0
    OBVIOUS
  <2> QED BY <2>1, <2>2, Zenon
<1>10. \A n \in 0..N : g[n] = f[n]
  <2> DEFINE Bad == {n \in 0..N : g[n] # f[n]}
  <2>1. SUFFICES ASSUME Bad # {} PROVE FALSE
    OBVIOUS
  <2>2. Bad \in SUBSET Nat
    OBVIOUS
  <2>3. PICK m \in Bad : \A y \in Bad : m <= y
    <3> HIDE DEF Bad
    <3> QED BY <2>1, <2>2, LeastNatural
  <2>4. m \in 1..N /\ m - 1 \in 0..N /\ ~(m <= m - 1)
    BY <1>5, <1>9
  <2>5. g[m - 1] = f[m - 1]
    BY <2>3, <2>4
  <2> HIDE DEF Step
  <2> QED BY <2>4, <2>5, <1>6, <1>9
<1>11. g[N] \in Seq(S)
  <2>1. N \in 0..N
    OBVIOUS
  <2>2. f[N] \in Seq(S)
    BY <2>1, <1>5
  <2> QED BY <2>1, <2>2, <1>10, Zenon
<1>12. ASSUME N # 0, N \in places PROVE s[N] \in Stores!ToSet(g[N])
  <2>1. N \in 1..N /\ N - 1 \in 0..N
    BY <1>12
  <2>2. PICK v \in Seq(S) : v = g[N - 1]
    BY <2>1, <1>5, <1>10
  <2>3. g[N] = Append(v, s[N])
    BY <2>1, <2>2, <1>9, <1>12
  <2>4. Len(v) + 1 \in DOMAIN Append(v, s[N]) /\ Append(v, s[N])[Len(v) + 1] = s[N]
    BY <1>2, <2>1
  <2> QED BY <2>3, <2>4 DEF Stores!ToSet
<1> QED BY <1>1, <1>8, <1>11, <1>12

(* ---------------------- stores of handles and artifacts ---------------------- *)

HandlesKept ==
    handles \in Seq(Ids) /\ Stores!IsInjective(handles) /\ Len(handles) <= MaxHandles

LEMMA LargerOfTwo ==
    ASSUME NEW a \in Int, NEW b \in Int
    PROVE  Stores!Max({a, b}) \in {a, b} /\ Stores!Max({a, b}) >= a /\ Stores!Max({a, b}) >= b
<1>1. \E x \in {a, b} : \A y \in {a, b} : x >= y
  <2>1. CASE a >= b
    BY <2>1
  <2>2. CASE b >= a
    BY <2>2
  <2> QED BY <2>1, <2>2
<1>2. PICK x \in {a, b} : x = Stores!Max({a, b}) /\ \A y \in {a, b} : x >= y
  BY <1>1 DEF Stores!Max
<1> QED BY <1>2

\* The elements of a sequence from one of them on.
LEMMA LastElements ==
    ASSUME NEW S, NEW s \in Seq(S), NEW a \in Int, a >= 1, a <= Len(s) + 1
    PROVE  /\ SubSeq(s, a, Len(s)) \in Seq(S) /\ Len(SubSeq(s, a, Len(s))) = Len(s) + 1 - a
           /\ \A i \in 1..(Len(s) + 1 - a) : SubSeq(s, a, Len(s))[i] = s[a + i - 1]
<1>1. PICK n \in Nat : n = Len(s)
  OBVIOUS
<1>2. \A i \in a..n : s[i] \in S
  BY <1>1
<1>3. /\ SubSeq(s, a, n) \in Seq(S) /\ Len(SubSeq(s, a, n)) = IF a <= n THEN n - a + 1 ELSE 0
      /\ \A i \in 1..(n - a + 1) : SubSeq(s, a, n)[i] = s[a + i - 1]
  BY <1>2, SubSeqProperties
<1> QED BY <1>1, <1>3

\* Where the last elements of what is stored are among all and among what is kept.
LEMMA PlaceOfLast ==
    ASSUME NEW n \in Nat, NEW m \in Nat, NEW M \in Nat \ {0}, n <= M,
           NEW a \in Int, a = 1 \/ a = n + m - M + 1,
           NEW k \in Int, k >= 1, k >= m - M + 1, NEW i \in 1..(m + 1 - k)
    PROVE  \E p \in 1..(n + m) :
             /\ k + i - 1 \in 1..m /\ p > n /\ p - n = k + i - 1
             /\ p + 1 - a \in 1..(n + m + 1 - a) /\ a + (p + 1 - a) - 1 = p
<1> WITNESS n + k + i - 1 \in 1..(n + m)
<1> QED OBVIOUS

\* Ids that are new to the store, each of them once.
FreshIds(ids) ==
    /\ ids \in Seq(Ids) /\ Stores!IsInjective(ids)
    /\ \A i \in 1..Len(ids), j \in 1..Len(handles) : ids[i] # handles[j]

\* However many handles are stored at once, the last of them are there.
LEMMA StoredAreLast ==
    ASSUME HandlesKept, NEW ids, FreshIds(ids), Stores!Stored(ids),
           Stores!Promise("handles", ids)
    PROVE  HandlesKept' /\ Stores!Honoured'
<1>0. handles \in Seq(Ids) /\ ids \in Seq(Ids)
  BY DEF HandlesKept, FreshIds
<1>1. PICK n \in Nat, m \in Nat : n = Len(handles) /\ m = Len(ids)
  BY <1>0
<1>2. PICK all : all = handles \o ids
  OBVIOUS
<1>3. /\ all \in Seq(Ids) /\ Len(all) = n + m
      /\ \A i \in 1..(n + m) : all[i] = IF i <= n THEN handles[i] ELSE ids[i - n]
  BY <1>0, <1>1, <1>2, ConcatProperties
<1>4. PICK a \in Int :
        a = (IF Len(all) > MaxHandles THEN Len(all) - MaxHandles ELSE 0) + 1
  BY <1>3, PluginAssumption
<1>5. handles' = SubSeq(all, a, Len(all))
  BY <1>2, <1>4, Zenon DEF Stores!Stored
<1>6. /\ MaxHandles \in Nat \ {0} /\ n <= MaxHandles /\ a >= 1 /\ a <= n + m + 1
      /\ n + m + 1 - a <= MaxHandles /\ (a = 1 \/ a = n + m - MaxHandles + 1)
  <2>1. n <= MaxHandles /\ MaxHandles \in Nat \ {0}
    BY <1>1, PluginAssumption DEF HandlesKept
  <2> QED BY <2>1, <1>3, <1>4
<1>7. /\ handles' \in Seq(Ids) /\ Len(handles') = n + m + 1 - a
      /\ \A i \in 1..(n + m + 1 - a) : handles'[i] = all[a + i - 1]
  <2>1. all \in Seq(Ids) /\ a >= 1 /\ a <= Len(all) + 1
    BY <1>3, <1>6
  <2>2. /\ SubSeq(all, a, Len(all)) \in Seq(Ids)
        /\ Len(SubSeq(all, a, Len(all))) = Len(all) + 1 - a
        /\ \A i \in 1..(Len(all) + 1 - a) : SubSeq(all, a, Len(all))[i] = all[a + i - 1]
    BY <2>1, LastElements
  <2>3. Len(all) = n + m
    BY <1>3
  <2> QED BY <2>2, <2>3, <1>5, Zenon
<1>8. \A i, j \in 1..(n + m) : all[i] = all[j] => i = j
  <2>1. \A i, j \in 1..n : handles[i] = handles[j] => i = j
    BY <1>0, <1>1 DEF HandlesKept, Stores!IsInjective
  <2>2. \A i, j \in 1..m : ids[i] = ids[j] => i = j
    BY <1>0, <1>1 DEF Stores!IsInjective, FreshIds
  <2>3. \A i \in 1..m, j \in 1..n : ids[i] # handles[j]
    BY <1>1 DEF FreshIds
  <2> SUFFICES ASSUME NEW i \in 1..(n + m), NEW j \in 1..(n + m), all[i] = all[j] PROVE i = j
    OBVIOUS
  <2>4. i > n => i - n \in 1..m /\ all[i] = ids[i - n]
    BY <1>3
  <2>5. j > n => j - n \in 1..m /\ all[j] = ids[j - n]
    BY <1>3
  <2>6. (i <= n => i \in 1..n /\ all[i] = handles[i]) /\ (j <= n => j \in 1..n /\ all[j] = handles[j])
    BY <1>3
  <2>7. i > n /\ j > n => i - n = j - n
    BY <2>2, <2>4, <2>5
  <2>8. ~(i > n /\ j <= n) /\ ~(i <= n /\ j > n)
    BY <2>3, <2>4, <2>5, <2>6
  <2>9. i <= n /\ j <= n => i = j
    BY <2>1, <2>6
  <2> QED BY <2>7, <2>8, <2>9
<1>9. Stores!IsInjective(handles')
  <2> SUFFICES ASSUME NEW i \in 1..(n + m + 1 - a), NEW j \in 1..(n + m + 1 - a),
                      handles'[i] = handles'[j]
               PROVE  i = j
    BY <1>7 DEF Stores!IsInjective
  <2>1. a + i - 1 \in 1..(n + m) /\ a + j - 1 \in 1..(n + m)
    BY <1>6
  <2>2. a + i - 1 = a + j - 1
    BY <2>1, <1>7, <1>8
  <2> QED BY <2>2
<1>10. Stores!Honoured'
  <2>1. PICK k \in Int : /\ k = Stores!Max({1, m - MaxHandles + 1})
                         /\ k >= 1 /\ k >= m - MaxHandles + 1 /\ k <= m + 1
    <3>1. PICK b \in Int : b = m - MaxHandles + 1 /\ b <= m
      BY <1>6
    <3>2. Stores!Max({1, b}) \in {1, b} /\ Stores!Max({1, b}) >= 1 /\ Stores!Max({1, b}) >= b
      BY LargerOfTwo
    <3> QED BY <3>1, <3>2
  <2>2. PICK last : last = SubSeq(ids, k, m)
    OBVIOUS
  <2>3. /\ last \in Seq(Ids) /\ Len(last) = m + 1 - k
        /\ \A i \in 1..(m + 1 - k) : last[i] = ids[k + i - 1]
    <3>1. k >= 1 /\ k <= Len(ids) + 1 /\ last = SubSeq(ids, k, Len(ids))
      BY <1>1, <2>1, <2>2
    <3>2. /\ SubSeq(ids, k, Len(ids)) \in Seq(Ids)
          /\ Len(SubSeq(ids, k, Len(ids))) = Len(ids) + 1 - k
          /\ \A i \in 1..(Len(ids) + 1 - k) : SubSeq(ids, k, Len(ids))[i] = ids[k + i - 1]
      BY <3>1, <1>0, LastElements
    <3> QED BY <3>1, <3>2, <1>1
  <2>4. k >= 1 /\ k >= m - MaxHandles + 1
    BY <2>1
  <2>5. ASSUME NEW i \in 1..(m + 1 - k)
        PROVE  \E j \in 1..(n + m + 1 - a) : last[i] = handles'[j]
    <3>1. PICK p \in 1..(n + m) :
             /\ k + i - 1 \in 1..m /\ p > n /\ p - n = k + i - 1
             /\ p + 1 - a \in 1..(n + m + 1 - a) /\ a + (p + 1 - a) - 1 = p
      BY <1>6, <2>4, PlaceOfLast
    <3>2. all[p] = ids[p - n]
      BY <3>1, <1>3
    <3>3. last[i] = ids[k + i - 1]
      BY <2>3
    <3>4. handles'[p + 1 - a] = all[p]
      BY <3>1, <1>7
    <3> QED BY <3>1, <3>2, <3>3, <3>4
  <2>7. Stores!ToSet(last) \subseteq Stores!ToSet(handles')
    <3>1. DOMAIN last = 1..(m + 1 - k) /\ DOMAIN handles' = 1..(n + m + 1 - a)
      BY <2>3, <1>7, LenProperties
    <3> QED BY <3>1, <2>5 DEF Stores!ToSet
  <2>6. answer' = [store |-> "handles", ids |-> ids]
    BY DEF Stores!Promise
  <2> QED BY <2>1, <2>2, <2>6, <2>7, <1>1 DEF Stores!Honoured
<1> QED BY <1>6, <1>7, <1>9, <1>10 DEF HandlesKept

LEMMA SizeInStores == ASSUME NEW S PROVE Stores!Cardinality(S) = Cardinality(S)
BY DEF Stores!Cardinality, Cardinality

LEMMA HandleNextKeeps ==
    ASSUME HandlesKept, Stores!HandleNext
    PROVE  HandlesKept' /\ Stores!Honoured' /\ UNCHANGED <<artifacts, totalBytes, cache>>
<1>1. ASSUME NEW id \in Ids, Stores!PutResult(id)
      PROVE  HandlesKept' /\ Stores!Honoured' /\ UNCHANGED <<artifacts, totalBytes, cache>>
  <2>1. <<id>> \in Seq(Ids) /\ Len(<<id>>) = 1 /\ <<id>>[1] = id /\ DOMAIN <<id>> = 1..1
    OBVIOUS
  <2>2. Stores!IsInjective(<<id>>)
    BY <2>1 DEF Stores!IsInjective
  <2>3. FreshIds(<<id>>)
    BY <1>1, <2>1, <2>2 DEF FreshIds, Stores!PutResult, Stores!ToSet, HandlesKept
  <2> QED BY <1>1, <2>3, StoredAreLast DEF Stores!PutResult
<1>2. ASSUME NEW id \in Ids, NEW nested \in Stores!SetToAllKPermutations(Ids),
             Stores!ReadHandle(id, nested)
      PROVE  HandlesKept' /\ Stores!Honoured' /\ UNCHANGED <<artifacts, totalBytes, cache>>
  <2>1. PICK S \in SUBSET Ids : nested \in Stores!SetToSeqs(S)
    BY DEF Stores!SetToAllKPermutations
  <2>2. Stores!Cardinality(S) \in Nat
    BY SizeInStores, FS_Subset, FS_CardinalityType, PluginAssumption
  <2>3. /\ nested \in [1..Stores!Cardinality(S) -> S]
        /\ \A i, j \in 1..Stores!Cardinality(S) : i # j => nested[i] # nested[j]
    BY <2>1 DEF Stores!SetToSeqs
  <2>4. nested \in Seq(Ids) /\ Stores!IsInjective(nested)
    BY <2>2, <2>3 DEF Stores!IsInjective
  <2>5. FreshIds(nested)
    BY <1>2, <2>4 DEF FreshIds, Stores!ReadHandle, Stores!ToSet, HandlesKept
  <2> QED BY <1>2, <2>5, StoredAreLast DEF Stores!ReadHandle
<1>3. ASSUME Stores!ExpireHandles
      PROVE  HandlesKept' /\ Stores!Honoured' /\ UNCHANGED <<artifacts, totalBytes, cache>>
  <2>1. handles # <<>> /\ handles' = Tail(handles) /\ answer' = [store |-> "none", ids |-> <<>>]
        /\ UNCHANGED <<artifacts, totalBytes, cache>>
    BY <1>3 DEF Stores!ExpireHandles, Stores!Nothing
  <2>2. Stores!Honoured'
    BY <2>1 DEF Stores!Honoured
  <2>3. handles \in Seq(Ids) /\ Len(handles) \in Nat \ {0} /\ MaxHandles \in Nat
    BY <2>1, PluginAssumption, EmptySeq DEF HandlesKept
  <2>4. /\ handles' \in Seq(Ids) /\ Len(handles') = Len(handles) - 1
        /\ \A i \in 1..Len(handles') : handles'[i] = handles[i + 1]
    BY <2>1, HeadTailProperties DEF HandlesKept
  <2>5. Stores!IsInjective(handles')
    <3>1. \A i, j \in 1..Len(handles) : handles[i] = handles[j] => i = j
      BY DEF Stores!IsInjective, HandlesKept
    <3>2. ASSUME NEW i \in 1..Len(handles'), NEW j \in 1..Len(handles'), handles'[i] = handles'[j]
          PROVE  i = j
      <4>1. i + 1 \in 1..Len(handles) /\ j + 1 \in 1..Len(handles)
        BY <2>3, <2>4
      <4>2. i + 1 = j + 1
        BY <4>1, <3>1, <3>2, <2>4
      <4> QED BY <4>2
    <3> QED BY <3>2, <2>4 DEF Stores!IsInjective
  <2> QED BY <2>1, <2>2, <2>3, <2>4, <2>5 DEF HandlesKept
<1> QED BY <1>1, <1>2, <1>3 DEF Stores!HandleNext

SizedIds == [id : Ids, size : Stores!Sizes]

ArtifactsTyped == artifacts \in Seq(SizedIds) /\ Len(artifacts) <= MaxItems
ArtifactsKept == ArtifactsTyped /\ Stores!Accounted

LEMMA SizesAreNumbers == \A e \in SizedIds : e.size \in Nat /\ e.size <= MaxSize
BY PluginAssumption DEF SizedIds, Stores!Sizes

LEMMA SmallestOfNaturals ==
    ASSUME NEW X \in SUBSET Nat, X # {}
    PROVE  Stores!Min(X) \in X
BY LeastNatural DEF Stores!Min

\* Evictions go on until there is room, or nothing to evict.
LEMMA EvictedMakesRoom ==
    ASSUME ArtifactsTyped, NEW size
    PROVE  /\ Stores!Evicted(size) \in 0..Len(artifacts)
           /\ Len(artifacts) - Stores!Evicted(size) < MaxItems
           /\ \/ Stores!Evicted(size) = Len(artifacts)
              \/ totalBytes - Stores!Bytes(SubSeq(artifacts, 1, Stores!Evicted(size))) + size
                   <= MaxTotal
<1> DEFINE X == {n \in 0..Len(artifacts) : n = Len(artifacts) \/
                  (Len(artifacts) - n < MaxItems
                   /\ totalBytes - Stores!Bytes(SubSeq(artifacts, 1, n)) + size <= MaxTotal)}
<1>1. Len(artifacts) \in Nat
  BY DEF ArtifactsTyped
<1>2. Len(artifacts) \in X /\ X \in SUBSET Nat
  BY <1>1
<1>3. Stores!Evicted(size) = Stores!Min(X)
  BY Zenon DEF Stores!Evicted
<1>4. \A n \in X : n \in 0..Len(artifacts) /\ Len(artifacts) - n < MaxItems
        /\ (n = Len(artifacts)
            \/ totalBytes - Stores!Bytes(SubSeq(artifacts, 1, n)) + size <= MaxTotal)
  BY <1>1, PluginAssumption
<1> HIDE DEF X
<1> QED BY <1>2, <1>3, <1>4, SmallestOfNaturals

\* A sequence is what it begins with and what comes after.
LEMMA CutInTwo ==
    ASSUME NEW S, NEW s \in Seq(S), NEW n \in 0..Len(s)
    PROVE  /\ SubSeq(s, 1, n) \in Seq(S) /\ Len(SubSeq(s, 1, n)) = n
           /\ SubSeq(s, n + 1, Len(s)) \in Seq(S) /\ Len(SubSeq(s, n + 1, Len(s))) = Len(s) - n
           /\ s = SubSeq(s, 1, n) \o SubSeq(s, n + 1, Len(s))
<1>1. PICK N \in Nat : N = Len(s)
  OBVIOUS
<1>2. n \in Nat /\ n <= N /\ \A i \in 1..N : s[i] \in S
  BY <1>1
<1>3. PICK head : head = SubSeq(s, 1, n)
  OBVIOUS
<1>4. PICK tail : tail = SubSeq(s, n + 1, N)
  OBVIOUS
<1>5. head \in Seq(S) /\ Len(head) = n /\ \A i \in 1..n : head[i] = s[i]
  <2>1. \A i \in 1..n : s[i] \in S /\ 1 + i - 1 = i
    BY <1>2
  <2>2. /\ head \in Seq(S) /\ Len(head) = IF 1 <= n THEN n - 1 + 1 ELSE 0
        /\ \A i \in 1..(n - 1 + 1) : head[i] = s[1 + i - 1]
    BY <2>1, <1>2, <1>3, SubSeqProperties
  <2>3. n - 1 + 1 = n
    BY <1>2
  <2> QED BY <2>1, <2>2, <2>3, <1>2
<1>6. tail \in Seq(S) /\ Len(tail) = N - n /\ \A i \in 1..(N - n) : tail[i] = s[n + i]
  <2>1. n + 1 \in Int /\ n + 1 >= 1 /\ n + 1 <= Len(s) + 1
    BY <1>1, <1>2
  <2>2. /\ tail \in Seq(S) /\ Len(tail) = Len(s) + 1 - (n + 1)
        /\ \A i \in 1..(Len(s) + 1 - (n + 1)) : tail[i] = s[n + 1 + i - 1]
    BY <2>1, <1>1, <1>4, LastElements
  <2>3. N + 1 - (n + 1) = N - n /\ \A i \in 1..(N - n) : n + 1 + i - 1 = n + i
    BY <1>2
  <2> QED BY <2>2, <2>3, <1>1
<1>7. /\ head \o tail \in Seq(S) /\ Len(head \o tail) = n + (N - n)
      /\ \A i \in 1..(n + (N - n)) :
           (head \o tail)[i] = IF i <= n THEN head[i] ELSE tail[i - n]
  <2>1. /\ head \o tail \in Seq(S) /\ Len(head \o tail) = Len(head) + Len(tail)
        /\ \A i \in 1..(Len(head) + Len(tail)) :
             (head \o tail)[i] = IF i <= Len(head) THEN head[i] ELSE tail[i - Len(head)]
    <3>1. head \in Seq(S) /\ tail \in Seq(S)
      BY <1>5, <1>6
    <3> QED BY <3>1, ConcatProperties
  <2>2. Len(head) = n /\ Len(tail) = N - n
    BY <1>5, <1>6
  <2> QED BY <2>1, <2>2, Zenon
<1>8. Len(head \o tail) = Len(s)
  BY <1>1, <1>2, <1>7
<1>9. ASSUME NEW i \in 1..N PROVE (head \o tail)[i] = s[i]
  <2>1. i \in 1..(n + (N - n))
    BY <1>2
  <2>2. CASE i <= n
    BY <2>1, <2>2, <1>2, <1>5, <1>7
  <2>3. CASE ~(i <= n)
    <3>1. i - n \in 1..(N - n) /\ n + (i - n) = i
      BY <2>3, <1>2
    <3> QED BY <3>1, <2>1, <2>3, <1>6, <1>7
  <2> QED BY <2>2, <2>3
<1>10. head \o tail = s
  BY <1>1, <1>7, <1>8, <1>9, SeqEqual
<1> QED BY <1>1, <1>3, <1>4, <1>5, <1>6, <1>10

LEMMA BytesOfParts ==
    ASSUME NEW S, \A e \in S : e.size \in Nat, NEW s \in Seq(S), NEW n \in 0..Len(s)
    PROVE  /\ Stores!Bytes(SubSeq(s, 1, n)) \in Nat
           /\ Stores!Bytes(SubSeq(s, n + 1, Len(s))) \in Nat
           /\ Stores!Bytes(s)
                = Stores!Bytes(SubSeq(s, 1, n)) + Stores!Bytes(SubSeq(s, n + 1, Len(s)))
<1>0. PICK head, tail : head = SubSeq(s, 1, n) /\ tail = SubSeq(s, n + 1, Len(s))
  OBVIOUS
<1>1. head \in Seq(S) /\ tail \in Seq(S) /\ s = head \o tail
  BY <1>0, CutInTwo, Zenon
<1>2. Stores!Bytes(head) \in Nat /\ Stores!Bytes(tail) \in Nat
  BY <1>1, BytesUnfold
<1>3. Stores!Bytes(s) = Stores!Bytes(head) + Stores!Bytes(tail)
  BY <1>1, BytesConcat
<1> QED BY <1>0, <1>2, <1>3, Zenon

LEMMA BytesAppend ==
    ASSUME NEW S, \A e \in S : e.size \in Nat, NEW s \in Seq(S), NEW e \in S
    PROVE  Stores!Bytes(Append(s, e)) = Stores!Bytes(s) + e.size
<1>1. <<e>> \in Seq(S) /\ Append(s, e) = s \o <<e>>
  OBVIOUS
<1>2. PICK one \in Seq(S) : one = <<e>>
  BY <1>1
<1>3. Stores!Bytes(s \o one) = Stores!Bytes(s) + Stores!Bytes(one)
  BY BytesConcat
<1>4. Stores!Bytes(one) = e.size
  BY <1>2, BytesOfOne
<1> QED BY <1>1, <1>2, <1>3, <1>4

\* What is read or put is the newest.
LEMMA NewestIsThere ==
    ASSUME NEW rest \in Seq(SizedIds), Len(rest) < MaxItems, NEW e \in SizedIds,
           artifacts' = Append(rest, e), Stores!Promise("artifacts", <<e.id>>),
           totalBytes' = Stores!Bytes(rest) + e.size, totalBytes' <= MaxTotal
    PROVE  ArtifactsKept' /\ Stores!Honoured'
<1>1. /\ artifacts' \in Seq(SizedIds) /\ Len(artifacts') = Len(rest) + 1 /\ Len(rest) \in Nat
      /\ artifacts'[Len(rest) + 1] = e /\ Len(rest) + 1 \in DOMAIN artifacts'
  BY AppendProperties
<1>2. ArtifactsTyped'
  BY <1>1, PluginAssumption DEF ArtifactsTyped
<1>3. answer' = [store |-> "artifacts", ids |-> <<e.id>>]
  BY DEF Stores!Promise
<1>4. e \in Stores!ToSet(artifacts')
  BY <1>1 DEF Stores!ToSet
<1>5. e.id \in Stores!IdsOf(artifacts')
  BY <1>4 DEF Stores!IdsOf
<1>6. Stores!ToSet(<<e.id>>) \subseteq Stores!IdsOf(artifacts')
  BY <1>5 DEF Stores!ToSet
<1>7. Stores!Honoured'
  BY <1>3, <1>6 DEF Stores!Honoured
<1>8. Stores!Bytes(Append(rest, e)) = Stores!Bytes(rest) + e.size
  BY SizesAreNumbers, BytesAppend
<1>9. Stores!Bytes(artifacts)' = totalBytes'
  BY <1>8, Zenon DEF Stores!Bytes
<1>10. Stores!Accounted'
  BY <1>9 DEF Stores!Accounted
<1> QED BY <1>2, <1>7, <1>10 DEF ArtifactsKept

LEMMA WithoutOne ==
    ASSUME ArtifactsTyped, NEW i \in DOMAIN artifacts
    PROVE  /\ Stores!Without(i) \in Seq(SizedIds)
           /\ Len(Stores!Without(i)) = Len(artifacts) - 1
           /\ Stores!Bytes(Stores!Without(i)) \in Nat
           /\ Stores!Bytes(artifacts) = Stores!Bytes(Stores!Without(i)) + artifacts[i].size
<1>1. PICK n \in Nat : n = Len(artifacts)
  BY DEF ArtifactsTyped
<1>2. /\ artifacts \in Seq(SizedIds) /\ i \in 1..n /\ i - 1 \in 0..n /\ i \in 0..n
      /\ artifacts[i] \in SizedIds /\ artifacts[i].size \in Nat
  BY <1>1, SizesAreNumbers DEF ArtifactsTyped
<1>3a. PICK head, tail, upTo :
        /\ head = SubSeq(artifacts, 1, i - 1) /\ tail = SubSeq(artifacts, i + 1, n)
        /\ upTo = SubSeq(artifacts, 1, i)
  OBVIOUS
<1>3b. head \in Seq(SizedIds) /\ Len(head) = i - 1
  <2>1. PICK k \in 0..Len(artifacts) : k = i - 1
    BY <1>1, <1>2
  <2>2. /\ SubSeq(artifacts, 1, k) \in Seq(SizedIds) /\ Len(SubSeq(artifacts, 1, k)) = k
    BY <1>2, CutInTwo
  <2> QED BY <2>1, <2>2, <1>3a, Zenon
<1>3c. /\ upTo \in Seq(SizedIds) /\ Len(upTo) = i
       /\ tail \in Seq(SizedIds) /\ Len(tail) = n - i
  <2>1. i \in 0..Len(artifacts)
    BY <1>1, <1>2
  <2>2. /\ SubSeq(artifacts, 1, i) \in Seq(SizedIds) /\ Len(SubSeq(artifacts, 1, i)) = i
        /\ SubSeq(artifacts, i + 1, Len(artifacts)) \in Seq(SizedIds)
        /\ Len(SubSeq(artifacts, i + 1, Len(artifacts))) = Len(artifacts) - i
    BY <1>2, <2>1, CutInTwo
  <2> QED BY <2>2, <1>1, <1>3a, Zenon
<1>3. /\ head \in Seq(SizedIds) /\ tail \in Seq(SizedIds) /\ upTo \in Seq(SizedIds)
      /\ head = SubSeq(artifacts, 1, i - 1) /\ tail = SubSeq(artifacts, i + 1, n)
      /\ upTo = SubSeq(artifacts, 1, i)
      /\ Len(head) = i - 1 /\ Len(tail) = n - i /\ Len(upTo) = i
  BY <1>3a, <1>3b, <1>3c
<1>4. upTo = Append(head, artifacts[i])
  <2>1. Len(Append(head, artifacts[i])) = i /\ Append(head, artifacts[i]) \in Seq(SizedIds)
        /\ \A j \in 1..i : Append(head, artifacts[i])[j]
                            = IF j = i THEN artifacts[i] ELSE head[j]
    <3>1. PICK e \in SizedIds, m \in Nat : e = artifacts[i] /\ m = i - 1 /\ m + 1 = i
      BY <1>1, <1>2
    <3>2. head \in Seq(SizedIds) /\ Len(head) = m
      BY <1>3, <3>1
    <3>3. PICK longer : longer = Append(head, e)
      OBVIOUS
    <3>4. /\ longer \in Seq(SizedIds) /\ Len(longer) = Len(head) + 1
          /\ \A j \in 1..Len(head) : longer[j] = head[j]
          /\ longer[Len(head) + 1] = e
      BY <3>2, <3>3, AppendProperties
    <3>5. Len(longer) = i /\ (\A j \in 1..m : longer[j] = head[j]) /\ longer[i] = e
      BY <3>1, <3>2, <3>4
    <3>6. \A j \in 1..i : longer[j] = IF j = i THEN e ELSE head[j]
      <4>1. \A j \in 1..i : j = i \/ j \in 1..m
        BY <3>1
      <4> QED BY <4>1, <3>5
    <3> QED BY <3>1, <3>3, <3>4, <3>5, <3>6
  <2>2. \A j \in 1..i : upTo[j] = artifacts[j]
    <3>1. \A j \in 1..i : artifacts[j] \in SizedIds /\ 1 + j - 1 = j
      BY <1>1, <1>2
    <3>2. \A j \in 1..(i - 1 + 1) : SubSeq(artifacts, 1, i)[j] = artifacts[1 + j - 1]
      BY <3>1, <1>2, SubSeqProperties
    <3>3. i - 1 + 1 = i
      BY <1>2
    <3> QED BY <3>1, <3>2, <3>3, <1>3
  <2>3. \A j \in 1..(i - 1) : head[j] = artifacts[j]
    <3>1. \A j \in 1..(i - 1) : artifacts[j] \in SizedIds /\ 1 + j - 1 = j
      BY <1>1, <1>2
    <3>2. \A j \in 1..(i - 1 - 1 + 1) : SubSeq(artifacts, 1, i - 1)[j] = artifacts[1 + j - 1]
      BY <3>1, <1>2, SubSeqProperties
    <3>3. i - 1 - 1 + 1 = i - 1
      BY <1>2
    <3> QED BY <3>1, <3>2, <3>3, <1>3
  <2>4. ASSUME NEW j \in 1..i PROVE upTo[j] = Append(head, artifacts[i])[j]
    <3>1. j = i \/ j \in 1..(i - 1)
      BY <1>2
    <3> QED BY <3>1, <2>1, <2>2, <2>3
  <2> QED BY <2>1, <2>4, <1>3, SeqEqual
<1>5. Stores!Bytes(upTo) = Stores!Bytes(head) + artifacts[i].size
  BY <1>2, <1>3, <1>4, SizesAreNumbers, BytesAppend
<1>6. Stores!Bytes(artifacts) = Stores!Bytes(upTo) + Stores!Bytes(tail)
  BY <1>1, <1>2, <1>3, SizesAreNumbers, BytesOfParts
<1>7. Stores!Without(i) = head \o tail
  BY <1>1, <1>3 DEF Stores!Without, Stores!RemoveAt
<1>8. head \o tail \in Seq(SizedIds) /\ Len(head \o tail) = n - 1
  <2>1. head \o tail \in Seq(SizedIds) /\ Len(head \o tail) = Len(head) + Len(tail)
    BY <1>3, ConcatProperties
  <2>2. (i - 1) + (n - i) = n - 1
    BY <1>2
  <2> QED BY <2>1, <2>2, <1>3
<1>9. Stores!Bytes(head \o tail) = Stores!Bytes(head) + Stores!Bytes(tail)
  BY <1>3, SizesAreNumbers, BytesConcat
<1>10. Stores!Bytes(head) \in Nat /\ Stores!Bytes(tail) \in Nat
  BY <1>3, SizesAreNumbers, BytesUnfold
<1>11. Stores!Bytes(Stores!Without(i)) = Stores!Bytes(head) + Stores!Bytes(tail)
  BY <1>7, <1>9
<1>12. Stores!Bytes(artifacts) = Stores!Bytes(Stores!Without(i)) + artifacts[i].size
  BY <1>2, <1>5, <1>6, <1>10, <1>11
<1> QED BY <1>1, <1>7, <1>8, <1>10, <1>11, <1>12

LEMMA ArtifactNextKeeps ==
    ASSUME ArtifactsKept, Stores!ArtifactNext
    PROVE  ArtifactsKept' /\ Stores!Honoured' /\ UNCHANGED <<handles, cache>>
<1>0. /\ artifacts \in Seq(SizedIds) /\ Len(artifacts) <= MaxItems /\ Len(artifacts) \in Nat
      /\ totalBytes = Stores!Bytes(artifacts) /\ totalBytes <= MaxTotal /\ totalBytes \in Nat
      /\ MaxTotal \in Nat /\ MaxItems \in Nat /\ MaxSize \in Nat /\ MaxSize <= MaxTotal
  BY SizesAreNumbers, BytesUnfold, PluginAssumption
  DEF ArtifactsKept, ArtifactsTyped, Stores!Accounted
<1>1. ASSUME NEW id \in Ids, NEW size \in Stores!Sizes, Stores!PutBytes(id, size)
      PROVE  ArtifactsKept' /\ Stores!Honoured' /\ UNCHANGED <<handles, cache>>
  <2>1. PICK n \in 0..Len(artifacts) : n = Stores!Evicted(size)
    BY EvictedMakesRoom DEF ArtifactsKept
  <2>2. /\ Len(artifacts) - n < MaxItems
        /\ \/ n = Len(artifacts)
           \/ totalBytes - Stores!Bytes(SubSeq(artifacts, 1, n)) + size <= MaxTotal
    BY <2>1, EvictedMakesRoom DEF ArtifactsKept
  <2>3. PICK rest : rest = SubSeq(artifacts, n + 1, Len(artifacts))
    OBVIOUS
  <2>4. rest \in Seq(SizedIds) /\ Len(rest) = Len(artifacts) - n
    BY <2>3, <1>0, CutInTwo
  <2>5. [id |-> id, size |-> size] \in SizedIds /\ [id |-> id, size |-> size].id = id
        /\ [id |-> id, size |-> size].size = size
    BY DEF SizedIds
  <2>6. PICK e \in SizedIds : e = [id |-> id, size |-> size] /\ e.id = id /\ e.size = size
    BY <2>5
  <2>7. /\ artifacts' = Append(rest, e) /\ Stores!Promise("artifacts", <<e.id>>)
        /\ totalBytes' = totalBytes - Stores!Bytes(SubSeq(artifacts, 1, n)) + size
        /\ UNCHANGED <<handles, cache>>
    BY <1>1, <2>1, <2>3, <2>6 DEF Stores!PutBytes
  <2>8. PICK evicted \in Nat, left \in Nat :
          /\ evicted = Stores!Bytes(SubSeq(artifacts, 1, n)) /\ left = Stores!Bytes(rest)
          /\ totalBytes = evicted + left
    BY <2>3, <1>0, SizesAreNumbers, BytesOfParts
  <2>9. size \in Nat /\ size <= MaxSize
    BY <2>6, SizesAreNumbers
  <2>10. totalBytes' = Stores!Bytes(rest) + e.size
    BY <2>6, <2>7, <2>8, <2>9
  <2>11. totalBytes' <= MaxTotal
    <3>1. CASE n = Len(artifacts)
      <4>1. rest = <<>>
        BY <3>1, <2>3, <1>0, SubSeqEmpty
      <4>2. left = 0
        <5>1. <<>> \in Seq(SizedIds) /\ Len(<<>>) = 0
          OBVIOUS
        <5>2. Stores!Bytes(<<>>) = 0
          BY <5>1, SizesAreNumbers, BytesUnfold
        <5> QED BY <5>2, <4>1, <2>8
      <4> QED BY <4>2, <2>6, <2>8, <2>9, <2>10, <1>0
    <3>2. CASE totalBytes - evicted + size <= MaxTotal
      BY <3>2, <2>7, <2>8
    <3> QED BY <3>1, <3>2, <2>2, <2>8
  <2>12. Len(rest) < MaxItems
    BY <2>2, <2>4
  <2> QED BY <2>4, <2>7, <2>10, <2>11, <2>12, NewestIsThere
<1>2. ASSUME NEW i \in DOMAIN artifacts, Stores!ReadArtifact(i)
      PROVE  ArtifactsKept' /\ Stores!Honoured' /\ UNCHANGED <<handles, cache>>
  <2>1. /\ Stores!Without(i) \in Seq(SizedIds) /\ Len(Stores!Without(i)) < MaxItems
        /\ artifacts[i] \in SizedIds
        /\ totalBytes = Stores!Bytes(Stores!Without(i)) + artifacts[i].size
    BY <1>0, WithoutOne DEF ArtifactsKept
  <2>2. PICK rest \in Seq(SizedIds), e \in SizedIds :
          /\ rest = Stores!Without(i) /\ e = artifacts[i] /\ Len(rest) < MaxItems
          /\ totalBytes = Stores!Bytes(rest) + e.size
    BY <2>1
  <2>3. /\ artifacts' = Append(rest, e) /\ Stores!Promise("artifacts", <<e.id>>)
        /\ UNCHANGED <<handles, totalBytes, cache>>
    BY <1>2, <2>2 DEF Stores!ReadArtifact
  <2> QED BY <2>2, <2>3, <1>0, NewestIsThere
<1>3. ASSUME NEW i \in DOMAIN artifacts, Stores!Release(i)
      PROVE  ArtifactsKept' /\ Stores!Honoured' /\ UNCHANGED <<handles, cache>>
  <2>1. /\ Stores!Without(i) \in Seq(SizedIds) /\ Len(Stores!Without(i)) <= MaxItems
        /\ Stores!Bytes(Stores!Without(i)) \in Nat /\ artifacts[i].size \in Nat
        /\ totalBytes = Stores!Bytes(Stores!Without(i)) + artifacts[i].size
    BY <1>0, WithoutOne, SizesAreNumbers DEF ArtifactsKept
  <2>2. PICK rest \in Seq(SizedIds), size \in Nat :
          /\ rest = Stores!Without(i) /\ size = artifacts[i].size /\ Len(rest) <= MaxItems
          /\ Stores!Bytes(rest) \in Nat /\ totalBytes = Stores!Bytes(rest) + size
    BY <2>1
  <2>3. /\ artifacts' = rest /\ totalBytes' = totalBytes - size
        /\ answer' = [store |-> "none", ids |-> <<>>] /\ UNCHANGED <<handles, cache>>
    BY <1>3, <2>2 DEF Stores!Release, Stores!Nothing
  <2>4. Stores!Honoured'
    BY <2>3 DEF Stores!Honoured
  <2>5. totalBytes' = Stores!Bytes(rest) /\ totalBytes' <= MaxTotal
    <3>1. PICK b \in Nat : b = Stores!Bytes(rest)
      BY <2>2
    <3>2. totalBytes = b + size /\ totalBytes' = totalBytes - size
      BY <2>2, <2>3, <3>1
    <3>3. PICK t \in Nat, m \in Nat : totalBytes = t /\ MaxTotal = m /\ t <= m
      BY <1>0
    <3>4. size \in Nat /\ t = b + size /\ totalBytes' = t - size
      BY <2>2, <3>2, <3>3
    <3>5. totalBytes' = b /\ totalBytes' <= m
      BY <3>1, <3>3, <3>4
    <3> QED BY <3>1, <3>3, <3>5
  <2>6. Stores!Bytes(artifacts)' = Stores!Bytes(rest)
    BY <2>3, Zenon DEF Stores!Bytes
  <2>7. Stores!Accounted'
    BY <2>5, <2>6 DEF Stores!Accounted
  <2> QED BY <2>2, <2>3, <2>4, <2>7 DEF ArtifactsKept, ArtifactsTyped
<1> QED BY <1>1, <1>2, <1>3 DEF Stores!ArtifactNext

(* --------------------------------- data cache --------------------------------- *)

Cached == [id : Ids, size : Stores!Sizes, stuck : {"no", "dir", "file"}]
CacheKept == cache \in Seq(Cached)

LEMMA CachedSizes == \A e \in Cached : e.size \in Nat /\ e.size <= MaxSize
BY PluginAssumption DEF Cached, Stores!Sizes

\* When all older entries can be removed the newest is not reached: it fits by itself.
LEMMA NewestIsNotPruned ==
    ASSUME NEW others \in Seq(Cached), NEW e \in Cached,
           \A i \in 1..Len(others) : others[i].stuck = "no"
    PROVE  ~Stores!Goes(Append(others, e), Len(others) + 1)
<1>1. PICK n \in Nat : n = Len(others)
  OBVIOUS
<1>2. PICK all : all = Append(others, e)
  OBVIOUS
<1>3. /\ all \in Seq(Cached) /\ Len(all) = n + 1 /\ \A i \in 1..n : all[i] = others[i]
      /\ DOMAIN all = 1..(n + 1)
  BY <1>1, <1>2, AppendProperties, LenProperties
<1>4. PICK removable :
        removable = [i \in DOMAIN all |-> IF all[i].stuck = "no" THEN all[i].size ELSE 0]
  OBVIOUS
<1>5. /\ removable \in [1..(n + 1) -> Nat]
      /\ \A i \in 1..n : removable[i] = others[i].size
  <2>1. \A i \in 1..(n + 1) : all[i].size \in Nat
    BY <1>3, CachedSizes
  <2>2. \A i \in 1..n : i \in 1..(n + 1) /\ all[i].stuck = "no" /\ all[i].size = others[i].size
    BY <1>1, <1>3
  <2> QED BY <2>1, <2>2, <1>3, <1>4
<1>6. PICK f : f = Stores!Sums(removable)
  OBVIOUS
<1>7. /\ f \in [0..(n + 1) -> Nat] /\ f[0] = 0
      /\ \A i \in 1..(n + 1) : f[i] = f[i - 1] + removable[i]
  <2>1. n + 1 \in Nat
    OBVIOUS
  <2> QED BY <2>1, <1>5, <1>6, SumsUnfold
<1>8. PICK g : /\ g \in [0..n -> Nat] /\ g[0] = 0 /\ g[n] = Stores!Bytes(others)
               /\ \A i \in 1..n : g[i] = g[i - 1] + others[i].size
  BY <1>1, CachedSizes, BytesUnfold
<1>9. f[n] = g[n]
  <2>1. \A i \in 0..n : i \in 0..(n + 1)
    OBVIOUS
  <2>2. \A i \in 0..n : f[i] \in Int
    BY <2>1, <1>7
  <2>3. \A i \in 0..n : g[i] \in Int
    BY <1>8
  <2>4. ASSUME NEW i \in 1..n PROVE f[i] - f[i - 1] = g[i] - g[i - 1]
    <3>1. i \in 1..(n + 1) /\ i - 1 \in 0..n
      OBVIOUS
    <3>2. f[i] = f[i - 1] + removable[i] /\ g[i] = g[i - 1] + others[i].size
      BY <3>1, <1>7, <1>8
    <3>3. removable[i] = others[i].size /\ others[i].size \in Nat
      BY <1>1, <1>5, CachedSizes
    <3>4. f[i - 1] \in Int /\ g[i - 1] \in Int
      BY <3>1, <2>2, <2>3
    <3> QED BY <3>2, <3>3, <3>4
  <2>5. f[n] - g[n] = f[0] - g[0]
    BY <2>2, <2>3, <2>4, ParallelSums
  <2>6. f[n] \in Int /\ g[n] \in Int
    BY <2>2, <2>3
  <2> QED BY <2>5, <2>6, <1>7, <1>8
<1>10. Stores!Bytes(all) = Stores!Bytes(others) + e.size
  BY <1>2, CachedSizes, BytesAppend
<1>11. Stores!Freed(all) = f
  BY <1>4, <1>6, Zenon DEF Stores!Freed
<1>12. Stores!Freed(all)[n + 1 - 1] = Stores!Bytes(others) /\ Stores!Bytes(others) \in Nat
  <2>1. n + 1 - 1 = n /\ n \in 0..n
    OBVIOUS
  <2> QED BY <2>1, <1>8, <1>9, <1>11
<1>13. e.size \in Nat /\ e.size <= MaxCached
  BY CachedSizes, PluginAssumption
<1>14. ~(Stores!Bytes(all) - Stores!Freed(all)[n + 1 - 1] > MaxCached)
  BY <1>10, <1>12, <1>13, PluginAssumption
<1>15. ~Stores!Goes(all, n + 1)
  BY <1>14 DEF Stores!Goes
<1> QED BY <1>1, <1>2, <1>15

LEMMA CacheNextKeeps ==
    ASSUME CacheKept, Stores!CacheNext
    PROVE  CacheKept' /\ Stores!Honoured' /\ UNCHANGED <<handles, artifacts, totalBytes>>
<1>1. ASSUME NEW url \in Ids, NEW size \in Stores!Sizes, NEW stuck \in {"no", "dir"},
             Stores!PutDownload(url, size, stuck)
      PROVE  CacheKept' /\ Stores!Honoured' /\ UNCHANGED <<handles, artifacts, totalBytes>>
  <2>1. PICK others : others = Stores!At({i \in DOMAIN cache : cache[i].id # url}, cache)
    OBVIOUS
  <2>2. others \in Seq(Cached)
    BY <2>1, AtSomePlaces DEF CacheKept
  <2>3. PICK e \in Cached :
          /\ e.id = url
          /\ cache' = Stores!Pruned(Append(others, e))
          /\ answer' = [store |-> "cache", ids |-> <<url>>,
                        stuck |-> \E o \in Stores!ToSet(others) : o.stuck # "no"]
    <3>1. PICK left \in {"no", "dir"} :
            /\ cache' = Stores!Pruned(Append(others, [id |-> url, size |-> size, stuck |-> left]))
            /\ answer' = [store |-> "cache", ids |-> <<url>>,
                          stuck |-> \E o \in Stores!ToSet(others) : o.stuck # "no"]
      BY <1>1, <2>1 DEF Stores!PutDownload
    <3>2. [id |-> url, size |-> size, stuck |-> left] \in Cached
      BY DEF Cached
    <3> QED BY <3>1, <3>2
  <2>4. PICK all \in Seq(Cached) : all = Append(others, e) /\ Len(all) = Len(others) + 1
                                   /\ all[Len(all)] = e /\ Len(others) \in Nat
    BY <2>2, AppendProperties, LenProperties
  <2>5. cache' = Stores!At({i \in DOMAIN all : ~Stores!Goes(all, i)}, all)
    BY <2>3, <2>4 DEF Stores!Pruned
  <2>6. PICK places : places = {i \in DOMAIN all : ~Stores!Goes(all, i)}
    OBVIOUS
  <2>7. /\ cache' = Stores!At(places, all) /\ cache' \in Seq(Cached)
        /\ Len(all) # 0 /\ Len(all) \in places => all[Len(all)] \in Stores!ToSet(cache')
    BY <2>5, <2>6, AtSomePlaces
  <2>8. ASSUME ~\E o \in Stores!ToSet(others) : o.stuck # "no"
        PROVE  url \in Stores!IdsOf(cache')
    <3>1. \A i \in 1..Len(others) : others[i].stuck = "no"
      BY <2>2, <2>8 DEF Stores!ToSet
    <3>2. ~Stores!Goes(all, Len(all))
      BY <3>1, <2>2, <2>4, NewestIsNotPruned
    <3>3. Len(all) \in DOMAIN all /\ Len(all) # 0
      BY <2>4
    <3>4. e \in Stores!ToSet(cache')
      BY <3>2, <3>3, <2>4, <2>6, <2>7
    <3> QED BY <3>4, <2>3 DEF Stores!IdsOf
  <2>9. Stores!ToSet(<<url>>) = {url}
    BY DEF Stores!ToSet
  <2>10. Stores!Honoured'
    <3>1. answer'.store = "cache" /\ answer'.ids = <<url>>
          /\ (answer'.stuck <=> \E o \in Stores!ToSet(others) : o.stuck # "no")
      BY <2>3
    <3>2. Stores!ToSet(answer'.ids) \subseteq Stores!IdsOf(cache') \/ answer'.stuck
      BY <3>1, <2>8, <2>9
    <3> QED BY <3>1, <3>2 DEF Stores!Honoured
  <2>11. UNCHANGED <<handles, artifacts, totalBytes>>
    BY <1>1 DEF Stores!PutDownload
  <2> QED BY <2>7, <2>10, <2>11 DEF CacheKept
<1>2. ASSUME NEW i \in DOMAIN cache, Stores!UseFile(i)
      PROVE  CacheKept' /\ Stores!Honoured' /\ UNCHANGED <<handles, artifacts, totalBytes>>
  <2>1. PICK stuck \in {"no", "file"} : cache' = [cache EXCEPT ![i].stuck = stuck]
    BY <1>2 DEF Stores!UseFile
  <2>2. cache \in Seq(Cached) /\ i \in 1..Len(cache) /\ cache[i] \in Cached
    BY DEF CacheKept
  <2>3. [cache[i] EXCEPT !.stuck = stuck] \in Cached
    BY <2>2 DEF Cached
  <2>4. PICK e \in Cached : cache' = [cache EXCEPT ![i] = e]
    BY <2>1, <2>3
  <2>5. cache' \in Seq(Cached)
    BY <2>2, <2>4, ExceptSeq
  <2>6. answer' = [store |-> "none", ids |-> <<>>] /\ UNCHANGED <<handles, artifacts, totalBytes>>
    BY <1>2 DEF Stores!UseFile, Stores!Nothing
  <2>7. Stores!Honoured'
    BY <2>6 DEF Stores!Honoured
  <2> QED BY <2>5, <2>6, <2>7 DEF CacheKept
<1> QED BY <1>1, <1>2 DEF Stores!CacheNext

(* ------------------------------- stores together ------------------------------- *)

StoresInv == HandlesKept /\ ArtifactsKept /\ CacheKept /\ Stores!Honoured

LEMMA KeptWhileUntouched ==
    /\ HandlesKept /\ handles' = handles => HandlesKept'
    /\ ArtifactsKept /\ artifacts' = artifacts /\ totalBytes' = totalBytes => ArtifactsKept'
    /\ CacheKept /\ cache' = cache => CacheKept'
<1>1. HandlesKept /\ handles' = handles => HandlesKept'
  BY DEF HandlesKept, Stores!IsInjective
<1>2. ASSUME ArtifactsKept, artifacts' = artifacts, totalBytes' = totalBytes PROVE ArtifactsKept'
  <2>1. Stores!Bytes(artifacts)' = Stores!Bytes(artifacts)
    BY <1>2, Zenon DEF Stores!Bytes
  <2> QED BY <1>2, <2>1 DEF ArtifactsKept, ArtifactsTyped, Stores!Accounted
<1>3. CacheKept /\ cache' = cache => CacheKept'
  BY DEF CacheKept
<1> QED BY <1>1, <1>2, <1>3

LEMMA StoresInitKeeps == Stores!Init => StoresInv
<1> SUFFICES ASSUME Stores!Init PROVE StoresInv
  OBVIOUS
<1>1. handles = <<>> /\ artifacts = <<>> /\ totalBytes = 0 /\ cache = <<>>
      /\ answer = [store |-> "none", ids |-> <<>>]
  BY DEF Stores!Init, Stores!Nothing
<1>2. HandlesKept /\ CacheKept /\ ArtifactsTyped
  BY <1>1, PluginAssumption
  DEF HandlesKept, CacheKept, ArtifactsTyped, Stores!IsInjective
<1>3. Stores!Honoured
  BY <1>1 DEF Stores!Honoured
<1>4. Stores!Bytes(<<>>) = 0
  <2>1. <<>> \in Seq(SizedIds) /\ Len(<<>>) = 0
    OBVIOUS
  <2> QED BY <2>1, SizesAreNumbers, BytesUnfold
<1>5. Stores!Accounted
  BY <1>1, <1>4, PluginAssumption DEF Stores!Accounted
<1> QED BY <1>2, <1>3, <1>5 DEF StoresInv, ArtifactsKept

LEMMA StoresNextKeep == StoresInv /\ [Stores!Next]_Stores!storeVars => StoresInv'
<1> SUFFICES ASSUME StoresInv, [Stores!Next]_Stores!storeVars PROVE StoresInv'
  OBVIOUS
<1>1. CASE UNCHANGED Stores!storeVars
  <2>1. UNCHANGED <<handles, artifacts, totalBytes, cache, answer>>
    BY <1>1 DEF Stores!storeVars
  <2>2. Stores!Honoured'
    BY <2>1, Zenon DEF StoresInv, Stores!Honoured
  <2> QED BY <2>1, <2>2, KeptWhileUntouched DEF StoresInv
<1>2. CASE Stores!HandleNext
  BY <1>2, HandleNextKeeps, KeptWhileUntouched DEF StoresInv
<1>3. CASE Stores!ArtifactNext
  BY <1>3, ArtifactNextKeeps, KeptWhileUntouched DEF StoresInv
<1>4. CASE Stores!CacheNext
  BY <1>4, CacheNextKeeps, KeptWhileUntouched DEF StoresInv
<1> QED BY <1>1, <1>2, <1>3, <1>4 DEF Stores!Next

LEMMA StoresInvSays == StoresInv => Stores!TypeOK /\ StoredIsThere
<1> SUFFICES ASSUME StoresInv PROVE Stores!TypeOK /\ StoredIsThere
  OBVIOUS
<1>1. Stores!IdsOf(artifacts) \subseteq Ids /\ Len(artifacts) <= MaxItems
  <2>1. \A e \in Stores!ToSet(artifacts) : e \in SizedIds
    BY DEF StoresInv, ArtifactsKept, ArtifactsTyped, Stores!ToSet
  <2> QED BY <2>1 DEF Stores!IdsOf, SizedIds, StoresInv, ArtifactsKept, ArtifactsTyped
<1>2. \A e \in Stores!ToSet(cache) :
        e.id \in Ids /\ e.size \in Stores!Sizes /\ e.stuck \in {"no", "dir", "file"}
  <2>1. \A e \in Stores!ToSet(cache) : e \in Cached
    BY DEF StoresInv, CacheKept, Stores!ToSet
  <2> QED BY <2>1 DEF Cached
<1>3. Stores!TypeOK
  BY <1>1, <1>2 DEF StoresInv, HandlesKept, Stores!TypeOK
<1>4. StoredIsThere
  BY DEF StoresInv, ArtifactsKept, StoredIsThere, Stores!StoredIsThere
<1> QED BY <1>3, <1>4

LEMMA StoresAlways == Stores!Spec => []StoresInv
BY StoresInitKeeps, StoresNextKeep, PTL DEF Stores!Spec

\* The stores have their types: no handle is given twice, no store exceeds its number of
\* items (store.py and DataCache of autonomy.py).
THEOREM StoresTypeCorrect == Stores!Spec => []Stores!TypeOK
BY StoresInvSays, StoresAlways, PTL

\* What a call has handed out can be read by the next one, whatever had to go for it and
\* in whatever order the stores are used: a handle, as many of a page's as the store
\* holds; an artifact; a download, unless an older one could not be removed. The counter
\* of bytes that decides about evictions is the sum of what is stored, and within its
\* limit (put and _bounded_page of HandleStore, put_bytes and release of ArtifactStore,
\* put and prune of DataCache).
THEOREM HandedOutIsThere == Stores!Spec => []StoredIsThere
BY StoresInvSays, StoresAlways, PTL

(* --------------------------- handlers' scripts --------------------------- *)

\* After the last change of a script comes a touch, if it changes anything; and what it
\* begins it ends.
Tells(s) ==
    \E k \in 0..Len(s) :
        (k = 0 \/ s[k] = "touch") /\ \A i \in (k + 1)..Len(s) : s[i] \notin Changes
Ends(s) ==
    /\ Len(s) \in Nat
    /\ \A i \in 1..Len(s) : s[i] = "begin" => \E j \in (i + 1)..Len(s) : s[j] = "end"
TellsAndEnds(s) == Tells(s) /\ Ends(s)
Sound(c) == Ends(c.script) /\ (Tells(c.script) \/ c.method \in QuietMethods)

LEMMA MethodIsSound ==
    ASSUME NEW name, NEW scripts,
           \A s \in scripts : TellsAndEnds(s) \/ (Ends(s) /\ name \in QuietMethods)
    PROVE  \A c \in Method(name, scripts) : Sound(c)
BY DEF Method, Sound, TellsAndEnds

LEMMA ProjectCallsAreSound == \A c \in ProjectCalls : c.method \in MutationMethods /\ Sound(c)
<1>1. /\ TellsAndEnds(<<"disk", "check", "touch">>)
      /\ TellsAndEnds(<<"check", "layers", "touch">>)
      /\ TellsAndEnds(<<"check", "view", "touch">>)
      /\ TellsAndEnds(<<"check", "project", "check", "touch">>)
      /\ TellsAndEnds(<<"check", "edit", "touch", "raise">>)
      /\ TellsAndEnds(<<"check", "edit", "begin", "check", "edit", "check", "edit", "end",
                        "touch">>)
  BY DEF TellsAndEnds, Tells, Ends, Changes
<1>2. /\ TellsAndEnds(<<"check", "data", "check", "touch">>)
      /\ TellsAndEnds(<<"check", "edit", "check", "touch">>)
      /\ TellsAndEnds(<<"check", "view", "touch", "check">>)
      /\ TellsAndEnds(<<"check", "project", "touch", "check">>)
      /\ TellsAndEnds(<<"check", "profile", "touch", "check">>)
      /\ TellsAndEnds(<<"session">>)
  BY DEF TellsAndEnds, Tells, Ends, Changes
<1>3. /\ TellsAndEnds(<<"check", "touch">>)
      /\ TellsAndEnds(<<"disk", "check", "layers", "touch">>)
      /\ TellsAndEnds(<<"check", "disk", "check", "layers", "check", "touch">>)
      /\ TellsAndEnds(<<"check", "disk", "check", "touch">>)
      /\ TellsAndEnds(<<"project", "check", "project", "check", "project", "touch">>)
      /\ TellsAndEnds(<<"check", "project", "check", "project", "touch">>)
  BY DEF TellsAndEnds, Tells, Ends, Changes
<1>4. /\ TellsAndEnds(<<"check", "project", "touch">>)
      /\ TellsAndEnds(<<"check", "session", "touch">>)
      /\ TellsAndEnds(<<"view", "touch">>)
      /\ TellsAndEnds(<<"check", "begin", "edit", "check", "edit", "check", "end", "touch">>)
      /\ TellsAndEnds(<<"check", "data", "data", "check", "touch">>)
      /\ TellsAndEnds(<<"check", "edit", "touch">>)
  BY DEF TellsAndEnds, Tells, Ends, Changes
<1>5. /\ Ends(<<"check", "view", "check">>)
      /\ Ends(<<"check", "project", "touch", "check", "view", "check">>)
      /\ Ends(<<"check", "project", "check", "view", "check">>)
      /\ Ends(<<"check", "view">>)
  BY DEF Ends
<1>6. /\ \A c \in ProjectAction : Sound(c)
      /\ \A c \in SelectionSet : Sound(c)
      /\ \A c \in VectorEdit : Sound(c)
      /\ \A c \in UiInvoke : Sound(c)
      /\ \A c \in ArtifactRelease : Sound(c)
      /\ \A c \in VisualReview : Sound(c)
  BY <1>1, <1>2, <1>3, <1>4, <1>5, MethodIsSound DEF QuietMethods, ProjectAction, SelectionSet,
      VectorEdit, UiInvoke, ArtifactRelease, VisualReview
<1>7. /\ \A c \in ProjectManage : Sound(c)
      /\ \A c \in ProjectProperties : Sound(c)
      /\ \A c \in ProjectRepair : Sound(c)
      /\ \A c \in LayerSource : Sound(c)
      /\ \A c \in CanvasControl : Sound(c)
      /\ \A c \in BookmarkManage : Sound(c)
  BY <1>1, <1>2, <1>3, <1>4, <1>5, MethodIsSound DEF QuietMethods, ProjectManage,
      ProjectProperties, ProjectRepair, LayerSource, CanvasControl, BookmarkManage
<1>8. /\ \A c \in MapThemeManage : Sound(c)
      /\ \A c \in CrsControl : Sound(c)
      /\ \A c \in MetadataManage : Sound(c)
      /\ \A c \in RuntimeTasks : Sound(c)
      /\ \A c \in RuntimeRender : Sound(c)
      /\ \A c \in RuntimeTransaction : Sound(c)
  BY <1>1, <1>2, <1>3, <1>4, <1>5, MethodIsSound DEF QuietMethods, MapThemeManage, CrsControl,
      MetadataManage, RuntimeTasks, RuntimeRender, RuntimeTransaction
<1>9. /\ \A c \in RuntimeUndo : Sound(c)
  BY <1>1, <1>2, <1>3, <1>4, <1>5, MethodIsSound DEF QuietMethods, RuntimeUndo
<1>10. \A c \in ProjectCalls : c.method \in MutationMethods
  BY DEF Method, MutationMethods, ProjectCalls, ProjectAction, SelectionSet, VectorEdit,
         UiInvoke, ArtifactRelease, VisualReview, ProjectManage, ProjectProperties,
         ProjectRepair, LayerSource, CanvasControl, BookmarkManage, MapThemeManage, CrsControl,
         MetadataManage, RuntimeTasks, RuntimeRender, RuntimeTransaction, RuntimeUndo
<1> QED BY <1>6, <1>7, <1>8, <1>9, <1>10 DEF ProjectCalls

LEMMA LayerCallsAreSound == \A c \in LayerCalls : c.method \in MutationMethods /\ Sound(c)
<1>1. /\ TellsAndEnds(<<"check", "edit", "check", "edit", "check", "project", "check",
                        "project", "touch">>)
      /\ TellsAndEnds(<<"check", "edit", "begin", "check", "edit", "check", "edit", "end",
                        "touch">>)
      /\ TellsAndEnds(<<"check", "data", "check", "touch">>)
      /\ TellsAndEnds(<<"check", "project", "touch">>)
      /\ TellsAndEnds(<<"check", "view", "touch">>)
      /\ TellsAndEnds(<<"check", "project", "check", "project", "touch">>)
  BY DEF TellsAndEnds, Tells, Ends, Changes
<1>2. /\ TellsAndEnds(<<"check", "project", "check", "touch">>)
      /\ TellsAndEnds(<<"check", "layers", "touch">>)
      /\ TellsAndEnds(<<"check">>)
      /\ TellsAndEnds(<<"check", "edit", "check", "begin", "edit", "check", "edit", "end",
                        "touch">>)
      /\ TellsAndEnds(<<"check", "disk", "check", "disk", "check", "touch">>)
  BY DEF TellsAndEnds, Tells, Ends, Changes
<1>3. /\ \A c \in VectorSchema : Sound(c)
      /\ \A c \in VectorGeometry : Sound(c)
      /\ \A c \in VectorIndex : Sound(c)
      /\ \A c \in VectorJoin : Sound(c)
      /\ \A c \in ProjectRelation : Sound(c)
      /\ \A c \in ProjectSnapping : Sound(c)
  BY <1>1, <1>2, MethodIsSound DEF QuietMethods, VectorSchema, VectorGeometry, VectorIndex,
                                   VectorJoin, ProjectRelation, ProjectSnapping
<1>4. /\ \A c \in SelectionAdvanced : Sound(c)
      /\ \A c \in LayerProperties : Sound(c)
      /\ \A c \in RasterStyle : Sound(c)
      /\ \A c \in Mesh : Sound(c)
      /\ \A c \in PointCloud : Sound(c)
      /\ \A c \in VectorTiles : Sound(c)
  BY <1>1, <1>2, MethodIsSound DEF QuietMethods, SelectionAdvanced, LayerProperties,
                                   RasterStyle, Mesh, PointCloud, VectorTiles, TileLayer
<1>5. /\ \A c \in TiledScene : Sound(c)
      /\ \A c \in LayerTemporal : Sound(c)
      /\ \A c \in LayerElevation : Sound(c)
      /\ \A c \in Forms : Sound(c)
      /\ \A c \in Diagrams : Sound(c)
      /\ \A c \in Annotations : Sound(c)
  BY <1>1, <1>2, MethodIsSound DEF QuietMethods, TiledScene, LayerTemporal, LayerElevation,
                                   Forms, Diagrams, Annotations, TileLayer
<1>6. /\ \A c \in GeometryQuality : Sound(c)
      /\ \A c \in VectorExport : Sound(c)
  BY <1>1, <1>2, MethodIsSound DEF QuietMethods, GeometryQuality, VectorExport
<1>7. \A c \in LayerCalls : c.method \in MutationMethods
  BY DEF Method, MutationMethods, LayerCalls, VectorSchema, VectorGeometry, VectorIndex,
         VectorJoin, ProjectRelation, ProjectSnapping, SelectionAdvanced, LayerProperties,
         RasterStyle, Mesh, PointCloud, VectorTiles, TiledScene, LayerTemporal, LayerElevation,
         Forms, Diagrams, Annotations, GeometryQuality, VectorExport, TileLayer
<1> QED BY <1>3, <1>4, <1>5, <1>6, <1>7 DEF LayerCalls

LEMMA CartographyCallsAreSound ==
    \A c \in CartographyCalls : c.method \in MutationMethods /\ Sound(c)
<1>1. /\ TellsAndEnds(<<"check", "layers", "project", "check", "project", "touch">>)
      /\ TellsAndEnds(<<"check", "project", "touch">>)
      /\ TellsAndEnds(<<"check", "project", "check", "project", "touch">>)
      /\ TellsAndEnds(<<"check", "project", "layers", "touch">>)
      /\ TellsAndEnds(<<"check", "disk", "check", "disk", "check", "touch">>)
      /\ TellsAndEnds(<<"check", "project", "check", "touch">>)
  BY DEF TellsAndEnds, Tells, Ends, Changes
<1>2. /\ TellsAndEnds(<<"check", "profile", "check", "touch">>)
      /\ TellsAndEnds(<<"check", "disk", "check", "touch">>)
  BY DEF TellsAndEnds, Tells, Ends, Changes
<1>3. /\ Ends(<<"check", "disk", "check">>)
  BY DEF Ends
<1>4. /\ \A c \in LayerManage : Sound(c)
      /\ \A c \in CartographyStyle : Sound(c)
      /\ \A c \in CartographyLabels : Sound(c)
      /\ \A c \in LayoutExecute : Sound(c)
      /\ \A c \in CartographyRenderer : Sound(c)
      /\ \A c \in CartographySymbol : Sound(c)
  BY <1>1, <1>2, <1>3, MethodIsSound DEF QuietMethods, LayerManage, CartographyStyle,
     CartographyLabels, LayoutExecute, CartographyRenderer, CartographySymbol
<1>5. /\ \A c \in StyleLibrary : Sound(c)
      /\ \A c \in CartographyLabeling : Sound(c)
      /\ \A c \in LayoutItem : Sound(c)
      /\ \A c \in LayoutAtlas : Sound(c)
  BY <1>1, <1>2, <1>3, MethodIsSound DEF QuietMethods, StyleLibrary, CartographyLabeling,
     LayoutItem, LayoutAtlas
<1>6. \A c \in CartographyCalls : c.method \in MutationMethods
  BY DEF Method, MutationMethods, CartographyCalls, LayerManage, CartographyStyle,
         CartographyLabels, LayoutExecute, CartographyRenderer, CartographySymbol, StyleLibrary,
         CartographyLabeling, LayoutItem, LayoutAtlas
<1> QED BY <1>4, <1>5, <1>6 DEF CartographyCalls

LEMMA ServiceCallsAreSound == \A c \in ServiceCalls : c.method \in MutationMethods /\ Sound(c)
<1>1. /\ TellsAndEnds(<<"check", "profile", "touch">>)
      /\ TellsAndEnds(<<"check", "profile", "check", "touch">>)
      /\ TellsAndEnds(<<"check", "session", "touch">>)
      /\ TellsAndEnds(<<"check", "begin", "session", "check", "end", "touch">>)
      /\ TellsAndEnds(<<"check", "view", "check", "view", "check", "touch">>)
      /\ TellsAndEnds(<<"check", "view", "touch">>)
  BY DEF TellsAndEnds, Tells, Ends, Changes
<1>2. /\ TellsAndEnds(<<"check", "project", "project", "touch">>)
      /\ TellsAndEnds(<<"check", "project", "touch">>)
      /\ TellsAndEnds(<<"check", "session", "session", "touch">>)
      /\ TellsAndEnds(<<"check", "data", "touch">>)
      /\ TellsAndEnds(<<"check", "view", "touch", "check">>)
      /\ TellsAndEnds(<<"check", "project", "touch", "check">>)
  BY DEF TellsAndEnds, Tells, Ends, Changes
<1>3. /\ TellsAndEnds(<<"check", "session", "touch", "check">>)
      /\ TellsAndEnds(<<"check", "session">>)
      /\ TellsAndEnds(<<"check", "session", "check">>)
      /\ TellsAndEnds(<<"check", "session", "check", "layers", "project", "touch", "layers",
                        "project", "touch", "check">>)
      /\ TellsAndEnds(<<"check", "layers", "project", "touch">>)
      /\ TellsAndEnds(<<"check", "session", "check", "layers", "project", "touch", "check",
                        "project", "touch", "check", "layers", "project", "touch", "view",
                        "check", "project", "touch", "check", "disk", "check", "touch",
                        "touch">>)
  BY DEF TellsAndEnds, Tells, Ends, Changes
<1>4. /\ TellsAndEnds(<<"check", "disk", "check", "disk", "touch">>)
      /\ TellsAndEnds(<<"check", "layers", "check", "project", "touch">>)
      /\ TellsAndEnds(<<"check", "disk", "touch">>)
  BY DEF TellsAndEnds, Tells, Ends, Changes
<1>5. /\ Ends(<<"view">>)
      /\ Ends(<<"check", "data", "check">>)
  BY DEF Ends
<1>6. /\ \A c \in EcosystemPlugins : Sound(c)
      /\ \A c \in InstallOfficialPlugin : Sound(c)
      /\ \A c \in EcosystemSettings : Sound(c)
      /\ \A c \in EcosystemShortcuts : Sound(c)
      /\ \A c \in EcosystemGps : Sound(c)
      /\ \A c \in Ecosystem3D : Sound(c)
  BY <1>1, <1>2, <1>3, <1>4, <1>5, MethodIsSound DEF QuietMethods, EcosystemPlugins,
      InstallOfficialPlugin, EcosystemSettings, EcosystemShortcuts, EcosystemGps, Ecosystem3D
<1>7. /\ \A c \in EcosystemServer : Sound(c)
      /\ \A c \in EcosystemOffline : Sound(c)
      /\ \A c \in ProcessingProvider : Sound(c)
      /\ \A c \in ProcessingBatch : Sound(c)
      /\ \A c \in ProcessingHistory : Sound(c)
      /\ \A c \in DatabaseControl : Sound(c)
  BY <1>1, <1>2, <1>3, <1>4, <1>5, MethodIsSound DEF QuietMethods, EcosystemServer,
      EcosystemOffline, ProcessingProvider, ProcessingBatch, ProcessingHistory, DatabaseControl
<1>8. /\ \A c \in ConnectionManage : Sound(c)
      /\ \A c \in CapabilitiesInvoke : Sound(c)
      /\ \A c \in ProcessingStart : Sound(c)
      /\ \A c \in OperationControl : Sound(c)
      /\ \A c \in DataFetch : Sound(c)
      /\ \A c \in DataService : Sound(c)
  BY <1>1, <1>2, <1>3, <1>4, <1>5, MethodIsSound DEF QuietMethods, ConnectionManage,
      CapabilitiesInvoke, ProcessingStart, OperationControl, DataFetch, DataService
<1>9. /\ \A c \in DataRefresh : Sound(c)
      /\ \A c \in ConnectorFireMap : Sound(c)
      /\ \A c \in CheckpointExecute : Sound(c)
  BY <1>1, <1>2, <1>3, <1>4, <1>5, MethodIsSound DEF QuietMethods, DataRefresh,
      ConnectorFireMap, CheckpointExecute, CheckpointCreate, CheckpointRestore, CheckpointDelete
<1>10. \A c \in ServiceCalls : c.method \in MutationMethods
  BY DEF Method, MutationMethods, ServiceCalls, EcosystemPlugins, InstallOfficialPlugin,
         EcosystemSettings, EcosystemShortcuts, EcosystemGps, Ecosystem3D, EcosystemServer,
         EcosystemOffline, ProcessingProvider, ProcessingBatch, ProcessingHistory,
         DatabaseControl, ConnectionManage, CapabilitiesInvoke, ProcessingStart,
         OperationControl, DataFetch, DataService, DataRefresh, ConnectorFireMap,
         CheckpointExecute, CheckpointCreate, CheckpointRestore, CheckpointDelete
<1> QED BY <1>6, <1>7, <1>8, <1>9, <1>10 DEF ServiceCalls

Quiet(s) == Len(s) \in Nat /\ \A i \in 1..Len(s) : s[i] \in {"check", "session"}

LEMMA ReadCallsAreQuiet == \A c \in ReadCalls : Quiet(c.script)
BY DEF Quiet, ReadCalls, SessionSnapshot, ProjectInspect, LayerInspect, FeatureQuery, UiSearch,
   UiScreenshot, LogsRead, ArtifactList, HandleRead, ArtifactRead, CapabilitiesSearch,
   CapabilitiesDescribe, DataCatalog, DataProvenance, ConnectorCatalog, ProjectVerify,
   RuntimeControl, RuntimeEvents, RuntimePreflight, RuntimeDiff, RuntimeDiagnostics,
   RuntimePermissions, RuntimeAuth, MapIdentify, MapMeasure, ExpressionControl,
   ConnectionInspect, VectorStatistics, RasterInspect, ProcessingAssets,
   ProcessingContext, LayerCapabilities, LayoutValidate, QaCompatibility,
   QaProjectAudit, QaBenchmark, QaSelfTest, Reading, Remembering, Method

LEMMA QuietIsSound == \A s : Quiet(s) => Tells(s) /\ Ends(s)
<1> SUFFICES ASSUME NEW s, Quiet(s) PROVE Tells(s) /\ Ends(s)
  OBVIOUS
<1>1. Len(s) \in Nat /\ \A i \in 1..Len(s) : s[i] \notin Changes /\ s[i] # "begin"
  BY DEF Quiet, Changes
<1>2. 0 \in 0..Len(s) /\ \A i \in (0 + 1)..Len(s) : s[i] \notin Changes
  BY <1>1
<1> QED BY <1>1, <1>2 DEF Tells, Ends

LEMMA HandlersAreSound ==
    \A c \in Handled : Sound(c) /\ (c.method \in MutationMethods \/ Quiet(c.script))
BY ProjectCallsAreSound, LayerCallsAreSound, CartographyCallsAreSound, ServiceCallsAreSound,
   ReadCallsAreQuiet, QuietIsSound
DEF Handled, Sound

\* The server and the dispatcher agree on what is a mutation.
LEMMA TablesAgree ==
    \A t \in ToolMethods : t[1] \in MutationTools <=> t[2] \in MutationMethods
<1>1. /\ \A t \in SessionTools : t[1] \in MutationTools <=> t[2] \in MutationMethods
      /\ \A t \in DataTools : t[1] \in MutationTools <=> t[2] \in MutationMethods
      /\ \A t \in RuntimeTools : t[1] \in MutationTools <=> t[2] \in MutationMethods
  BY DEF MutationTools, MutationMethods, SessionTools, DataTools, RuntimeTools
<1>2. /\ \A t \in ProjectTools : t[1] \in MutationTools <=> t[2] \in MutationMethods
      /\ \A t \in VectorTools : t[1] \in MutationTools <=> t[2] \in MutationMethods
      /\ \A t \in ProcessingTools : t[1] \in MutationTools <=> t[2] \in MutationMethods
      /\ \A t \in CartographyTools : t[1] \in MutationTools <=> t[2] \in MutationMethods
  BY DEF MutationTools, MutationMethods, ProjectTools, VectorTools, ProcessingTools,
     CartographyTools
<1>3. /\ \A t \in LayerTools : t[1] \in MutationTools <=> t[2] \in MutationMethods
      /\ \A t \in EcosystemTools : t[1] \in MutationTools <=> t[2] \in MutationMethods
      /\ \A t \in AuthoringTools : t[1] \in MutationTools <=> t[2] \in MutationMethods
  BY DEF MutationTools, MutationMethods, LayerTools, EcosystemTools, AuthoringTools
<1> QED BY <1>1, <1>2, <1>3 DEF ToolMethods

(* ----------------------------- handlers' calls ----------------------------- *)

\* What is under way was let through; what a part changed is undone or kept by its end;
\* content under an unmoved revision is told of by a touch that is still to come, or has
\* someone to blame.
CallsInv ==
    /\ TypeOK
    /\ Idle => undo = NoPart
    /\ ~Idle => pc >= 1
    /\ ~Idle /\ call.dry => call.method \notin MutationMethods
    /\ ~Idle /\ call.guarded /\ pc = 1 => ~moved
    /\ ~Idle /\ undo # NoPart => \E j \in pc..Len(call.script) : call.script[j] = "end"
    /\ blame \in {"nobody", "failure", "user"} \cup QuietMethods
    /\ changed /\ ~moved /\ blame = "nobody" =>
          /\ ~Idle /\ pc # 1
          /\ \/ call.method \in QuietMethods
             \/ \E j \in pc..Len(call.script) : call.script[j] = "touch"

LEMMA RequestsAreSound ==
    ASSUME NEW r \in Requests
    PROVE  /\ r # NoCall /\ r.guarded \in BOOLEAN /\ r.dry \in BOOLEAN
           /\ Len(r.script) \in Nat /\ Ends(r.script)
           /\ Tells(r.script) \/ r.method \in QuietMethods
           /\ r.method \in MutationMethods \/ Quiet(r.script)
           /\ r.method \in {c.method : c \in Handled}
           /\ ReadOnlyHint(r.tool) => r.method \notin MutationMethods
           /\ r.guarded => r.method \in MutationMethods
<1>1. PICK t \in ToolMethods, c \in Handled, guarded \in BOOLEAN, dry \in BOOLEAN :
        /\ t[2] = c.method /\ r = Request(t, c, guarded, dry)
        /\ guarded => t[1] \in MutationTools
  <2>1. CASE r \in {Request(x[1], x[2], FALSE, FALSE) : x \in
                      {x \in ToolMethods \X Handled : x[1][2] = x[2].method}}
    <3>1. PICK x \in ToolMethods \X Handled :
            x[1][2] = x[2].method /\ r = Request(x[1], x[2], FALSE, FALSE)
      BY <2>1
    <3> QED BY <3>1
  <2>2. CASE r \in {Request(x[1], x[2], x[3] = "if_revision", x[3] = "dry_run") : x \in
                      {x \in ToolMethods \X Handled \X {"if_revision", "dry_run"} :
                          x[1][2] = x[2].method /\ x[1][1] \in MutationTools}}
    <3>1. PICK x \in ToolMethods \X Handled \X {"if_revision", "dry_run"} :
            /\ x[1][2] = x[2].method /\ x[1][1] \in MutationTools
            /\ r = Request(x[1], x[2], x[3] = "if_revision", x[3] = "dry_run")
      BY <2>2
    <3>2. PICK guarded \in BOOLEAN, dry \in BOOLEAN :
            guarded = (x[3] = "if_revision") /\ dry = (x[3] = "dry_run")
      OBVIOUS
    <3> QED BY <3>1, <3>2
  <2> QED BY <2>1, <2>2 DEF Requests
<1>2. /\ r.tool = t[1] /\ r.method = c.method /\ r.script = c.script /\ r.guarded = guarded
      /\ r.dry = dry /\ r # NoCall
  BY <1>1 DEF Request, NoCall
<1>3. Sound(c) /\ (c.method \in MutationMethods \/ Quiet(c.script))
  BY HandlersAreSound
<1>4. t[1] \in MutationTools <=> c.method \in MutationMethods
  BY <1>1, TablesAgree
<1> QED BY <1>1, <1>2, <1>3, <1>4 DEF Sound, Ends, ReadOnlyHint

LEMMA CallsInitKeeps == Init => CallsInv
<1>1. Init => TypeOK
  BY DEF Init, TypeOK, Idle
<1> QED BY <1>1 DEF Init, CallsInv, Idle

LEMMA ServeKeeps == ASSUME CallsInv, NEW r \in Requests, Serve(r) PROVE CallsInv'
<1>1. /\ Idle /\ Executes(r) /\ call' = r /\ pc' = 1 /\ UNCHANGED <<changed, moved, undo, blame>>
  BY DEF Serve
<1>2. /\ r # NoCall /\ r.guarded \in BOOLEAN /\ r.dry \in BOOLEAN /\ Len(r.script) \in Nat
      /\ r.guarded => r.method \in MutationMethods
  BY RequestsAreSound
<1>3. ~Idle'
  BY <1>1, <1>2 DEF Idle
<1>4. TypeOK'
  BY <1>1, <1>2, <1>3 DEF CallsInv, TypeOK
<1> QED BY <1>1, <1>2, <1>3, <1>4 DEF CallsInv, Executes

\* The next step of a script.
LEMMA OneMoreStep ==
    ASSUME CallsInv, Running, call' = call, pc' = pc + 1
    PROVE  /\ call \in Requests /\ call # NoCall /\ ~Idle /\ ~Idle' /\ Len(call.script) \in Nat
           /\ pc \in 1..Len(call.script) /\ pc' \in 0..(1 + Len(call.script)) /\ pc' >= 1 /\ pc' # 1
           /\ \A x : x # Current /\ (\E j \in pc..Len(call.script) : call.script[j] = x)
                => \E j \in pc'..Len(call'.script) : call'.script[j] = x
<1>1. call \in Requests /\ call # NoCall /\ ~Idle /\ pc <= Len(call.script) /\ pc >= 1
      /\ pc \in 0..(1 + Len(call.script))
  BY DEF Running, Idle, CallsInv, TypeOK
<1>2. ~Idle' /\ Len(call.script) \in Nat
  BY <1>1, RequestsAreSound DEF Idle
<1>3. ASSUME NEW x, x # Current, NEW j \in pc..Len(call.script), call.script[j] = x
      PROVE  j \in pc'..Len(call'.script) /\ call'.script[j] = x
  <2>1. j # pc
    BY <1>3 DEF Current
  <2> QED BY <2>1, <1>1, <1>2, <1>3
<1> QED BY <1>1, <1>2, <1>3

LEMMA StepsKeep ==
    ASSUME CallsInv, Pass \/ Change \/ Touch \/ BeginPart \/ EndPart
    PROVE  CallsInv'
<1>1. Running /\ call' = call /\ pc' = pc + 1 /\ blame' = blame
  BY DEF Pass, Change, Touch, BeginPart, EndPart
<1>2. /\ call \in Requests /\ call # NoCall /\ ~Idle /\ ~Idle' /\ Len(call.script) \in Nat
      /\ pc \in 1..Len(call.script) /\ pc' \in 0..(1 + Len(call.script)) /\ pc' >= 1 /\ pc' # 1
  BY <1>1, OneMoreStep
<1>3. \A x : x # Current /\ (\E j \in pc..Len(call.script) : call.script[j] = x)
                => \E j \in pc'..Len(call'.script) : call'.script[j] = x
  BY <1>1, OneMoreStep
<1>4. /\ Ends(call.script) /\ (Tells(call.script) \/ call.method \in QuietMethods)
  BY <1>2, RequestsAreSound
<1>5. TypeOK'
  <2>1. changed' \in BOOLEAN /\ moved' \in BOOLEAN /\ undo' \in {NoPart, "changed", "same"}
    BY DEF CallsInv, TypeOK, Pass, Change, Touch, BeginPart, EndPart, NoPart
  <2> QED BY <2>1, <1>1, <1>2 DEF CallsInv, TypeOK
<1>6. undo' # NoPart => \E j \in pc'..Len(call'.script) : call'.script[j] = "end"
  <2>1. CASE BeginPart
    <3>1. Current = "begin"
      BY <2>1 DEF BeginPart
    <3>2. PICK j \in (pc + 1)..Len(call.script) : call.script[j] = "end"
      BY <3>1, <1>2, <1>4 DEF Ends, Current
    <3> QED BY <3>2, <1>1
  <2>2. CASE EndPart
    BY <2>2 DEF EndPart
  <2>3. CASE Pass \/ Change \/ Touch
    <3>1. Current # "end" /\ undo' = undo
      BY <2>3 DEF Pass, Change, Touch, Changes
    <3> QED BY <3>1, <1>2, <1>3 DEF CallsInv
  <2> QED BY <2>1, <2>2, <2>3
<1>7. changed' /\ ~moved' /\ blame' = "nobody" =>
          \/ call'.method \in QuietMethods
          \/ \E j \in pc'..Len(call'.script) : call'.script[j] = "touch"
  <2> SUFFICES ASSUME changed', ~moved', blame = "nobody", call.method \notin QuietMethods
               PROVE  \E j \in pc'..Len(call'.script) : call'.script[j] = "touch"
    BY <1>1
  <2>1. CASE Change /\ ~UNCHANGED <<changed, moved>>
    <3>1. PICK k \in 0..Len(call.script) :
            /\ k = 0 \/ call.script[k] = "touch"
            /\ \A i \in (k + 1)..Len(call.script) : call.script[i] \notin Changes
      BY <1>4 DEF Tells
    <3>2. call.script[pc] \in Changes
      BY <2>1 DEF Change, Current
    <3>3. ~(k + 1 <= pc)
      BY <3>1, <3>2, <1>2
    <3>4. call.script[k] = "touch" /\ k \in pc..Len(call.script)
      BY <3>1, <3>3, <1>2
    <3>5. Current # "touch"
      BY <3>2 DEF Current, Changes
    <3> QED BY <3>4, <3>5, <1>3
  <2>2. CASE UNCHANGED <<changed, moved>>
    <3>1. Current # "touch"
      BY <2>2 DEF Pass, Change, Touch, BeginPart, EndPart, Changes, CallsInv
    <3>2. \E j \in pc..Len(call.script) : call.script[j] = "touch"
      BY <2>2 DEF CallsInv
    <3> QED BY <3>1, <3>2, <1>3
  <2>3. CASE Touch
    BY <2>3 DEF Touch
  <2> QED BY <2>1, <2>2, <2>3 DEF Pass, BeginPart, EndPart
<1> QED BY <1>1, <1>2, <1>5, <1>6, <1>7 DEF CallsInv

\* When a call is over, what it leaves has someone to blame.
LEMMA RaiseKeeps == CallsInv /\ Raise => CallsInv'
<1> SUFFICES ASSUME CallsInv, Raise PROVE CallsInv'
  OBVIOUS
<1>1. /\ call' = NoCall /\ pc' = 0 /\ undo' = NoPart /\ moved' = moved
      /\ changed' = IF undo = NoPart THEN changed ELSE undo = "changed"
      /\ blame' = IF blame = "nobody" /\ changed' /\ ~moved' THEN "failure" ELSE blame
  BY DEF Raise, Blamed
<1>2. changed' \in BOOLEAN /\ Idle'
  BY <1>1 DEF Idle, CallsInv, TypeOK
<1>3. TypeOK'
  BY <1>1, <1>2 DEF CallsInv, TypeOK
<1> QED BY <1>1, <1>2, <1>3 DEF CallsInv

LEMMA ReturnKeeps == CallsInv /\ Return => CallsInv'
<1> SUFFICES ASSUME CallsInv, Return PROVE CallsInv'
  OBVIOUS
<1>1. /\ ~Idle /\ pc > Len(call.script) /\ call' = NoCall /\ pc' = 0
      /\ UNCHANGED <<changed, moved, undo>>
      /\ blame' = IF blame = "nobody" /\ changed' /\ ~moved' THEN call.method ELSE blame
  BY DEF Return, Blamed
<1>2. call \in Requests /\ Idle' /\ pc \in 0..(1 + Len(call.script))
  BY <1>1 DEF Idle, CallsInv, TypeOK
<1>3. Len(call.script) \in Nat /\ call.method \in {c.method : c \in Handled}
  BY <1>2, RequestsAreSound
<1>4. ~\E j \in pc..Len(call.script) : TRUE
  BY <1>1, <1>2, <1>3
<1>5. undo' = NoPart
  BY <1>1, <1>4 DEF CallsInv
<1>6. blame = "nobody" /\ changed /\ ~moved => call.method \in QuietMethods
  BY <1>1, <1>4 DEF CallsInv
<1>7. TypeOK'
  BY <1>1, <1>2, <1>3 DEF CallsInv, TypeOK
<1>8. call.method # "nobody" \/ ~(blame = "nobody" /\ changed /\ ~moved)
  BY <1>6 DEF QuietMethods
<1> QED BY <1>1, <1>2, <1>5, <1>6, <1>7, <1>8 DEF CallsInv

LEMMA BetweenCallsKeeps == CallsInv /\ (Look \/ UserActs) => CallsInv'
<1> SUFFICES ASSUME CallsInv, Look \/ UserActs PROVE CallsInv'
  OBVIOUS
<1>1. /\ Idle /\ Idle' /\ UNCHANGED <<call, pc, undo>>
      /\ changed' \in BOOLEAN /\ moved' \in BOOLEAN
      /\ blame' \in {"nobody", "user", blame} /\ (blame' = "nobody" => ~(changed' /\ ~moved'))
  BY DEF Look, UserActs, Blamed, Idle, CallsInv, TypeOK
<1>2. TypeOK'
  BY <1>1 DEF CallsInv, TypeOK
<1> QED BY <1>1, <1>2 DEF CallsInv

LEMMA CallsNextKeep == CallsInv /\ [Next]_callVars => CallsInv'
<1>1. CallsInv /\ UNCHANGED callVars => CallsInv'
  BY DEF callVars, CallsInv, TypeOK, Idle
<1> QED
  BY <1>1, ServeKeeps, StepsKeep, RaiseKeeps, ReturnKeeps, BetweenCallsKeeps DEF Next

LEMMA CallsAlways == Spec => []CallsInv
BY CallsInitKeeps, CallsNextKeep, PTL DEF Spec

\* A call made under if_revision starts on the content its client looked at, unless a
\* failed call, a change at the screen or one of five methods has left it changed under
\* the same revision: every way through every other handler touches after its last
\* change (MutationTools, "Require the current global session revision").
THEOREM GuardedCallsStartOnTheirContent == Spec => []GuardedCallsMeetTheirContent
<1>1. CallsInv => GuardedCallsMeetTheirContent
  BY DEF CallsInv, TypeOK, GuardedCallsMeetTheirContent
<1> QED BY <1>1, CallsAlways, PTL

LEMMA QuietCallsChangeNothing ==
    ASSUME CallsInv, [Next]_callVars, ~Idle, ReadOnlyHint(call.tool) \/ call.dry
    PROVE  UNCHANGED <<changed, moved>>
<1>1. call \in Requests
  BY DEF CallsInv, TypeOK, Idle
<1>2. Quiet(call.script)
  BY <1>1, RequestsAreSound DEF CallsInv
<1>3. pc \in 0..(1 + Len(call.script)) /\ pc >= 1 /\ Len(call.script) \in Nat
  BY <1>1, <1>2 DEF CallsInv, TypeOK, Quiet
<1>4. Running => Current \in {"check", "session"}
  BY <1>2, <1>3 DEF Quiet, Running, Current
<1>5. undo = NoPart
  <2>1. ~\E j \in pc..Len(call.script) : call.script[j] = "end"
    BY <1>2, <1>3 DEF Quiet
  <2> QED BY <2>1 DEF CallsInv
<1> QED
  BY <1>4, <1>5
  DEF Next, callVars, Look, Serve, Pass, Change, Touch, BeginPart, EndPart, Raise, Return,
      UserActs, Changes

\* A tool that is annotated as read-only changes neither content nor revision, and
\* neither does a dry run: no method of a tool without the arguments of a mutation is in
\* MUTATION_METHODS, and no handler outside of it changes anything (enrich_tool_definition
\* and dispatch).
THEOREM ReadOnlyChangesNothing == Spec => ReadOnlyMeansReadOnly
<1>1. CallsInv /\ [Next]_callVars
        => [(~Idle /\ (ReadOnlyHint(call.tool) \/ call.dry))
              => UNCHANGED <<changed, moved>>]_callVars
  BY QuietCallsChangeNothing
<1> QED BY <1>1, CallsAlways, PTL DEF Spec, ReadOnlyMeansReadOnly

(* ----------------------------- the parts together ----------------------------- *)

LEMMA InitOfParts ==
    MCInit => Init /\ Tracker!Init /\ Processing!Init /\ Stores!Init /\ Views!Init
BY DEF MCInit

LEMMA StepOfParts ==
    [MCNext]_<<part, callVars, trackerVars, operationVars, storeVars, viewVars>>
      => /\ [Next]_callVars
         /\ [Tracker!Next]_Tracker!trackerVars
         /\ [Processing!Next]_Processing!operationVars
         /\ [Stores!Next]_Stores!storeVars
         /\ [Views!Next]_Views!viewVars
<1> SUFFICES ASSUME [MCNext]_<<part, callVars, trackerVars, operationVars, storeVars, viewVars>>
             PROVE  /\ Next \/ UNCHANGED callVars
                    /\ Tracker!Next \/ UNCHANGED trackerVars
                    /\ Processing!Next \/ UNCHANGED operationVars
                    /\ Stores!Next \/ UNCHANGED storeVars
                    /\ Views!Next \/ UNCHANGED viewVars
  BY DEF trackerVars, Tracker!trackerVars, operationVars, Processing!operationVars,
     storeVars, Stores!storeVars, viewVars, Views!viewVars
<1>1. Stores!HandleNext \/ Stores!ArtifactNext \/ Stores!CacheNext => Stores!Next
  BY DEF Stores!Next
<1> QED BY <1>1 DEF MCNext

LEMMA PartsOfRun ==
    MCSpec => Spec /\ Tracker!Spec /\ Processing!Spec /\ Stores!Spec /\ Views!Spec
BY InitOfParts, StepOfParts, PTL
DEF MCSpec, Spec, Tracker!Spec, Processing!Spec, Stores!Spec, Views!Spec

\* The variables of all parts have their types in the run about the parts.
THEOREM PluginTypeCorrect == MCSpec => []PluginTypeOK
<1>1. Spec => []TypeOK
  <2>1. CallsInv => TypeOK
    BY DEF CallsInv
  <2> QED BY <2>1, CallsAlways, PTL
<1> QED
  BY <1>1, PartsOfRun, TrackerTypeCorrect, OperationsTypeCorrect, StoresTypeCorrect,
     ViewsTypeCorrect, PTL
  DEF PluginTypeOK

\* What the run about the parts checks of the behaviours of all of them, together: a
\* guarded call meets its content, a read-only tool changes nothing, a client that merges
\* deltas keeps up, a final status is what became of its operation, what was handed out
\* is there, and a name leads to the view that was created for it.
THEOREM PluginKeepsItsPromises ==
    MCSpec => /\ [](/\ GuardedCallsMeetTheirContent /\ DeltaKeepsUp /\ OutcomesAreTrue
                    /\ StoredIsThere /\ NamesLeadToOwnView)
              /\ ReadOnlyMeansReadOnly
BY PartsOfRun, GuardedCallsStartOnTheirContent, ReadOnlyChangesNothing, DeltasKeepUp,
   OutcomesAreAlwaysTrue, HandedOutIsThere, NamesLead, PTL
===================================================================================
