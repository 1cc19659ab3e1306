------------------------------ MODULE StateTracker ------------------------------
(***************************************************************************)
(* state.py and revisions.py: the revision of the session, the revisions   *)
(* of the layers, the log of changes, the cache of layer summaries, and a  *)
(* client that follows the layers by delta snapshots.                      *)
(*                                                                         *)
(* What QGIS tells comes in as lists of layer ids; _compact keeps the      *)
(* first MaxListed of a list (20 in the code).                             *)
(***************************************************************************)
EXTENDS Integers, Sequences, SequencesExt, FiniteSets

CONSTANTS
    Layers,         \* ids of layers
    MaxListed,      \* _compact: list items kept
    MaxChanges,     \* touch: length of the log of changes (1000 in the code)
    MaxRevision     \* bound of the model on the revision

VARIABLES
    content,        \* of each layer, what a summary shows, or Absent
    revision,       \* StateTracker.revision
    layerRevision,  \* ResourceRevisionIndex, at the URIs of the layers
    changes,        \* _changes: revision and removed ids of each entry
    summaries,      \* _layer_summary_cache: revision and content, or NoSummary
    base,           \* the revision of the client's last snapshot, or Never
    view,           \* the layers as the client has them
    untold          \* history: layers changed without a touch that names them

trackerVars == <<content, revision, layerRevision, changes, summaries, base, view, untold>>

Absent == "absent"
Looks == {"old", "new"}
NoSummary == <<-1, Absent>>
Never == -1

Init ==
    /\ content \in [Layers -> {Absent, "old"}]
    /\ revision = 0
    /\ layerRevision = [l \in Layers |-> 0]
    /\ changes = <<>>
    /\ summaries = [l \in Layers |-> NoSummary]
    /\ base = Never
    /\ view = [l \in Layers |-> Absent]
    /\ untold = {}

\* revisions.affected and bump, for the layers an event names.
Bump(named) ==
    layerRevision' = [l \in Layers |-> IF l \in named THEN revision + 1 ELSE layerRevision[l]]

\* A mutant of Newest: the log is one longer than its limit.
NewestAndOneMore(log) == IF Len(log) > MaxChanges + 1 THEN Tail(log) ELSE log

Newest(log) == IF Len(log) > MaxChanges THEN Tail(log) ELSE log

\* Every touch: a new revision, an entry in the log, some summaries dropped.
Touch(named, removed, dropped) ==
    /\ revision < MaxRevision
    /\ revision' = revision + 1
    /\ Bump(named)
    /\ changes' = Newest(Append(changes, [revision |-> revision + 1, removed |-> removed]))
    /\ summaries' = [l \in Layers |-> IF l \in dropped THEN NoSummary ELSE summaries[l]]

\* The ids that _compact leaves of a list with the members S.
Listed(S) == {kept \in SUBSET S : Cardinality(kept) =
                IF Cardinality(S) > MaxListed THEN MaxListed ELSE Cardinality(S)}

Present == {l \in Layers : content[l] # Absent}

LayersAdded(S) ==
    /\ S # {} /\ S \cap Present = {}
    /\ content' = [l \in Layers |-> IF l \in S THEN "new" ELSE content[l]]
    /\ \E kept \in Listed(S) : Touch(kept, {}, kept) /\ untold' = untold \cup (S \ kept)
    /\ UNCHANGED <<base, view>>

LayersRemoved(S) ==
    /\ S # {} /\ S \subseteq Present
    /\ content' = [l \in Layers |-> IF l \in S THEN Absent ELSE content[l]]
    /\ \E kept \in Listed(S) : Touch(kept, kept, kept) /\ untold' = untold \cup (S \ kept)
    /\ UNCHANGED <<base, view>>

Other(look) == CHOOSE other \in Looks : other # look
Edited(l) == [content EXCEPT ![l] = Other(@)]

\* A signal of the layer, or a handler that touches for its id.
LayerChanged(l) ==
    /\ l \in Present
    /\ content' = Edited(l)
    /\ Touch({l}, {}, {l})
    /\ UNCHANGED <<base, view, untold>>

\* A handler that touches for what its client called the layer, its name say.
ChangedByName(l) ==
    /\ l \in Present
    /\ content' = Edited(l)
    /\ Touch({}, {}, {})
    /\ untold' = untold \cup {l}
    /\ UNCHANGED <<base, view>>

\* A handler that raises half way, or one that does not touch.
ChangedSilently(l) ==
    /\ l \in Present
    /\ content' = Edited(l)
    /\ untold' = untold \cup {l}
    /\ UNCHANGED <<revision, layerRevision, changes, summaries, base, view>>

\* project.read and project.cleared drop every summary.
ProjectReplaced ==
    /\ Touch({}, {}, Layers)
    /\ UNCHANGED <<content, base, view, untold>>

\* _cached_layer_summary
Hit(l) == summaries[l][1] = layerRevision[l]
Summary(l) == IF Hit(l) THEN summaries[l][2] ELSE content[l]

Summarize(shown) ==
    summaries' = [l \in Layers |->
        IF l \in shown THEN <<layerRevision[l], Summary(l)>> ELSE summaries[l]]

Answered(newView) ==
    /\ view' = newView
    /\ base' = revision
    /\ untold' = {l \in untold : newView[l] # content[l]}
    /\ UNCHANGED <<content, revision, layerRevision, changes>>

\* session.snapshot without since_revision, or since revision 0.
Snapshot ==
    /\ Summarize(Present)
    /\ Answered([l \in Layers |-> IF l \in Present THEN Summary(l) ELSE Absent])

Oldest == IF changes = <<>> THEN revision ELSE changes[1].revision

\* A mutant of DeltaComplete: an entry that is gone is not missed.
DeltaCompleteTooEarly == base >= Oldest - 2

DeltaComplete == base >= Oldest - 1

Since == {c \in ToSet(changes) : c.revision > base}

\* session.snapshot since the client's last one; the client merges a complete
\* answer: a layer that is shown is as shown, one that is only removed is gone.
Delta ==
    LET shown == {l \in Present : layerRevision[l] > base}
        removed == UNION {c.removed : c \in Since}
    IN  /\ base > 0
        /\ DeltaComplete
        /\ Summarize(shown)
        /\ Answered([l \in Layers |->
                        IF l \in shown THEN Summary(l)
                        ELSE IF l \in removed THEN Absent ELSE view[l]])

Next ==
    \/ \E S \in SUBSET Layers : LayersAdded(S)
    \/ \E S \in SUBSET Layers : LayersRemoved(S)
    \/ \E l \in Layers : LayerChanged(l)
    \/ \E l \in Layers : ChangedByName(l)
    \/ \E l \in Layers : ChangedSilently(l)
    \/ ProjectReplaced
    \/ Snapshot
    \/ Delta

Spec == Init /\ [][Next]_trackerVars

-----------------------------------------------------------------------------
TypeOK ==
    /\ content \in [Layers -> Looks \cup {Absent}]
    /\ revision \in 0..MaxRevision
    /\ layerRevision \in [Layers -> 0..revision]
    /\ Len(changes) <= MaxChanges
    /\ ToSet(changes) \subseteq [revision : 1..revision, removed : SUBSET Layers]
    /\ base \in Never..revision
    /\ view \in [Layers -> Looks \cup {Absent}]
    /\ untold \subseteq Layers

\* A client that follows the session by complete deltas has every layer as it
\* is, removed ones included ("returns only changed live layers plus removed
\* layer IDs", README.md). It misses only layers beyond the part of a
\* bulk change that _compact keeps, and those changed under another name or
\* without any touch.
DeltaKeepsUp ==
    base = revision => \A l \in Layers \ untold : view[l] = content[l]
===============================================================================
