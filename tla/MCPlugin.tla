-------------------------------- MODULE MCPlugin --------------------------------
(* The parts of the plugin behind the dispatcher that keep state between     *)
(* calls. None of them reads the state of another one, so a behaviour of     *)
(* this module lives in one part and leaves the others as they are at first. *)
EXTENDS HandlerCalls, OperationOutcomes, FiniteSets

CONSTANTS
    Layers, MaxListed, MaxChanges, MaxRevision,
    Ids, MaxHandles, MaxItems, MaxSize, MaxTotal, MaxCached, MaxPage,
    Requested, Native, MaxWindows, NoName

\* The log of state.py and the stores keep something (1000 changes, 100 handles, 128
\* artifacts), and nothing that is stored is larger than its store (32 of 64 MiB; at
\* most 256 of 512 MiB); the bounds are numbers, and the ids of the model finitely many.
ASSUME PluginAssumption ==
    /\ {MaxChanges, MaxHandles, MaxItems} \subseteq Nat \ {0}
    /\ {MaxRevision, MaxWindows, MaxWrites, MaxSize, MaxTotal, MaxCached} \subseteq Nat
    /\ MaxSize <= MaxTotal /\ MaxSize <= MaxCached
    /\ IsFiniteSet(Ids)

VARIABLES
    part,           \* the part this behaviour is about
    content, revision, layerRevision, changes, summaries, base, view, untold,
    handles, artifacts, totalBytes, cache, answer,
    title, open, aliases, pending, before, age, slot, opened, intruded, bereft

Tracker == INSTANCE StateTracker
Processing == INSTANCE Operations
Stores == INSTANCE BoundedStores
Views == INSTANCE Native3DViews

trackerVars == <<content, revision, layerRevision, changes, summaries, base, view, untold>>
storeVars == <<handles, artifacts, totalBytes, cache, answer>>
viewVars == <<title, open, aliases, pending, before, age, slot, opened, intruded, bereft>>

Parts == {"calls", "tracker", "operations", "handles", "artifacts", "cache", "views"}

MCInit ==
    /\ part \in Parts
    /\ Init /\ Tracker!Init /\ Processing!Init /\ Stores!Init /\ Views!Init
    /\ part # "calls" => changed
    /\ part # "tracker" => content = [l \in Layers |-> Tracker!Absent]
    /\ part # "operations" => /\ thread = [o \in Ops |-> "main_thread"]
                               /\ wanted = [o \in Ops |-> FALSE]

MCNext ==
    \/ /\ part = "calls" /\ Next
       /\ UNCHANGED <<part, trackerVars, operationVars, storeVars, viewVars>>
    \/ /\ part = "tracker" /\ Tracker!Next
       /\ UNCHANGED <<part, callVars, operationVars, storeVars, viewVars>>
    \/ /\ part = "operations" /\ Processing!Next
       /\ UNCHANGED <<part, callVars, trackerVars, storeVars, viewVars>>
    \/ /\ part = "handles" /\ Stores!HandleNext
       /\ UNCHANGED <<part, callVars, trackerVars, operationVars, viewVars>>
    \/ /\ part = "artifacts" /\ Stores!ArtifactNext
       /\ UNCHANGED <<part, callVars, trackerVars, operationVars, viewVars>>
    \/ /\ part = "cache" /\ Stores!CacheNext
       /\ UNCHANGED <<part, callVars, trackerVars, operationVars, viewVars>>
    \/ /\ part = "views" /\ Views!Next
       /\ UNCHANGED <<part, callVars, trackerVars, operationVars, storeVars>>

MCSpec ==
    MCInit /\ [][MCNext]_<<part, callVars, trackerVars, operationVars, storeVars, viewVars>>

\* The variables of every part have their types: TypeOK of the five modules.
PluginTypeOK ==
    /\ TypeOK
    /\ Tracker!TypeOK
    /\ Processing!TypeOK
    /\ Stores!TypeOK
    /\ Views!TypeOK

\* StateTracker.DeltaKeepsUp
DeltaKeepsUp == Tracker!DeltaKeepsUp

\* BoundedStores.StoredIsThere
StoredIsThere == Stores!StoredIsThere

\* Native3DViews.NamesLeadToOwnView
NamesLeadToOwnView == Views!NamesLeadToOwnView
===============================================================================
