----------------------------- MODULE Native3DViews -----------------------------
(***************************************************************************)
(* ecosystem_tools.py, 3D views on Windows: a view is created by a queued  *)
(* slot of QGIS that chooses the name of the window itself; later calls    *)
(* find the window that has appeared and give it the name the client asked *)
(* for as an alias. The person at the screen opens and closes windows too. *)
(* The window and its canvas are one here.                                 *)
(***************************************************************************)
EXTENDS Integers, Sequences, FiniteSets

CONSTANTS
    Requested,      \* names clients ask for
    Native,         \* names QGIS gives; free again when the window is closed
    MaxWindows,     \* bound of the model on the windows ever opened
    NoName          \* no native one

VARIABLES
    title,          \* the names of all windows, in the order of their opening
    open,           \* the windows that are open
    aliases,        \* _3d_aliases: of each requested name a native one, or NoName
    pending,        \* _3d_pending: "none", "initializing", "succeeded", "failed"
    before,         \* of a pending creation, the windows it has found open
    age,            \* of a pending creation: "young", "ready" (5 s), "old" (30 s)
    slot,           \* of a pending creation, whether the queued slot is yet to run
    opened,         \* history: the window that the slot of a request has opened
    intruded,       \* history: requests with other windows opened meanwhile
    bereft          \* history: requests whose window was closed, and their alias not

viewVars == <<title, open, aliases, pending, before, age, slot, opened, intruded, bereft>>

NoWindow == 0

Init ==
    /\ title = <<>> /\ open = {}
    /\ aliases = [r \in Requested |-> NoName]
    /\ pending = [r \in Requested |-> "none"]
    /\ before = [r \in Requested |-> {}]
    /\ age = [r \in Requested |-> "young"]
    /\ slot = [r \in Requested |-> FALSE]
    /\ opened = [r \in Requested |-> NoWindow]
    /\ intruded = {} /\ bereft = {}

Initializing == {r \in Requested : pending[r] = "initializing"}

OpensNext ==
    /\ Len(title) < MaxWindows
    /\ open' = open \cup {Len(title) + 1}
    /\ \E name \in Native \ {title[v] : v \in open} : title' = Append(title, name)

UserOpens ==
    /\ OpensNext
    /\ intruded' = intruded \cup Initializing
    /\ UNCHANGED <<aliases, pending, before, age, slot, opened, bereft>>

UserCloses(w) ==
    /\ open' = open \ {w}
    /\ bereft' = bereft \cup {r \in Requested : opened[r] = w}
    /\ UNCHANGED <<title, aliases, pending, before, age, slot, opened, intruded>>

\* new3DMapCanvas, from the event queue of the main thread, where it precedes
\* whatever happens five seconds later; it may open nothing.
SlotRuns(r) ==
    /\ slot[r]
    /\ slot' = [slot EXCEPT ![r] = FALSE]
    /\ \/ OpensNext /\ opened' = [opened EXCEPT ![r] = Len(title) + 1]
       \/ UNCHANGED <<open, title, opened>>
    /\ UNCHANGED <<aliases, pending, before, age, intruded, bereft>>

Wait(r) ==
    /\ pending[r] = "initializing" /\ ~slot[r] /\ age[r] # "old"
    /\ age' = [age EXCEPT ![r] = IF @ = "young" THEN "ready" ELSE "old"]
    /\ UNCHANGED <<open, title, aliases, pending, before, slot, opened, intruded, bereft>>

(* _refresh_pending_native_3d, first thing in every call that gets so far.    *)

New(r) == open \ before[r]
Due(r) == pending[r] = "initializing" /\ age[r] # "young"
Found(r) == Due(r) /\ Cardinality(New(r)) = 1
GivenUp(r) == Due(r) /\ ~Found(r) /\ (Cardinality(New(r)) > 1 \/ age[r] = "old")

RefreshedAliases ==
    [r \in Requested |-> IF Found(r) THEN title[CHOOSE w \in New(r) : TRUE] ELSE aliases[r]]

RefreshedPending ==
    [r \in Requested |-> IF Found(r) THEN "succeeded" ELSE IF GivenUp(r) THEN "failed"
                         ELSE pending[r]]

\* action list; every other call that is refused comes to the same.
ListViews ==
    /\ \A r \in Initializing : Due(r)
    /\ aliases' = RefreshedAliases
    /\ pending' = RefreshedPending
    /\ UNCHANGED <<open, title, before, age, slot, opened, intruded, bereft>>

\* action create
CreateView(r) ==
    /\ RefreshedAliases[r] = NoName
    /\ \A q \in Requested : RefreshedPending[q] # "initializing"
    /\ aliases' = RefreshedAliases
    /\ pending' = [RefreshedPending EXCEPT ![r] = "initializing"]
    /\ before' = [before EXCEPT ![r] = open]
    /\ age' = [age EXCEPT ![r] = "young"]
    /\ slot' = [slot EXCEPT ![r] = TRUE]
    /\ opened' = [opened EXCEPT ![r] = NoWindow]
    /\ intruded' = intruded \ {r} /\ bereft' = bereft \ {r}
    /\ UNCHANGED <<open, title>>

\* The window that configure and close find under a requested name.
Target(r) == {w \in open : title[w] = RefreshedAliases[r]}

\* A mutant of Unaliased: the aliases of a closed view stay.
StillAliased(name) == RefreshedAliases

Unaliased(name) ==
    [r \in Requested |-> IF RefreshedAliases[r] = name THEN NoName ELSE RefreshedAliases[r]]

\* action close, under a requested name
CloseView(r) ==
    /\ RefreshedPending[r] \notin {"initializing", "failed"}
    /\ \E w \in Target(r) :
        /\ open' = open \ {w}
        /\ aliases' = Unaliased(title[w])
    /\ pending' = [RefreshedPending EXCEPT ![r] = "none"]
    /\ UNCHANGED <<title, before, age, slot, opened, intruded, bereft>>

\* action close, under the name of the window itself
CloseNative(w) ==
    /\ open' = open \ {w}
    /\ aliases' = Unaliased(title[w])
    /\ pending' = RefreshedPending
    /\ UNCHANGED <<title, before, age, slot, opened, intruded, bereft>>

\* The same in another letter case: the window is found all the same, but the
\* aliases that lead to its name are compared as they are written, and stay.
CloseInOtherCase(w) ==
    /\ open' = open \ {w}
    /\ aliases' = RefreshedAliases
    /\ pending' = RefreshedPending
    /\ bereft' = bereft \cup {r \in Requested : opened[r] = w}
    /\ UNCHANGED <<title, before, age, slot, opened, intruded>>

Next ==
    \/ UserOpens
    \/ \E w \in open : UserCloses(w) \/ CloseNative(w) \/ CloseInOtherCase(w)
    \/ \E r \in Requested : SlotRuns(r) \/ Wait(r) \/ CreateView(r) \/ CloseView(r)
    \/ ListViews

Spec == Init /\ [][Next]_viewVars

-----------------------------------------------------------------------------
TypeOK ==
    /\ title \in Seq(Native) /\ Len(title) <= MaxWindows
    /\ open \subseteq DOMAIN title
    /\ aliases \in [Requested -> Native \cup {NoName}]
    /\ pending \in [Requested -> {"none", "initializing", "succeeded", "failed"}]
    /\ before \in [Requested -> SUBSET DOMAIN title]
    /\ age \in [Requested -> {"young", "ready", "old"}]
    /\ slot \in [Requested -> BOOLEAN]
    /\ opened \in [Requested -> DOMAIN title \cup {NoWindow}]
    /\ intruded \subseteq Requested /\ bereft \subseteq Requested

\* What a client configures or closes under the name it asked for is the view
\* that was created for it, although QGIS names windows itself and uses names
\* again. Others may be hit only if the person at the screen has closed that
\* view, or opened one of their own while it was being created, or if a client
\* has closed it under QGIS's name for it written in another letter case.
NamesLeadToOwnView ==
    \A r \in Requested : \A w \in open :
        (aliases[r] # NoName /\ title[w] = aliases[r])
            => w = opened[r] \/ r \in intruded \cup bereft
===============================================================================
