-------------------------- MODULE BridgeScheduler --------------------------
(***************************************************************************)
(* The bounded, priority-aware queue in front of QGIS's main thread        *)
(* (plugin/qgis_agent_mcp/bridge_scheduler.py).                            *)
(*                                                                         *)
(* The code keeps one deque per category and only ever appends on the      *)
(* right and removes.  The three deques are represented by one set of      *)
(* requests stamped with their arrival number: the deque of a category is  *)
(* Waiting(category) in arrival order, and its left end is the oldest.     *)
(* The operations are action operators over the two variables, so that     *)
(* LocalBridge can conjoin them with its own.                              *)
(***************************************************************************)
EXTENDS Integers, FiniteSets

CONSTANTS
    Sockets,            \* the client connections
    Methods,            \* every method a request may name
    MutationMethods,    \* the dispatcher's MUTATION_METHODS
    Details,            \* what else distinguishes two requests
    ConfiguredPending,  \* the max_pending argument
    ConfiguredReserve,  \* the control_reserve argument
    ReadWeight,         \* reads let through between two mutations
    MaxRequests         \* bound: requests that arrive in one behaviour

ASSUME SchedulerAssumption ==
    /\ IsFiniteSet(Sockets)
    /\ MutationMethods \subseteq Methods
    /\ ConfiguredPending \in Int
    /\ ConfiguredReserve \in Int
    /\ ReadWeight \in Nat \ {0}
    /\ MaxRequests \in Nat

VARIABLES
    queue,              \* the waiting requests, over the three deques
    readsSinceMutation, \* reads popped since a mutation was
    arrived             \* requests received so far; the next arrival number

schedulerVars == <<queue, readsSinceMutation, arrived>>

Item == [n : 1..MaxRequests, socket : Sockets, method : Methods, detail : Details]
Category == {"control", "read", "mutation"}
ControlMethods ==
    {"bridge.cancel", "bridge.hello", "operation.control", "runtime.tasks"}

\* The definitions marked "mutant" are plausible mistakes in the definition
\* that follows them; no specification uses them.

-----------------------------------------------------------------------------
(* __init__: both limits are clamped to something usable. *)
MaxPending == IF ConfiguredPending > 1 THEN ConfiguredPending ELSE 1

ControlReserve ==
    LET atMost == MaxPending - 1
        wanted == IF ConfiguredReserve < atMost THEN ConfiguredReserve ELSE atMost
    IN  IF wanted > 0 THEN wanted ELSE 0

(* classify: control wins over mutation (operation.control is both). *)
Classify(method) ==
    IF method \in ControlMethods THEN "control"
    ELSE IF method \in MutationMethods THEN "mutation" ELSE "read"

Waiting(category) == {i \in queue : Classify(i.method) = category}
NormalWork == Waiting("read") \union Waiting("mutation")
Pending == Cardinality(queue)
Oldest(items) == CHOOSE i \in items : \A j \in items : i.n <= j.n

SchedulerInit ==
    /\ queue = {}
    /\ readsSinceMutation = 0
    /\ arrived = 0

(* enqueue: its limit, and what it does below the limit. *)
LimitUnreserved(method) == MaxPending   \* mutant
Limit(method) ==
    IF Classify(method) = "control" THEN MaxPending ELSE MaxPending - ControlReserve

HasRoomOffByOne(method) == Pending <= Limit(method)   \* mutant
HasRoom(method) == Pending < Limit(method)

Request(socket, method, detail) ==
    [n |-> arrived + 1, socket |-> socket, method |-> method, detail |-> detail]

Arrive(item) ==
    /\ arrived < MaxRequests
    /\ item.n = arrived + 1
    /\ arrived' = arrived + 1

Accept(item) ==
    /\ Arrive(item)
    /\ HasRoom(item.method)
    /\ queue' = queue \union {item}
    /\ UNCHANGED readsSinceMutation

Reject(item) ==
    /\ Arrive(item)
    /\ ~HasRoom(item.method)
    /\ UNCHANGED <<queue, readsSinceMutation>>

(* pop_next.  Its fourth branch (lines 104-106) is never reached: a waiting *)
(* mutation with no waiting read has already been taken by the second.      *)
MutationTurn ==
    /\ Waiting("mutation") # {}
    /\ Waiting("read") = {} \/ readsSinceMutation >= ReadWeight

(* The caller may withdraw other requests in the step that pops one: that is *)
(* what serving bridge.cancel does.                                          *)
Take(item, category, also) ==
    /\ Waiting(category) # {}
    /\ item = Oldest(Waiting(category))
    /\ queue' = queue \ ({item} \union also)
    /\ UNCHANGED arrived

PopControl(item, also) ==
    /\ Take(item, "control", also)
    /\ UNCHANGED readsSinceMutation

PopMutationKeepingCount(item, also) ==   \* mutant
    /\ Waiting("control") = {}
    /\ MutationTurn
    /\ Take(item, "mutation", also)
    /\ UNCHANGED readsSinceMutation
PopMutationDeducting(item, also) ==   \* mutant
    /\ Waiting("control") = {}
    /\ MutationTurn
    /\ Take(item, "mutation", also)
    /\ readsSinceMutation' = readsSinceMutation - ReadWeight
PopMutation(item, also) ==
    /\ Waiting("control") = {}
    /\ MutationTurn
    /\ Take(item, "mutation", also)
    /\ readsSinceMutation' = 0

PopRead(item, also) ==
    /\ Waiting("control") = {}
    /\ ~MutationTurn
    /\ Take(item, "read", also)
    /\ readsSinceMutation' = readsSinceMutation + 1

PopNext(item, also) ==
    \/ PopControl(item, also)
    \/ PopMutation(item, also)
    \/ PopRead(item, also)

(* cancel_request, discard_socket and clear. *)
CancelRequest(socket, n) ==
    /\ \E i \in queue : i.socket = socket /\ i.n = n
    /\ queue' = {i \in queue : ~(i.socket = socket /\ i.n = n)}
    /\ UNCHANGED <<readsSinceMutation, arrived>>

DiscardSocket(socket) ==
    /\ queue' = {i \in queue : i.socket # socket}
    /\ UNCHANGED <<readsSinceMutation, arrived>>

Clear ==
    /\ queue' = {}
    /\ UNCHANGED <<readsSinceMutation, arrived>>
=============================================================================
