------------------------- MODULE SchedulerFairness -------------------------
(***************************************************************************)
(* BridgeScheduler on its own, driven by every order of its calls, with    *)
(* two history variables that count who has been let past whom.            *)
(***************************************************************************)
EXTENDS BridgeScheduler

VARIABLES
    readsAhead,      \* reads popped past the mutations now waiting
    mutationsAhead   \* mutations popped past the reads now waiting

vars == <<queue, readsSinceMutation, arrived, readsAhead, mutationsAhead>>

Init ==
    /\ SchedulerInit
    /\ readsAhead = 0
    /\ mutationsAhead = 0

(* A count restarts when the category it watches is served or runs empty. *)
CountPops(readPopped, mutationPopped) ==
    /\ readsAhead' =
         IF Waiting("mutation")' = {} \/ mutationPopped THEN 0
         ELSE IF readPopped /\ Waiting("mutation") # {} THEN readsAhead + 1
         ELSE readsAhead
    /\ mutationsAhead' =
         IF Waiting("read")' = {} \/ readPopped THEN 0
         ELSE IF mutationPopped /\ Waiting("read") # {} THEN mutationsAhead + 1
         ELSE mutationsAhead

AcceptRequest == \E s \in Sockets, m \in Methods, d \in Details :
    Accept(Request(s, m, d)) /\ CountPops(FALSE, FALSE)
RejectRequest == \E s \in Sockets, m \in Methods, d \in Details :
    Reject(Request(s, m, d)) /\ CountPops(FALSE, FALSE)
ServeControl  == \E i \in queue : PopControl(i, {}) /\ CountPops(FALSE, FALSE)
ServeMutation == \E i \in queue : PopMutation(i, {}) /\ CountPops(FALSE, TRUE)
ServeRead     == \E i \in queue : PopRead(i, {}) /\ CountPops(TRUE, FALSE)
Withdraw == \E s \in Sockets, n \in 1..MaxRequests :
    CancelRequest(s, n) /\ CountPops(FALSE, FALSE)
Disconnect == \E s \in Sockets : DiscardSocket(s) /\ CountPops(FALSE, FALSE)
Reset == Clear /\ CountPops(FALSE, FALSE)

Next ==
    \/ AcceptRequest
    \/ RejectRequest
    \/ ServeControl
    \/ ServeMutation
    \/ ServeRead
    \/ Withdraw
    \/ Disconnect
    \/ Reset

Spec == Init /\ [][Next]_vars
-----------------------------------------------------------------------------
TypeOK ==
    /\ queue \subseteq Item
    /\ readsSinceMutation \in Nat
    /\ arrived \in 0..MaxRequests
    /\ readsAhead \in Nat
    /\ mutationsAhead \in Nat

(* The queue is bounded, and reads and mutations together never occupy the *)
(* slots that enqueue keeps for control calls, whatever the order in which *)
(* the categories fill up (bridge_scheduler.py:72-79).                     *)
ReserveKept ==
    /\ Pending <= MaxPending
    /\ Cardinality(NormalWork) <= MaxPending - ControlReserve

(* A status or cancellation call is refused only when at least             *)
(* ControlReserve control calls are already waiting: a flood of ordinary   *)
(* work alone cannot shut the control calls out.                           *)
ControlRefusedOnlyByControl ==
    ~HasRoom("operation.control") =>
        Cardinality(Waiting("control")) >= ControlReserve

(* Mutations do not starve behind reads, nor reads behind mutations: the   *)
(* oldest waiting mutation is overtaken by at most ReadWeight reads and    *)
(* the oldest waiting read by at most one mutation, although the counter   *)
(* that decides is shared and survives cancellations, disconnections and   *)
(* empty queues (bridge_scheduler.py:93-107).                              *)
BoundedOvertaking ==
    /\ readsAhead <= ReadWeight
    /\ mutationsAhead <= 1
=============================================================================
