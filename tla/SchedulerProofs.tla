-------------------------- MODULE SchedulerProofs --------------------------
(***************************************************************************)
(* The scheduler's guarantees for every number of sockets, every pair of   *)
(* limits the environment may configure, and every read weight.            *)
(***************************************************************************)
EXTENDS SchedulerFairness, FiniteSetTheorems, TLAPS

(* The inductive invariant.  Overtaking is bounded because readsAhead never *)
(* exceeds the counter the pops consult, and a read is popped past a        *)
(* mutation only while that counter is below the weight; a mutation popped  *)
(* past a read resets the counter, so the next pop is the read.             *)
MutationWait ==
    /\ Waiting("mutation") = {} => readsAhead = 0
    /\ readsAhead <= readsSinceMutation
    /\ readsAhead <= ReadWeight
ReadWait ==
    /\ Waiting("read") = {} => mutationsAhead = 0
    /\ mutationsAhead \in {0, 1}
    /\ mutationsAhead = 1 => readsSinceMutation = 0
IInv ==
    /\ TypeOK
    /\ IsFiniteSet(queue)
    /\ ReserveKept
    /\ MutationWait
    /\ ReadWait

(* Both limits are usable whatever the environment asks for: there is room *)
(* for one request, and the reserve leaves at least one slot for reads and *)
(* mutations (bridge_scheduler.py:41-44).                                  *)
THEOREM ReserveLeavesRoom ==
    /\ MaxPending \in Nat \ {0}
    /\ ControlReserve \in 0..(MaxPending - 1)
  BY SchedulerAssumption DEF MaxPending, ControlReserve

LEMMA InitEstablishesIInv == Init => IInv
  <1> SUFFICES ASSUME Init PROVE IInv
    OBVIOUS
  <1> USE DEF Init, SchedulerInit
  <1>1. TypeOK
    BY SchedulerAssumption DEF TypeOK
  <1>2. IsFiniteSet(queue) /\ Pending = 0
    BY FS_EmptySet DEF Pending
  <1>3. NormalWork = {} /\ \A c \in Category : Waiting(c) = {}
    BY DEF NormalWork, Waiting
  <1>4. ReserveKept
    BY <1>2, <1>3, FS_EmptySet, ReserveLeavesRoom DEF ReserveKept
  <1>5. MutationWait /\ ReadWait
    BY <1>3, SchedulerAssumption DEF MutationWait, ReadWait
  <1>6. QED
    BY <1>1, <1>2, <1>4, <1>5 DEF IInv

(* A step that only removes requests keeps the capacity bounds. *)
LEMMA RemovalKeepsReserve ==
    ASSUME IInv, queue' \subseteq queue
    PROVE  IsFiniteSet(queue') /\ ReserveKept'
  <1>1. NormalWork \subseteq queue /\ NormalWork' \subseteq NormalWork
    BY DEF NormalWork, Waiting
  <1>2. IsFiniteSet(queue) /\ IsFiniteSet(queue') /\ IsFiniteSet(NormalWork)
    BY <1>1, FS_Subset DEF IInv
  <1>3. Cardinality(queue') <= Cardinality(queue)
    BY <1>2, FS_Subset
  <1>4. Cardinality(NormalWork') <= Cardinality(NormalWork)
    BY <1>1, <1>2, FS_Subset
  <1>5. /\ Cardinality(queue) \in Nat /\ Cardinality(queue') \in Nat
        /\ Cardinality(NormalWork) \in Nat /\ Cardinality(NormalWork') \in Nat
    BY <1>1, <1>2, FS_Subset, FS_CardinalityType
  <1>6. Pending' <= MaxPending
    BY <1>3, <1>5, ReserveLeavesRoom DEF IInv, ReserveKept, Pending
  <1>7. Cardinality(NormalWork)' <= MaxPending - ControlReserve
    BY <1>4, <1>5, ReserveLeavesRoom DEF IInv, ReserveKept
  <1>8. QED
    BY <1>2, <1>6, <1>7 DEF ReserveKept

(* enqueue keeps them because it compares the whole queue with the limit of *)
(* the new request's category.                                              *)
LEMMA AcceptKeepsReserve ==
    ASSUME IInv, NEW item, Accept(item)
    PROVE  IsFiniteSet(queue') /\ ReserveKept'
  <1>1. queue' = queue \union {item} /\ Pending < Limit(item.method)
    BY DEF Accept, HasRoom
  <1>2. NormalWork \subseteq queue
    BY DEF NormalWork, Waiting
  <1>3. IsFiniteSet(queue) /\ IsFiniteSet(NormalWork)
    BY <1>2, FS_Subset DEF IInv
  <1>4. Cardinality(queue) \in Nat /\ Cardinality(NormalWork) \in Nat
        /\ Cardinality(NormalWork) <= Cardinality(queue)
    BY <1>2, <1>3, FS_Subset, FS_CardinalityType
  <1>5. IsFiniteSet(queue') /\ Cardinality(queue') <= Cardinality(queue) + 1
    BY <1>1, <1>3, <1>4, FS_AddElement
  <1>6. Cardinality(queue') \in Nat
    BY <1>5, FS_CardinalityType
  <1>7. Limit(item.method) <= MaxPending
    BY ReserveLeavesRoom DEF Limit
  <1>8. Pending' <= MaxPending
    BY <1>1, <1>4, <1>5, <1>6, <1>7, ReserveLeavesRoom DEF Pending, Limit
  <1>9. CASE Classify(item.method) = "control"
    <2>1. NormalWork' = NormalWork
      BY <1>1, <1>9 DEF NormalWork, Waiting
    <2>2. QED
      BY <2>1, <1>5, <1>8 DEF ReserveKept, IInv
  <1>10. CASE Classify(item.method) # "control"
    <2>1. NormalWork' \subseteq NormalWork \union {item}
      BY <1>1 DEF NormalWork, Waiting
    <2>2. /\ IsFiniteSet(NormalWork \union {item})
          /\ Cardinality(NormalWork \union {item}) <= Cardinality(NormalWork) + 1
      <3>1. /\ IsFiniteSet(NormalWork \union {item})
            /\ Cardinality(NormalWork \union {item}) =
                 IF item \in NormalWork THEN Cardinality(NormalWork)
                                        ELSE Cardinality(NormalWork) + 1
        BY <1>3, FS_AddElement, Zenon
      <3>2. QED
        BY <3>1, <1>4
    <2>3. Cardinality(NormalWork') <= Cardinality(NormalWork \union {item})
      BY <2>1, <2>2, FS_Subset
    <2>4. Cardinality(NormalWork') \in Nat
          /\ Cardinality(NormalWork \union {item}) \in Nat
      BY <2>1, <2>2, FS_Subset, FS_CardinalityType
    <2>5. Limit(item.method) = MaxPending - ControlReserve
      BY <1>10 DEF Limit
    <2>6. Cardinality(NormalWork)' <= MaxPending - ControlReserve
      BY <1>1, <1>4, <2>2, <2>3, <2>4, <2>5, ReserveLeavesRoom DEF Pending
    <2>7. QED
      BY <2>6, <1>5, <1>8 DEF ReserveKept
  <1>11. QED
    BY <1>9, <1>10

(* Every operation leaves the state well typed. *)
LEMMA OperationsKeepType ==
    ASSUME TypeOK, [Next]_vars
    PROVE  TypeOK'
  <1> USE SchedulerAssumption DEF TypeOK, CountPops
  <1>1. ASSUME NEW s \in Sockets, NEW m \in Methods, NEW d \in Details,
               Accept(Request(s, m, d)), CountPops(FALSE, FALSE)
        PROVE  TypeOK'
    <2>1. arrived + 1 \in 1..MaxRequests
      BY <1>1 DEF Accept, Arrive
    <2>2. Request(s, m, d) \in Item
      BY <2>1 DEF Request, Item
    <2>3. QED
      BY <1>1, <2>1, <2>2 DEF Accept, Arrive
  <1>2. ASSUME NEW s \in Sockets, NEW m \in Methods, NEW d \in Details,
               Reject(Request(s, m, d)), CountPops(FALSE, FALSE)
        PROVE  TypeOK'
    BY <1>2 DEF Reject, Arrive
  <1>3. CASE ServeControl
    BY <1>3 DEF ServeControl, PopControl, Take
  <1>4. CASE ServeMutation
    BY <1>4 DEF ServeMutation, PopMutation, Take
  <1>5. CASE ServeRead
    BY <1>5 DEF ServeRead, PopRead, Take
  <1>6. CASE Withdraw
    BY <1>6 DEF Withdraw, CancelRequest
  <1>7. CASE Disconnect
    BY <1>7 DEF Disconnect, DiscardSocket
  <1>8. CASE Reset
    BY <1>8 DEF Reset, Clear
  <1>9. CASE UNCHANGED vars
    BY <1>9 DEF vars
  <1>10. QED
    BY <1>1, <1>2, <1>3, <1>4, <1>5, <1>6, <1>7, <1>8, <1>9
    DEF Next, AcceptRequest, RejectRequest

(* The two counts after a step that pops nothing, from what is left waiting. *)
LEMMA NoPopKeepsWaits ==
    ASSUME IInv, CountPops(FALSE, FALSE), readsSinceMutation' = readsSinceMutation
    PROVE  MutationWait' /\ ReadWait'
  BY SchedulerAssumption DEF IInv, TypeOK, MutationWait, ReadWait, CountPops

(* A mutation popped past a waiting read resets the counter that lets the *)
(* next one through, so no second mutation can follow it.                 *)
LEMMA MutationPopKeepsWaits ==
    ASSUME IInv, ServeMutation
    PROVE  MutationWait' /\ ReadWait'
  <1>1. /\ CountPops(FALSE, TRUE)
        /\ MutationTurn
        /\ readsSinceMutation' = 0
    BY DEF ServeMutation, PopMutation
  <1>2. readsAhead' = 0
    BY <1>1 DEF CountPops
  <1>3. Waiting("read") # {} => mutationsAhead = 0
    BY <1>1, SchedulerAssumption DEF IInv, ReadWait, TypeOK, MutationTurn
  <1>4. mutationsAhead' \in {0, 1} /\ (Waiting("read")' = {} => mutationsAhead' = 0)
    BY <1>1, <1>3 DEF CountPops, IInv, ReadWait
  <1>5. QED
    BY <1>1, <1>2, <1>4, SchedulerAssumption DEF MutationWait, ReadWait

(* A read is popped past a waiting mutation only below the weight. *)
LEMMA ReadPopKeepsWaits ==
    ASSUME IInv, ServeRead
    PROVE  MutationWait' /\ ReadWait'
  <1>1. /\ CountPops(TRUE, FALSE)
        /\ Waiting("read") # {}
        /\ ~MutationTurn
        /\ readsSinceMutation' = readsSinceMutation + 1
    BY DEF ServeRead, PopRead, Take
  <1>2. Waiting("mutation") # {} => readsSinceMutation < ReadWeight
    BY <1>1, SchedulerAssumption DEF IInv, TypeOK, MutationTurn
  <1>3. mutationsAhead' = 0
    BY <1>1 DEF CountPops
  <1>4. MutationWait'
    BY <1>1, <1>2, SchedulerAssumption DEF IInv, TypeOK, MutationWait, CountPops
  <1>5. QED
    BY <1>3, <1>4 DEF ReadWait

LEMMA StepKeepsIInv == IInv /\ [Next]_vars => IInv'
  <1> SUFFICES ASSUME IInv, [Next]_vars PROVE IInv'
    OBVIOUS
  <1>1. TypeOK'
    BY OperationsKeepType DEF IInv
  <1>2. ASSUME queue' \subseteq queue, CountPops(FALSE, FALSE),
               readsSinceMutation' = readsSinceMutation
        PROVE  IInv'
    BY <1>1, <1>2, RemovalKeepsReserve, NoPopKeepsWaits DEF IInv
  <1>3. CASE AcceptRequest
    <2>1. PICK s \in Sockets, m \in Methods, d \in Details :
            Accept(Request(s, m, d)) /\ CountPops(FALSE, FALSE)
      BY <1>3 DEF AcceptRequest
    <2>2. IsFiniteSet(queue') /\ ReserveKept'
      BY <2>1, AcceptKeepsReserve
    <2>3. MutationWait' /\ ReadWait'
      BY <2>1, NoPopKeepsWaits DEF Accept
    <2>4. QED
      BY <1>1, <2>2, <2>3 DEF IInv
  <1>4. CASE RejectRequest
    BY <1>2, <1>4 DEF RejectRequest, Reject
  <1>5. CASE ServeControl
    BY <1>2, <1>5 DEF ServeControl, PopControl, Take
  <1>6. CASE ServeMutation
    <2>1. queue' \subseteq queue
      BY <1>6 DEF ServeMutation, PopMutation, Take
    <2>2. QED
      BY <1>1, <1>6, <2>1, RemovalKeepsReserve, MutationPopKeepsWaits DEF IInv
  <1>7. CASE ServeRead
    <2>1. queue' \subseteq queue
      BY <1>7 DEF ServeRead, PopRead, Take
    <2>2. QED
      BY <1>1, <1>7, <2>1, RemovalKeepsReserve, ReadPopKeepsWaits DEF IInv
  <1>8. CASE Withdraw
    BY <1>2, <1>8 DEF Withdraw, CancelRequest
  <1>9. CASE Disconnect
    BY <1>2, <1>9 DEF Disconnect, DiscardSocket
  <1>10. CASE Reset
    BY <1>2, <1>10 DEF Reset, Clear
  <1>11. CASE UNCHANGED vars
    <2>1. IsFiniteSet(queue') /\ ReserveKept'
      BY <1>11, RemovalKeepsReserve DEF vars
    <2>2. MutationWait' /\ ReadWait'
      BY <1>11 DEF vars, IInv, MutationWait, ReadWait, Waiting
    <2>3. QED
      BY <1>1, <2>1, <2>2 DEF IInv
  <1>12. QED
    BY <1>3, <1>4, <1>5, <1>6, <1>7, <1>8, <1>9, <1>10, <1>11 DEF Next

(* The inductive invariant holds in every state; it bounds both kinds of *)
(* waiting by the weight and the counter (bridge_scheduler.py:71-111).    *)
THEOREM IInvHolds == Spec => []IInv
  BY InitEstablishesIInv, StepKeepsIInv, PTL DEF Spec

(* Type correctness of the scheduler's state (bridge_scheduler.py:32-58). *)
THEOREM SchedulerTypeCorrect == Spec => []TypeOK
  <1>1. IInv => TypeOK
    BY DEF IInv
  <1>2. QED
    BY <1>1, IInvHolds, PTL

(* The queue never exceeds max_pending and ordinary work never takes the *)
(* control reserve (bridge_scheduler.py:72-79).                          *)
THEOREM SchedulerKeepsReserve == Spec => []ReserveKept
  <1>1. IInv => ReserveKept
    BY DEF IInv
  <1>2. QED
    BY <1>1, IInvHolds, PTL

(* Neither reads nor mutations starve behind the other, for every weight *)
(* (bridge_scheduler.py:93-107).                                         *)
THEOREM SchedulerBoundsOvertaking == Spec => []BoundedOvertaking
  <1>1. IInv => BoundedOvertaking
    BY DEF IInv, MutationWait, ReadWait, BoundedOvertaking
  <1>2. QED
    BY <1>1, IInvHolds, PTL

(* A control call is turned away only by control calls: the capacity bounds *)
(* leave no other way to fill the queue (bridge_scheduler.py:72-79).        *)
THEOREM ControlAlwaysGetsIn == Spec => []ControlRefusedOnlyByControl
  <1>1. IInv => ControlRefusedOnlyByControl
    <2> SUFFICES ASSUME IInv, ~HasRoom("operation.control")
                 PROVE  Cardinality(Waiting("control")) >= ControlReserve
      BY DEF ControlRefusedOnlyByControl
    <2>1. Classify("operation.control") = "control"
      BY DEF Classify, ControlMethods
    <2>2. ~(Pending < MaxPending)
      BY <2>1 DEF HasRoom, Limit
    <2>3. queue = Waiting("control") \union NormalWork
          /\ Waiting("control") \intersect NormalWork = {}
      BY DEF Waiting, NormalWork, Classify
    <2>4. IsFiniteSet(Waiting("control")) /\ IsFiniteSet(NormalWork)
      <3>1. Waiting("control") \subseteq queue /\ NormalWork \subseteq queue
        BY <2>3
      <3>2. QED
        BY <3>1, FS_Subset DEF IInv
    <2>5. Pending = Cardinality(Waiting("control")) + Cardinality(NormalWork)
      <3>1. Cardinality(Waiting("control") \union NormalWork)
              = Cardinality(Waiting("control")) + Cardinality(NormalWork)
                - Cardinality(Waiting("control") \intersect NormalWork)
        BY <2>4, FS_Union
      <3>2. Cardinality(Waiting("control") \intersect NormalWork) = 0
        BY <2>3, FS_EmptySet
      <3>3. /\ Cardinality(Waiting("control")) \in Nat
            /\ Cardinality(NormalWork) \in Nat
        BY <2>4, FS_CardinalityType
      <3>4. Pending = Cardinality(Waiting("control") \union NormalWork)
        BY <2>3, Zenon DEF Pending
      <3>5. QED
        BY <3>1, <3>2, <3>3, <3>4
    <2>6. /\ Cardinality(Waiting("control")) \in Nat
          /\ Cardinality(NormalWork) \in Nat
      BY <2>4, FS_CardinalityType
    <2>7. Cardinality(NormalWork) <= MaxPending - ControlReserve
      BY DEF IInv, ReserveKept
    <2>8. QED
      BY <2>2, <2>5, <2>6, <2>7, ReserveLeavesRoom
  <1>2. QED
    BY <1>1, IInvHolds, PTL
=============================================================================
