------------------------------ MODULE BridgeProofs ------------------------------
(***************************************************************************)
(* The bridge looks after every request it accepted, and does with each of *)
(* them what RequestLedger allows: for any clients, methods, traffic and   *)
(* limits, and any depth of nested event loops.                            *)
(***************************************************************************)
EXTENDS LocalBridge, SequenceTheorems, TLAPS

\* Requests have the numbers of their arrival, and nothing has happened yet to
\* those that are to come.
Numbered ==
    /\ \A i \in queue : i.n <= arrived
    /\ \A i, j \in queue : i.n = j.n => i = j
    /\ executed \subseteq 1..arrived /\ withdrawn \subseteq 1..arrived
    /\ \A n \in 1..MaxRequests : n > arrived => answers[n] = <<>>

\* Nothing has happened to a request that waits.
WaitingUntouched ==
    \A i \in queue : i.n \notin executed /\ i.n \notin withdrawn /\ answers[i.n] = <<>>

\* Suspended handlers are those of different requests, not answered yet.
RunningUnanswered ==
    \A f \in 1..Len(frames) :
        /\ frames[f].n \in executed /\ answers[frames[f].n] = <<>>
        /\ \A g \in 1..Len(frames) : frames[f].n = frames[g].n => f = g

Records == Numbered /\ WaitingUntouched /\ RunningUnanswered /\ CancelledMeansNeverRun

IInv == TypeOK /\ Records /\ OneDrainTimer /\ NoStrandedWork /\ BacklogOfClientsOnly

LEMMA InitKeeps == Init => IInv
<1> SUFFICES ASSUME Init PROVE IInv
  OBVIOUS
<1>1. TypeOK
  <2>1. answers \in [1..MaxRequests -> Seq(Answer)]
    BY DEF Init
  <2>2. frames \in Seq(Item) /\ Len(frames) <= MaxFrames
    BY BridgeAssumption DEF Init
  <2>3. 0 \in 0..MaxRequests
    BY SchedulerAssumption
  <2> QED BY <2>1, <2>2, <2>3 DEF Init, SchedulerInit, TypeOK
<1>2. Records
  BY DEF Init, SchedulerInit, Records, Numbered, WaitingUntouched, RunningUnanswered,
         CancelledMeansNeverRun
<1>3. OneDrainTimer /\ NoStrandedWork /\ BacklogOfClientsOnly
  BY DEF Init, SchedulerInit, OneDrainTimer, NoStrandedWork, BacklogOfClientsOnly
<1> QED BY <1>1, <1>2, <1>3 DEF IInv

-----------------------------------------------------------------------------
\* What all ways through _drain_one with a request have in common.
Drains(item, also) ==
    /\ item \in queue /\ also \subseteq queue \ {item}
    /\ timers > 0
    /\ queue' = queue \ ({item} \union also)
    /\ readsSinceMutation' \in Nat
    /\ UNCHANGED <<arrived, expiredUpTo, running>>
    /\ conn' \in [Sockets -> {"new", "open", "closing", "overflowed", "gone"}]
    /\ Clients' = Clients
    /\ authenticated' \subseteq Sockets
    /\ \/ executed' = executed
       \/ executed' = executed \union {item.n}
    /\ withdrawn' = withdrawn \union {t.n : t \in also}
    /\ \/ /\ Rearm \/ Unwind
          /\ frames' = frames
          /\ answers' = answers \/ \E a \in Answer : Reply(item, a)
       \/ /\ drainScheduled' = FALSE /\ timers' = timers - 1 /\ escaped' = escaped
          /\ Len(frames) < MaxFrames
          /\ frames' = Append(frames, item)
          /\ item.n \in executed'
          /\ answers' = answers

LEMMA ServeTakes ==
    ASSUME TypeOK, NEW item, NEW also, Serve(item, also)
    PROVE  /\ item \in queue /\ timers > 0
           /\ queue' = queue \ ({item} \union also)
           /\ readsSinceMutation' \in Nat
           /\ UNCHANGED <<arrived, expiredUpTo, running>>
BY DEF Serve, PopNext, PopControl, PopMutation, PopRead, Take, TypeOK

LEMMA DrainsWithoutOthers ==
    ASSUME TypeOK, NEW item \in queue,
           \/ AnswerExpired(item) \/ AnswerInvalid(item) \/ Authenticate(item)
           \/ RefuseUnknown(item) \/ RaiseInHello(item) \/ AnswerSecondHello(item)
           \/ RaiseInCancel(item) \/ Dispatch(item) \/ SuspendInReview(item)
    PROVE  Drains(item, {})
<1> DEFINE Taken ==
             /\ timers > 0 /\ queue' = queue \ ({item} \union {})
             /\ readsSinceMutation' \in Nat /\ UNCHANGED <<arrived, expiredUpTo, running>>
           Same == UNCHANGED <<conn, authenticated, withdrawn>>
<1>1. Serve(item, {}) => Taken
  BY ServeTakes
<1>2. withdrawn \union {t.n : t \in {}} = withdrawn /\ item.socket \in Sockets
  BY DEF TypeOK, Item
<1>3. Same => /\ conn' \in [Sockets -> {"new", "open", "closing", "overflowed", "gone"}]
              /\ Clients' = Clients /\ authenticated' \subseteq Sockets
  BY DEF TypeOK, Clients
<1>4. CASE AnswerExpired(item)
  BY <1>1, <1>2, <1>3, <1>4 DEF AnswerExpired, Drains, Answer
<1>5. CASE AnswerInvalid(item)
  BY <1>1, <1>2, <1>3, <1>5 DEF AnswerInvalid, Drains, Answer
<1>6. CASE Authenticate(item)
  <2>1. authenticated' \subseteq Sockets
    BY <1>2, <1>6 DEF Authenticate, TypeOK
  <2> QED BY <1>1, <1>2, <1>6, <2>1 DEF Authenticate, Drains, Answer, Clients, TypeOK
<1>7. CASE RefuseUnknown(item)
  <2>1. /\ conn' \in [Sockets -> {"new", "open", "closing", "overflowed", "gone"}]
        /\ Clients' = Clients /\ authenticated' \subseteq Sockets
    BY <1>2, <1>7 DEF RefuseUnknown, TypeOK, Clients
  <2> QED BY <1>1, <1>2, <1>7, <2>1 DEF RefuseUnknown, Drains, Answer
<1>8. CASE RaiseInHello(item)
  BY <1>1, <1>2, <1>3, <1>8 DEF RaiseInHello, Drains
<1>9. CASE AnswerSecondHello(item)
  BY <1>1, <1>2, <1>3, <1>9 DEF AnswerSecondHello, Drains, Answer
<1>10. CASE RaiseInCancel(item)
  BY <1>1, <1>2, <1>3, <1>10 DEF RaiseInCancel, Drains
<1>11. CASE Dispatch(item)
  BY <1>1, <1>2, <1>3, <1>11 DEF Dispatch, Drains, Answer
<1>12. CASE SuspendInReview(item)
  BY <1>1, <1>2, <1>3, <1>12 DEF SuspendInReview, Drains
<1> QED BY <1>4, <1>5, <1>6, <1>7, <1>8, <1>9, <1>10, <1>11, <1>12

LEMMA CancelDrains ==
    ASSUME TypeOK, NEW item \in queue, Cancel(item)
    PROVE  Drains(item, Target(item))
<1>1. Target(item) \subseteq queue \ {item}
  BY DEF Target
<1>2. /\ timers > 0 /\ queue' = queue \ ({item} \union Target(item))
      /\ readsSinceMutation' \in Nat /\ UNCHANGED <<arrived, expiredUpTo, running>>
  BY ServeTakes DEF Cancel
<1>3. \E a \in Answer : Reply(item, a)
  BY DEF Cancel, Answer
<1> QED BY <1>1, <1>2, <1>3 DEF Cancel, Drains, Clients, TypeOK

LEMMA DrainsKeepsTypes ==
    ASSUME IInv, NEW item, NEW also, Drains(item, also)
    PROVE  TypeOK'
<1>1. item \in Item /\ item.n \in 1..MaxRequests /\ also \subseteq Item
  BY DEF Item, IInv, TypeOK, Drains
<1>2. executed' \subseteq 1..MaxRequests /\ withdrawn' \subseteq 1..MaxRequests
  <2>1. \A t \in also : t.n \in 1..MaxRequests
    BY <1>1 DEF Item
  <2> QED BY <1>1, <2>1 DEF IInv, TypeOK, Drains
<1>3. drainScheduled' \in BOOLEAN /\ escaped' \in BOOLEAN
  BY Zenon DEF Rearm, Unwind, IInv, TypeOK, Drains
<1>4. timers' \in Nat
  <2>1. timers \in Nat /\ timers > 0 /\ timers' \in {timers, timers - 1}
    BY DEF Rearm, Unwind, IInv, TypeOK, Drains
  <2> QED BY <2>1
<1>5. frames' \in Seq(Item) /\ Len(frames') <= MaxFrames
  <2>1. frames \in Seq(Item) /\ Len(frames) <= MaxFrames /\ MaxFrames \in Nat
    BY BridgeAssumption DEF IInv, TypeOK
  <2>2. frames' = frames \/ (frames' = Append(frames, item) /\ Len(frames) < MaxFrames)
    BY DEF Drains
  <2> QED BY <1>1, <2>1, <2>2
<1>6. answers' \in [1..MaxRequests -> Seq(Answer)]
  <2>1. ASSUME NEW a \in Answer, Reply(item, a)
        PROVE  answers' \in [1..MaxRequests -> Seq(Answer)]
    <3>1. Append(answers[item.n], a) \in Seq(Answer)
      BY <1>1 DEF IInv, TypeOK
    <3> QED BY <1>1, <2>1, <3>1 DEF Reply, IInv, TypeOK
  <2> QED BY <2>1 DEF IInv, TypeOK, Drains
<1> QED BY <1>1, <1>2, <1>3, <1>4, <1>5, <1>6 DEF IInv, TypeOK, Drains

LEMMA DrainsKeepsRecords ==
    ASSUME IInv, NEW item, NEW also, Drains(item, also)
    PROVE  Records'
<1>1. /\ item \in Item /\ item.n \in 1..arrived /\ also \subseteq queue
      /\ queue \subseteq Item /\ queue' \subseteq queue /\ arrived' = arrived
      /\ arrived \in 0..MaxRequests
  BY DEF IInv, TypeOK, Drains, Item, Records, Numbered
<1>2. \A i \in queue : i.n = item.n => i = item
  BY DEF IInv, Records, Numbered, Drains
<1>3. \A n \in 1..MaxRequests : n # item.n => answers'[n] = answers[n]
  BY DEF Drains, Reply, IInv, TypeOK
<1>4. \A n : n # item.n => (n \in executed' <=> n \in executed)
  BY DEF Drains
<1>5. Numbered'
  <2>1. executed' \subseteq 1..arrived
    BY <1>1 DEF IInv, Records, Numbered, Drains
  <2>2. withdrawn' \subseteq 1..arrived
    <3>1. \A t \in also : t.n \in 1..arrived
      BY <1>1 DEF IInv, Records, Numbered, Item
    <3> QED BY <3>1 DEF IInv, Records, Numbered, Drains
  <2>3. \A n \in 1..MaxRequests : n > arrived => answers'[n] = <<>>
    BY <1>1, <1>3 DEF IInv, Records, Numbered
  <2> QED BY <1>1, <2>1, <2>2, <2>3 DEF IInv, Records, Numbered
<1>6. WaitingUntouched'
  <2> SUFFICES ASSUME NEW i \in queue'
               PROVE  i.n \notin executed' /\ i.n \notin withdrawn' /\ answers'[i.n] = <<>>
    BY DEF WaitingUntouched
  <2>1. i \in queue /\ i # item /\ i \notin also /\ i.n # item.n /\ i.n \in 1..MaxRequests
    BY <1>1, <1>2 DEF Drains, Item
  <2>2. \A t \in also : t.n # i.n
    BY <1>1, <2>1 DEF IInv, Records, Numbered
  <2> QED BY <1>3, <1>4, <2>1, <2>2 DEF IInv, Records, WaitingUntouched, Drains
<1>7. \A f \in 1..Len(frames) : frames[f].n # item.n /\ frames[f].n \in 1..MaxRequests
  BY DEF IInv, TypeOK, Records, WaitingUntouched, RunningUnanswered, Drains
<1>8. RunningUnanswered'
  <2>1. CASE frames' = frames
    BY <1>3, <1>4, <1>7, <2>1 DEF IInv, Records, RunningUnanswered
  <2>2. CASE frames' = Append(frames, item) /\ item.n \in executed' /\ answers' = answers
    <3>1. /\ Len(frames') = Len(frames) + 1 /\ frames'[Len(frames) + 1] = item
          /\ \A f \in 1..Len(frames) : frames'[f] = frames[f]
      BY <1>1, <2>2 DEF IInv, TypeOK
    <3>2. Len(frames) \in Nat
      BY DEF IInv, TypeOK
    <3>3. answers[item.n] = <<>>
      BY DEF IInv, Records, WaitingUntouched, Drains
    <3> QED BY <1>4, <1>7, <2>2, <3>1, <3>2, <3>3 DEF IInv, Records, RunningUnanswered
  <2> QED BY <2>1, <2>2 DEF Drains
<1>9. CancelledMeansNeverRun'
  <2> SUFFICES ASSUME NEW n \in withdrawn'
               PROVE  n \notin executed' /\ answers'[n] = <<>> /\ \A i \in queue' : i.n # n
    BY DEF CancelledMeansNeverRun
  <2>1. CASE n \in withdrawn
    <3>1. n # item.n /\ n \in 1..MaxRequests
      BY <2>1 DEF IInv, TypeOK, Records, WaitingUntouched, Drains
    <3> QED BY <1>1, <1>3, <1>4, <2>1, <3>1 DEF IInv, Records, CancelledMeansNeverRun
  <2>2. CASE n \in {t.n : t \in also}
    <3>1. PICK t \in also : n = t.n
      BY <2>2
    <3>2. t \in queue /\ n # item.n /\ n \in 1..MaxRequests
      BY <1>1, <1>2, <3>1 DEF Drains, Item
    <3>3. \A i \in queue' : i.n # n
      BY <3>1, <3>2 DEF Drains, IInv, Records, Numbered
    <3> QED BY <1>3, <1>4, <3>1, <3>2, <3>3 DEF IInv, Records, WaitingUntouched
  <2> QED BY <2>1, <2>2 DEF Drains
<1> QED BY <1>5, <1>6, <1>8, <1>9 DEF Records

LEMMA DrainsKeeps ==
    ASSUME IInv, NEW item, NEW also, Drains(item, also)
    PROVE  IInv'
<1>1. OneDrainTimer'
  <2>1. timers \in Nat /\ timers > 0 /\ (running => timers = 1) /\ running' = running
    BY DEF IInv, TypeOK, OneDrainTimer, Drains
  <2>2. CASE drainScheduled' = TRUE /\ timers' = timers
    BY <2>1, <2>2 DEF OneDrainTimer
  <2>3. CASE drainScheduled' = FALSE /\ timers' = timers - 1
    BY <2>1, <2>3 DEF OneDrainTimer
  <2>4. Rearm => \/ drainScheduled' = TRUE /\ timers' = timers
                 \/ drainScheduled' = FALSE /\ timers' = timers - 1
    <3> SUFFICES ASSUME Rearm
                 PROVE  \/ drainScheduled' = TRUE /\ timers' = timers
                        \/ drainScheduled' = FALSE /\ timers' = timers - 1
      OBVIOUS
    <3>1. CASE queue' = {}
      <4>1. (queue' # {}) = FALSE
        BY <3>1
      <4> QED BY <3>1, <4>1 DEF Rearm
    <3>2. CASE queue' # {}
      <4>1. (queue' # {}) = TRUE
        BY <3>2
      <4> QED BY <3>2, <4>1 DEF Rearm
    <3> QED BY <3>1, <3>2
  <2> QED BY <2>2, <2>3, <2>4 DEF Drains, Unwind
<1>2. NoStrandedWork'
  BY DEF IInv, TypeOK, Drains, NoStrandedWork, Rearm, Unwind
<1>3. BacklogOfClientsOnly'
  BY DEF IInv, Drains, BacklogOfClientsOnly
<1> QED BY <1>1, <1>2, <1>3, DrainsKeepsTypes, DrainsKeepsRecords DEF IInv

-----------------------------------------------------------------------------
\* The steps of the event loop that leave the requests as they are.
LEMMA QuietKeeps ==
    ASSUME IInv, UNCHANGED <<queue, arrived, frames, executed, withdrawn, answers>>
    PROVE  Records'
BY DEF IInv, Records, Numbered, WaitingUntouched, RunningUnanswered, CancelledMeansNeverRun

LEMMA AcceptConnectionKeeps ==
    ASSUME IInv, NEW s \in Sockets, AcceptConnection(s)
    PROVE  IInv'
<1>1. TypeOK'
  BY DEF AcceptConnection, scheduling, IInv, TypeOK
<1>2. OneDrainTimer' /\ NoStrandedWork'
  BY DEF AcceptConnection, scheduling, IInv, OneDrainTimer, NoStrandedWork
<1>3. BacklogOfClientsOnly'
  BY DEF AcceptConnection, IInv, TypeOK, BacklogOfClientsOnly, Clients, Item
<1> QED BY <1>1, <1>2, <1>3, QuietKeeps DEF AcceptConnection, IInv

LEMMA ReadOversizedKeeps ==
    ASSUME IInv, NEW s \in Sockets, ReadOversized(s)
    PROVE  IInv'
<1>1. TypeOK'
  BY DEF ReadOversized, scheduling, IInv, TypeOK
<1>2. OneDrainTimer' /\ NoStrandedWork'
  BY DEF ReadOversized, scheduling, IInv, OneDrainTimer, NoStrandedWork
<1>3. BacklogOfClientsOnly'
  BY DEF ReadOversized, IInv, TypeOK, BacklogOfClientsOnly, Clients, Item
<1> QED BY <1>1, <1>2, <1>3, QuietKeeps DEF ReadOversized, IInv

LEMMA PassDeadlineKeeps ==
    ASSUME IInv, PassDeadline
    PROVE  IInv'
<1>1. expiredUpTo' \in 0..MaxRequests
  BY DEF PassDeadline, IInv, TypeOK, Item
<1>2. TypeOK'
  BY <1>1 DEF PassDeadline, scheduling, IInv, TypeOK
<1>3. OneDrainTimer' /\ NoStrandedWork' /\ BacklogOfClientsOnly'
  BY DEF PassDeadline, scheduling, IInv, OneDrainTimer, NoStrandedWork, BacklogOfClientsOnly,
         Clients
<1> QED BY <1>2, <1>3, QuietKeeps DEF PassDeadline, IInv

LEMMA DrainNothingKeeps ==
    ASSUME IInv, DrainNothing
    PROVE  IInv'
<1>1. TypeOK'
  <2>1. timers' \in Nat
    BY DEF DrainNothing, IInv, TypeOK
  <2> QED BY <2>1 DEF DrainNothing, IInv, TypeOK
<1>2. OneDrainTimer' /\ NoStrandedWork' /\ BacklogOfClientsOnly'
  BY DEF DrainNothing, IInv, TypeOK, OneDrainTimer, NoStrandedWork, BacklogOfClientsOnly,
         Clients
<1> QED BY <1>1, <1>2, QuietKeeps DEF DrainNothing, IInv

\* _schedule_drain leaves one timer, and none only if there was nothing to do.
LEMMA ScheduleDrainArms ==
    ASSUME TypeOK, OneDrainTimer, ScheduleDrain, UNCHANGED running
    PROVE  /\ OneDrainTimer' /\ (queue' # {} => drainScheduled')
           /\ drainScheduled' \in BOOLEAN /\ escaped' \in BOOLEAN /\ timers' \in Nat
<1>1. CASE drainScheduled \/ queue' = {}
  BY <1>1 DEF ScheduleDrain, scheduling, TypeOK, OneDrainTimer
<1>2. CASE ~(drainScheduled \/ queue' = {})
  <2>1. drainScheduled' = TRUE /\ timers' = timers + 1 /\ escaped' = FALSE
    BY <1>2 DEF ScheduleDrain
  <2>2. timers \in Nat /\ (running => timers = 0) /\ running' = running
    BY <1>2 DEF TypeOK, OneDrainTimer
  <2>3. timers' \in Nat /\ (running' => timers' = 1)
    BY <2>1, <2>2
  <2>4. OneDrainTimer'
    BY <2>1, <2>3 DEF OneDrainTimer
  <2> QED BY <2>1, <2>3, <2>4
<1> QED BY <1>1, <1>2

LEMMA ReadLineKeeps ==
    ASSUME IInv, NEW s \in Sockets, ReadLine(s)
    PROVE  IInv'
<1>1. PICK t \in Traffic, target \in 0..arrived :
        LET item == Request(s, t[1], [form |-> t[2], target |-> target])
        IN  \/ Accept(item) /\ ScheduleDrain /\ UNCHANGED answers
            \/ Reject(item) /\ Reply(item, "busy") /\ UNCHANGED scheduling
  BY DEF ReadLine
<1> DEFINE item == Request(s, t[1], [form |-> t[2], target |-> target])
<1>2. /\ conn[s] \in {"open", "closing"}
      /\ UNCHANGED <<conn, authenticated, expiredUpTo, frames, running, executed, withdrawn>>
  BY DEF ReadLine
<1>3. /\ arrived \in 0..MaxRequests /\ arrived < MaxRequests /\ arrived' = arrived + 1
      /\ item.n = arrived + 1 /\ item.socket = s /\ readsSinceMutation' = readsSinceMutation
  BY <1>1 DEF Accept, Reject, Arrive, Request, IInv, TypeOK
<1>4. item \in Item
  <2>1. t[1] \in Methods /\ t[2] \in {"plain", "wrong", "raises", "notObject"}
    BY BridgeAssumption
  <2>2. [form |-> t[2], target |-> target] \in Details
    <3>1. target \in 0..MaxRequests
      BY <1>3, SchedulerAssumption
    <3> QED BY <2>1, <3>1, BridgeAssumption
  <2>3. arrived + 1 \in 1..MaxRequests
    BY <1>3, SchedulerAssumption
  <2> QED BY <2>1, <2>2, <2>3 DEF Request, Item
<1>5. arrived' \in 0..MaxRequests /\ item.n \in 1..MaxRequests
  BY <1>3, SchedulerAssumption
<1>6. /\ \A i \in queue : i.n <= arrived /\ i.n \in 1..MaxRequests
      /\ \A i \in queue : i.n # item.n
      /\ item.n \notin executed /\ item.n \notin withdrawn /\ answers[item.n] = <<>>
      /\ \A f \in 1..Len(frames) : frames[f].n \in executed
  <2>1. \A i \in queue : i.n <= arrived /\ i.n \in 1..MaxRequests
    BY DEF IInv, TypeOK, Records, Numbered, Item
  <2>2. item.n > arrived /\ item.n \notin 1..arrived
    BY <1>3
  <2> QED BY <1>5, <2>1, <2>2 DEF IInv, Records, Numbered, RunningUnanswered
<1>7. CASE Accept(item) /\ ScheduleDrain /\ UNCHANGED answers
  <2>1. queue' = queue \union {item}
    BY <1>7 DEF Accept
  <2>2. /\ OneDrainTimer' /\ (queue' # {} => drainScheduled')
        /\ drainScheduled' \in BOOLEAN /\ escaped' \in BOOLEAN /\ timers' \in Nat
    BY <1>2, <1>7, ScheduleDrainArms DEF IInv
  <2>3. TypeOK'
    BY <1>2, <1>3, <1>4, <1>5, <1>7, <2>1, <2>2 DEF IInv, TypeOK
  <2>4. Numbered'
    BY <1>2, <1>3, <1>6, <1>7, <2>1 DEF IInv, Records, Numbered
  <2>5. WaitingUntouched'
    BY <1>2, <1>6, <1>7, <2>1 DEF IInv, Records, WaitingUntouched
  <2>6. RunningUnanswered'
    BY <1>2, <1>7 DEF IInv, Records, RunningUnanswered
  <2>7. CancelledMeansNeverRun'
    BY <1>2, <1>6, <1>7, <2>1 DEF IInv, Records, CancelledMeansNeverRun
  <2>8. BacklogOfClientsOnly'
    BY <1>2, <1>3, <2>1 DEF IInv, BacklogOfClientsOnly, Clients
  <2>9. NoStrandedWork'
    BY <2>2 DEF NoStrandedWork
  <2> QED BY <2>2, <2>3, <2>4, <2>5, <2>6, <2>7, <2>8, <2>9 DEF IInv, Records
<1>8. CASE Reject(item) /\ Reply(item, "busy") /\ UNCHANGED scheduling
  <2>1. queue' = queue /\ UNCHANGED <<drainScheduled, timers, escaped>>
    BY <1>8 DEF Reject, scheduling
  <2>2. answers' = [answers EXCEPT ![item.n] = Append(@, "busy")]
    BY <1>8 DEF Reply
  <2>3. answers' \in [1..MaxRequests -> Seq(Answer)]
    <3>1. Append(answers[item.n], "busy") \in Seq(Answer)
      BY <1>5 DEF IInv, TypeOK, Answer
    <3> QED BY <1>5, <2>2, <3>1 DEF IInv, TypeOK
  <2>4. TypeOK'
    BY <1>2, <1>3, <1>5, <2>1, <2>3 DEF IInv, TypeOK
  <2>5. \A n \in 1..MaxRequests : n # item.n => answers'[n] = answers[n]
    BY <2>2 DEF IInv, TypeOK
  <2>6. Numbered'
    BY <1>2, <1>3, <1>6, <2>1, <2>5 DEF IInv, Records, Numbered
  <2>7. WaitingUntouched'
    BY <1>2, <1>6, <2>1, <2>5 DEF IInv, Records, WaitingUntouched
  <2>8. RunningUnanswered'
    BY <1>2, <1>6, <2>5 DEF IInv, TypeOK, Records, RunningUnanswered
  <2>9. CancelledMeansNeverRun'
    BY <1>2, <1>6, <2>1, <2>5 DEF IInv, TypeOK, Records, CancelledMeansNeverRun
  <2>10. OneDrainTimer' /\ NoStrandedWork' /\ BacklogOfClientsOnly'
    BY <1>2, <2>1 DEF IInv, OneDrainTimer, NoStrandedWork, BacklogOfClientsOnly, Clients
  <2> QED BY <2>4, <2>6, <2>7, <2>8, <2>9, <2>10 DEF IInv, Records
<1> QED BY <1>1, <1>7, <1>8

\* What waited may be dropped, as long as the rest stays.
LEMMA DroppingKeepsRecords ==
    ASSUME IInv, queue' \subseteq queue,
           UNCHANGED <<arrived, frames, executed, withdrawn, answers>>
    PROVE  Records'
BY DEF IInv, Records, Numbered, WaitingUntouched, RunningUnanswered, CancelledMeansNeverRun

LEMMA DisconnectedKeeps ==
    ASSUME IInv, NEW s \in Sockets, Disconnected(s)
    PROVE  IInv'
<1>1. queue' = {i \in queue : i.socket # s} /\ UNCHANGED <<readsSinceMutation, arrived>>
  BY DEF Disconnected, DiscardSocket
<1>2. TypeOK'
  BY <1>1 DEF Disconnected, scheduling, IInv, TypeOK
<1>3. OneDrainTimer' /\ NoStrandedWork'
  BY <1>1 DEF Disconnected, scheduling, IInv, OneDrainTimer, NoStrandedWork
<1>4. BacklogOfClientsOnly'
  BY <1>1 DEF Disconnected, IInv, TypeOK, BacklogOfClientsOnly, Clients, Item
<1> QED BY <1>1, <1>2, <1>3, <1>4, DroppingKeepsRecords DEF Disconnected, IInv

LEMMA StopKeeps ==
    ASSUME IInv, Stop
    PROVE  IInv'
<1>1. queue' = {} /\ UNCHANGED <<readsSinceMutation, arrived>>
  BY DEF Stop, Clear
<1>2. TypeOK'
  BY <1>1 DEF Stop, IInv, TypeOK
<1>3. OneDrainTimer' /\ NoStrandedWork' /\ BacklogOfClientsOnly'
  BY <1>1 DEF Stop, OneDrainTimer, NoStrandedWork, BacklogOfClientsOnly
<1> QED BY <1>1, <1>2, <1>3, DroppingKeepsRecords DEF Stop, IInv

\* What the library says of SubSeq, of a prefix.
LEMMA PrefixKeeps ==
    ASSUME NEW S, NEW s \in Seq(S), NEW n \in Nat, n <= Len(s)
    PROVE  /\ SubSeq(s, 1, n) \in Seq(S) /\ Len(SubSeq(s, 1, n)) = n
           /\ \A f \in 1..n : SubSeq(s, 1, n)[f] = s[f]
<1>1. \A f \in 1..n : s[f] \in S
  OBVIOUS
<1>2. /\ SubSeq(s, 1, n) \in Seq(S)
      /\ Len(SubSeq(s, 1, n)) = IF 1 <= n THEN n - 1 + 1 ELSE 0
      /\ \A f \in 1..(n - 1 + 1) : SubSeq(s, 1, n)[f] = s[1 + f - 1]
  BY <1>1, SubSeqProperties
<1>3. n - 1 + 1 = n /\ (IF 1 <= n THEN n - 1 + 1 ELSE 0) = n
  OBVIOUS
<1>4. \A f \in 1..n : 1 + f - 1 = f
  OBVIOUS
<1>5. Len(SubSeq(s, 1, n)) = n
  BY Zenon, <1>2, <1>3
<1> QED BY <1>2, <1>3, <1>4, <1>5

\* A suspended handler is answered, or its client has gone.
LEMMA FinishReviewKeeps ==
    ASSUME IInv, FinishReview
    PROVE  IInv'
<1> DEFINE last == Len(frames)
           item == frames[last]
<1>1. /\ frames # <<>> /\ frames' = SubSeq(frames, 1, last - 1)
      /\ UNCHANGED <<queue, readsSinceMutation, arrived, conn, authenticated, expiredUpTo,
                     running, executed, withdrawn>>
      /\ \/ Reply(item, "handled") /\ ScheduleDrain
         \/ UNCHANGED answers /\ ScheduleDrain
         \/ escaped' = ~drainScheduled /\ UNCHANGED <<answers, drainScheduled, timers>>
  BY DEF FinishReview
<1>2. last \in Nat \ {0} /\ item \in Item /\ item.n \in 1..MaxRequests
  <2>1. frames \in Seq(Item) /\ frames # <<>>
    BY <1>1 DEF IInv, TypeOK
  <2>2. last \in Nat \ {0} /\ item \in Item
    BY <2>1
  <2> QED BY <2>2 DEF Item
<1>3. /\ frames' \in Seq(Item) /\ Len(frames') = last - 1
      /\ \A f \in 1..(last - 1) : frames'[f] = frames[f]
  <2>1. frames \in Seq(Item) /\ last - 1 \in Nat /\ last - 1 <= Len(frames)
    BY <1>2 DEF IInv, TypeOK
  <2> HIDE DEF last
  <2> QED BY <1>1, <2>1, PrefixKeeps
<1>4. answers' = answers \/ answers' = [answers EXCEPT ![item.n] = Append(@, "handled")]
  BY <1>1 DEF Reply
<1>5. \A n \in 1..MaxRequests : n # item.n => answers'[n] = answers[n]
  BY <1>4 DEF IInv, TypeOK
<1>6. item.n \in executed /\ \A f \in 1..(last - 1) : frames[f].n # item.n
  BY <1>2 DEF IInv, Records, RunningUnanswered
<1>7. answers' \in [1..MaxRequests -> Seq(Answer)]
  <2>1. Append(answers[item.n], "handled") \in Seq(Answer)
    BY <1>2 DEF IInv, TypeOK, Answer
  <2> QED BY <1>2, <1>4, <2>1 DEF IInv, TypeOK
<1>8. ASSUME ScheduleDrain
      PROVE  /\ OneDrainTimer' /\ NoStrandedWork'
             /\ drainScheduled' \in BOOLEAN /\ escaped' \in BOOLEAN /\ timers' \in Nat
  BY <1>1, <1>8, ScheduleDrainArms DEF IInv, NoStrandedWork
<1>9. ASSUME escaped' = ~drainScheduled, UNCHANGED <<drainScheduled, timers>>
      PROVE  /\ OneDrainTimer' /\ NoStrandedWork'
             /\ drainScheduled' \in BOOLEAN /\ escaped' \in BOOLEAN /\ timers' \in Nat
  BY <1>1, <1>9 DEF IInv, TypeOK, OneDrainTimer, NoStrandedWork
<1>10. /\ OneDrainTimer' /\ NoStrandedWork'
       /\ drainScheduled' \in BOOLEAN /\ escaped' \in BOOLEAN /\ timers' \in Nat
  BY <1>1, <1>8, <1>9
<1>11. Len(frames') <= MaxFrames
  BY <1>2, <1>3, BridgeAssumption DEF IInv, TypeOK
<1>12. TypeOK'
  BY <1>1, <1>3, <1>7, <1>10, <1>11 DEF IInv, TypeOK
<1>13. Numbered'
  BY <1>1, <1>5, <1>6 DEF IInv, TypeOK, Records, Numbered
<1>14. WaitingUntouched'
  BY <1>1, <1>5, <1>6 DEF IInv, TypeOK, Records, WaitingUntouched, Item
<1>15. RunningUnanswered'
  <2>1. \A f \in 1..(last - 1) : frames[f].n \in 1..MaxRequests /\ f \in 1..last
    <3>1. \A f \in 1..(last - 1) : f \in 1..last
      BY <1>2
    <3>2. \A f \in 1..last : frames[f].n \in executed
      BY DEF IInv, Records, RunningUnanswered
    <3> QED BY <3>1, <3>2 DEF IInv, TypeOK
  <2>2. \A f \in 1..(last - 1) : answers'[frames[f].n] = answers[frames[f].n]
    BY <1>5, <1>6, <2>1
  <2> QED BY <1>1, <1>3, <2>1, <2>2 DEF IInv, Records, RunningUnanswered
<1>16. CancelledMeansNeverRun'
  BY <1>1, <1>5, <1>6 DEF IInv, TypeOK, Records, CancelledMeansNeverRun
<1>17. BacklogOfClientsOnly'
  BY <1>1 DEF IInv, BacklogOfClientsOnly, Clients
<1> QED BY <1>10, <1>12, <1>13, <1>14, <1>15, <1>16, <1>17 DEF IInv, Records

LEMMA DrainOneKeeps ==
    ASSUME IInv, DrainOne
    PROVE  IInv'
<1>1. ASSUME NEW i \in queue, Cancel(i) PROVE IInv'
  BY <1>1, CancelDrains, DrainsKeeps DEF IInv
<1>2. ASSUME NEW i \in queue,
             \/ AnswerExpired(i) \/ AnswerInvalid(i) \/ Authenticate(i)
             \/ RefuseUnknown(i) \/ RaiseInHello(i) \/ AnswerSecondHello(i)
             \/ RaiseInCancel(i) \/ Dispatch(i) \/ SuspendInReview(i)
      PROVE  IInv'
  <2>1. Drains(i, {})
    BY <1>2, DrainsWithoutOthers DEF IInv
  <2> QED BY <2>1, DrainsKeeps
<1> QED BY <1>1, <1>2, DrainNothingKeeps DEF DrainOne

LEMMA StepKeeps == IInv /\ [Next]_vars => IInv'
<1> SUFFICES ASSUME IInv, [Next]_vars PROVE IInv'
  OBVIOUS
<1>1. CASE UNCHANGED vars
  <2>1. TypeOK'
    BY <1>1 DEF vars, IInv, TypeOK
  <2>2. OneDrainTimer' /\ NoStrandedWork' /\ BacklogOfClientsOnly'
    BY <1>1 DEF vars, IInv, OneDrainTimer, NoStrandedWork, BacklogOfClientsOnly, Clients
  <2> QED BY <1>1, <2>1, <2>2, QuietKeeps DEF vars, IInv
<1>2. ASSUME NEW s \in Sockets,
             AcceptConnection(s) \/ ReadLine(s) \/ ReadOversized(s) \/ Disconnected(s)
      PROVE  IInv'
  BY <1>2, AcceptConnectionKeeps, ReadLineKeeps, ReadOversizedKeeps, DisconnectedKeeps
<1> QED
  BY <1>1, <1>2, PassDeadlineKeeps, DrainOneKeeps, FinishReviewKeeps, StopKeeps DEF Next

LEMMA AlwaysIInv == Spec => []IInv
BY InitKeeps, StepKeeps, PTL DEF Spec

\* Type correctness of the bridge's state (bridge.py).
THEOREM BridgeTypeCorrect == Spec => []TypeOK
<1>1. IInv => TypeOK
  BY DEF IInv
<1> QED BY <1>1, AlwaysIInv, PTL

\* However drain steps nest there is one timer while the flag is up, and none
\* while it is down (_schedule_drain and _drain_one).
THEOREM DrainTimersNeverMultiply == Spec => []OneDrainTimer
<1>1. IInv => OneDrainTimer
  BY DEF IInv
<1> QED BY <1>1, AlwaysIInv, PTL

\* Work that waits has a timer or a suspended handler that will come back to it,
\* unless an exception left the last drain step.
THEOREM NothingIsStranded == Spec => []NoStrandedWork
<1>1. IInv => NoStrandedWork
  BY DEF IInv
<1> QED BY <1>1, AlwaysIInv, PTL

\* A request the client was told is cancelled was not and will not be carried
\* out, nor answered (cancel_request).
THEOREM CancelledIsNeverRun == Spec => []CancelledMeansNeverRun
<1>1. IInv => CancelledMeansNeverRun
  BY DEF IInv, Records
<1> QED BY <1>1, AlwaysIInv, PTL

\* What waits belongs to clients that are connected (_disconnected and stop).
THEOREM BacklogIsOfClients == Spec => []BacklogOfClientsOnly
<1>1. IInv => BacklogOfClientsOnly
  BY DEF IInv
<1> QED BY <1>1, AlwaysIInv, PTL

-----------------------------------------------------------------------------
\* The bridge implements RequestLedger: each step moves each request as the
\* ledger allows, whatever the step does to the others.
Queued(n) == \E i \in queue : i.n = n
Suspended(n) == \E f \in 1..Len(frames) : frames[f].n = n

LEMMA StatusIs ==
    ASSUME IInv, NEW n \in 1..MaxRequests
    PROVE  /\ n > arrived => Status(n) = "unsent" /\ ~Queued(n) /\ ~Suspended(n)
           /\ Queued(n) => Status(n) = "waiting" /\ n <= arrived /\ ~Suspended(n)
           /\ Suspended(n) => Status(n) = "running" /\ n <= arrived
           /\ n <= arrived /\ ~Queued(n) /\ ~Suspended(n) => Status(n) = "closed"
<1>1. arrived \in Nat /\ n \in Nat
  BY DEF IInv, TypeOK
<1>2. Queued(n) => n <= arrived /\ n \notin executed
  BY DEF IInv, Records, Numbered, WaitingUntouched, Queued
<1>3. Suspended(n) => n \in executed /\ n <= arrived
  BY <1>1 DEF IInv, Records, Numbered, RunningUnanswered, Suspended
<1>4. Status(n) = IF n > arrived THEN "unsent" ELSE IF Queued(n) THEN "waiting"
                  ELSE IF Suspended(n) THEN "running" ELSE "closed"
  BY DEF Status, Queued, Suspended
<1> QED BY <1>1, <1>2, <1>3, <1>4

\* Where nothing moves the ledger does not either.
LEMMA SameIsNoMove ==
    ASSUME NEW n \in 1..MaxRequests, arrived' = arrived,
           Queued(n)' = Queued(n), Suspended(n)' = Suspended(n), answers'[n] = answers[n]
    PROVE  Ledger!Moves(Status(n), Status(n)', answers[n], answers'[n])
BY DEF Ledger!Moves, Status, Queued, Suspended

LEMMA DrainsMove ==
    ASSUME IInv, NEW item, NEW also, Drains(item, also), NEW n \in 1..MaxRequests
    PROVE  Ledger!Moves(Status(n), Status(n)', answers[n], answers'[n])
<1>1. IInv' /\ arrived' = arrived
  BY DrainsKeeps DEF Drains
<1>2. /\ n <= arrived /\ Queued(n)' => Status(n)' = "waiting"
      /\ n <= arrived /\ Suspended(n)' => Status(n)' = "running"
      /\ n <= arrived /\ ~Queued(n)' /\ ~Suspended(n)' => Status(n)' = "closed"
  BY <1>1 DEF Status, Queued, Suspended, IInv, Records, WaitingUntouched, RunningUnanswered,
              TypeOK
<1>3. \/ frames' = frames
      \/ /\ answers' = answers /\ Suspended(item.n)'
         /\ n # item.n => (Suspended(n)' <=> Suspended(n))
  <2> SUFFICES ASSUME frames' = Append(frames, item), answers' = answers
               PROVE  /\ Suspended(item.n)'
                      /\ n # item.n => (Suspended(n)' <=> Suspended(n))
    BY DEF Drains
  <2>1. item \in Item /\ frames \in Seq(Item) /\ Len(frames) \in Nat
    BY DEF Drains, IInv, TypeOK
  <2>2. /\ Len(frames') = Len(frames) + 1 /\ frames'[Len(frames) + 1] = item
        /\ \A f \in 1..Len(frames) : frames'[f] = frames[f]
    BY <2>1
  <2> QED BY <2>1, <2>2 DEF Suspended
<1>4. CASE n = item.n
  <2>1. n <= arrived /\ Queued(n) /\ Status(n) = "waiting" /\ ~Suspended(n)
    BY <1>4, StatusIs DEF Queued, Drains
  <2>2. ~Queued(n)'
    BY <1>4 DEF Queued, Drains, IInv, Records, Numbered
  <2>3. CASE frames' = frames
    <3>1. Status(n)' = "closed"
      BY <1>2, <2>1, <2>2, <2>3 DEF Suspended
    <3>2. answers'[n] = answers[n] \/ \E a \in Answer : answers'[n] = Append(answers[n], a)
      BY <1>4 DEF Drains, Reply, IInv, TypeOK
    <3> QED
      BY <2>1, <3>1, <3>2 DEF Ledger!Moves, Ledger!Closed, Ledger!OneMore
  <2>4. CASE answers' = answers /\ Suspended(item.n)'
    BY <1>2, <1>4, <2>1, <2>4 DEF Ledger!Moves, Ledger!Started
  <2> QED BY <1>3, <2>3, <2>4
<1>5. CASE n # item.n /\ \E t \in also : t.n = n
  <2>1. n <= arrived /\ Queued(n) /\ Status(n) = "waiting" /\ ~Suspended(n)
    BY <1>5, StatusIs DEF Queued, Drains
  <2>2. ~Queued(n)'
    BY <1>5 DEF Queued, Drains, IInv, Records, Numbered
  <2>3. ~Suspended(n)'
    BY <1>3, <1>5, <2>1 DEF Suspended
  <2>4. answers'[n] = answers[n]
    BY <1>5 DEF Drains, Reply, IInv, TypeOK
  <2> QED
    BY <1>2, <2>1, <2>2, <2>3, <2>4 DEF Ledger!Moves, Ledger!Closed
<1>6. CASE n # item.n /\ ~\E t \in also : t.n = n
  <2>1. Queued(n)' = Queued(n)
    BY <1>6 DEF Queued, Drains
  <2>2. Suspended(n)' = Suspended(n)
    BY <1>3, <1>6 DEF Suspended
  <2>3. answers'[n] = answers[n]
    BY <1>6 DEF Drains, Reply, IInv, TypeOK
  <2> QED BY <1>1, <2>1, <2>2, <2>3, SameIsNoMove
<1> QED BY <1>4, <1>5, <1>6

\* A disconnection or the end of the bridge closes what waited, unanswered.
LEMMA DropsMove ==
    ASSUME IInv, queue' \subseteq queue, UNCHANGED <<arrived, frames, answers>>,
           NEW n \in 1..MaxRequests
    PROVE  Ledger!Moves(Status(n), Status(n)', answers[n], answers'[n])
<1>1. Suspended(n)' = Suspended(n)
  BY DEF Suspended
<1>2. CASE Queued(n) /\ ~Queued(n)'
  <2>1. n <= arrived /\ Status(n) = "waiting" /\ ~Suspended(n)
    BY <1>2, StatusIs
  <2>2. Status(n)' = "closed"
    BY <1>1, <1>2, <2>1 DEF Status, Queued, Suspended, IInv, TypeOK
  <2> QED BY <2>1, <2>2 DEF Ledger!Moves, Ledger!Closed
<1>3. CASE ~(Queued(n) /\ ~Queued(n)')
  <2>1. Queued(n)' = Queued(n)
    BY <1>3 DEF Queued
  <2> QED BY <1>1, <2>1, SameIsNoMove
<1> QED BY <1>2, <1>3

LEMMA ReadLineMoves ==
    ASSUME IInv, NEW s \in Sockets, ReadLine(s), NEW n \in 1..MaxRequests
    PROVE  Ledger!Moves(Status(n), Status(n)', answers[n], answers'[n])
<1>1. PICK item :
        /\ item.n = arrived + 1 /\ arrived' = arrived + 1
        /\ \/ queue' = queue \union {item} /\ answers' = answers
           \/ queue' = queue /\ Reply(item, "busy")
  BY DEF ReadLine, Accept, Reject, Arrive
<1>2. arrived \in Nat /\ Suspended(n)' = Suspended(n)
  BY DEF ReadLine, Suspended, IInv, TypeOK
<1>3. CASE n = arrived + 1
  <2>1. Status(n) = "unsent" /\ ~Queued(n) /\ ~Suspended(n)
    BY <1>2, <1>3, StatusIs
  <2>2. CASE queue' = queue \union {item} /\ answers' = answers
    <3>1. Queued(n)' /\ ~(n > arrived')
      BY <1>1, <1>2, <1>3, <2>2 DEF Queued
    <3>2. Status(n)' = "waiting"
      BY <3>1 DEF Status, Queued
    <3> QED BY <2>1, <2>2, <3>2 DEF Ledger!Moves, Ledger!Accepted
  <2>3. CASE queue' = queue /\ Reply(item, "busy")
    <3>1. ~Queued(n)' /\ ~Suspended(n)' /\ ~(n > arrived')
      BY <1>1, <1>2, <1>3, <2>1, <2>3 DEF Queued
    <3>2. Status(n)' = "closed"
      BY <3>1 DEF Status, Queued, Suspended
    <3>3. answers'[n] = Append(answers[n], "busy")
      BY <1>1, <1>3, <2>3 DEF Reply, IInv, TypeOK
    <3> QED BY <2>1, <3>2, <3>3 DEF Ledger!Moves, Ledger!Refused
  <2> QED BY <1>1, <2>2, <2>3
<1>4. CASE n # arrived + 1
  <2>1. Queued(n)' = Queued(n)
    BY <1>1, <1>4 DEF Queued
  <2>2. (n > arrived') = (n > arrived)
    BY <1>1, <1>2, <1>4
  <2>3. Status(n)' = Status(n)
    BY <1>2, <2>1, <2>2 DEF Status, Queued, Suspended
  <2>4. answers'[n] = answers[n]
    BY <1>1, <1>4 DEF Reply, IInv, TypeOK
  <2> QED BY <2>3, <2>4 DEF Ledger!Moves
<1> QED BY <1>3, <1>4

LEMMA FinishReviewMoves ==
    ASSUME IInv, FinishReview, NEW n \in 1..MaxRequests
    PROVE  Ledger!Moves(Status(n), Status(n)', answers[n], answers'[n])
<1> DEFINE last == Len(frames)
           item == frames[last]
<1>1. /\ frames # <<>> /\ frames' = SubSeq(frames, 1, last - 1)
      /\ queue' = queue /\ arrived' = arrived
      /\ answers' = answers \/ Reply(item, "handled")
  BY DEF FinishReview
<1>2. frames \in Seq(Item) /\ last \in Nat \ {0} /\ last - 1 \in Nat /\ last - 1 <= Len(frames)
  BY <1>1 DEF IInv, TypeOK
<1>3. /\ Len(frames') = last - 1
      /\ \A f \in 1..(last - 1) : frames'[f] = frames[f]
  <2> HIDE DEF last
  <2> QED BY <1>1, <1>2, PrefixKeeps
<1>4. \A f \in 1..(last - 1) : frames[f].n # item.n
  BY <1>2 DEF IInv, Records, RunningUnanswered
<1>5. Queued(n)' = Queued(n)
  BY <1>1 DEF Queued
<1>6. CASE n = item.n
  <2>1. Suspended(n) /\ ~Suspended(n)'
    BY <1>2, <1>3, <1>4, <1>6 DEF Suspended
  <2>2. Status(n) = "running" /\ n <= arrived /\ ~Queued(n)
    BY <2>1, StatusIs
  <2>3. Status(n)' = "closed"
    BY <1>1, <1>5, <2>1, <2>2 DEF Status, Queued, Suspended, IInv, TypeOK
  <2>4. answers'[n] = answers[n] \/ answers'[n] = Append(answers[n], "handled")
    BY <1>1, <1>6 DEF Reply, IInv, TypeOK
  <2> QED
    BY <2>2, <2>3, <2>4 DEF Ledger!Moves, Ledger!Closed, Ledger!OneMore, Answer
<1>7. CASE n # item.n
  <2>1. Suspended(n)' = Suspended(n)
    <3>1. \A f \in 1..last : f # last => f \in 1..(last - 1)
      BY <1>2
    <3>2. \A f \in 1..(last - 1) : f \in 1..last
      BY <1>2
    <3> QED BY <1>3, <1>7, <3>1, <3>2 DEF Suspended
  <2>2. answers'[n] = answers[n]
    BY <1>1, <1>7 DEF Reply, IInv, TypeOK
  <2> QED BY <1>1, <1>5, <2>1, <2>2, SameIsNoMove
<1> QED BY <1>6, <1>7

LEMMA StepMoves ==
    ASSUME IInv, [Next]_vars, NEW n \in 1..MaxRequests
    PROVE  Ledger!Moves(Status(n), Status(n)', answers[n], answers'[n])
<1>1. CASE UNCHANGED vars
  BY <1>1, DropsMove DEF vars
<1>2. ASSUME NEW s \in Sockets, AcceptConnection(s) \/ ReadOversized(s)
      PROVE  Ledger!Moves(Status(n), Status(n)', answers[n], answers'[n])
  BY <1>2, DropsMove DEF AcceptConnection, ReadOversized
<1>3. ASSUME NEW s \in Sockets, Disconnected(s)
      PROVE  Ledger!Moves(Status(n), Status(n)', answers[n], answers'[n])
  <2>1. queue' \subseteq queue /\ UNCHANGED <<arrived, frames, answers>>
    BY <1>3 DEF Disconnected, DiscardSocket
  <2> QED BY <2>1, DropsMove
<1>4. CASE PassDeadline \/ DrainNothing \/ Stop
  <2>1. queue' \subseteq queue /\ UNCHANGED <<arrived, frames, answers>>
    BY <1>4 DEF PassDeadline, DrainNothing, Stop, Clear
  <2> QED BY <2>1, DropsMove
<1>5. ASSUME NEW i \in queue, Cancel(i)
      PROVE  Ledger!Moves(Status(n), Status(n)', answers[n], answers'[n])
  BY <1>5, CancelDrains, DrainsMove DEF IInv
<1>6. ASSUME NEW i \in queue,
             \/ AnswerExpired(i) \/ AnswerInvalid(i) \/ Authenticate(i)
             \/ RefuseUnknown(i) \/ RaiseInHello(i) \/ AnswerSecondHello(i)
             \/ RaiseInCancel(i) \/ Dispatch(i) \/ SuspendInReview(i)
      PROVE  Ledger!Moves(Status(n), Status(n)', answers[n], answers'[n])
  <2>1. Drains(i, {})
    BY <1>6, DrainsWithoutOthers DEF IInv
  <2> QED BY <2>1, DrainsMove
<1> QED
  BY <1>1, <1>2, <1>3, <1>4, <1>5, <1>6, ReadLineMoves, FinishReviewMoves DEF Next, DrainOne

\* Whatever nests, disconnects, expires or is cancelled, a request is accepted
\* or refused once, answered at most once, and then left alone: the bridge
\* implements RequestLedger (bridge.py).
THEOREM BridgeKeepsTheLedger == Spec => LedgerKept
<1>1. Init => Ledger!Init
  BY DEF Init, SchedulerInit, Status, Ledger!Init
<1>2. IInv /\ [Next]_vars => Ledger!Next
  BY StepMoves DEF Ledger!Next
<1> QED BY <1>1, <1>2, AlwaysIInv, PTL DEF Spec, LedgerKept, Ledger!Spec
===============================================================================
