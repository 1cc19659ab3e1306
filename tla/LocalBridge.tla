---------------------------- MODULE LocalBridge ----------------------------
(***************************************************************************)
(* The plugin's end of the bridge (plugin/qgis_agent_mcp/bridge.py): the   *)
(* client sockets, authentication, the zero-delay timer that drains the    *)
(* scheduler one request per event-loop turn, and the nested event loop    *)
(* that visual.review runs inside its handler                              *)
(* (dispatcher.py:1225-1232), from which further requests are read and     *)
(* dispatched before the outer handler returns.                            *)
(*                                                                         *)
(* Everything runs on QGIS's main thread: an action is one slot or timer   *)
(* callback, and `frames' holds the handlers suspended in a nested event   *)
(* loop, the innermost last.                                               *)
(***************************************************************************)
EXTENDS BridgeScheduler, Sequences

CONSTANTS
    Traffic,    \* the <<method, form>> pairs clients send
    MaxFrames   \* bound: handlers suspended at once

ASSUME BridgeAssumption ==
    /\ Traffic \subseteq Methods \X {"plain", "wrong", "raises", "notObject"}
    /\ Details = [form : {"plain", "wrong", "raises", "notObject"}, target : 0..MaxRequests]
    /\ MaxFrames \in Nat

VARIABLES
    conn,            \* per socket: new, open, closing, overflowed or gone
    authenticated,   \* sockets that completed bridge.hello
    expiredUpTo,     \* queued requests up to this number are past their deadline
    drainScheduled,  \* the _drain_scheduled flag
    timers,          \* single-shot drain timers in flight
    frames,          \* requests whose handler runs a nested event loop
    running,         \* the server listens: start() done, stop() not yet
    answers,         \* per request: the replies written for it
    executed,        \* history: requests handed to the dispatcher
    withdrawn,       \* history: requests reported as cancelled
    escaped          \* history: an exception left the last drain step, and
                     \* nothing has scheduled a drain since

vars == <<queue, readsSinceMutation, arrived, conn, authenticated, expiredUpTo,
          drainScheduled, timers, frames, running, answers, executed, withdrawn, escaped>>
scheduling == <<drainScheduled, timers, escaped>>

Form == {"plain", "wrong", "raises", "notObject"}
Answer == {"busy", "expired", "error", "authFailed", "welcome", "handled",
           "cancelled", "notCancelled"}
Clients == {s \in Sockets : conn[s] \in {"open", "closing", "overflowed"}}

Init ==
    /\ SchedulerInit
    /\ conn = [s \in Sockets |-> "new"]
    /\ authenticated = {}
    /\ expiredUpTo = 0
    /\ drainScheduled = FALSE
    /\ timers = 0
    /\ frames = <<>>
    /\ running = TRUE
    /\ answers = [n \in 1..MaxRequests |-> <<>>]
    /\ executed = {}
    /\ withdrawn = {}
    /\ escaped = FALSE

Reply(item, answer) == answers' = [answers EXCEPT ![item.n] = Append(@, answer)]
-----------------------------------------------------------------------------
(* _schedule_drain, called when the queue has just become queue'. *)
ScheduleDrainUnguarded ==   \* mutant
    /\ drainScheduled' = TRUE
    /\ timers' = timers + 1
    /\ escaped' = FALSE
ScheduleDrain ==
    IF drainScheduled \/ queue' = {}
    THEN UNCHANGED scheduling
    ELSE /\ drainScheduled' = TRUE
         /\ timers' = timers + 1
         /\ escaped' = FALSE

(* The two ways a drain step ends: it reschedules, or an exception leaves *)
(* _process and the last line of _drain_one is never reached.             *)
RearmNever ==   \* mutant: only a new arrival schedules the next step
    /\ drainScheduled' = FALSE
    /\ timers' = timers - 1
    /\ escaped' = FALSE
Rearm ==
    /\ drainScheduled' = (queue' # {})
    /\ timers' = IF queue' # {} THEN timers ELSE timers - 1
    /\ escaped' = FALSE
Unwind ==
    /\ drainScheduled' = FALSE
    /\ timers' = timers - 1
    /\ escaped' = TRUE
-----------------------------------------------------------------------------
(* _accept: a loopback peer connects. *)
AcceptConnection(s) ==
    /\ running
    /\ conn[s] = "new"
    /\ conn' = [conn EXCEPT ![s] = "open"]
    /\ UNCHANGED <<queue, readsSinceMutation, arrived, authenticated, expiredUpTo,
                   frames, running, answers, executed, withdrawn, scheduling>>

(* _read, for one complete line.  A refused request is answered at once and *)
(* does not schedule a drain.                                               *)
ReadLine(s) ==
    /\ conn[s] \in {"open", "closing"}
    /\ \E t \in Traffic, target \in 0..arrived :
         LET detail == [form |-> t[2], target |-> target]
             item   == Request(s, t[1], detail)
         IN  /\ (t[1] = "bridge.cancel") = (target # 0)
             /\ \/ Accept(item) /\ ScheduleDrain /\ UNCHANGED answers
                \/ Reject(item) /\ Reply(item, "busy") /\ UNCHANGED scheduling
    /\ UNCHANGED <<conn, authenticated, expiredUpTo, frames, running, executed, withdrawn>>

(* _read, when the buffer passes MAX_MESSAGE_BYTES: it is never emptied, so *)
(* that client's further lines are not read either.                         *)
ReadOversized(s) ==
    /\ conn[s] \in {"open", "closing"}
    /\ conn' = [conn EXCEPT ![s] = "overflowed"]
    /\ UNCHANGED <<queue, readsSinceMutation, arrived, authenticated, expiredUpTo,
                   frames, running, answers, executed, withdrawn, scheduling>>

(* _disconnected: what the client had queued is dropped without a reply, and *)
(* nothing is rescheduled.                                                   *)
DisconnectedKeepingWork(s) ==   \* mutant
    /\ s \in Clients
    /\ conn' = [conn EXCEPT ![s] = "gone"]
    /\ authenticated' = authenticated \ {s}
    /\ UNCHANGED <<queue, readsSinceMutation, arrived, expiredUpTo, frames, running,
                   answers, executed, withdrawn, scheduling>>
Disconnected(s) ==
    /\ s \in Clients
    /\ conn' = [conn EXCEPT ![s] = "gone"]
    /\ authenticated' = authenticated \ {s}
    /\ DiscardSocket(s)
    /\ UNCHANGED <<expiredUpTo, frames, running, answers, executed, withdrawn, scheduling>>

(* Time passes the deadline of one more queued request.  Every request gets *)
(* the same allowance, so they expire in arrival order.                     *)
PassDeadline ==
    /\ \E i \in queue :
         /\ i.n > expiredUpTo
         /\ \A j \in queue : j.n > expiredUpTo => i.n <= j.n
         /\ expiredUpTo' = i.n
    /\ UNCHANGED <<queue, readsSinceMutation, arrived, conn, authenticated, frames,
                   running, answers, executed, withdrawn, scheduling>>
-----------------------------------------------------------------------------
(* _drain_one.  Each action below is one way through it and _process. *)
Malformed(item) ==
    \/ item.detail.form = "notObject"
    \/ item.detail.form = "wrong" /\ item.method # "bridge.hello"
Authenticates(item) ==
    item.method = "bridge.hello" /\ item.detail.form = "plain"

(* Serve pops the next request and ends the step with Rearm or Unwind. *)
Serve(item, also) ==
    /\ timers > 0
    /\ item \in queue
    /\ PopNext(item, also)
    /\ UNCHANGED <<expiredUpTo, running>>

Live(item) == item.n > expiredUpTo
WellFormed(item) == Live(item) /\ ~Malformed(item)
FromKnown(item) == WellFormed(item) /\ item.socket \in authenticated
FromUnknown(item) == WellFormed(item) /\ item.socket \notin authenticated

DrainNothing ==
    /\ timers > 0
    /\ queue = {}
    /\ drainScheduled' = FALSE
    /\ timers' = timers - 1
    /\ UNCHANGED <<queue, readsSinceMutation, arrived, conn, authenticated, expiredUpTo,
                   frames, running, answers, executed, withdrawn, escaped>>

AnswerExpiredAndProcess(item) ==   \* mutant: the branches of _drain_one not exclusive
    /\ ~Live(item)
    /\ Serve(item, {}) /\ Rearm
    /\ answers' = [answers EXCEPT ![item.n] = @ \o <<"expired", "handled">>]
    /\ UNCHANGED <<conn, authenticated, frames, executed, withdrawn>>
AnswerExpired(item) ==
    /\ ~Live(item)
    /\ Serve(item, {}) /\ Reply(item, "expired") /\ Rearm
    /\ UNCHANGED <<conn, authenticated, frames, executed, withdrawn>>

AnswerInvalid(item) ==
    /\ Live(item) /\ Malformed(item)
    /\ Serve(item, {}) /\ Reply(item, "error") /\ Rearm
    /\ UNCHANGED <<conn, authenticated, frames, executed, withdrawn>>

Authenticate(item) ==
    /\ FromUnknown(item) /\ Authenticates(item)
    /\ Serve(item, {}) /\ Reply(item, "welcome") /\ Rearm
    /\ authenticated' = authenticated \union {item.socket}
    /\ UNCHANGED <<conn, frames, executed, withdrawn>>

RefuseUnknown(item) ==
    /\ FromUnknown(item) /\ ~Authenticates(item)
    /\ ~(item.method = "bridge.hello" /\ item.detail.form = "raises")
    /\ Serve(item, {}) /\ Reply(item, "authFailed") /\ Rearm
    /\ conn' = [conn EXCEPT ![item.socket] = IF @ = "open" THEN "closing" ELSE @]
    /\ UNCHANGED <<authenticated, frames, executed, withdrawn>>

(* int(params["protocol"]) on a value that is no number, or compare_digest *)
(* on a token that is not ASCII (lines 169-170).                           *)
RaiseInHello(item) ==
    /\ FromUnknown(item)
    /\ item.method = "bridge.hello" /\ item.detail.form = "raises"
    /\ Serve(item, {}) /\ Unwind
    /\ UNCHANGED <<conn, authenticated, frames, answers, executed, withdrawn>>

AnswerSecondHello(item) ==
    /\ FromKnown(item) /\ item.method = "bridge.hello"
    /\ Serve(item, {}) /\ Reply(item, "error") /\ Rearm
    /\ UNCHANGED <<conn, authenticated, frames, executed, withdrawn>>

(* cancel_request looks through the deques in order, and raises on the first *)
(* of the caller's requests that is no JSON object (item.request.get).       *)
Target(item) ==
    {i \in queue \ {item} : i.socket = item.socket /\ i.n = item.detail.target}
SearchRaises(item) ==
    \E j \in Waiting("read") \ Target(item) :
        /\ j.socket = item.socket
        /\ j.detail.form = "notObject"
        /\ \A t \in Target(item) : Classify(t.method) # "control" /\
               (Classify(t.method) = "read" => j.n < t.n)

CancelButKeep(item) ==   \* mutant: reports a cancellation it does not carry out
    /\ FromKnown(item) /\ item.method = "bridge.cancel"
    /\ ~SearchRaises(item)
    /\ Serve(item, {}) /\ Rearm
    /\ Reply(item, IF Target(item) # {} THEN "cancelled" ELSE "notCancelled")
    /\ withdrawn' = withdrawn \union {t.n : t \in Target(item)}
    /\ UNCHANGED <<conn, authenticated, frames, executed>>
Cancel(item) ==
    /\ FromKnown(item) /\ item.method = "bridge.cancel"
    /\ ~SearchRaises(item)
    /\ Serve(item, Target(item)) /\ Rearm
    /\ Reply(item, IF Target(item) # {} THEN "cancelled" ELSE "notCancelled")
    /\ withdrawn' = withdrawn \union {t.n : t \in Target(item)}
    /\ UNCHANGED <<conn, authenticated, frames, executed>>

RaiseInCancel(item) ==
    /\ FromKnown(item) /\ item.method = "bridge.cancel"
    /\ SearchRaises(item)
    /\ Serve(item, {}) /\ Unwind
    /\ UNCHANGED <<conn, authenticated, frames, answers, executed, withdrawn>>

(* A handler that runs to its end: its result or its error is the reply. *)
Dispatchable(item) ==
    FromKnown(item) /\ item.method \notin {"bridge.hello", "bridge.cancel"}

Dispatch(item) ==
    /\ Dispatchable(item)
    /\ Serve(item, {}) /\ Reply(item, "handled") /\ Rearm
    /\ executed' = executed \union {item.n}
    /\ UNCHANGED <<conn, authenticated, frames, withdrawn>>

(* visual.review waits for the canvas in processEvents: its drain step has *)
(* cleared the flag and not yet rescheduled.                               *)
SuspendInReview(item) ==
    /\ Dispatchable(item) /\ item.method = "visual.review"
    /\ Len(frames) < MaxFrames
    /\ Serve(item, {})
    /\ frames' = Append(frames, item)
    /\ executed' = executed \union {item.n}
    /\ drainScheduled' = FALSE
    /\ timers' = timers - 1
    /\ UNCHANGED <<conn, authenticated, answers, withdrawn, escaped>>

DrainOne ==
    \/ DrainNothing
    \/ \E i \in queue :
         \/ AnswerExpired(i)
         \/ AnswerInvalid(i)
         \/ Authenticate(i)
         \/ RefuseUnknown(i)
         \/ RaiseInHello(i)
         \/ AnswerSecondHello(i)
         \/ Cancel(i)
         \/ RaiseInCancel(i)
         \/ Dispatch(i)
         \/ SuspendInReview(i)

(* The innermost nested event loop returns.  If the client has gone, the *)
(* write to its socket is lost, or raises because Qt has deleted the     *)
(* socket, in which case the reschedule is skipped.                      *)
FinishReview ==
    /\ frames # <<>>
    /\ LET item == frames[Len(frames)]
       IN  /\ frames' = SubSeq(frames, 1, Len(frames) - 1)
           /\ UNCHANGED <<queue, readsSinceMutation, arrived>>
           /\ \/ item.socket \in Clients /\ Reply(item, "handled") /\ ScheduleDrain
              \/ item.socket \notin Clients /\ UNCHANGED answers /\ ScheduleDrain
              \/ /\ item.socket \notin Clients
                 /\ escaped' = ~drainScheduled
                 /\ UNCHANGED <<answers, drainScheduled, timers>>
    /\ UNCHANGED <<conn, authenticated, expiredUpTo, running, executed, withdrawn>>

(* stop, when the plugin is unloaded. *)
Stop ==
    /\ running /\ frames = <<>>
    /\ running' = FALSE
    /\ conn' = [s \in Sockets |-> "gone"]
    /\ authenticated' = {}
    /\ drainScheduled' = FALSE
    /\ Clear
    /\ UNCHANGED <<expiredUpTo, timers, frames, answers, executed, withdrawn, escaped>>

Next ==
    \/ \E s \in Sockets : AcceptConnection(s)
    \/ \E s \in Sockets : ReadLine(s)
    \/ \E s \in Sockets : ReadOversized(s)
    \/ \E s \in Sockets : Disconnected(s)
    \/ PassDeadline
    \/ DrainOne
    \/ FinishReview
    \/ Stop

(* Qt fires a zero-delay timer as soon as the event loop turns, and        *)
(* visual.review leaves its loop after at most five seconds.  Clients, and *)
(* the user who unloads the plugin, owe nothing.                           *)
Fairness == WF_vars(DrainOne) /\ WF_vars(FinishReview)

Spec == Init /\ [][Next]_vars /\ Fairness
-----------------------------------------------------------------------------
TypeOK ==
    /\ queue \subseteq Item
    /\ readsSinceMutation \in Nat
    /\ arrived \in 0..MaxRequests
    /\ conn \in [Sockets -> {"new", "open", "closing", "overflowed", "gone"}]
    /\ authenticated \subseteq Sockets
    /\ expiredUpTo \in 0..MaxRequests
    /\ drainScheduled \in BOOLEAN /\ running \in BOOLEAN /\ escaped \in BOOLEAN
    /\ timers \in Nat
    /\ frames \in Seq(Item) /\ Len(frames) <= MaxFrames
    /\ answers \in [1..MaxRequests -> Seq(Answer)]
    /\ executed \subseteq 1..MaxRequests
    /\ withdrawn \subseteq 1..MaxRequests

(* While the server runs there is exactly one drain timer in flight when *)
(* the flag is up and none when it is down, however drain steps nest     *)
(* (bridge.py:124-131): two timers would let one client's requests jump  *)
(* the event loop, none would leave the queue unattended.                *)
OneDrainTimer == running => timers = IF drainScheduled THEN 1 ELSE 0

(* Waiting requests always have someone who will look at them: a timer, or  *)
(* a suspended handler whose return reschedules.  The only exception is an  *)
(* exception: one that leaves _process skips the reschedule, and the queue  *)
(* then waits for the next accepted request (bridge.py:151-153).            *)
NoStrandedWork ==
    queue # {} => drainScheduled \/ frames # <<>> \/ escaped

(* A queued request always belongs to a connected client: _drain_one's own *)
(* test for a vanished socket (line 136) never fires.                      *)
BacklogOfClientsOnly == \A i \in queue : i.socket \in Clients

(* A client that was told cancelled=true knows that its request was not and *)
(* will not be carried out, and that no other answer to it will come.       *)
CancelledMeansNeverRun ==
    \A n \in withdrawn :
        /\ n \notin executed
        /\ answers[n] = <<>>
        /\ \A i \in queue : i.n # n

(* What each request goes through is what RequestLedger allows: accepted or *)
(* refused once, answered at most once and then closed, whatever nests,     *)
(* disconnects, expires or is cancelled meanwhile.                          *)
Status(n) ==
    IF n > arrived THEN "unsent"
    ELSE IF \E i \in queue : i.n = n THEN "waiting"
    ELSE IF \E f \in 1..Len(frames) : frames[f].n = n THEN "running"
    ELSE "closed"

Ledger == INSTANCE RequestLedger WITH
    Requests <- 1..MaxRequests,
    Answers  <- Answer,
    status   <- [n \in 1..MaxRequests |-> Status(n)]
LedgerKept == Ledger!Spec

(* Every accepted request leaves the queue, answered, dropped or cancelled, *)
(* unless an exception has left the drain chain broken.                     *)
BacklogDrains ==
    \A n \in 1..MaxRequests :
        (Status(n) = "waiting") ~> (Status(n) # "waiting" \/ escaped)

(* The README (line 98) says that the bridge serializes QGIS mutations on *)
(* the main thread: none starts while another one's handler is running.   *)
Mutating(n) == \E i \in queue : i.n = n /\ i.method \in MutationMethods
MutationsSerialized ==
    [][\A n \in executed' \ executed : Mutating(n) => frames = <<>>]_vars
=============================================================================
