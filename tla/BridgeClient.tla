---------------------------- MODULE BridgeClient ----------------------------
(***************************************************************************)
(* The server's end of the bridge (src/qgis_mcp/bridge.py): coroutines     *)
(* that share one connection to QGIS, find it again after QGIS restarts,   *)
(* retry what may be retried, time out and are cancelled.                  *)
(*                                                                         *)
(* A coroutine keeps the event loop from one await to the next: `current'  *)
(* is the one that has it, and the actions between two awaits are guarded  *)
(* by it.  QGIS and the network move at any time.  Requests made with      *)
(* fixed connection information, which are never retried, are left out.    *)
(***************************************************************************)
EXTENDS Naturals, FiniteSets, Sequences

CONSTANTS
    Callers,      \* the coroutines, each of which makes one request
    Retryable,    \* those whose request is a plain read or carries a key
    Bulky,        \* those whose line can fill the socket's buffer
    Cancellable,  \* those whose MCP client may cancel them
    Nobody,
    MaxConns,     \* bound: connections opened
    MaxSessions   \* bound: times QGIS is started

VARIABLES
    caller,        \* per coroutine: where it is and what its request knows
    current,       \* the coroutine that has the event loop
    writer,        \* the connection in self._writer, 0 for None
    pending,       \* the request numbers in self._pending
    sequence,      \* the last request number used
    connectQueue,  \* the connect lock: its holder, then those who wait
    writeQueue,    \* the write lock, likewise
    cancels,       \* numbers that a _cancel_bridge_request task has to send
    identity,      \* the QGIS session last connected to, 0 for none
    link,          \* per connection: what has become of it
    sessionOf,     \* per connection: the QGIS session it leads to
    authenticated, \* connections whose bridge.hello QGIS has accepted
    wire,          \* lines QGIS has not handled yet
    replies,       \* lines the read loop has not handled yet
    session,       \* the QGIS session, counted from 1
    qgisUp,        \* QGIS runs and its bridge listens
    sent,          \* history: per coroutine, how often its request was written
    abandoned      \* history: connections whose bridge.hello was cancelled

vars == <<caller, current, writer, pending, sequence, connectQueue, writeQueue, cancels,
          identity, link, sessionOf, authenticated, wire, replies, session, qgisUp,
          sent, abandoned>>
client == <<caller, current, writer, pending, sequence, connectQueue, writeQueue,
            cancels, identity, sent, abandoned>>
qgis == <<session, qgisUp, authenticated>>
network == <<link, sessionOf, wire, replies>>

Results == {"nothing", "welcome", "unavailable", "error", "cancelled"}

ASSUME ClientAssumption ==
    /\ (Results \union {Nobody}) \intersect Callers = {}
    /\ Retryable \subseteq Callers
    /\ MaxConns \in Nat \ {0} /\ MaxSessions \in Nat \ {0}

Conns == 1..MaxConns
Awaits == {"ready", "connectLock", "opening", "writeLock", "draining", "waiting",
           "closing", "sleeping", "done"}
Stages == Awaits \union {"attempt", "issue", "write", "failed", "close", "closed"}
Outcome == Results \union Callers

(* Of a connection that QGIS has hung up the end of the stream is still to be *)
(* read; a lost one is hung up and read at once.  "closing" is one the client *)
(* has closed, and "shut" one whose read loop has ended; "closed" is the end  *)
(* of both.                                                                   *)
BeingRead(k) == link[k] \in {"up", "hungup", "closing"}

Init ==
    /\ caller = [c \in Callers |->
           [at |-> "ready", for |-> "call", conn |-> 0, id |-> 0, got |-> "nothing",
            retrying |-> FALSE, late |-> FALSE]]
    /\ current = Nobody
    /\ writer = 0
    /\ pending = {}
    /\ sequence = 0
    /\ connectQueue = <<>> /\ writeQueue = <<>>
    /\ cancels = {}
    /\ identity = 0
    /\ link = [k \in Conns |-> "unused"]
    /\ sessionOf = [k \in Conns |-> 0]
    /\ authenticated = {}
    /\ wire = {} /\ replies = {}
    /\ session = 1 /\ qgisUp = TRUE
    /\ sent = [c \in Callers |-> 0]
    /\ abandoned = {}

(* A coroutine is in the queue of a lock once at most. *)
Without(queue, c) ==
    IF \E i \in 1..Len(queue) : queue[i] = c
    THEN LET place == CHOOSE i \in 1..Len(queue) : queue[i] = c
         IN  SubSeq(queue, 1, place - 1) \o SubSeq(queue, place + 1, Len(queue))
    ELSE queue

(* _fail_pending: every unanswered request of the client fails, on whatever *)
(* connection it is.                                                        *)
Unanswered(c) ==
    /\ caller[c].at \in {"writeLock", "draining", "waiting"}
    /\ caller[c].id \in pending
    /\ caller[c].got = "nothing"
ForgottenCallers == caller   \* mutant: the futures are dropped, not failed
FailedCallers ==
    [c \in Callers |->
        IF Unanswered(c) THEN [caller[c] EXCEPT !.got = "unavailable"] ELSE caller[c]]
FailPending == pending' = {} /\ caller' = FailedCallers
-----------------------------------------------------------------------------
(* How a step leaves its coroutine: running on, at an await, or finished. *)
Goes(c, stage) == caller' = [caller EXCEPT ![c].at = stage]
Runs(c, stage) == current' = c /\ Goes(c, stage)
Rests(c, stage) == current' = Nobody /\ Goes(c, stage)
Over(got) ==
    [at |-> "done", for |-> "call", conn |-> 0, id |-> 0, got |-> got,
     retrying |-> FALSE, late |-> FALSE]
Ends(c, got) == current' = Nobody /\ caller' = [caller EXCEPT ![c] = Over(got)]

(* request. *)
Begin(c) ==
    /\ current = Nobody /\ caller[c].at = "ready"
    /\ Runs(c, "attempt")
    /\ UNCHANGED <<writer, pending, sequence, connectQueue, writeQueue, cancels, identity,
                   sent, abandoned, network, qgis>>

(* _request_once: connect first if there is no connection. *)
Attempt(c) ==
    /\ current = c /\ caller[c].at = "attempt"
    /\ \/ /\ writer # 0
          /\ Goes(c, "issue") /\ UNCHANGED <<current, connectQueue>>
       \/ /\ writer = 0
          /\ Rests(c, IF connectQueue = <<>> THEN "opening" ELSE "connectLock")
          /\ connectQueue' = Append(connectQueue, c)
    /\ UNCHANGED <<writer, pending, sequence, writeQueue, cancels, identity, sent,
                   abandoned, network, qgis>>

(* The connect lock is free again: look once more whether anybody else has *)
(* connected meanwhile.                                                    *)
ConnectLockTaken(c) ==   \* mutant: no second look
    /\ current = Nobody /\ caller[c].at = "connectLock" /\ Head(connectQueue) = c
    /\ Goes(c, "opening")
    /\ UNCHANGED <<current, writer, pending, sequence, connectQueue, writeQueue, cancels,
                   identity, sent, abandoned, network, qgis>>
ConnectLockGranted(c) ==
    /\ current = Nobody /\ caller[c].at = "connectLock" /\ Head(connectQueue) = c
    /\ \/ /\ writer # 0
          /\ Runs(c, "issue") /\ connectQueue' = Tail(connectQueue)
       \/ /\ writer = 0
          /\ Goes(c, "opening") /\ UNCHANGED <<current, connectQueue>>
    /\ UNCHANGED <<writer, pending, sequence, writeQueue, cancels, identity, sent,
                   abandoned, network, qgis>>

(* open_connection returns: the new connection is the client's at once, and *)
(* the holder of the lock goes on to send bridge.hello.  A connection takes *)
(* several turns of the event loop: whoever was ready has run by then.      *)
Ready(c) ==
    \/ caller[c].at = "waiting" /\ caller[c].got # "nothing"
    \/ caller[c].at = "connectLock" /\ Head(connectQueue) = c
    \/ caller[c].at = "writeLock" /\ Head(writeQueue) = c
    \/ caller[c].at \in {"closing", "draining"} /\ link[caller[c].conn] = "closed"

Opened(c) ==
    /\ current = Nobody /\ caller[c].at = "opening"
    /\ qgisUp /\ \A d \in Callers : ~Ready(d)
    /\ \E k \in Conns :
         /\ link[k] = "unused" /\ \A j \in 1..(k - 1) : link[j] # "unused"
         /\ writer' = k
         /\ link' = [link EXCEPT ![k] = "up"]
         /\ sessionOf' = [sessionOf EXCEPT ![k] = session]
         /\ caller' = [caller EXCEPT ![c].at = "issue", ![c].for = "hello", ![c].conn = k]
    /\ current' = c
    /\ UNCHANGED <<pending, sequence, connectQueue, writeQueue, cancels, identity, sent,
                   abandoned, wire, replies, qgis>>

(* There is no registration, or nobody listens there (at the bound on *)
(* connections QGIS no longer listens).                               *)
RefusedHolding(c) ==   \* mutant: the lock is not released
    /\ current = Nobody /\ caller[c].at = "opening"
    /\ ~qgisUp \/ \A k \in Conns : link[k] # "unused"
    /\ caller' = [caller EXCEPT ![c].at = "failed", ![c].got = "unavailable"]
    /\ current' = c
    /\ UNCHANGED <<writer, pending, sequence, connectQueue, writeQueue, cancels, identity,
                   sent, abandoned, network, qgis>>
Refused(c) ==
    /\ current = Nobody /\ caller[c].at = "opening"
    /\ ~qgisUp \/ \A k \in Conns : link[k] # "unused"
    /\ connectQueue' = Tail(connectQueue)
    /\ caller' = [caller EXCEPT ![c].at = "failed", ![c].got = "unavailable"]
    /\ current' = c
    /\ UNCHANGED <<writer, pending, sequence, writeQueue, cancels, identity, sent,
                   abandoned, network, qgis>>
-----------------------------------------------------------------------------
(* _request_once, for the call itself and for bridge.hello: a new number, a *)
(* future, and the write lock.                                              *)
NumberOfPending == Cardinality(pending)           \* mutant
NumberAfterPending == Cardinality(pending) + 1    \* mutant
NextNumber == sequence + 1

Issue(c) ==
    /\ current = c /\ caller[c].at = "issue" /\ writer # 0
    /\ sequence' = NextNumber
    /\ pending' = pending \union {NextNumber}
    /\ writeQueue' = Append(writeQueue, c)
    /\ current' = IF writeQueue = <<>> THEN c ELSE Nobody
    /\ caller' = [caller EXCEPT
           ![c].at = IF writeQueue = <<>> THEN "write" ELSE "writeLock",
           ![c].id = NextNumber, ![c].got = "nothing"]
    /\ UNCHANGED <<writer, connectQueue, cancels, identity, sent, abandoned, network, qgis>>

(* The connection was closed while bridge.hello was being answered. *)
IssueUnconnected(c) ==
    /\ current = c /\ caller[c].at = "issue" /\ writer = 0
    /\ caller' = [caller EXCEPT ![c].at = "failed", ![c].got = "unavailable"]
    /\ UNCHANGED <<current, writer, pending, sequence, connectQueue, writeQueue, cancels,
                   identity, sent, abandoned, network, qgis>>

WriteLockGranted(c) ==
    /\ current = Nobody /\ caller[c].at = "writeLock" /\ Head(writeQueue) = c
    /\ Runs(c, "write")
    /\ UNCHANGED <<writer, pending, sequence, connectQueue, writeQueue, cancels, identity,
                   sent, abandoned, network, qgis>>

(* The line goes to whatever connection the client has by now; drain waits *)
(* if the socket's buffer is full.                                         *)
Write(c) ==
    /\ current = c /\ caller[c].at = "write" /\ writer # 0
    /\ wire' = IF link[writer] = "up"
               THEN wire \union {[conn |-> writer, id |-> caller[c].id, by |-> c,
                                  for |-> caller[c].for]}
               ELSE wire
    /\ sent' = [sent EXCEPT ![c] = IF caller[c].for = "call" THEN @ + 1 ELSE @]
    /\ current' = Nobody
    /\ \/ /\ caller' = [caller EXCEPT ![c].at = "waiting", ![c].conn = writer]
          /\ writeQueue' = Tail(writeQueue)
       \/ /\ c \in Bulky /\ caller[c].for = "call" /\ link[writer] = "up"
          /\ caller' = [caller EXCEPT ![c].at = "draining", ![c].conn = writer]
          /\ UNCHANGED writeQueue
    /\ UNCHANGED <<writer, pending, sequence, connectQueue, cancels, identity, abandoned,
                   link, sessionOf, replies, qgis>>

(* self._writer became None while the lock was awaited: an AttributeError, *)
(* which no handler of this class catches.                                 *)
WriteToNone(c) ==
    /\ current = c /\ caller[c].at = "write" /\ writer = 0
    /\ caller' = [caller EXCEPT ![c].at = "failed", ![c].got = "error"]
    /\ writeQueue' = Tail(writeQueue)
    /\ UNCHANGED <<current, writer, pending, sequence, connectQueue, cancels, identity,
                   sent, abandoned, network, qgis>>

(* QGIS reads again, or the connection is lost and drain raises an OSError. *)
Drained(c) ==
    /\ current = Nobody /\ caller[c].at = "draining"
    /\ \/ /\ link[caller[c].conn] \in {"up", "closing"}
          /\ sessionOf[caller[c].conn] = session /\ qgisUp
          /\ Goes(c, "waiting") /\ UNCHANGED current
       \/ /\ link[caller[c].conn] = "closed"
          /\ caller' = [caller EXCEPT ![c].at = "failed", ![c].got = "error"]
          /\ current' = c
    /\ writeQueue' = Tail(writeQueue)
    /\ UNCHANGED <<writer, pending, sequence, connectQueue, cancels, identity, sent,
                   abandoned, network, qgis>>
-----------------------------------------------------------------------------
(* wait_for: the future has a result, or the time is up.  A request that has *)
(* timed out is forgotten here but not withdrawn from QGIS.                  *)
Answered(c) ==
    /\ current = Nobody /\ caller[c].at = "waiting"
    /\ caller[c].for = "call" /\ caller[c].got \in Callers \union {"welcome"}
    /\ Ends(c, caller[c].got)
    /\ UNCHANGED <<writer, pending, sequence, connectQueue, writeQueue, cancels,
                   identity, sent, abandoned, network, qgis>>

(* The end of connect: the session is announced by bridge.reconnected when *)
(* it is not the one before (here: when identity changes), the lock is     *)
(* released, and the request that asked for the connection is issued.      *)
NewIdentity(c) == sessionOf[caller[c].conn]
Welcomed(c) ==
    /\ current = Nobody /\ caller[c].at = "waiting"
    /\ caller[c].for = "hello" /\ caller[c].got = "welcome"
    /\ identity' = NewIdentity(c)
    /\ connectQueue' = Tail(connectQueue)
    /\ caller' = [caller EXCEPT ![c].at = "issue", ![c].for = "call", ![c].got = "nothing"]
    /\ current' = c
    /\ UNCHANGED <<writer, pending, sequence, writeQueue, cancels, sent, abandoned,
                   network, qgis>>

Failed(c) ==
    /\ current = Nobody /\ caller[c].at = "waiting"
    /\ caller[c].got \in {"unavailable", "error"}
    /\ Runs(c, "failed")
    /\ UNCHANGED <<writer, pending, sequence, connectQueue, writeQueue, cancels, identity,
                   sent, abandoned, network, qgis>>

TimesOut(c) ==
    /\ current = Nobody /\ caller[c].at = "waiting"
    /\ caller[c].got = "nothing"
    /\ pending' = pending \ {caller[c].id}
    /\ caller' = [caller EXCEPT ![c].at = "failed", ![c].got = "error"]
    /\ current' = c
    /\ UNCHANGED <<writer, sequence, connectQueue, writeQueue, cancels, identity, sent,
                   abandoned, network, qgis>>
-----------------------------------------------------------------------------
(* An exception leaves _request_once.  One of bridge.hello closes the       *)
(* connection.  An unavailable bridge is retried for a retryable request, at *)
(* once the first time and after a pause later, until the deadline has      *)
(* passed.  Everything else is the caller's answer.                         *)
RaiseFromHelloKeeping(c) ==   \* mutant: the failed connection stays
    /\ current = c /\ caller[c].at = "failed" /\ caller[c].for = "hello"
    /\ caller' = [caller EXCEPT ![c].for = "call"]
    /\ connectQueue' = Tail(connectQueue)
    /\ UNCHANGED <<current, writer, pending, sequence, writeQueue, cancels, identity, sent,
                   abandoned, network, qgis>>
RaiseFromHello(c) ==
    /\ current = c /\ caller[c].at = "failed" /\ caller[c].for = "hello"
    /\ Goes(c, "close")
    /\ UNCHANGED <<current, writer, pending, sequence, connectQueue, writeQueue, cancels,
                   identity, sent, abandoned, network, qgis>>

RetriesAll(c) == caller[c].got = "unavailable"   \* mutant
Retries(c) == c \in Retryable /\ caller[c].got = "unavailable"
Raise(c) ==
    /\ current = c /\ caller[c].at = "failed" /\ caller[c].for = "call"
    /\ \/ /\ Retries(c) /\ ~caller[c].retrying
          /\ caller' = [caller EXCEPT ![c].at = "close", ![c].retrying = TRUE]
          /\ UNCHANGED current
       \/ /\ Retries(c) /\ caller[c].retrying /\ ~caller[c].late
          /\ Rests(c, "sleeping")
       \/ /\ Retries(c) => caller[c].retrying /\ caller[c].late
          /\ Ends(c, caller[c].got)
    /\ UNCHANGED <<writer, pending, sequence, connectQueue, writeQueue, cancels, identity,
                   sent, abandoned, network, qgis>>

(* close: the connection is the client's no more, whoever uses it; then the *)
(* wait for the transport to flush and end.                                 *)
Close(c) ==
    /\ current = c /\ caller[c].at = "close"
    /\ \/ /\ writer # 0
          /\ writer' = 0
          /\ link' = [link EXCEPT ![writer] = "closing"]
          /\ caller' = [caller EXCEPT ![c].at = "closing", ![c].conn = writer]
          /\ current' = Nobody
          /\ UNCHANGED pending
       \/ /\ writer = 0
          /\ pending' = {}
          /\ caller' = [FailedCallers EXCEPT ![c].at = "closed"]
          /\ UNCHANGED <<current, writer, link>>
    /\ UNCHANGED <<sequence, connectQueue, writeQueue, cancels, identity, sent, abandoned,
                   sessionOf, wire, replies, qgis>>

(* The rest of close, once the transport has ended: everything pending fails, *)
(* also what has been sent over a newer connection meanwhile.                 *)
CloseReturns(c) ==
    /\ current = Nobody /\ caller[c].at = "closing"
    /\ link[caller[c].conn] = "closed"
    /\ pending' = {}
    /\ caller' = [FailedCallers EXCEPT ![c].at = "closed"]
    /\ current' = c
    /\ UNCHANGED <<writer, sequence, connectQueue, writeQueue, cancels, identity, sent,
                   abandoned, network, qgis>>

(* After close: connect raises what bridge.hello raised, and the retry loop *)
(* looks at the clock and tries again.                                      *)
AfterClose(c) ==
    /\ current = c /\ caller[c].at = "closed"
    /\ \/ /\ caller[c].for = "hello"
          /\ caller' = [caller EXCEPT ![c].at = "failed", ![c].for = "call"]
          /\ connectQueue' = Tail(connectQueue)
          /\ UNCHANGED current
       \/ /\ caller[c].for = "call" /\ ~caller[c].late
          /\ Goes(c, "attempt") /\ UNCHANGED <<current, connectQueue>>
       \/ /\ caller[c].for = "call" /\ caller[c].late
          /\ Ends(c, "unavailable") /\ UNCHANGED connectQueue
    /\ UNCHANGED <<writer, pending, sequence, writeQueue, cancels, identity, sent,
                   abandoned, network, qgis>>

Wakes(c) ==
    /\ current = Nobody /\ caller[c].at = "sleeping"
    /\ Runs(c, "close")
    /\ UNCHANGED <<writer, pending, sequence, connectQueue, writeQueue, cancels, identity,
                   sent, abandoned, network, qgis>>

DeadlinePasses(c) ==
    /\ caller[c].retrying /\ ~caller[c].late /\ caller[c].at # "done"
    /\ caller' = [caller EXCEPT ![c].late = TRUE]
    /\ UNCHANGED <<current, writer, pending, sequence, connectQueue, writeQueue, cancels,
                   identity, sent, abandoned, network, qgis>>
-----------------------------------------------------------------------------
(* The MCP client cancels the task.  A lock it holds or waits for is given    *)
(* up; a request already numbered is forgotten and withdrawn from QGIS; a     *)
(* connection whose bridge.hello it was waiting for stays, and what follows   *)
(* in connect and close is skipped.                                           *)
Cancel(c) ==
    /\ c \in Cancellable /\ current = Nobody
    /\ caller[c].at \notin {"ready", "done"}
    /\ connectQueue' = Without(connectQueue, c)
    /\ writeQueue' = Without(writeQueue, c)
    /\ Ends(c, "cancelled")
    /\ IF caller[c].at \in {"writeLock", "draining", "waiting"}
       THEN /\ pending' = pending \ {caller[c].id}
            /\ cancels' = IF writer # 0 THEN cancels \union {caller[c].id} ELSE cancels
            /\ abandoned' = IF caller[c].for = "hello"
                            THEN abandoned \union {caller[c].conn} ELSE abandoned
       ELSE UNCHANGED <<pending, cancels, abandoned>>
    /\ UNCHANGED <<writer, sequence, identity, sent, network, qgis>>

(* The _cancel_bridge_request task.  Nothing depends on the answer to it, so *)
(* its own future is left out.                                               *)
SendCancel(n) ==
    /\ current = Nobody /\ n \in cancels /\ writeQueue = <<>>
    /\ cancels' = cancels \ {n}
    /\ IF writer # 0
       THEN /\ sequence' = NextNumber
            /\ wire' = IF link[writer] = "up"
                       THEN wire \union {[conn |-> writer, id |-> n, by |-> Nobody,
                                          for |-> "cancel"]}
                       ELSE wire
       ELSE UNCHANGED <<sequence, wire>>
    /\ UNCHANGED <<caller, current, writer, pending, connectQueue, writeQueue, identity, sent,
                   abandoned, link, sessionOf, replies, qgis>>
-----------------------------------------------------------------------------
(* _read_loop: a line that answers a pending request resolves its future. *)
Deliver(r) ==
    /\ current = Nobody /\ BeingRead(r.conn)
    /\ replies' = replies \ {r}
    /\ pending' = pending \ {r.id}
    /\ caller' = [c \in Callers |->
           IF Unanswered(c) /\ caller[c].id = r.id
           THEN [caller[c] EXCEPT !.got = r.what] ELSE caller[c]]
    /\ UNCHANGED <<current, writer, sequence, connectQueue, writeQueue, cancels, identity,
                   sent, abandoned, link, sessionOf, wire, qgis>>

(* The end of the stream, after the lines that came before it. *)
ReadLoopEnds(k) ==
    /\ current = Nobody /\ link[k] = "hungup"
    /\ \A r \in replies : r.conn # k
    /\ FailPending
    /\ link' = [link EXCEPT ![k] = "shut"]
    /\ writer' = IF writer = k THEN 0 ELSE writer
    /\ UNCHANGED <<current, sequence, connectQueue, writeQueue, cancels, identity, sent,
                   abandoned, sessionOf, wire, replies, qgis>>

ReadLoop(k) == ReadLoopEnds(k) \/ \E r \in replies : r.conn = k /\ Deliver(r)

(* A transport that was closed has written out its buffer, or cannot any      *)
(* more.  A read loop that still runs hears of it first, before close returns. *)
TransportEnds(k) ==
    /\ current = Nobody /\ link[k] \in {"closing", "shut"}
    /\ \/ \A c \in Callers : caller[c].at = "draining" => caller[c].conn # k
       \/ link[k] = "shut" \/ ~qgisUp \/ sessionOf[k] # session
    /\ link' = [link EXCEPT ![k] = "closed"]
    /\ replies' = {r \in replies : r.conn # k}
    /\ IF link[k] = "closing" THEN FailPending ELSE UNCHANGED <<pending, caller>>
    /\ UNCHANGED <<current, writer, sequence, connectQueue, writeQueue, cancels, identity,
                   sent, abandoned, sessionOf, wire, qgis>>
-----------------------------------------------------------------------------
(* The plugin (LocalBridge), as its client sees it: bridge.hello comes before *)
(* other lines, the rest in any order; a client that has not said hello is    *)
(* refused and disconnected.                                                  *)
Reply(line, what) ==
    replies' = IF link[line.conn] = "up"
               THEN replies \union {[conn |-> line.conn, id |-> line.id, what |-> what]}
               ELSE replies

Greet(line) ==
    /\ line.for = "hello"
    /\ authenticated' = authenticated \union {line.conn}
    /\ wire' = wire \ {line}
    /\ Reply(line, "welcome")
    /\ UNCHANGED link
Serve(line) ==
    /\ line.for = "call" /\ line.conn \in authenticated
    /\ wire' = wire \ {line}
    /\ Reply(line, line.by)
    /\ UNCHANGED <<authenticated, link>>
Withdraw(line) ==
    /\ line.for = "cancel" /\ line.conn \in authenticated
    /\ wire' = {l \in wire \ {line} : l.conn # line.conn \/ l.id # line.id}
    /\ UNCHANGED <<authenticated, link, replies>>
Rebuff(line) ==
    /\ line.for # "hello" /\ line.conn \notin authenticated
    /\ \A l \in wire : l.conn = line.conn => l.for # "hello"
    /\ wire' = {l \in wire : l.conn # line.conn}
    /\ Reply(line, "error")
    /\ link' = [link EXCEPT ![line.conn] = IF @ = "up" THEN "hungup" ELSE @]
    /\ UNCHANGED authenticated

(* The queue is full, the request expired in it, or its handler failed. *)
Decline(line) ==
    /\ wire' = wire \ {line}
    /\ IF line.for = "cancel" THEN UNCHANGED replies ELSE Reply(line, "error")
    /\ UNCHANGED <<authenticated, link>>

Handle(line) ==
    /\ Greet(line) \/ Serve(line) \/ Withdraw(line) \/ Rebuff(line) \/ Decline(line)
    /\ UNCHANGED <<client, sessionOf, session, qgisUp>>

(* QGIS notices that the client has closed a connection. *)
Discard(k) ==
    /\ link[k] = "closed"
    /\ \E l \in wire : l.conn = k
    /\ wire' = {l \in wire : l.conn # k}
    /\ UNCHANGED <<client, link, sessionOf, replies, qgis>>

QgisEnds ==
    /\ qgisUp
    /\ qgisUp' = FALSE
    /\ link' = [k \in Conns |-> IF link[k] = "up" THEN "hungup" ELSE link[k]]
    /\ wire' = {}
    /\ UNCHANGED <<client, sessionOf, replies, session, authenticated>>
QgisStarts ==
    /\ ~qgisUp /\ session < MaxSessions
    /\ qgisUp' = TRUE /\ session' = session + 1
    /\ UNCHANGED <<client, network, authenticated>>
-----------------------------------------------------------------------------
(* What a coroutine does as soon as the event loop lets it, and what time *)
(* brings about.                                                          *)
Continue(c) ==
    \/ Attempt(c) \/ ConnectLockGranted(c) \/ Opened(c) \/ Refused(c)
    \/ Issue(c) \/ IssueUnconnected(c) \/ WriteLockGranted(c) \/ Write(c) \/ WriteToNone(c)
    \/ Drained(c) \/ Answered(c) \/ Welcomed(c) \/ Failed(c)
    \/ RaiseFromHello(c) \/ Raise(c) \/ Close(c) \/ CloseReturns(c) \/ AfterClose(c) \/ Wakes(c)

Next ==
    \/ \E c \in Callers : Begin(c) \/ Continue(c) \/ TimesOut(c) \/ DeadlinePasses(c) \/ Cancel(c)
    \/ \E n \in cancels : SendCancel(n)
    \/ \E k \in Conns : ReadLoop(k) \/ TransportEnds(k) \/ Discard(k)
    \/ \E l \in wire : Handle(l)
    \/ QgisEnds \/ QgisStarts

(* The event loop runs what is ready and its clock; a socket buffer that can *)
(* be flushed is.  QGIS owes nothing, except that it reads its sockets or    *)
(* ends (Drained): without that drain, which has no timeout, never returns.  *)
Fairness ==
    /\ \A c \in Callers :
         WF_vars(Continue(c)) /\ WF_vars(TimesOut(c)) /\ WF_vars(DeadlinePasses(c))
    /\ \A k \in Conns : WF_vars(ReadLoop(k)) /\ WF_vars(TransportEnds(k))

Spec == Init /\ [][Next]_vars /\ Fairness
-----------------------------------------------------------------------------
Line(for, by) == [conn : Conns, id : Nat, by : by, for : for]

TypeOK ==
    /\ caller \in [Callers -> [at : Stages, for : {"hello", "call"}, conn : Conns \union {0},
                               id : Nat, got : Outcome, retrying : BOOLEAN, late : BOOLEAN]]
    /\ current \in Callers \union {Nobody}
    /\ \A c \in Callers : caller[c].at \in Awaits <=> current # c
    /\ writer \in Conns \union {0} /\ sequence \in Nat
    /\ pending \subseteq 1..sequence /\ cancels \subseteq 1..sequence
    /\ connectQueue \in Seq(Callers) /\ writeQueue \in Seq(Callers)
    /\ identity \in 0..MaxSessions /\ session \in 1..MaxSessions /\ qgisUp \in BOOLEAN
    /\ link \in [Conns -> {"unused", "up", "hungup", "closing", "shut", "closed"}]
    /\ sessionOf \in [Conns -> 0..MaxSessions]
    /\ authenticated \subseteq Conns /\ abandoned \subseteq Conns
    /\ wire \subseteq Line({"hello", "call"}, Callers) \union Line({"cancel"}, {Nobody})
    /\ replies \subseteq [conn : Conns, id : Nat, what : Outcome]
    /\ sent \in [Callers -> Nat]

(* A caller gets the answer to its own call, although all share one         *)
(* connection, numbers outlive connections, and answers to requests that    *)
(* were given up may still arrive (lines 263-267, 320-322).                 *)
AnswersOwnCall ==
    \A c \in Callers :
        caller[c].for = "call" /\ caller[c].got \in Callers \union {"welcome"} =>
            caller[c].got = c

(* Whoever waits for an answer is still known to the client, and on a       *)
(* connection whose read loop will hear of the answer or of the end: the    *)
(* caller is never left to its timeout by a connection that has gone.       *)
NoAbandonedWaiter ==
    \A c \in Callers :
        caller[c].at \in {"draining", "waiting"} /\ caller[c].got = "nothing" =>
            caller[c].id \in pending /\ BeingRead(caller[c].conn)

(* Coroutines that find the client unconnected at the same time, and those  *)
(* that close it while others connect, leave no second connection open:     *)
(* each is the client's own or has been closed (lines 71-76, 155-164).      *)
NoLeakedConnection == \A k \in Conns : link[k] \in {"up", "hungup"} => writer = k

(* A request that is no plain read and carries no key is written at most    *)
(* once, whatever closes, restarts and retries meanwhile (lines 185-193).   *)
SentOnce == \A c \in Callers \ Retryable : sent[c] <= 1

(* The client never goes on working with a QGIS session it has not          *)
(* announced: every connection in use belongs to the session of the last    *)
(* bridge.reconnected, is still being greeted, or is one whose greeting was *)
(* cancelled, which no handler of connect catches (lines 135-153).          *)
SessionAnnounced ==
    writer # 0 =>
        \/ identity = sessionOf[writer]
        \/ writer \in abandoned
        \/ \E c \in Callers :
               /\ connectQueue # <<>> /\ Head(connectQueue) = c
               /\ caller[c].for = "hello" /\ caller[c].conn = writer

(* Every call comes to an end: with an answer, an error or its timeout. *)
EveryCallEnds == \A c \in Callers : caller[c].at = "attempt" ~> caller[c].at = "done"
=============================================================================
