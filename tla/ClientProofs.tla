----------------------------- MODULE ClientProofs -----------------------------
(***************************************************************************)
(* What the coroutines that share the connection to QGIS can rely on, for  *)
(* any number of them, of connections and of QGIS sessions.                *)
(***************************************************************************)
EXTENDS BridgeClient, SequenceTheorems, TLAPS

Members(queue) == {queue[i] : i \in 1..Len(queue)}
Once(queue) == \A i, j \in 1..Len(queue) : queue[i] = queue[j] => i = j

(* A lock's queue holds the coroutines that wait for it and, first, the one *)
(* that has it.                                                             *)
Connecting(c) == caller[c].at = "opening" \/ caller[c].for = "hello"
Writing(c) == caller[c].at \in {"write", "draining"}

ConnectLock ==
    /\ Once(connectQueue)
    /\ \A c \in Callers :
        /\ c \in Members(connectQueue) <=> caller[c].at = "connectLock" \/ Connecting(c)
        /\ Connecting(c) => Head(connectQueue) = c
WriteLock ==
    /\ Once(writeQueue)
    /\ \A c \in Callers :
        /\ c \in Members(writeQueue) <=> caller[c].at = "writeLock" \/ Writing(c)
        /\ Writing(c) => Head(writeQueue) = c

\* The places of a coroutine that greets QGIS, and those of one that does not.
Places ==
    \A c \in Callers :
        /\ caller[c].for = "hello" =>
             caller[c].at \in {"issue", "writeLock", "write", "waiting", "failed", "close",
                               "closing", "closed"}
        /\ caller[c].for = "hello" \/ caller[c].at \in {"draining", "waiting", "closing"} =>
             caller[c].conn # 0
        /\ caller[c].at \in {"ready", "attempt", "failed", "close", "closing", "closed",
                             "sleeping"} =>
             caller[c].got \notin Callers \union {"welcome"}

\* The client has no connection while one is opened, and keeps the one that is
\* being greeted, or none.
OneConnection ==
    /\ \A c \in Callers :
        /\ caller[c].at = "opening" => writer = 0
        /\ caller[c].for = "hello" => writer \in {0, caller[c].conn}
        /\ caller[c].for = "hello" /\ caller[c].at \in {"closing", "closed"} => writer = 0
    /\ writer # 0 => link[writer] \in {"up", "hungup"}

\* The requests with a future have numbers of their own.
Numbered(c) == caller[c].at \in {"writeLock", "write", "draining", "waiting"}
Numbers ==
    /\ \A c \in Callers : Numbered(c) => caller[c].id \in 1..sequence
    /\ \A c, d \in Callers :
        Numbered(c) /\ Numbered(d) /\ caller[c].id = caller[d].id => c = d
    /\ \A c \in Callers :
        Numbered(c) /\ caller[c].got = "nothing" => caller[c].id \in pending

\* A line and its answer are of the request that has their number.
Lines ==
    /\ \A l \in wire : l.id \in 1..sequence
    /\ \A r \in replies : r.id \in 1..sequence /\ r.what \in Callers \union {"welcome", "error"}
    /\ \A l \in wire, c \in Callers :
        l.for # "cancel" /\ Numbered(c) /\ caller[c].id = l.id =>
            l.by = c /\ l.for = caller[c].for
    /\ \A r \in replies, c \in Callers :
        Numbered(c) /\ caller[c].id = r.id =>
            /\ r.what \in Callers => r.what = c /\ caller[c].for = "call"
            /\ r.what = "welcome" => caller[c].for = "hello"

\* A request that may not be repeated does not go back once it is written.
WrittenOnce ==
    \A c \in Callers \ Retryable :
        \/ sent[c] = 0
        \/ /\ sent[c] = 1
           /\ caller[c].for = "call"
           /\ caller[c].at \in {"draining", "waiting", "failed", "done"}

\* The type of what is known of a coroutine.
Record ==
    [at : Stages, for : {"hello", "call"}, conn : Conns \union {0}, id : Nat, got : Outcome,
     retrying : BOOLEAN, late : BOOLEAN]

IInv ==
    /\ TypeOK /\ ConnectLock /\ WriteLock /\ Places /\ OneConnection /\ Numbers /\ Lines
    /\ AnswersOwnCall /\ NoAbandonedWaiter /\ NoLeakedConnection /\ WrittenOnce
    /\ SessionAnnounced

\* A coroutine joins a queue, its first leaves it, any one leaves it.
LEMMA AppendMembers ==
    ASSUME NEW S, NEW q \in Seq(S), NEW c \in S, Once(q), c \notin Members(q)
    PROVE  /\ Append(q, c) \in Seq(S) /\ Append(q, c) # <<>> /\ Once(Append(q, c))
           /\ Members(Append(q, c)) = Members(q) \union {c}
           /\ Head(Append(q, c)) = IF q = <<>> THEN c ELSE Head(q)
<1> DEFINE a == Append(q, c)
<1>1. /\ a \in Seq(S) /\ a # <<>> /\ Len(a) = Len(q) + 1 /\ a[Len(q) + 1] = c
      /\ \A i \in 1..Len(q) : a[i] = q[i]
  OBVIOUS
<1>2. Once(a)
  BY DEF Once, Members
<1>3. Members(a) = Members(q) \union {c}
  BY DEF Members
<1> QED BY <1>1, <1>2, <1>3

LEMMA TailMembers ==
    ASSUME NEW S, NEW q \in Seq(S), Once(q), NEW c \in Members(q), Head(q) = c
    PROVE  Tail(q) \in Seq(S) /\ Once(Tail(q)) /\ Members(Tail(q)) = Members(q) \ {c}
<1> DEFINE t == Tail(q)
<1>1. Len(q) \in Nat /\ q # <<>> /\ q[1] = c
  BY DEF Members
<1>2. t \in Seq(S) /\ Len(t) = Len(q) - 1 /\ \A i \in 1..Len(t) : t[i] = q[i + 1]
  BY <1>1
<1>3. Once(t)
  BY DEF Once
<1>4. Members(t) = Members(q) \ {c}
  <2>1. ASSUME NEW d \in Members(t) PROVE d \in Members(q) \ {c}
    BY DEF Members, Once
  <2>2. ASSUME NEW d \in Members(q), d # c PROVE d \in Members(t)
    <3>1. PICK i \in 1..Len(q) : q[i] = d
      BY DEF Members
    <3>2. i - 1 \in 1..Len(t) /\ t[i - 1] = d
      BY <2>2, <3>1
    <3> QED BY <3>2 DEF Members
  <2> QED BY <2>1, <2>2
<1> QED BY <1>2, <1>3, <1>4

LEMMA WithoutMembers ==
    ASSUME NEW S, NEW q \in Seq(S), NEW c, Once(q)
    PROVE  /\ Without(q, c) \in Seq(S) /\ Once(Without(q, c))
           /\ Members(Without(q, c)) = Members(q) \ {c}
           /\ q # <<>> /\ Head(q) # c =>
                Without(q, c) # <<>> /\ Head(Without(q, c)) = Head(q)
<1>1. CASE \A i \in 1..Len(q) : q[i] # c
  BY <1>1 DEF Without, Members
<1>2. CASE \E i \in 1..Len(q) : q[i] = c
  <2> DEFINE p == CHOOSE i \in 1..Len(q) : q[i] = c
             left == SubSeq(q, 1, p - 1)
             right == SubSeq(q, p + 1, Len(q))
             w == left \o right
  <2>1. p \in 1..Len(q) /\ q[p] = c /\ Len(q) \in Nat
    BY <1>2
  <2>2. Without(q, c) = w
    BY <1>2 DEF Without
  <2> HIDE DEF p
  <2>3. left \in Seq(S) /\ Len(left) = p - 1 /\ \A i \in 1..(p - 1) : left[i] = q[i]
    <3> QED BY <2>1
  <2>4. /\ right \in Seq(S) /\ Len(right) = Len(q) - p
        /\ \A i \in 1..(Len(q) - p) : right[i] = q[p + i]
    <3> QED BY <2>1
  <2>5. /\ w \in Seq(S) /\ Len(w) = Len(q) - 1
        /\ \A i \in 1..Len(w) : w[i] = IF i < p THEN q[i] ELSE q[i + 1]
    <3>1. /\ w \in Seq(S) /\ Len(w) = Len(left) + Len(right)
          /\ \A i \in 1..(Len(left) + Len(right)) :
                w[i] = IF i <= Len(left) THEN left[i] ELSE right[i - Len(left)]
      <4> HIDE DEF left, right
      <4> QED BY <2>3, <2>4, ConcatProperties
    <3> HIDE DEF left, right, w
    <3>2. ASSUME NEW i \in 1..Len(w) PROVE w[i] = IF i < p THEN q[i] ELSE q[i + 1]
      <4>1. CASE i < p
        <5> QED BY <2>1, <2>3, <3>1, <4>1
      <4>2. CASE i >= p
        <5>1. i - (p - 1) \in 1..(Len(q) - p) /\ p + (i - (p - 1)) = i + 1
          BY <2>1, <2>3, <2>4, <3>1, <4>2
        <5> QED BY <2>1, <2>3, <2>4, <3>1, <5>1
      <4> QED BY <2>1, <4>1, <4>2
    <3> QED BY <2>1, <2>3, <2>4, <3>1, <3>2
  <2> HIDE DEF w
  <2>6. Once(w)
    BY <2>1, <2>5 DEF Once
  <2>7. ASSUME NEW d \in Members(w) PROVE d \in Members(q) \ {c}
    BY <2>1, <2>5 DEF Members, Once
  <2>8. ASSUME NEW d \in Members(q), d # c PROVE d \in Members(w)
    <3>1. PICK i \in 1..Len(q) : q[i] = d
      BY DEF Members
    <3>2. CASE i < p
      <4>1. i \in 1..Len(w) /\ w[i] = d
        BY <2>1, <2>5, <3>1, <3>2
      <4> QED BY <4>1 DEF Members
    <3>3. CASE i > p
      <4>1. i - 1 \in 1..Len(w) /\ w[i - 1] = d
        BY <2>1, <2>5, <3>1, <3>3
      <4> QED BY <4>1 DEF Members
    <3> QED BY <2>1, <2>8, <3>1, <3>2, <3>3
  <2>9. ASSUME q # <<>>, Head(q) # c PROVE w # <<>> /\ Head(w) = Head(q)
    BY <2>1, <2>5, <2>9
  <2> QED BY <2>2, <2>5, <2>6, <2>7, <2>8, <2>9
<1> QED BY <1>1, <1>2

\* The first states.
LEMMA InitKeeps == Init => IInv
<1> SUFFICES ASSUME Init PROVE IInv
  OBVIOUS
<1>1. TypeOK
  BY ClientAssumption DEF Init, TypeOK, Awaits, Stages, Outcome, Results
<1>2. ConnectLock /\ WriteLock
  BY DEF Init, ConnectLock, WriteLock, Once, Members, Connecting, Writing
<1>3. Places /\ OneConnection /\ Numbers /\ Lines
  BY ClientAssumption DEF Init, Places, OneConnection, Numbers, Lines, Numbered, Results
<1>4. AnswersOwnCall /\ NoAbandonedWaiter /\ NoLeakedConnection /\ WrittenOnce
  BY ClientAssumption DEF Init, AnswersOwnCall, NoAbandonedWaiter, NoLeakedConnection,
     WrittenOnce, Results
<1>5. SessionAnnounced
  BY DEF Init, SessionAnnounced
<1> QED BY <1>1, <1>2, <1>3, <1>4, <1>5 DEF IInv

\* The sets of names a coroutine record is made of.
LEMMA Names ==
    /\ \A stage \in {"ready", "connectLock", "opening", "writeLock", "draining", "waiting",
           "closing", "sleeping", "done", "attempt", "issue", "write", "failed", "close",
           "closed"} : stage \in Stages
    /\ \A got \in {"nothing", "welcome", "unavailable", "error", "cancelled"} \union Callers :
           got \in Outcome
BY DEF Stages, Awaits, Outcome, Results

\* What the invariant asks of a coroutine c that goes on as r, when it has not
\* touched the network.
Fits(c, r) ==
    /\ r \in Record
    /\ r.for = "hello" =>
         /\ r.at \in {"issue", "writeLock", "write", "waiting", "failed", "close", "closing",
                      "closed"}
         /\ writer \in {0, r.conn}
         /\ r.at \in {"closing", "closed"} => writer = 0
    /\ r.at = "opening" => writer = 0
    /\ r.for = "hello" \/ r.at \in {"draining", "waiting", "closing"} => r.conn # 0
    /\ r.at \in {"ready", "attempt", "failed", "close", "closing", "closed", "sleeping"} =>
         r.got \notin Callers \union {"welcome"}
    /\ r.for = "call" /\ r.got \in Callers \union {"welcome"} => r.got = c
    /\ r.at \in {"writeLock", "write", "draining", "waiting"} =>
         /\ Numbered(c) /\ r.id = caller[c].id /\ r.for = caller[c].for
         /\ r.got = caller[c].got
    /\ r.at \in {"draining", "waiting"} /\ r.got = "nothing" => BeingRead(r.conn)
    /\ c \notin Retryable =>
         \/ sent[c] = 0
         \/ /\ sent[c] = 1 /\ r.for = "call"
            /\ r.at \in {"draining", "waiting", "failed", "done"}

\* A coroutine goes on, and all else that changes is its place in the queues.
LEMMA StepKeeps ==
    ASSUME IInv, NEW c \in Callers, NEW r, Fits(c, r),
           caller' = [caller EXCEPT ![c] = r],
           r.at \in Awaits <=> current' # c,
           current' = current \/ {current, current'} \subseteq {c, Nobody},
           connectQueue' \in Seq(Callers), writeQueue' \in Seq(Callers),
           identity' \in 0..MaxSessions,
           UNCHANGED <<writer, pending, sequence, cancels, sent, abandoned, link, sessionOf,
                       wire, replies, session, qgisUp, authenticated>>,
           ConnectLock', WriteLock', SessionAnnounced'
    PROVE  IInv'
<1>1. caller' \in [Callers -> Record]
  BY DEF IInv, TypeOK, Record, Fits
<1>2. (\A d \in Callers : caller[d].at \in Awaits <=> current # d)'
  BY ClientAssumption DEF IInv, TypeOK, Awaits
<1>3. TypeOK'
  BY <1>1, <1>2 DEF IInv, TypeOK, Record
<1>4. Places'
  BY DEF IInv, Places, Fits
<1>5. OneConnection'
  BY DEF IInv, OneConnection, Fits
<1>6. \A d \in Callers : Numbered(d)' =>
        /\ Numbered(d) /\ caller'[d].id = caller[d].id /\ caller'[d].for = caller[d].for
        /\ caller'[d].got = caller[d].got
  BY DEF Numbered, Fits
<1>7. Numbers' /\ Lines'
  BY <1>6 DEF IInv, Numbers, Lines
<1>8. AnswersOwnCall'
  BY DEF IInv, AnswersOwnCall, Fits
<1>9. NoAbandonedWaiter'
  <2>1. ASSUME NEW d \in Callers, caller'[d].at \in {"draining", "waiting"},
               caller'[d].got = "nothing"
        PROVE  caller'[d].id \in pending /\ BeingRead(caller'[d].conn)
    BY <2>1 DEF IInv, NoAbandonedWaiter, Numbers, Fits
  <2> QED BY <2>1 DEF NoAbandonedWaiter, BeingRead
<1>10. NoLeakedConnection'
  BY DEF IInv, NoLeakedConnection
<1>11. WrittenOnce'
  BY DEF IInv, WrittenOnce, Fits
<1> QED BY <1>3, <1>4, <1>5, <1>7, <1>8, <1>9, <1>10, <1>11 DEF IInv

\* A coroutine goes on where it holds, and waits for, what it did before.
LEMMA SameLocks ==
    ASSUME IInv, NEW c \in Callers, NEW r, caller' = [caller EXCEPT ![c] = r],
           UNCHANGED <<connectQueue, writeQueue, writer, identity, sessionOf, abandoned>>,
           r.for = caller[c].for, r.conn = caller[c].conn \/ r.for = "call",
           r.at = "opening" <=> caller[c].at = "opening",
           r.at = "connectLock" <=> caller[c].at = "connectLock",
           r.at = "writeLock" <=> caller[c].at = "writeLock",
           r.at \in {"write", "draining"} <=> Writing(c)
    PROVE  ConnectLock' /\ WriteLock' /\ SessionAnnounced'
<1>1. ConnectLock'
  BY DEF IInv, ConnectLock, Connecting
<1>2. WriteLock'
  BY DEF IInv, WriteLock, Writing
<1>3. SessionAnnounced'
  BY DEF IInv, SessionAnnounced
<1> QED BY <1>1, <1>2, <1>3

\* One lemma per step of a coroutine, in the order of call(): it begins, gets the
\* connect lock, opens or greets, writes, waits, and returns, fails or retries.
LEMMA BeginKeeps ==
    ASSUME IInv, NEW c \in Callers, Begin(c)
    PROVE  IInv'
<1> DEFINE r == [caller[c] EXCEPT !.at = "attempt"]
<1>1. /\ current = Nobody /\ caller[c].at = "ready"
      /\ caller' = [caller EXCEPT ![c] = r]
      /\ current' = c
      /\ UNCHANGED <<writer, pending, sequence, connectQueue, writeQueue, cancels, identity,
                     sent, abandoned, link, sessionOf, wire, replies, session, qgisUp,
                     authenticated>>
  BY DEF Begin, Runs, Goes, network, qgis
<1>2. caller[c] \in Record /\ "attempt" \in Stages
  BY Names DEF IInv, TypeOK, Record
<1>3. /\ r \in Record /\ r.at = "attempt" /\ r.for = caller[c].for /\ r.conn = caller[c].conn
      /\ r.id = caller[c].id /\ r.got = caller[c].got
  BY <1>2 DEF Record
<1> HIDE DEF r
<1>4. Fits(c, r)
  BY <1>1, <1>3, ClientAssumption DEF IInv, TypeOK, Fits, Places, OneConnection,
     AnswersOwnCall, NoAbandonedWaiter, BeingRead, WrittenOnce, Numbered, Results, Retries,
     ConnectLock, Connecting
<1>5. r.at \in Awaits <=> current' # c
  BY <1>1, <1>3 DEF Awaits
<1>6. ConnectLock' /\ WriteLock' /\ SessionAnnounced'
  BY <1>1, <1>3, SameLocks DEF Writing
<1>7. connectQueue' \in Seq(Callers) /\ writeQueue' \in Seq(Callers)
      /\ identity' \in 0..MaxSessions
  BY <1>1 DEF IInv, TypeOK
<1> QED BY <1>1, <1>4, <1>5, <1>6, <1>7, StepKeeps, ClientAssumption

LEMMA AttemptKeeps ==
    ASSUME IInv, NEW c \in Callers, Attempt(c)
    PROVE  IInv'
<1>1. CASE writer # 0
  <2> DEFINE r == [caller[c] EXCEPT !.at = "issue"]
  <2>1. /\ current = c /\ caller[c].at = "attempt" /\ writer # 0
        /\ caller' = [caller EXCEPT ![c] = r]
        /\ UNCHANGED <<current, writer, pending, sequence, connectQueue, writeQueue, cancels,
                       identity, sent, abandoned, link, sessionOf, wire, replies, session,
                       qgisUp, authenticated>>
    BY <1>1 DEF Attempt, Goes, network, qgis
  <2>2. caller[c] \in Record /\ "issue" \in Stages
    BY Names DEF IInv, TypeOK, Record
  <2>3. /\ r \in Record /\ r.at = "issue" /\ r.for = caller[c].for /\ r.conn = caller[c].conn
        /\ r.id = caller[c].id /\ r.got = caller[c].got
    BY <2>2 DEF Record
  <2> HIDE DEF r
  <2>4. Fits(c, r)
    BY <2>1, <2>3, ClientAssumption DEF IInv, TypeOK, Fits, Places, OneConnection,
       AnswersOwnCall, NoAbandonedWaiter, BeingRead, WrittenOnce, Numbered, Results, Retries,
       ConnectLock, Connecting
  <2>5. r.at \in Awaits <=> current' # c
    BY <2>1, <2>3 DEF Awaits
  <2>6. ConnectLock' /\ WriteLock' /\ SessionAnnounced'
    BY <2>1, <2>3, SameLocks DEF Writing
  <2>7. connectQueue' \in Seq(Callers) /\ writeQueue' \in Seq(Callers)
        /\ identity' \in 0..MaxSessions
    BY <2>1 DEF IInv, TypeOK
  <2> QED BY <2>1, <2>4, <2>5, <2>6, <2>7, StepKeeps, ClientAssumption
<1>2. CASE writer = 0
  <2> DEFINE r == [caller[c] EXCEPT !.at = IF connectQueue = <<>>
                                              THEN "opening" ELSE "connectLock"]
  <2>1. /\ current = c /\ caller[c].at = "attempt" /\ writer = 0
        /\ caller' = [caller EXCEPT ![c] = r]
        /\ current' = Nobody
        /\ connectQueue' = Append(connectQueue, c)
        /\ UNCHANGED <<writer, pending, sequence, writeQueue, cancels, identity, sent,
                       abandoned, link, sessionOf, wire, replies, session, qgisUp,
                       authenticated>>
    BY <1>2 DEF Attempt, Goes, Rests, network, qgis
  <2>2. connectQueue \in Seq(Callers) /\ Once(connectQueue) /\ c \notin Members(connectQueue)
    BY <2>1 DEF IInv, TypeOK, ConnectLock, Connecting, Writing, Places
  <2>3. /\ Append(connectQueue, c) \in Seq(Callers) /\ Append(connectQueue, c) # <<>>
        /\ Once(Append(connectQueue, c))
        /\ Members(Append(connectQueue, c)) = Members(connectQueue) \union {c}
        /\ Head(Append(connectQueue, c)) = IF connectQueue = <<>> THEN c ELSE Head(connectQueue)
    BY <2>2, AppendMembers
  <2>4. connectQueue = <<>> => Members(connectQueue) = {}
    BY DEF Members
  <2>5. caller[c] \in Record /\ "connectLock" \in Stages /\ "opening" \in Stages
    BY Names DEF IInv, TypeOK, Record
  <2>6. /\ r \in Record /\ r.at = (IF connectQueue = <<>> THEN "opening" ELSE "connectLock")
        /\ r.for = caller[c].for /\ r.conn = caller[c].conn
        /\ r.id = caller[c].id /\ r.got = caller[c].got
    BY <2>5 DEF Record
  <2> HIDE DEF r
  <2>7. Fits(c, r)
    BY <2>1, <2>6, ClientAssumption DEF IInv, TypeOK, Fits, Places, OneConnection,
       AnswersOwnCall, NoAbandonedWaiter, BeingRead, WrittenOnce, Numbered, Results, Retries,
       ConnectLock, Connecting
  <2>8. r.at \in Awaits <=> current' # c
    BY <2>1, <2>6, ClientAssumption DEF Awaits
  <2>9. /\ caller'[c] = r
        /\ \A d \in Callers \ {c} : caller'[d] = caller[d]
    BY <2>1 DEF IInv, TypeOK
  <2>10. ConnectLock'
    BY <2>1, <2>6, <2>9, <2>3, <2>4 DEF IInv, ConnectLock, Connecting
  <2>11. WriteLock'
    BY <2>1, <2>6 DEF IInv, WriteLock, Writing
  <2>12. SessionAnnounced'
    BY <2>1 DEF SessionAnnounced
  <2>13. connectQueue' \in Seq(Callers) /\ writeQueue' \in Seq(Callers)
         /\ identity' \in 0..MaxSessions
    BY <2>1 DEF IInv, TypeOK
  <2> QED BY <2>1, <2>7, <2>8, <2>10, <2>11, <2>12, <2>13, StepKeeps, ClientAssumption
<1> QED BY <1>1, <1>2

LEMMA ConnectLockGrantedKeeps ==
    ASSUME IInv, NEW c \in Callers, ConnectLockGranted(c)
    PROVE  IInv'
<1>1. CASE writer # 0
  <2> DEFINE r == [caller[c] EXCEPT !.at = "issue"]
  <2>1. /\ current = Nobody /\ caller[c].at = "connectLock" /\ Head(connectQueue) = c
        /\ writer # 0
        /\ caller' = [caller EXCEPT ![c] = r]
        /\ current' = c
        /\ connectQueue' = Tail(connectQueue)
        /\ UNCHANGED <<writer, pending, sequence, writeQueue, cancels, identity, sent,
                       abandoned, link, sessionOf, wire, replies, session, qgisUp,
                       authenticated>>
    BY <1>1 DEF ConnectLockGranted, Goes, Runs, network, qgis
  <2>2. /\ connectQueue \in Seq(Callers) /\ Once(connectQueue)
        /\ c \in Members(connectQueue) /\ Head(connectQueue) = c
    BY <2>1 DEF IInv, TypeOK, ConnectLock
  <2>3. /\ Tail(connectQueue) \in Seq(Callers) /\ Once(Tail(connectQueue))
        /\ Members(Tail(connectQueue)) = Members(connectQueue) \ {c}
    BY <2>2, TailMembers
  <2>4. caller[c] \in Record /\ "issue" \in Stages
    BY Names DEF IInv, TypeOK, Record
  <2>5. /\ r \in Record /\ r.at = "issue" /\ r.for = caller[c].for /\ r.conn = caller[c].conn
        /\ r.id = caller[c].id /\ r.got = caller[c].got
    BY <2>4 DEF Record
  <2> HIDE DEF r
  <2>6. Fits(c, r)
    BY <2>1, <2>5, ClientAssumption DEF IInv, TypeOK, Fits, Places, OneConnection,
       AnswersOwnCall, NoAbandonedWaiter, BeingRead, WrittenOnce, Numbered, Results, Retries,
       ConnectLock, Connecting
  <2>7. r.at \in Awaits <=> current' # c
    BY <2>1, <2>5 DEF Awaits
  <2>8. /\ caller'[c] = r
        /\ \A d \in Callers \ {c} : caller'[d] = caller[d]
    BY <2>1 DEF IInv, TypeOK
  <2>9. ConnectLock'
    BY <2>1, <2>5, <2>8, <2>3 DEF IInv, ConnectLock, Connecting, Places
  <2>10. WriteLock'
    BY <2>1, <2>5 DEF IInv, WriteLock, Writing
  <2>11. SessionAnnounced'
    BY <2>1 DEF IInv, SessionAnnounced, Places
  <2>12. connectQueue' \in Seq(Callers) /\ writeQueue' \in Seq(Callers)
         /\ identity' \in 0..MaxSessions
    BY <2>1, <2>3 DEF IInv, TypeOK
  <2> QED BY <2>1, <2>6, <2>7, <2>9, <2>10, <2>11, <2>12, StepKeeps, ClientAssumption
<1>2. CASE writer = 0
  <2> DEFINE r == [caller[c] EXCEPT !.at = "opening"]
  <2>1. /\ current = Nobody /\ caller[c].at = "connectLock" /\ Head(connectQueue) = c
        /\ writer = 0
        /\ caller' = [caller EXCEPT ![c] = r]
        /\ UNCHANGED <<current, writer, pending, sequence, connectQueue, writeQueue, cancels,
                       identity, sent, abandoned, link, sessionOf, wire, replies, session,
                       qgisUp, authenticated>>
    BY <1>2 DEF ConnectLockGranted, Goes, network, qgis
  <2>2. caller[c] \in Record /\ "opening" \in Stages
    BY Names DEF IInv, TypeOK, Record
  <2>3. /\ r \in Record /\ r.at = "opening" /\ r.for = caller[c].for /\ r.conn = caller[c].conn
        /\ r.id = caller[c].id /\ r.got = caller[c].got
    BY <2>2 DEF Record
  <2> HIDE DEF r
  <2>4. Fits(c, r)
    BY <2>1, <2>3, ClientAssumption DEF IInv, TypeOK, Fits, Places, OneConnection,
       AnswersOwnCall, NoAbandonedWaiter, BeingRead, WrittenOnce, Numbered, Results, Retries,
       ConnectLock, Connecting
  <2>5. r.at \in Awaits <=> current' # c
    BY <2>1, <2>3, ClientAssumption DEF Awaits
  <2>6. ConnectLock'
    BY <2>1, <2>3 DEF IInv, ConnectLock, Connecting
  <2>7. WriteLock'
    BY <2>1, <2>3 DEF IInv, WriteLock, Writing
  <2>8. SessionAnnounced'
    BY <2>1 DEF SessionAnnounced
  <2>9. connectQueue' \in Seq(Callers) /\ writeQueue' \in Seq(Callers)
        /\ identity' \in 0..MaxSessions
    BY <2>1 DEF IInv, TypeOK
  <2> QED BY <2>1, <2>4, <2>5, <2>6, <2>7, <2>8, <2>9, StepKeeps, ClientAssumption
<1> QED BY <1>1, <1>2

LEMMA RefusedKeeps ==
    ASSUME IInv, NEW c \in Callers, Refused(c)
    PROVE  IInv'
<1> DEFINE r == [caller[c] EXCEPT !.at = "failed", !.got = "unavailable"]
<1>1. /\ current = Nobody /\ caller[c].at = "opening"
      /\ caller' = [caller EXCEPT ![c] = r]
      /\ current' = c
      /\ connectQueue' = Tail(connectQueue)
      /\ UNCHANGED <<writer, pending, sequence, writeQueue, cancels, identity, sent, abandoned,
                     link, sessionOf, wire, replies, session, qgisUp, authenticated>>
  BY DEF Refused, network, qgis
<1>2. /\ connectQueue \in Seq(Callers) /\ Once(connectQueue) /\ c \in Members(connectQueue)
      /\ Head(connectQueue) = c
  BY <1>1 DEF IInv, TypeOK, ConnectLock, Connecting
<1>3. /\ Tail(connectQueue) \in Seq(Callers) /\ Once(Tail(connectQueue))
      /\ Members(Tail(connectQueue)) = Members(connectQueue) \ {c}
  BY <1>2, TailMembers
<1>4. caller[c] \in Record /\ "failed" \in Stages /\ "unavailable" \in Outcome
  BY Names DEF IInv, TypeOK, Record
<1>5. /\ r \in Record /\ r.at = "failed" /\ r.for = caller[c].for /\ r.conn = caller[c].conn
      /\ r.id = caller[c].id /\ r.got = "unavailable"
  BY <1>4 DEF Record
<1> HIDE DEF r
<1>6. Fits(c, r)
  BY <1>5, ClientAssumption DEF IInv, Fits, Places, OneConnection, WrittenOnce, Results
<1>7. r.at \in Awaits <=> current' # c
  BY <1>1, <1>5 DEF Awaits
<1>8. /\ caller'[c] = r
      /\ \A d \in Callers \ {c} : caller'[d] = caller[d]
  BY <1>1 DEF IInv, TypeOK
<1>9. ConnectLock'
  BY <1>1, <1>5, <1>8, <1>3 DEF IInv, ConnectLock, Connecting, Places
<1>10. WriteLock'
  BY <1>1, <1>5 DEF IInv, WriteLock, Writing
<1>11. SessionAnnounced'
  BY <1>1 DEF IInv, SessionAnnounced, OneConnection
<1>12. connectQueue' \in Seq(Callers) /\ writeQueue' \in Seq(Callers)
       /\ identity' \in 0..MaxSessions
  BY <1>1, <1>3 DEF IInv, TypeOK
<1> QED BY <1>1, <1>6, <1>7, <1>9, <1>10, <1>11, <1>12, StepKeeps, ClientAssumption

LEMMA IssueKeeps ==
    ASSUME IInv, NEW c \in Callers, Issue(c)
    PROVE  IInv'
<1> DEFINE r == [caller[c] EXCEPT !.at = IF writeQueue = <<>> THEN "write" ELSE "writeLock",
                                  !.id = sequence + 1, !.got = "nothing"]
<1>1. /\ current = c /\ caller[c].at = "issue" /\ writer # 0
      /\ caller' = [caller EXCEPT ![c] = r]
      /\ current' = IF writeQueue = <<>> THEN c ELSE Nobody
      /\ pending' = pending \union {sequence + 1}
      /\ sequence' = sequence + 1
      /\ writeQueue' = Append(writeQueue, c)
      /\ UNCHANGED <<writer, connectQueue, cancels, identity, sent, abandoned, link, sessionOf,
                     wire, replies, session, qgisUp, authenticated>>
  BY DEF Issue, NextNumber, network, qgis
<1>2. writeQueue \in Seq(Callers) /\ Once(writeQueue) /\ c \notin Members(writeQueue)
  BY <1>1 DEF IInv, TypeOK, WriteLock, Connecting, Writing, Places
<1>3. /\ Append(writeQueue, c) \in Seq(Callers) /\ Append(writeQueue, c) # <<>>
      /\ Once(Append(writeQueue, c))
      /\ Members(Append(writeQueue, c)) = Members(writeQueue) \union {c}
      /\ Head(Append(writeQueue, c)) = IF writeQueue = <<>> THEN c ELSE Head(writeQueue)
  BY <1>2, AppendMembers
<1>4. writeQueue = <<>> => Members(writeQueue) = {}
  BY DEF Members
<1>5. /\ caller[c] \in Record /\ sequence + 1 \in Nat /\ "write" \in Stages
      /\ "writeLock" \in Stages /\ "nothing" \in Outcome
  BY Names DEF IInv, TypeOK, Record
<1>6. /\ r \in Record /\ r.at = (IF writeQueue = <<>> THEN "write" ELSE "writeLock")
      /\ r.for = caller[c].for /\ r.conn = caller[c].conn
      /\ r.id = sequence + 1 /\ r.got = "nothing"
  BY <1>5 DEF Record
<1> HIDE DEF r
<1>7. /\ caller'[c] = r
      /\ \A d \in Callers \ {c} : caller'[d] = caller[d]
  BY <1>1 DEF IInv, TypeOK
<1>8. caller' \in [Callers -> Record]
  BY <1>1, <1>6 DEF IInv, TypeOK, Record
<1>9. (\A d \in Callers : caller[d].at \in Awaits <=> current # d)'
  BY <1>1, <1>6, ClientAssumption DEF IInv, TypeOK, Awaits
<1>10. TypeOK'
  <2>1. sequence' \in Nat /\ pending' \subseteq 1..sequence' /\ cancels' \subseteq 1..sequence'
    BY <1>1 DEF IInv, TypeOK
  <2>2. writeQueue' \in Seq(Callers) /\ current' \in Callers \union {Nobody}
    BY <1>1, <1>3
  <2> QED BY <1>1, <1>8, <1>9, <2>1, <2>2 DEF IInv, TypeOK, Record
<1>11. ConnectLock'
  BY <1>1, <1>6 DEF IInv, ConnectLock, Connecting
<1>12. WriteLock'
  <2>1. Once(writeQueue') /\ Members(writeQueue') = Members(writeQueue) \union {c}
    BY <1>1, <1>3
  <2>2. \A d \in Callers \ {c} : Writing(d) => Head(writeQueue') = d
    BY <1>1, <1>4 DEF IInv, WriteLock
  <2>3. r.at = "write" => Head(writeQueue') = c
    BY <1>1, <1>6
  <2> QED BY <1>6, <1>7, <2>1, <2>2, <2>3 DEF IInv, WriteLock, Writing
<1>13. Places'
  BY <1>1, <1>6 DEF IInv, Places
<1>14. OneConnection'
  BY <1>1, <1>6 DEF IInv, OneConnection
<1>15. Numbers'
  <2>1. sequence \in Nat /\ \A d \in Callers : Numbered(d) => caller[d].id \in 1..sequence
    BY DEF IInv, TypeOK, Numbers
  <2> QED BY <1>1, <1>6, <2>1 DEF IInv, Numbers, Numbered
<1>16. Lines'
  <2>1. sequence \in Nat /\ \A l \in wire \union replies : l.id \in 1..sequence
    BY DEF IInv, TypeOK, Lines
  <2> QED BY <1>1, <1>6, <2>1 DEF IInv, Lines, Numbered
<1>17. AnswersOwnCall'
  BY <1>1, <1>6, ClientAssumption DEF IInv, AnswersOwnCall, Results
<1>18. NoAbandonedWaiter'
  BY <1>1, <1>6 DEF IInv, NoAbandonedWaiter, BeingRead
<1>19. NoLeakedConnection'
  BY <1>1 DEF IInv, NoLeakedConnection
<1>20. WrittenOnce'
  BY <1>1 DEF IInv, WrittenOnce
<1>21. SessionAnnounced'
  BY <1>1, <1>6 DEF IInv, SessionAnnounced
<1> QED BY <1>10, <1>11, <1>12, <1>13, <1>14, <1>15, <1>16, <1>17, <1>18, <1>19, <1>20, <1>21
   DEF IInv

LEMMA IssueUnconnectedKeeps ==
    ASSUME IInv, NEW c \in Callers, IssueUnconnected(c)
    PROVE  IInv'
<1> DEFINE r == [caller[c] EXCEPT !.at = "failed", !.got = "unavailable"]
<1>1. /\ current = c /\ caller[c].at = "issue" /\ writer = 0
      /\ caller' = [caller EXCEPT ![c] = r]
      /\ UNCHANGED <<current, writer, pending, sequence, connectQueue, writeQueue, cancels,
                     identity, sent, abandoned, link, sessionOf, wire, replies, session,
                     qgisUp, authenticated>>
  BY DEF IssueUnconnected, network, qgis
<1>2. caller[c] \in Record /\ "failed" \in Stages /\ "unavailable" \in Outcome
  BY Names DEF IInv, TypeOK, Record
<1>3. /\ r \in Record /\ r.at = "failed" /\ r.for = caller[c].for /\ r.conn = caller[c].conn
      /\ r.id = caller[c].id /\ r.got = "unavailable"
  BY <1>2 DEF Record
<1> HIDE DEF r
<1>4. Fits(c, r)
  BY <1>1, <1>3, ClientAssumption DEF IInv, Fits, Places, WrittenOnce, Results
<1>5. r.at \in Awaits <=> current' # c
  BY <1>1, <1>3 DEF Awaits
<1>6. ConnectLock' /\ WriteLock' /\ SessionAnnounced'
  BY <1>1, <1>3, SameLocks DEF Writing
<1>7. connectQueue' \in Seq(Callers) /\ writeQueue' \in Seq(Callers)
      /\ identity' \in 0..MaxSessions
  BY <1>1 DEF IInv, TypeOK
<1> QED BY <1>1, <1>4, <1>5, <1>6, <1>7, StepKeeps, ClientAssumption

LEMMA WriteLockGrantedKeeps ==
    ASSUME IInv, NEW c \in Callers, WriteLockGranted(c)
    PROVE  IInv'
<1> DEFINE r == [caller[c] EXCEPT !.at = "write"]
<1>1. /\ current = Nobody /\ caller[c].at = "writeLock" /\ Head(writeQueue) = c
      /\ caller' = [caller EXCEPT ![c] = r]
      /\ current' = c
      /\ UNCHANGED <<writer, pending, sequence, connectQueue, writeQueue, cancels, identity,
                     sent, abandoned, link, sessionOf, wire, replies, session, qgisUp,
                     authenticated>>
  BY DEF WriteLockGranted, Runs, Goes, network, qgis
<1>2. caller[c] \in Record /\ "write" \in Stages
  BY Names DEF IInv, TypeOK, Record
<1>3. /\ r \in Record /\ r.at = "write" /\ r.for = caller[c].for /\ r.conn = caller[c].conn
      /\ r.id = caller[c].id /\ r.got = caller[c].got
  BY <1>2 DEF Record
<1> HIDE DEF r
<1>4. Fits(c, r)
  BY <1>1, <1>3, ClientAssumption DEF IInv, TypeOK, Fits, Places, OneConnection,
     AnswersOwnCall, WrittenOnce, Numbered
<1>5. r.at \in Awaits <=> current' # c
  BY <1>1, <1>3 DEF Awaits
<1>6. ConnectLock'
  BY <1>1, <1>3 DEF IInv, ConnectLock, Connecting
<1>7. WriteLock'
  BY <1>1, <1>3 DEF IInv, WriteLock, Writing
<1>8. SessionAnnounced'
  BY <1>1, <1>3 DEF IInv, SessionAnnounced
<1>9. connectQueue' \in Seq(Callers) /\ writeQueue' \in Seq(Callers)
      /\ identity' \in 0..MaxSessions
  BY <1>1 DEF IInv, TypeOK
<1> QED BY <1>1, <1>4, <1>5, <1>6, <1>7, <1>8, <1>9, StepKeeps, ClientAssumption

LEMMA WriteKeeps ==
    ASSUME IInv, NEW c \in Callers, Write(c)
    PROVE  IInv'
<1>1. CASE /\ caller' = [caller EXCEPT ![c] = [caller[c] EXCEPT !.at = "waiting", !.conn = writer]]
           /\ writeQueue' = Tail(writeQueue)
  <2> DEFINE r == [caller[c] EXCEPT !.at = "waiting", !.conn = writer]
  <2>1. /\ current = c /\ caller[c].at = "write" /\ writer # 0
        /\ caller' = [caller EXCEPT ![c] = r]
        /\ current' = Nobody
        /\ writeQueue' = Tail(writeQueue)
        /\ sent' = [sent EXCEPT ![c] = IF caller[c].for = "call" THEN @ + 1 ELSE @]
        /\ wire' = IF link[writer] = "up"
                      THEN wire \union {[conn |-> writer, id |-> caller[c].id, by |-> c,
                                      for |-> caller[c].for]}
                      ELSE wire
        /\ UNCHANGED <<writer, pending, sequence, connectQueue, cancels, identity, abandoned,
                       link, sessionOf, replies, session, qgisUp, authenticated>>
    BY <1>1 DEF Write, qgis
  <2>2. /\ writeQueue \in Seq(Callers) /\ Once(writeQueue) /\ c \in Members(writeQueue)
        /\ Head(writeQueue) = c
    BY <2>1 DEF IInv, TypeOK, WriteLock, Writing
  <2>3. /\ Tail(writeQueue) \in Seq(Callers) /\ Once(Tail(writeQueue))
        /\ Members(Tail(writeQueue)) = Members(writeQueue) \ {c}
    BY <2>2, TailMembers
  <2>4. caller[c] \in Record /\ writer \in Conns /\ "waiting" \in Stages
    BY <2>1, Names DEF IInv, TypeOK, Record
  <2>5. /\ r \in Record /\ r.at = "waiting" /\ r.for = caller[c].for /\ r.conn = writer
        /\ r.id = caller[c].id /\ r.got = caller[c].got
    BY <2>4 DEF Record
  <2> HIDE DEF r
  <2>6. /\ caller'[c] = r
        /\ \A d \in Callers \ {c} : caller'[d] = caller[d]
    BY <2>1 DEF IInv, TypeOK
  <2>7. caller' \in [Callers -> Record]
    BY <2>1, <2>5 DEF IInv, TypeOK, Record
  <2>8. (\A d \in Callers : caller[d].at \in Awaits <=> current # d)'
    BY <2>1, <2>5, ClientAssumption DEF IInv, TypeOK, Awaits
  <2>9. TypeOK'
    <3>1. wire' \subseteq Line({"hello", "call"}, Callers) \union Line({"cancel"}, {Nobody})
      BY <2>1 DEF IInv, TypeOK, Line
    <3>2. sent' \in [Callers -> Nat] /\ current' \in Callers \union {Nobody}
      BY <2>1 DEF IInv, TypeOK
    <3> QED BY <2>1, <2>2, <2>3, <2>7, <2>8, <3>1, <3>2 DEF IInv, TypeOK, Record
  <2>10. ConnectLock'
    BY <2>1, <2>5 DEF IInv, ConnectLock, Connecting
  <2>11. WriteLock'
    BY <2>1, <2>5, <2>6, <2>3 DEF IInv, WriteLock, Writing
  <2>12. Places'
    BY <2>1, <2>5 DEF IInv, Places
  <2>13. OneConnection'
    BY <2>1, <2>5 DEF IInv, OneConnection
  <2>14. Numbers'
    BY <2>1, <2>5 DEF IInv, Numbers, Numbered
  <2>15. Lines'
    BY <2>1, <2>5 DEF IInv, Lines, Numbered, Numbers
  <2>16. AnswersOwnCall'
    BY <2>1, <2>5 DEF IInv, AnswersOwnCall
  <2>17. NoAbandonedWaiter'
    BY <2>1, <2>5 DEF IInv, NoAbandonedWaiter, Numbers, Numbered, BeingRead, OneConnection
  <2>18. NoLeakedConnection'
    BY <2>1 DEF IInv, NoLeakedConnection
  <2>19. WrittenOnce'
    BY <2>1, <2>5, <2>6 DEF IInv, WrittenOnce
  <2>20. SessionAnnounced'
    BY <2>1, <2>5 DEF IInv, SessionAnnounced
  <2> QED BY <2>9, <2>10, <2>11, <2>12, <2>13, <2>14, <2>15, <2>16, <2>17, <2>18, <2>19, <2>20
     DEF IInv
<1>2. CASE /\ caller[c].for = "call"
           /\ caller' = [caller EXCEPT ![c] = [caller[c] EXCEPT !.at = "draining", !.conn = writer]]
           /\ UNCHANGED writeQueue
  <2> DEFINE r == [caller[c] EXCEPT !.at = "draining", !.conn = writer]
  <2>1. /\ current = c /\ caller[c].at = "write" /\ writer # 0 /\ caller[c].for = "call"
        /\ caller' = [caller EXCEPT ![c] = r]
        /\ current' = Nobody
        /\ sent' = [sent EXCEPT ![c] = IF caller[c].for = "call" THEN @ + 1 ELSE @]
        /\ wire' = IF link[writer] = "up"
                      THEN wire \union {[conn |-> writer, id |-> caller[c].id, by |-> c,
                                      for |-> caller[c].for]}
                      ELSE wire
        /\ UNCHANGED <<writer, pending, sequence, connectQueue, writeQueue, cancels, identity,
                       abandoned, link, sessionOf, replies, session, qgisUp, authenticated>>
    BY <1>2 DEF Write, qgis
  <2>2. caller[c] \in Record /\ writer \in Conns /\ "draining" \in Stages
    BY <2>1, Names DEF IInv, TypeOK, Record
  <2>3. /\ r \in Record /\ r.at = "draining" /\ r.for = caller[c].for /\ r.conn = writer
        /\ r.id = caller[c].id /\ r.got = caller[c].got
    BY <2>2 DEF Record
  <2> HIDE DEF r
  <2>4. /\ caller'[c] = r
        /\ \A d \in Callers \ {c} : caller'[d] = caller[d]
    BY <2>1 DEF IInv, TypeOK
  <2>5. caller' \in [Callers -> Record]
    BY <2>1, <2>3 DEF IInv, TypeOK, Record
  <2>6. (\A d \in Callers : caller[d].at \in Awaits <=> current # d)'
    BY <2>1, <2>3, ClientAssumption DEF IInv, TypeOK, Awaits
  <2>7. TypeOK'
    <3>1. wire' \subseteq Line({"hello", "call"}, Callers) \union Line({"cancel"}, {Nobody})
      BY <2>1 DEF IInv, TypeOK, Line
    <3>2. sent' \in [Callers -> Nat] /\ current' \in Callers \union {Nobody}
      BY <2>1 DEF IInv, TypeOK
    <3> QED BY <2>1, <2>5, <2>6, <3>1, <3>2 DEF IInv, TypeOK, Record
  <2>8. ConnectLock'
    BY <2>1, <2>3 DEF IInv, ConnectLock, Connecting
  <2>9. WriteLock'
    BY <2>1, <2>3 DEF IInv, WriteLock, Writing
  <2>10. Places'
    BY <2>1, <2>3 DEF IInv, Places
  <2>11. OneConnection'
    BY <2>1, <2>3 DEF IInv, OneConnection
  <2>12. Numbers'
    BY <2>1, <2>3 DEF IInv, Numbers, Numbered
  <2>13. Lines'
    BY <2>1, <2>3 DEF IInv, Lines, Numbered, Numbers
  <2>14. AnswersOwnCall'
    BY <2>1, <2>3 DEF IInv, AnswersOwnCall
  <2>15. NoAbandonedWaiter'
    BY <2>1, <2>3 DEF IInv, NoAbandonedWaiter, Numbers, Numbered, BeingRead, OneConnection
  <2>16. NoLeakedConnection'
    BY <2>1 DEF IInv, NoLeakedConnection
  <2>17. WrittenOnce'
    BY <2>1, <2>3, <2>4 DEF IInv, WrittenOnce
  <2>18. SessionAnnounced'
    BY <2>1 DEF IInv, SessionAnnounced
  <2> QED BY <2>7, <2>8, <2>9, <2>10, <2>11, <2>12, <2>13, <2>14, <2>15, <2>16, <2>17, <2>18
     DEF IInv
<1> QED BY <1>1, <1>2 DEF Write

LEMMA WriteToNoneKeeps ==
    ASSUME IInv, NEW c \in Callers, WriteToNone(c)
    PROVE  IInv'
<1> DEFINE r == [caller[c] EXCEPT !.at = "failed", !.got = "error"]
<1>1. /\ current = c /\ caller[c].at = "write" /\ writer = 0
      /\ caller' = [caller EXCEPT ![c] = r]
      /\ writeQueue' = Tail(writeQueue)
      /\ UNCHANGED <<current, writer, pending, sequence, connectQueue, cancels, identity, sent,
                     abandoned, link, sessionOf, wire, replies, session, qgisUp, authenticated>>
  BY DEF WriteToNone, network, qgis
<1>2. /\ writeQueue \in Seq(Callers) /\ Once(writeQueue) /\ c \in Members(writeQueue)
      /\ Head(writeQueue) = c
  BY <1>1 DEF IInv, TypeOK, WriteLock, Writing
<1>3. /\ Tail(writeQueue) \in Seq(Callers) /\ Once(Tail(writeQueue))
      /\ Members(Tail(writeQueue)) = Members(writeQueue) \ {c}
  BY <1>2, TailMembers
<1>4. caller[c] \in Record /\ "failed" \in Stages /\ "error" \in Outcome
  BY Names DEF IInv, TypeOK, Record
<1>5. /\ r \in Record /\ r.at = "failed" /\ r.for = caller[c].for /\ r.conn = caller[c].conn
      /\ r.id = caller[c].id /\ r.got = "error"
  BY <1>4 DEF Record
<1> HIDE DEF r
<1>6. Fits(c, r)
  BY <1>1, <1>5, ClientAssumption DEF IInv, Fits, Places, WrittenOnce, Results
<1>7. r.at \in Awaits <=> current' # c
  BY <1>1, <1>5 DEF Awaits
<1>8. /\ caller'[c] = r
      /\ \A d \in Callers \ {c} : caller'[d] = caller[d]
  BY <1>1 DEF IInv, TypeOK
<1>9. ConnectLock'
  BY <1>1, <1>5 DEF IInv, ConnectLock, Connecting
<1>10. WriteLock'
  BY <1>1, <1>5, <1>8, <1>3 DEF IInv, WriteLock, Writing
<1>11. SessionAnnounced'
  BY <1>1 DEF SessionAnnounced
<1>12. connectQueue' \in Seq(Callers) /\ writeQueue' \in Seq(Callers)
       /\ identity' \in 0..MaxSessions
  BY <1>1, <1>3 DEF IInv, TypeOK
<1> QED BY <1>1, <1>6, <1>7, <1>9, <1>10, <1>11, <1>12, StepKeeps, ClientAssumption

LEMMA DrainedKeeps ==
    ASSUME IInv, NEW c \in Callers, Drained(c)
    PROVE  IInv'
<1>1. CASE Goes(c, "waiting") /\ UNCHANGED current /\ link[caller[c].conn] \in {"up", "closing"}
  <2> DEFINE r == [caller[c] EXCEPT !.at = "waiting"]
  <2>1. /\ current = Nobody /\ caller[c].at = "draining"
        /\ link[caller[c].conn] \in {"up", "closing"}
        /\ caller' = [caller EXCEPT ![c] = r]
        /\ writeQueue' = Tail(writeQueue)
        /\ UNCHANGED <<current, writer, pending, sequence, connectQueue, cancels, identity,
                       sent, abandoned, link, sessionOf, wire, replies, session, qgisUp,
                       authenticated>>
    BY <1>1 DEF Drained, Goes, network, qgis
  <2>2. /\ writeQueue \in Seq(Callers) /\ Once(writeQueue) /\ c \in Members(writeQueue)
        /\ Head(writeQueue) = c
    BY <2>1 DEF IInv, TypeOK, WriteLock, Writing
  <2>3. /\ Tail(writeQueue) \in Seq(Callers) /\ Once(Tail(writeQueue))
        /\ Members(Tail(writeQueue)) = Members(writeQueue) \ {c}
    BY <2>2, TailMembers
  <2>4. caller[c] \in Record /\ "waiting" \in Stages
    BY Names DEF IInv, TypeOK, Record
  <2>5. /\ r \in Record /\ r.at = "waiting" /\ r.for = caller[c].for /\ r.conn = caller[c].conn
        /\ r.id = caller[c].id /\ r.got = caller[c].got
    BY <2>4 DEF Record
  <2> HIDE DEF r
  <2>6. Fits(c, r)
    BY <2>1, <2>5 DEF IInv, Fits, Places, OneConnection, AnswersOwnCall, NoAbandonedWaiter,
       WrittenOnce, Numbered
  <2>7. r.at \in Awaits <=> current' # c
    BY <2>1, <2>5, ClientAssumption DEF Awaits
  <2>8. /\ caller'[c] = r
        /\ \A d \in Callers \ {c} : caller'[d] = caller[d]
    BY <2>1 DEF IInv, TypeOK
  <2>9. ConnectLock'
    BY <2>1, <2>5 DEF IInv, ConnectLock, Connecting
  <2>10. WriteLock'
    BY <2>1, <2>5, <2>8, <2>3 DEF IInv, WriteLock, Writing
  <2>11. SessionAnnounced'
    BY <2>1, <2>5 DEF IInv, SessionAnnounced
  <2>12. connectQueue' \in Seq(Callers) /\ writeQueue' \in Seq(Callers)
         /\ identity' \in 0..MaxSessions
    BY <2>1, <2>3 DEF IInv, TypeOK
  <2> QED BY <2>1, <2>6, <2>7, <2>9, <2>10, <2>11, <2>12, StepKeeps, ClientAssumption
<1>2. CASE /\ caller' = [caller EXCEPT ![c] = [caller[c] EXCEPT !.at = "failed", !.got = "error"]]
           /\ current' = c
  <2> DEFINE r == [caller[c] EXCEPT !.at = "failed", !.got = "error"]
  <2>1. /\ current = Nobody /\ caller[c].at = "draining"
        /\ caller' = [caller EXCEPT ![c] = r]
        /\ current' = c
        /\ writeQueue' = Tail(writeQueue)
        /\ UNCHANGED <<writer, pending, sequence, connectQueue, cancels, identity, sent,
                       abandoned, link, sessionOf, wire, replies, session, qgisUp,
                       authenticated>>
    BY <1>2 DEF Drained, network, qgis
  <2>2. /\ writeQueue \in Seq(Callers) /\ Once(writeQueue) /\ c \in Members(writeQueue)
        /\ Head(writeQueue) = c
    BY <2>1 DEF IInv, TypeOK, WriteLock, Writing
  <2>3. /\ Tail(writeQueue) \in Seq(Callers) /\ Once(Tail(writeQueue))
        /\ Members(Tail(writeQueue)) = Members(writeQueue) \ {c}
    BY <2>2, TailMembers
  <2>4. caller[c] \in Record /\ "failed" \in Stages /\ "error" \in Outcome
    BY Names DEF IInv, TypeOK, Record
  <2>5. /\ r \in Record /\ r.at = "failed" /\ r.for = caller[c].for /\ r.conn = caller[c].conn
        /\ r.id = caller[c].id /\ r.got = "error"
    BY <2>4 DEF Record
  <2> HIDE DEF r
  <2>6. Fits(c, r)
    BY <2>5, ClientAssumption DEF IInv, Fits, Places, OneConnection, WrittenOnce, Results
  <2>7. r.at \in Awaits <=> current' # c
    BY <2>1, <2>5 DEF Awaits
  <2>8. /\ caller'[c] = r
        /\ \A d \in Callers \ {c} : caller'[d] = caller[d]
    BY <2>1 DEF IInv, TypeOK
  <2>9. ConnectLock'
    BY <2>1, <2>5 DEF IInv, ConnectLock, Connecting
  <2>10. WriteLock'
    BY <2>1, <2>5, <2>8, <2>3 DEF IInv, WriteLock, Writing
  <2>11. SessionAnnounced'
    BY <2>1, <2>5 DEF IInv, SessionAnnounced
  <2>12. connectQueue' \in Seq(Callers) /\ writeQueue' \in Seq(Callers)
         /\ identity' \in 0..MaxSessions
    BY <2>1, <2>3 DEF IInv, TypeOK
  <2> QED BY <2>1, <2>6, <2>7, <2>9, <2>10, <2>11, <2>12, StepKeeps, ClientAssumption
<1> QED BY <1>1, <1>2 DEF Drained

LEMMA AnsweredKeeps ==
    ASSUME IInv, NEW c \in Callers, Answered(c)
    PROVE  IInv'
<1> DEFINE r == Over(caller[c].got)
<1>1. /\ current = Nobody /\ caller[c].at = "waiting" /\ caller[c].for = "call"
      /\ caller' = [caller EXCEPT ![c] = r]
      /\ current' = Nobody
      /\ UNCHANGED <<writer, pending, sequence, connectQueue, writeQueue, cancels, identity,
                     sent, abandoned, link, sessionOf, wire, replies, session, qgisUp,
                     authenticated>>
  BY DEF Answered, Ends, network, qgis
<1>2. caller[c] \in Record /\ "done" \in Stages
  BY Names DEF IInv, TypeOK, Record
<1>3. /\ r \in Record /\ r.at = "done" /\ r.for = "call" /\ r.got = caller[c].got
  BY <1>2 DEF Record, Over
<1> HIDE DEF r
<1>4. Fits(c, r)
  BY <1>1, <1>3 DEF IInv, Fits, AnswersOwnCall, WrittenOnce
<1>5. r.at \in Awaits <=> current' # c
  BY <1>1, <1>3, ClientAssumption DEF Awaits
<1>6. ConnectLock' /\ WriteLock' /\ SessionAnnounced'
  BY <1>1, <1>3, SameLocks DEF Writing
<1>7. connectQueue' \in Seq(Callers) /\ writeQueue' \in Seq(Callers)
      /\ identity' \in 0..MaxSessions
  BY <1>1 DEF IInv, TypeOK
<1> QED BY <1>1, <1>4, <1>5, <1>6, <1>7, StepKeeps, ClientAssumption

LEMMA WelcomedKeeps ==
    ASSUME IInv, NEW c \in Callers, Welcomed(c)
    PROVE  IInv'
<1> DEFINE r == [caller[c] EXCEPT !.at = "issue", !.for = "call", !.got = "nothing"]
<1>1. /\ current = Nobody /\ caller[c].at = "waiting" /\ caller[c].for = "hello"
      /\ caller' = [caller EXCEPT ![c] = r]
      /\ current' = c
      /\ connectQueue' = Tail(connectQueue)
      /\ identity' = sessionOf[caller[c].conn]
      /\ UNCHANGED <<writer, pending, sequence, writeQueue, cancels, sent, abandoned, link,
                     sessionOf, wire, replies, session, qgisUp, authenticated>>
  BY DEF Welcomed, NewIdentity, network, qgis
<1>2. /\ connectQueue \in Seq(Callers) /\ Once(connectQueue) /\ c \in Members(connectQueue)
      /\ Head(connectQueue) = c
  BY <1>1 DEF IInv, TypeOK, ConnectLock, Connecting
<1>3. /\ Tail(connectQueue) \in Seq(Callers) /\ Once(Tail(connectQueue))
      /\ Members(Tail(connectQueue)) = Members(connectQueue) \ {c}
  BY <1>2, TailMembers
<1>4. caller[c] \in Record /\ "issue" \in Stages /\ "nothing" \in Outcome
  BY Names DEF IInv, TypeOK, Record
<1>5. /\ r \in Record /\ r.at = "issue" /\ r.for = "call" /\ r.conn = caller[c].conn
      /\ r.id = caller[c].id /\ r.got = "nothing"
  BY <1>4 DEF Record
<1> HIDE DEF r
<1>6. Fits(c, r)
  BY <1>1, <1>5, ClientAssumption DEF IInv, Fits, WrittenOnce, Results
<1>7. r.at \in Awaits <=> current' # c
  BY <1>1, <1>5 DEF Awaits
<1>8. /\ caller'[c] = r
      /\ \A d \in Callers \ {c} : caller'[d] = caller[d]
  BY <1>1 DEF IInv, TypeOK
<1>9. ConnectLock'
  BY <1>1, <1>5, <1>8, <1>3 DEF IInv, ConnectLock, Connecting
<1>10. WriteLock'
  BY <1>1, <1>5 DEF IInv, WriteLock, Writing
<1>11. SessionAnnounced'
  BY <1>1 DEF IInv, SessionAnnounced, OneConnection
<1>12. connectQueue' \in Seq(Callers) /\ writeQueue' \in Seq(Callers)
       /\ identity' \in 0..MaxSessions
  BY <1>1, <1>3 DEF IInv, TypeOK, Places
<1> QED BY <1>1, <1>6, <1>7, <1>9, <1>10, <1>11, <1>12, StepKeeps, ClientAssumption

LEMMA FailedKeeps ==
    ASSUME IInv, NEW c \in Callers, Failed(c)
    PROVE  IInv'
<1> DEFINE r == [caller[c] EXCEPT !.at = "failed"]
<1>1. /\ current = Nobody /\ caller[c].at = "waiting"
      /\ caller[c].got \in {"unavailable", "error"}
      /\ caller' = [caller EXCEPT ![c] = r]
      /\ current' = c
      /\ UNCHANGED <<writer, pending, sequence, connectQueue, writeQueue, cancels, identity,
                     sent, abandoned, link, sessionOf, wire, replies, session, qgisUp,
                     authenticated>>
  BY DEF Failed, Runs, Goes, network, qgis
<1>2. caller[c] \in Record /\ "failed" \in Stages
  BY Names DEF IInv, TypeOK, Record
<1>3. /\ r \in Record /\ r.at = "failed" /\ r.for = caller[c].for /\ r.conn = caller[c].conn
      /\ r.id = caller[c].id /\ r.got = caller[c].got
  BY <1>2 DEF Record
<1> HIDE DEF r
<1>4. Fits(c, r)
  BY <1>1, <1>3, ClientAssumption DEF IInv, Fits, Places, OneConnection, WrittenOnce, Results
<1>5. r.at \in Awaits <=> current' # c
  BY <1>1, <1>3 DEF Awaits
<1>6. ConnectLock' /\ WriteLock' /\ SessionAnnounced'
  BY <1>1, <1>3, SameLocks DEF Writing
<1>7. connectQueue' \in Seq(Callers) /\ writeQueue' \in Seq(Callers)
      /\ identity' \in 0..MaxSessions
  BY <1>1 DEF IInv, TypeOK
<1> QED BY <1>1, <1>4, <1>5, <1>6, <1>7, StepKeeps, ClientAssumption

LEMMA TimesOutKeeps ==
    ASSUME IInv, NEW c \in Callers, TimesOut(c)
    PROVE  IInv'
<1> DEFINE r == [caller[c] EXCEPT !.at = "failed", !.got = "error"]
<1>1. /\ current = Nobody /\ caller[c].at = "waiting" /\ caller[c].got = "nothing"
      /\ caller' = [caller EXCEPT ![c] = r]
      /\ current' = c
      /\ pending' = pending \ {caller[c].id}
      /\ UNCHANGED <<writer, sequence, connectQueue, writeQueue, cancels, identity, sent,
                     abandoned, link, sessionOf, wire, replies, session, qgisUp, authenticated>>
  BY DEF TimesOut, network, qgis
<1>2. caller[c] \in Record /\ "failed" \in Stages /\ "error" \in Outcome
  BY Names DEF IInv, TypeOK, Record
<1>3. /\ r \in Record /\ r.at = "failed" /\ r.for = caller[c].for /\ r.conn = caller[c].conn
      /\ r.id = caller[c].id /\ r.got = "error"
  BY <1>2 DEF Record
<1> HIDE DEF r
<1>4. /\ caller'[c] = r
      /\ \A d \in Callers \ {c} : caller'[d] = caller[d]
  BY <1>1 DEF IInv, TypeOK
<1>5. caller' \in [Callers -> Record]
  BY <1>1, <1>3 DEF IInv, TypeOK, Record
<1>6. (\A d \in Callers : caller[d].at \in Awaits <=> current # d)'
  BY <1>1, <1>3, ClientAssumption DEF IInv, TypeOK, Awaits
<1>7. TypeOK'
  BY <1>1, <1>5, <1>6 DEF IInv, TypeOK, Record, Numbers, Numbered, Places
<1>8. ConnectLock'
  BY <1>1, <1>3 DEF IInv, ConnectLock, Connecting
<1>9. WriteLock'
  BY <1>1, <1>3 DEF IInv, WriteLock, Writing
<1>10. Places'
  BY <1>1, <1>3, ClientAssumption DEF IInv, Places, Results
<1>11. OneConnection'
  BY <1>1, <1>3 DEF IInv, OneConnection
<1>12. Numbers'
  BY <1>1, <1>3, <1>4 DEF IInv, Numbers, Numbered
<1>13. Lines'
  BY <1>1, <1>3 DEF IInv, Lines, Numbered
<1>14. AnswersOwnCall'
  BY <1>1, <1>3, ClientAssumption DEF IInv, AnswersOwnCall, Results
<1>15. NoAbandonedWaiter'
  BY <1>1, <1>3, <1>4 DEF IInv, NoAbandonedWaiter, Numbers, Numbered, BeingRead
<1>16. NoLeakedConnection'
  BY <1>1 DEF IInv, NoLeakedConnection
<1>17. WrittenOnce'
  BY <1>1, <1>3 DEF IInv, WrittenOnce
<1>18. SessionAnnounced'
  BY <1>1, <1>3 DEF IInv, SessionAnnounced
<1> QED BY <1>7, <1>8, <1>9, <1>10, <1>11, <1>12, <1>13, <1>14, <1>15, <1>16, <1>17, <1>18 DEF
   IInv

LEMMA RaiseFromHelloKeeps ==
    ASSUME IInv, NEW c \in Callers, RaiseFromHello(c)
    PROVE  IInv'
<1> DEFINE r == [caller[c] EXCEPT !.at = "close"]
<1>1. /\ current = c /\ caller[c].at = "failed" /\ caller[c].for = "hello"
      /\ caller' = [caller EXCEPT ![c] = r]
      /\ UNCHANGED <<current, writer, pending, sequence, connectQueue, writeQueue, cancels,
                     identity, sent, abandoned, link, sessionOf, wire, replies, session,
                     qgisUp, authenticated>>
  BY DEF RaiseFromHello, Goes, network, qgis
<1>2. caller[c] \in Record /\ "close" \in Stages
  BY Names DEF IInv, TypeOK, Record
<1>3. /\ r \in Record /\ r.at = "close" /\ r.for = caller[c].for /\ r.conn = caller[c].conn
      /\ r.id = caller[c].id /\ r.got = caller[c].got
  BY <1>2 DEF Record
<1> HIDE DEF r
<1>4. Fits(c, r)
  BY <1>1, <1>3 DEF IInv, Fits, Places, OneConnection, WrittenOnce
<1>5. r.at \in Awaits <=> current' # c
  BY <1>1, <1>3 DEF Awaits
<1>6. ConnectLock' /\ WriteLock' /\ SessionAnnounced'
  BY <1>1, <1>3, SameLocks DEF Writing
<1>7. connectQueue' \in Seq(Callers) /\ writeQueue' \in Seq(Callers)
      /\ identity' \in 0..MaxSessions
  BY <1>1 DEF IInv, TypeOK
<1> QED BY <1>1, <1>4, <1>5, <1>6, <1>7, StepKeeps, ClientAssumption

LEMMA RaiseKeeps ==
    ASSUME IInv, NEW c \in Callers, Raise(c)
    PROVE  IInv'
<1>1. CASE /\ Retries(c)
           /\ caller' = [caller EXCEPT ![c] = [caller[c] EXCEPT !.at = "close", !.retrying = TRUE]]
           /\ UNCHANGED current
  <2> DEFINE r == [caller[c] EXCEPT !.at = "close", !.retrying = TRUE]
  <2>1. /\ current = c /\ caller[c].at = "failed" /\ caller[c].for = "call" /\ Retries(c)
        /\ caller' = [caller EXCEPT ![c] = r]
        /\ UNCHANGED <<current, writer, pending, sequence, connectQueue, writeQueue, cancels,
                       identity, sent, abandoned, link, sessionOf, wire, replies, session,
                       qgisUp, authenticated>>
    BY <1>1 DEF Raise, network, qgis
  <2>2. caller[c] \in Record /\ "close" \in Stages
    BY Names DEF IInv, TypeOK, Record
  <2>3. /\ r \in Record /\ r.at = "close" /\ r.for = caller[c].for /\ r.conn = caller[c].conn
        /\ r.id = caller[c].id /\ r.got = caller[c].got
    BY <2>2 DEF Record
  <2> HIDE DEF r
  <2>4. Fits(c, r)
    BY <2>1, <2>3 DEF IInv, Fits, Places, Retries
  <2>5. r.at \in Awaits <=> current' # c
    BY <2>1, <2>3 DEF Awaits
  <2>6. ConnectLock' /\ WriteLock' /\ SessionAnnounced'
    BY <2>1, <2>3, SameLocks DEF Writing
  <2>7. connectQueue' \in Seq(Callers) /\ writeQueue' \in Seq(Callers)
        /\ identity' \in 0..MaxSessions
    BY <2>1 DEF IInv, TypeOK
  <2> QED BY <2>1, <2>4, <2>5, <2>6, <2>7, StepKeeps, ClientAssumption
<1>2. CASE Retries(c) /\ Rests(c, "sleeping")
  <2> DEFINE r == [caller[c] EXCEPT !.at = "sleeping"]
  <2>1. /\ current = c /\ caller[c].at = "failed" /\ caller[c].for = "call" /\ Retries(c)
        /\ caller' = [caller EXCEPT ![c] = r]
        /\ current' = Nobody
        /\ UNCHANGED <<writer, pending, sequence, connectQueue, writeQueue, cancels, identity,
                       sent, abandoned, link, sessionOf, wire, replies, session, qgisUp,
                       authenticated>>
    BY <1>2 DEF Raise, Rests, Goes, network, qgis
  <2>2. caller[c] \in Record /\ "sleeping" \in Stages
    BY Names DEF IInv, TypeOK, Record
  <2>3. /\ r \in Record /\ r.at = "sleeping" /\ r.for = caller[c].for /\ r.conn = caller[c].conn
        /\ r.id = caller[c].id /\ r.got = caller[c].got
    BY <2>2 DEF Record
  <2> HIDE DEF r
  <2>4. Fits(c, r)
    BY <2>1, <2>3 DEF IInv, Fits, Places, Retries
  <2>5. r.at \in Awaits <=> current' # c
    BY <2>1, <2>3, ClientAssumption DEF Awaits
  <2>6. ConnectLock' /\ WriteLock' /\ SessionAnnounced'
    BY <2>1, <2>3, SameLocks DEF Writing
  <2>7. connectQueue' \in Seq(Callers) /\ writeQueue' \in Seq(Callers)
        /\ identity' \in 0..MaxSessions
    BY <2>1 DEF IInv, TypeOK
  <2> QED BY <2>1, <2>4, <2>5, <2>6, <2>7, StepKeeps, ClientAssumption
<1>3. CASE Ends(c, caller[c].got)
  <2> DEFINE r == Over(caller[c].got)
  <2>1. /\ current = c /\ caller[c].at = "failed" /\ caller[c].for = "call"
        /\ caller' = [caller EXCEPT ![c] = r]
        /\ current' = Nobody
        /\ UNCHANGED <<writer, pending, sequence, connectQueue, writeQueue, cancels, identity,
                       sent, abandoned, link, sessionOf, wire, replies, session, qgisUp,
                       authenticated>>
    BY <1>3 DEF Raise, Ends, network, qgis
  <2>2. caller[c] \in Record /\ "done" \in Stages
    BY Names DEF IInv, TypeOK, Record
  <2>3. /\ r \in Record /\ r.at = "done" /\ r.for = "call" /\ r.got = caller[c].got
    BY <2>2 DEF Record, Over
  <2> HIDE DEF r
  <2>4. Fits(c, r)
    BY <2>1, <2>3 DEF IInv, Fits, Places, WrittenOnce
  <2>5. r.at \in Awaits <=> current' # c
    BY <2>1, <2>3, ClientAssumption DEF Awaits
  <2>6. ConnectLock' /\ WriteLock' /\ SessionAnnounced'
    BY <2>1, <2>3, SameLocks DEF Writing
  <2>7. connectQueue' \in Seq(Callers) /\ writeQueue' \in Seq(Callers)
        /\ identity' \in 0..MaxSessions
    BY <2>1 DEF IInv, TypeOK
  <2> QED BY <2>1, <2>4, <2>5, <2>6, <2>7, StepKeeps, ClientAssumption
<1> QED BY <1>1, <1>2, <1>3 DEF Raise

LEMMA WakesKeeps ==
    ASSUME IInv, NEW c \in Callers, Wakes(c)
    PROVE  IInv'
<1> DEFINE r == [caller[c] EXCEPT !.at = "close"]
<1>1. /\ current = Nobody /\ caller[c].at = "sleeping"
      /\ caller' = [caller EXCEPT ![c] = r]
      /\ current' = c
      /\ UNCHANGED <<writer, pending, sequence, connectQueue, writeQueue, cancels, identity,
                     sent, abandoned, link, sessionOf, wire, replies, session, qgisUp,
                     authenticated>>
  BY DEF Wakes, Runs, Goes, network, qgis
<1>2. caller[c] \in Record /\ "close" \in Stages
  BY Names DEF IInv, TypeOK, Record
<1>3. /\ r \in Record /\ r.at = "close" /\ r.for = caller[c].for /\ r.conn = caller[c].conn
      /\ r.id = caller[c].id /\ r.got = caller[c].got
  BY <1>2 DEF Record
<1> HIDE DEF r
<1>4. Fits(c, r)
  BY <1>1, <1>3, ClientAssumption DEF IInv, TypeOK, Fits, Places, OneConnection,
     AnswersOwnCall, NoAbandonedWaiter, BeingRead, WrittenOnce, Numbered, Results, Retries,
     ConnectLock, Connecting
<1>5. r.at \in Awaits <=> current' # c
  BY <1>1, <1>3 DEF Awaits
<1>6. ConnectLock' /\ WriteLock' /\ SessionAnnounced'
  BY <1>1, <1>3, SameLocks DEF Writing
<1>7. connectQueue' \in Seq(Callers) /\ writeQueue' \in Seq(Callers)
      /\ identity' \in 0..MaxSessions
  BY <1>1 DEF IInv, TypeOK
<1> QED BY <1>1, <1>4, <1>5, <1>6, <1>7, StepKeeps, ClientAssumption

LEMMA AfterCloseKeeps ==
    ASSUME IInv, NEW c \in Callers, AfterClose(c)
    PROVE  IInv'
<1>1. CASE caller[c].for = "hello"
  <2> DEFINE r == [caller[c] EXCEPT !.at = "failed", !.for = "call"]
  <2>1. /\ current = c /\ caller[c].at = "closed" /\ caller[c].for = "hello"
        /\ caller' = [caller EXCEPT ![c] = r]
        /\ connectQueue' = Tail(connectQueue)
        /\ UNCHANGED <<current, writer, pending, sequence, writeQueue, cancels, identity, sent,
                       abandoned, link, sessionOf, wire, replies, session, qgisUp,
                       authenticated>>
    BY <1>1 DEF AfterClose, Goes, Ends, network, qgis
  <2>2. /\ connectQueue \in Seq(Callers) /\ Once(connectQueue)
        /\ c \in Members(connectQueue) /\ Head(connectQueue) = c
    BY <2>1 DEF IInv, TypeOK, ConnectLock, Connecting
  <2>3. /\ Tail(connectQueue) \in Seq(Callers) /\ Once(Tail(connectQueue))
        /\ Members(Tail(connectQueue)) = Members(connectQueue) \ {c}
    BY <2>2, TailMembers
  <2>4. caller[c] \in Record /\ "failed" \in Stages
    BY Names DEF IInv, TypeOK, Record
  <2>5. /\ r \in Record /\ r.at = "failed" /\ r.for = "call" /\ r.conn = caller[c].conn
        /\ r.id = caller[c].id /\ r.got = caller[c].got
    BY <2>4 DEF Record
  <2> HIDE DEF r
  <2>6. Fits(c, r)
    BY <2>1, <2>5 DEF IInv, Fits, Places, WrittenOnce
  <2>7. r.at \in Awaits <=> current' # c
    BY <2>1, <2>5 DEF Awaits
  <2>8. /\ caller'[c] = r
        /\ \A d \in Callers \ {c} : caller'[d] = caller[d]
    BY <2>1 DEF IInv, TypeOK
  <2>9. ConnectLock'
    BY <2>1, <2>5, <2>8, <2>3 DEF IInv, ConnectLock, Connecting
  <2>10. WriteLock'
    BY <2>1, <2>5 DEF IInv, WriteLock, Writing
  <2>11. SessionAnnounced'
    BY <2>1 DEF IInv, SessionAnnounced, OneConnection
  <2>12. connectQueue' \in Seq(Callers) /\ writeQueue' \in Seq(Callers)
         /\ identity' \in 0..MaxSessions
    BY <2>1, <2>3 DEF IInv, TypeOK
  <2> QED BY <2>1, <2>6, <2>7, <2>9, <2>10, <2>11, <2>12, StepKeeps, ClientAssumption
<1>2. CASE caller[c].for = "call" /\ ~caller[c].late
  <2> DEFINE r == [caller[c] EXCEPT !.at = "attempt"]
  <2>1. /\ current = c /\ caller[c].at = "closed" /\ caller[c].for = "call"
        /\ caller' = [caller EXCEPT ![c] = r]
        /\ UNCHANGED <<current, writer, pending, sequence, connectQueue, writeQueue, cancels,
                       identity, sent, abandoned, link, sessionOf, wire, replies, session,
                       qgisUp, authenticated>>
    BY <1>2 DEF AfterClose, Goes, network, qgis
  <2>2. caller[c] \in Record /\ "attempt" \in Stages
    BY Names DEF IInv, TypeOK, Record
  <2>3. /\ r \in Record /\ r.at = "attempt" /\ r.for = caller[c].for /\ r.conn = caller[c].conn
        /\ r.id = caller[c].id /\ r.got = caller[c].got
    BY <2>2 DEF Record
  <2> HIDE DEF r
  <2>4. Fits(c, r)
    BY <2>1, <2>3, ClientAssumption DEF IInv, TypeOK, Fits, Places, OneConnection,
       AnswersOwnCall, NoAbandonedWaiter, BeingRead, WrittenOnce, Numbered, Results, Retries,
       ConnectLock, Connecting
  <2>5. r.at \in Awaits <=> current' # c
    BY <2>1, <2>3 DEF Awaits
  <2>6. ConnectLock' /\ WriteLock' /\ SessionAnnounced'
    BY <2>1, <2>3, SameLocks DEF Writing
  <2>7. connectQueue' \in Seq(Callers) /\ writeQueue' \in Seq(Callers)
        /\ identity' \in 0..MaxSessions
    BY <2>1 DEF IInv, TypeOK
  <2> QED BY <2>1, <2>4, <2>5, <2>6, <2>7, StepKeeps, ClientAssumption
<1>3. CASE caller[c].for = "call" /\ caller[c].late
  <2> DEFINE r == Over("unavailable")
  <2>1. /\ current = c /\ caller[c].at = "closed" /\ caller[c].for = "call"
        /\ caller' = [caller EXCEPT ![c] = r]
        /\ current' = Nobody
        /\ UNCHANGED <<writer, pending, sequence, connectQueue, writeQueue, cancels, identity,
                       sent, abandoned, link, sessionOf, wire, replies, session, qgisUp,
                       authenticated>>
    BY <1>3 DEF AfterClose, Ends, network, qgis
  <2>2. caller[c] \in Record /\ "done" \in Stages /\ "unavailable" \in Outcome
    BY Names DEF IInv, TypeOK, Record
  <2>3. /\ r \in Record /\ r.at = "done" /\ r.for = "call" /\ r.got = "unavailable"
    BY <2>2 DEF Record, Over
  <2> HIDE DEF r
  <2>4. Fits(c, r)
    BY <2>3, ClientAssumption DEF IInv, Fits, WrittenOnce, Results
  <2>5. r.at \in Awaits <=> current' # c
    BY <2>1, <2>3, ClientAssumption DEF Awaits
  <2>6. ConnectLock' /\ WriteLock' /\ SessionAnnounced'
    BY <2>1, <2>3, SameLocks DEF Writing
  <2>7. connectQueue' \in Seq(Callers) /\ writeQueue' \in Seq(Callers)
        /\ identity' \in 0..MaxSessions
    BY <2>1 DEF IInv, TypeOK
  <2> QED BY <2>1, <2>4, <2>5, <2>6, <2>7, StepKeeps, ClientAssumption
<1> QED BY <1>1, <1>2, <1>3 DEF AfterClose

\* The deadline of _invoke, and the cancellation of a coroutine wherever it waits.
LEMMA DeadlinePassesKeeps ==
    ASSUME IInv, NEW c \in Callers, DeadlinePasses(c)
    PROVE  IInv'
<1> DEFINE r == [caller[c] EXCEPT !.late = TRUE]
<1>1. /\ caller[c].at # "done"
      /\ caller' = [caller EXCEPT ![c] = r]
      /\ UNCHANGED <<current, writer, pending, sequence, connectQueue, writeQueue, cancels,
                     identity, sent, abandoned, link, sessionOf, wire, replies, session,
                     qgisUp, authenticated>>
  BY DEF DeadlinePasses, network, qgis
<1>2. caller[c] \in Record
  BY DEF IInv, TypeOK, Record
<1>3. /\ r \in Record /\ r.at = caller[c].at /\ r.for = caller[c].for /\ r.conn = caller[c].conn
      /\ r.id = caller[c].id /\ r.got = caller[c].got
  BY <1>2 DEF Record
<1> HIDE DEF r
<1>4. Fits(c, r)
  BY <1>3 DEF IInv, Fits, Places, OneConnection, AnswersOwnCall, NoAbandonedWaiter,
     WrittenOnce, Numbered
<1>5. r.at \in Awaits <=> current' # c
  BY <1>1, <1>3 DEF IInv, TypeOK
<1>6. ConnectLock' /\ WriteLock' /\ SessionAnnounced'
  BY <1>1, <1>3, SameLocks DEF Writing
<1>7. connectQueue' \in Seq(Callers) /\ writeQueue' \in Seq(Callers)
      /\ identity' \in 0..MaxSessions
  BY <1>1 DEF IInv, TypeOK
<1> QED BY <1>1, <1>4, <1>5, <1>6, <1>7, StepKeeps, ClientAssumption

LEMMA CancelKeeps ==
    ASSUME IInv, NEW c \in Callers, Cancel(c)
    PROVE  IInv'
<1>1. CASE caller[c].at \in {"writeLock", "draining", "waiting"}
  <2> DEFINE r == Over("cancelled")
  <2>1. /\ current = Nobody /\ current' = Nobody /\ caller[c].at \notin {"ready", "done"}
        /\ caller[c].at \in {"writeLock", "draining", "waiting"}
        /\ cancels' \subseteq cancels \union {caller[c].id}
        /\ caller' = [caller EXCEPT ![c] = r]
        /\ pending' = pending \ {caller[c].id}
        /\ connectQueue' = Without(connectQueue, c)
        /\ writeQueue' = Without(writeQueue, c)
        /\ abandoned' = IF caller[c].for = "hello"
                           THEN abandoned \union {caller[c].conn} ELSE abandoned
        /\ UNCHANGED <<writer, sequence, identity, sent, link, sessionOf, wire, replies,
                       session, qgisUp, authenticated>>
    BY <1>1 DEF Cancel, Ends, network, qgis
  <2>2. connectQueue \in Seq(Callers) /\ Once(connectQueue)
    BY DEF IInv, TypeOK, ConnectLock
  <2>3. /\ Without(connectQueue, c) \in Seq(Callers) /\ Once(Without(connectQueue, c))
        /\ Members(Without(connectQueue, c)) = Members(connectQueue) \ {c}
        /\ connectQueue # <<>> /\ Head(connectQueue) # c =>
             /\ Without(connectQueue, c) # <<>>
             /\ Head(Without(connectQueue, c)) = Head(connectQueue)
    BY <2>2, WithoutMembers
  <2>4. \A d \in Members(connectQueue) : connectQueue # <<>>
    BY DEF Members
  <2>5. writeQueue \in Seq(Callers) /\ Once(writeQueue)
    BY DEF IInv, TypeOK, WriteLock
  <2>6. /\ Without(writeQueue, c) \in Seq(Callers) /\ Once(Without(writeQueue, c))
        /\ Members(Without(writeQueue, c)) = Members(writeQueue) \ {c}
        /\ writeQueue # <<>> /\ Head(writeQueue) # c =>
             Without(writeQueue, c) # <<>> /\ Head(Without(writeQueue, c)) = Head(writeQueue)
    BY <2>5, WithoutMembers
  <2>7. \A d \in Members(writeQueue) : writeQueue # <<>>
    BY DEF Members
  <2>8. caller[c] \in Record /\ "done" \in Stages /\ "cancelled" \in Outcome
    BY Names DEF IInv, TypeOK, Record
  <2>9. /\ r \in Record /\ r.at = "done" /\ r.for = "call" /\ r.got = "cancelled"
    BY <2>8 DEF Record, Over
  <2> HIDE DEF r
  <2>10. /\ caller'[c] = r
         /\ \A d \in Callers \ {c} : caller'[d] = caller[d]
    BY <2>1 DEF IInv, TypeOK
  <2>11. caller' \in [Callers -> Record]
    BY <2>1, <2>9 DEF IInv, TypeOK, Record
  <2>12. (\A d \in Callers : caller[d].at \in Awaits <=> current # d)'
    BY <2>1, <2>9 DEF IInv, TypeOK, Awaits
  <2>13. TypeOK'
    <3>1. pending' \subseteq 1..sequence' /\ cancels' \subseteq 1..sequence'
      BY <2>1 DEF IInv, TypeOK, Numbers, Numbered
    <3>2. abandoned' \subseteq Conns
      BY <2>1 DEF IInv, TypeOK, Places
    <3>3. /\ connectQueue' \in Seq(Callers) /\ writeQueue' \in Seq(Callers)
          /\ current' \in Callers \union {Nobody}
      BY <2>1, <2>3, <2>6
    <3> QED BY <2>1, <2>11, <2>12, <3>1, <3>2, <3>3 DEF IInv, TypeOK, Record
  <2>14. ConnectLock'
    <3>1. Once(connectQueue') /\ Members(connectQueue') = Members(connectQueue) \ {c}
      BY <2>1, <2>3
    <3>2. \A d \in Callers \ {c} : Connecting(d) => Head(connectQueue') = d
      BY <2>1, <2>3, <2>4 DEF IInv, ConnectLock
    <3> QED BY <2>9, <2>10, <3>1, <3>2 DEF IInv, ConnectLock, Connecting
  <2>15. WriteLock'
    <3>1. Once(writeQueue') /\ Members(writeQueue') = Members(writeQueue) \ {c}
      BY <2>1, <2>6
    <3>2. \A d \in Callers \ {c} : Writing(d) => Head(writeQueue') = d
      BY <2>1, <2>6, <2>7 DEF IInv, WriteLock
    <3> QED BY <2>9, <2>10, <3>1, <3>2 DEF IInv, WriteLock, Writing
  <2>16. Places'
    BY <2>1, <2>9 DEF IInv, Places
  <2>17. OneConnection'
    BY <2>1, <2>9 DEF IInv, OneConnection
  <2>18. Numbers'
    BY <2>1, <2>9, <2>10 DEF IInv, Numbers, Numbered
  <2>19. Lines'
    BY <2>1, <2>9 DEF IInv, Lines, Numbered
  <2>20. AnswersOwnCall'
    BY <2>1, <2>9, ClientAssumption DEF IInv, AnswersOwnCall, Results
  <2>21. NoAbandonedWaiter'
    BY <2>1, <2>9, <2>10 DEF IInv, NoAbandonedWaiter, Numbers, Numbered, BeingRead
  <2>22. NoLeakedConnection'
    BY <2>1 DEF IInv, NoLeakedConnection
  <2>23. WrittenOnce'
    BY <2>1, <2>9 DEF IInv, WrittenOnce
  <2>24. SessionAnnounced'
    <3> SUFFICES ASSUME writer # 0, identity # sessionOf[writer], writer \notin abandoned'
                 PROVE  \E d \in Callers : /\ connectQueue' # <<>> /\ Head(connectQueue') = d
                                           /\ caller'[d].for = "hello"
                                           /\ caller'[d].conn = writer
      BY <2>1 DEF SessionAnnounced
    <3>1. PICK d \in Callers : /\ connectQueue # <<>> /\ Head(connectQueue) = d
                               /\ caller[d].for = "hello" /\ caller[d].conn = writer
      BY <2>1 DEF IInv, SessionAnnounced
    <3>2. caller'[d] = caller[d] /\ connectQueue' # <<>> /\ Head(connectQueue') = d
      BY <2>1, <2>3, <3>1
    <3> QED BY <3>1, <3>2
  <2> QED BY <2>13, <2>14, <2>15, <2>16, <2>17, <2>18, <2>19, <2>20, <2>21, <2>22, <2>23, <2>24
     DEF IInv
<1>2. CASE caller[c].at \notin {"writeLock", "draining", "waiting"}
  <2> DEFINE r == Over("cancelled")
  <2>1. /\ current = Nobody /\ current' = Nobody /\ caller[c].at \notin {"ready", "done"}
        /\ caller[c].at \notin {"writeLock", "draining", "waiting"}
        /\ caller' = [caller EXCEPT ![c] = r]
        /\ current' = Nobody
        /\ connectQueue' = Without(connectQueue, c)
        /\ writeQueue' = Without(writeQueue, c)
        /\ UNCHANGED <<writer, pending, sequence, cancels, identity, sent, abandoned, link,
                       sessionOf, wire, replies, session, qgisUp, authenticated>>
    BY <1>2 DEF Cancel, Ends, network, qgis
  <2>2. connectQueue \in Seq(Callers) /\ Once(connectQueue)
    BY DEF IInv, TypeOK, ConnectLock
  <2>3. /\ Without(connectQueue, c) \in Seq(Callers) /\ Once(Without(connectQueue, c))
        /\ Members(Without(connectQueue, c)) = Members(connectQueue) \ {c}
        /\ connectQueue # <<>> /\ Head(connectQueue) # c =>
             /\ Without(connectQueue, c) # <<>>
             /\ Head(Without(connectQueue, c)) = Head(connectQueue)
    BY <2>2, WithoutMembers
  <2>4. \A d \in Members(connectQueue) : connectQueue # <<>>
    BY DEF Members
  <2>5. writeQueue \in Seq(Callers) /\ Once(writeQueue)
    BY DEF IInv, TypeOK, WriteLock
  <2>6. /\ Without(writeQueue, c) \in Seq(Callers) /\ Once(Without(writeQueue, c))
        /\ Members(Without(writeQueue, c)) = Members(writeQueue) \ {c}
        /\ writeQueue # <<>> /\ Head(writeQueue) # c =>
             Without(writeQueue, c) # <<>> /\ Head(Without(writeQueue, c)) = Head(writeQueue)
    BY <2>5, WithoutMembers
  <2>7. \A d \in Members(writeQueue) : writeQueue # <<>>
    BY DEF Members
  <2>8. caller[c] \in Record /\ "done" \in Stages /\ "cancelled" \in Outcome
    BY Names DEF IInv, TypeOK, Record
  <2>9. /\ r \in Record /\ r.at = "done" /\ r.for = "call" /\ r.got = "cancelled"
    BY <2>8 DEF Record, Over
  <2> HIDE DEF r
  <2>10. Fits(c, r)
    BY <2>9, ClientAssumption DEF IInv, Fits, WrittenOnce, Results
  <2>11. r.at \in Awaits <=> current' # c
    BY <2>1, <2>9, ClientAssumption DEF Awaits
  <2>12. /\ caller'[c] = r
         /\ \A d \in Callers \ {c} : caller'[d] = caller[d]
    BY <2>1 DEF IInv, TypeOK
  <2>13. ConnectLock'
    <3>1. Once(connectQueue') /\ Members(connectQueue') = Members(connectQueue) \ {c}
      BY <2>1, <2>3
    <3>2. \A d \in Callers \ {c} : Connecting(d) => Head(connectQueue') = d
      BY <2>1, <2>3, <2>4 DEF IInv, ConnectLock
    <3> QED BY <2>9, <2>12, <3>1, <3>2 DEF IInv, ConnectLock, Connecting
  <2>14. WriteLock'
    <3>1. Once(writeQueue') /\ Members(writeQueue') = Members(writeQueue) \ {c}
      BY <2>1, <2>6
    <3>2. \A d \in Callers \ {c} : Writing(d) => Head(writeQueue') = d
      BY <2>1, <2>6, <2>7 DEF IInv, WriteLock
    <3> QED BY <2>9, <2>12, <3>1, <3>2 DEF IInv, WriteLock, Writing
  <2>15. SessionAnnounced'
    <3> SUFFICES ASSUME writer # 0, identity # sessionOf[writer], writer \notin abandoned
                 PROVE  \E d \in Callers : /\ connectQueue' # <<>> /\ Head(connectQueue') = d
                                           /\ caller'[d].for = "hello"
                                           /\ caller'[d].conn = writer
      BY <2>1 DEF SessionAnnounced
    <3>1. PICK d \in Callers : /\ connectQueue # <<>> /\ Head(connectQueue) = d
                               /\ caller[d].for = "hello" /\ caller[d].conn = writer
      BY DEF IInv, SessionAnnounced
    <3>2. d # c
      BY <2>1, <3>1, ClientAssumption DEF IInv, TypeOK, Awaits, Places, OneConnection
    <3>3. caller'[d] = caller[d] /\ connectQueue' # <<>> /\ Head(connectQueue') = d
      BY <2>1, <2>3, <3>1, <3>2
    <3> QED BY <3>1, <3>3
  <2>16. connectQueue' \in Seq(Callers) /\ writeQueue' \in Seq(Callers)
         /\ identity' \in 0..MaxSessions
    BY <2>1, <2>3, <2>6 DEF IInv, TypeOK
  <2> QED BY <2>1, <2>10, <2>11, <2>13, <2>14, <2>15, <2>16, StepKeeps, ClientAssumption
<1> QED BY <1>1, <1>2

\* The network and QGIS move, and a withdrawal may be sent.
LEMMA NetworkKeeps ==
    ASSUME IInv,
           UNCHANGED <<caller, current, writer, pending, connectQueue, writeQueue, identity,
                       sent, abandoned, sessionOf>>,
           sequence' \in {sequence, sequence + 1}, cancels' \subseteq 1..sequence',
           session' \in 1..MaxSessions, qgisUp' \in BOOLEAN, authenticated' \subseteq Conns,
           link' \in [Conns -> {"unused", "up", "hungup", "closing", "shut", "closed"}],
           \A k \in Conns : link'[k] # link[k] => link[k] = "up" /\ link'[k] = "hungup",
           \A l \in wire' \ wire :
               l \in Line({"cancel"}, {Nobody}) /\ l.id \in 1..sequence' /\ l.for = "cancel",
           \A r \in replies' \ replies :
               /\ r \in [conn : Conns, id : Nat, what : Outcome] /\ r.id \in 1..sequence
               /\ r.what \in Callers \union {"welcome", "error"},
           \A r \in replies' \ replies, c \in Callers :
               Numbered(c) /\ caller[c].id = r.id =>
                   /\ r.what \in Callers => r.what = c /\ caller[c].for = "call"
                   /\ r.what = "welcome" => caller[c].for = "hello"
    PROVE  IInv'
<1>1. sequence \in Nat /\ sequence' \in Nat /\ 1..sequence \subseteq 1..sequence'
  BY DEF IInv, TypeOK
<1>2. TypeOK'
  BY <1>1 DEF IInv, TypeOK
<1>3. ConnectLock' /\ WriteLock' /\ Places'
  BY DEF IInv, ConnectLock, Connecting, WriteLock, Writing, Places
<1>4. OneConnection'
  BY DEF IInv, TypeOK, OneConnection
<1>5. Numbers'
  BY <1>1 DEF IInv, Numbers, Numbered
<1>6. Lines'
  BY <1>1 DEF IInv, Lines, Numbered
<1>7. AnswersOwnCall' /\ WrittenOnce'
  BY DEF IInv, AnswersOwnCall, WrittenOnce
<1>8. NoAbandonedWaiter'
  BY DEF IInv, TypeOK, Places, NoAbandonedWaiter, BeingRead
<1>9. NoLeakedConnection'
  BY DEF IInv, NoLeakedConnection
<1>10. SessionAnnounced'
  BY DEF IInv, SessionAnnounced
<1> QED BY <1>2, <1>3, <1>4, <1>5, <1>6, <1>7, <1>8, <1>9, <1>10 DEF IInv


\* What _fail_pending leaves: every waiter without an answer has failed.
LEMMA FailedFacts ==
    ASSUME IInv
    PROVE  /\ FailedCallers \in [Callers -> Record]
           /\ \A d \in Callers :
                /\ FailedCallers[d].at = caller[d].at /\ FailedCallers[d].for = caller[d].for
                /\ FailedCallers[d].conn = caller[d].conn /\ FailedCallers[d].id = caller[d].id
                /\ FailedCallers[d].got \in {caller[d].got, "unavailable"}
                /\ FailedCallers[d].at \in {"writeLock", "draining", "waiting"} =>
                     FailedCallers[d].got # "nothing"
<1>1. caller \in [Callers -> Record] /\ "unavailable" \in Outcome
  BY Names DEF IInv, TypeOK, Record
<1> SUFFICES ASSUME NEW d \in Callers
             PROVE  /\ FailedCallers[d] \in Record
                    /\ FailedCallers[d].at = caller[d].at
                    /\ FailedCallers[d].for = caller[d].for
                    /\ FailedCallers[d].conn = caller[d].conn
                    /\ FailedCallers[d].id = caller[d].id
                    /\ FailedCallers[d].got \in {caller[d].got, "unavailable"}
                    /\ FailedCallers[d].at \in {"writeLock", "draining", "waiting"} =>
                         FailedCallers[d].got # "nothing"
  BY DEF FailedCallers
<1>2. caller[d] \in Record
  BY <1>1
<1>3. [caller[d] EXCEPT !.got = "unavailable"] \in Record
  BY <1>1 DEF Record
<1>4. CASE Unanswered(d)
  <2>1. FailedCallers[d] = [caller[d] EXCEPT !.got = "unavailable"]
    BY <1>4 DEF FailedCallers
  <2> QED BY <1>3, <2>1
<1>5. CASE ~Unanswered(d)
  <2>1. FailedCallers[d] = caller[d]
    BY <1>5 DEF FailedCallers
  <2> QED BY <1>2, <1>5, <2>1 DEF IInv, Numbers, Numbered, Unanswered
<1> QED BY <1>4, <1>5

\* Everything pending has failed.  Whoever closes the connection goes on.
LEMMA FailingKeeps ==
    ASSUME IInv,
           UNCHANGED <<sequence, connectQueue, writeQueue, cancels, identity, sent, abandoned,
                       sessionOf, wire, session, qgisUp, authenticated>>,
           pending' = {}, replies' \subseteq replies, writer' \in {0, writer},
           current' \in Callers \union {Nobody},
           (\A d \in Callers : caller[d].at \in Awaits <=> current # d)',
           caller' \in [Callers -> Record],
           \A d \in Callers :
               /\ caller'[d].for = caller[d].for /\ caller'[d].conn = caller[d].conn
               /\ caller'[d].id = caller[d].id
               /\ caller'[d].got \in {caller[d].got, "unavailable"}
               /\ Numbered(d)' => caller'[d].got # "nothing",
           \A d \in Callers :
               \/ caller'[d].at = caller[d].at
               \/ caller[d].at \in {"close", "closing"} /\ caller'[d].at = "closed",
           \A d \in Callers : caller[d].at = "close" /\ caller'[d].at = "closed" => writer = 0,
           link' \in [Conns -> {"unused", "up", "hungup", "closing", "shut", "closed"}],
           \A k \in Conns : link'[k] \in {"up", "hungup"}
                => link'[k] = link[k] /\ writer' = writer,
           writer' # 0 => link'[writer] = link[writer]
    PROVE  IInv'
<1>1. TypeOK'
  BY DEF IInv, TypeOK, Record
<1>2. ConnectLock'
  BY DEF IInv, ConnectLock, Connecting
<1>3. WriteLock'
  BY DEF IInv, WriteLock, Writing
<1>4. Places'
  BY ClientAssumption DEF IInv, Places, Results
<1>5. OneConnection'
  BY DEF IInv, OneConnection
<1>6. Numbers'
  BY DEF IInv, Numbers, Numbered
<1>7. Lines'
  BY DEF IInv, Lines, Numbered
<1>8. AnswersOwnCall'
  BY ClientAssumption DEF IInv, AnswersOwnCall, Results
<1>9. NoAbandonedWaiter'
  BY DEF NoAbandonedWaiter, Numbered
<1>10. NoLeakedConnection'
  BY DEF IInv, NoLeakedConnection
<1>11. WrittenOnce'
  BY DEF IInv, WrittenOnce
<1>12. SessionAnnounced'
  BY DEF IInv, SessionAnnounced
<1> QED BY <1>1, <1>2, <1>3, <1>4, <1>5, <1>6, <1>7, <1>8, <1>9, <1>10, <1>11, <1>12 DEF IInv

\* One lemma per step of the network, of QGIS and of the reader task.
LEMMA OpenedKeeps ==
    ASSUME IInv, NEW c \in Callers, Opened(c)
    PROVE  IInv'
<1>1. PICK k \in Conns :
      /\ link[k] = "unused" /\ writer' = k
      /\ link' = [link EXCEPT ![k] = "up"]
      /\ sessionOf' = [sessionOf EXCEPT ![k] = session]
      /\ caller' = [caller EXCEPT ![c].at = "issue", ![c].for = "hello", ![c].conn = k]
  BY DEF Opened
<1>2. /\ current = Nobody /\ caller[c].at = "opening" /\ current' = c
      /\ UNCHANGED <<pending, sequence, connectQueue, writeQueue, cancels, identity, sent,
                     abandoned, wire, replies, session, qgisUp, authenticated>>
  BY DEF Opened, qgis
<1>3. /\ \A d \in Callers \ {c} : caller'[d] = caller[d]
      /\ caller'[c] = [caller[c] EXCEPT !.at = "issue", !.for = "hello", !.conn = k]
  BY <1>1 DEF IInv, TypeOK
<1>4. caller[c] \in Record /\ "issue" \in Stages
  BY Names DEF IInv, TypeOK, Record
<1>5. /\ caller'[c] \in Record /\ caller'[c].at = "issue" /\ caller'[c].for = "hello"
      /\ caller'[c].conn = k /\ caller'[c].id = caller[c].id /\ caller'[c].got = caller[c].got
  BY <1>3, <1>4 DEF Record
<1>6. caller' \in [Callers -> Record]
  BY <1>1, <1>5 DEF IInv, TypeOK, Record
<1>7. (\A d \in Callers : caller[d].at \in Awaits <=> current # d)'
  BY <1>2, <1>3, <1>5, ClientAssumption DEF IInv, TypeOK, Awaits
<1>8. k \in Nat \ {0} /\ writer = 0 /\ link'[k] = "up" /\ sessionOf'[k] = session
      /\ \A j \in Conns \ {k} : link'[j] = link[j] /\ sessionOf'[j] = sessionOf[j]
  BY <1>1, <1>2 DEF IInv, TypeOK, OneConnection, Conns
<1>9. c \in Members(connectQueue) /\ Head(connectQueue) = c
  BY <1>2 DEF IInv, ConnectLock, Connecting
<1>10. connectQueue # <<>> /\ \A d \in Callers \ {c} : ~Connecting(d)
  BY <1>9 DEF IInv, ConnectLock, Members
<1>11. TypeOK'
  <2>1. link' \in [Conns -> {"unused", "up", "hungup", "closing", "shut", "closed"}]
    BY <1>1 DEF IInv, TypeOK
  <2>2. sessionOf' \in [Conns -> 0..MaxSessions]
    BY <1>1 DEF IInv, TypeOK
  <2>3. current' \in Callers \union {Nobody} /\ writer' \in Conns \union {0}
    BY <1>1, <1>2
  <2> QED BY <1>2, <1>6, <1>7, <2>1, <2>2, <2>3 DEF IInv, TypeOK, Record
<1>12. ConnectLock'
  <2>1. /\ Once(connectQueue') /\ Members(connectQueue') = Members(connectQueue)
        /\ Head(connectQueue') = Head(connectQueue)
    BY <1>2 DEF IInv, ConnectLock
  <2>2. ASSUME NEW d \in Callers
        PROVE  /\ d \in Members(connectQueue)
                    <=> \/ caller'[d].at = "connectLock" \/ caller'[d].at = "opening"
                        \/ caller'[d].for = "hello"
               /\ caller'[d].at = "opening" \/ caller'[d].for = "hello"
                    => Head(connectQueue) = d
    <3>1. CASE d = c
      BY <1>5, <1>9, <3>1
    <3>2. CASE d # c
      BY <1>3, <3>2 DEF IInv, ConnectLock, Connecting
    <3> QED BY <3>1, <3>2
  <2> QED BY <2>1, <2>2 DEF ConnectLock, Connecting
<1>13. WriteLock'
  BY <1>1, <1>2 DEF IInv, WriteLock, Writing, TypeOK
<1>14. Places'
  <2>1. caller'[c].conn # 0
    BY <1>5, <1>8
  <2> QED BY <1>3, <1>5, <2>1 DEF IInv, Places
<1>15. OneConnection'
  <2>1. \A d \in Callers \ {c} : caller[d].at # "opening" /\ caller[d].for # "hello"
    BY <1>10 DEF Connecting
  <2>2. caller'[c].at # "opening" /\ caller'[c].at \notin {"closing", "closed"}
    BY <1>5
  <2>3. \A d \in Callers : caller'[d].at # "opening" /\ (caller'[d].for = "hello" => d = c)
    BY <1>3, <2>1, <2>2
  <2> QED BY <1>1, <1>5, <1>8, <2>2, <2>3 DEF OneConnection
<1>16. Numbers'
  BY <1>1, <1>2 DEF IInv, Numbers, TypeOK, Numbered, Awaits
<1>17. Lines'
  <2>1. ~Numbered(c)'
    BY <1>5 DEF Numbered
  <2>2. \A d \in Callers : Numbered(d)' => Numbered(d) /\ caller'[d] = caller[d]
    BY <1>3, <2>1 DEF Numbered
  <2>3. wire' = wire /\ replies' = replies /\ sequence' = sequence
    BY <1>2
  <2> QED BY <2>2, <2>3 DEF IInv, Lines
<1>18. AnswersOwnCall'
  BY <1>1 DEF IInv, AnswersOwnCall, TypeOK
<1>19. NoAbandonedWaiter'
  BY <1>1, <1>2 DEF IInv, NoAbandonedWaiter, TypeOK, BeingRead
<1>20. NoLeakedConnection'
  BY <1>1, <1>8 DEF IInv, NoLeakedConnection, Conns
<1>21. WrittenOnce'
  BY <1>1, <1>2 DEF IInv, WrittenOnce, TypeOK
<1>22. SessionAnnounced'
  BY <1>1, <1>2, <1>5, <1>9, <1>10 DEF SessionAnnounced
<1> QED BY <1>11, <1>12, <1>13, <1>14, <1>15, <1>16, <1>17, <1>18, <1>19, <1>20, <1>21, <1>22
   DEF IInv

LEMMA DeliverKeeps ==
    ASSUME IInv, NEW r \in replies, Deliver(r)
    PROVE  IInv'
<1>1. /\ current = Nobody /\ replies' = replies \ {r} /\ pending' = pending \ {r.id}
      /\ caller' = [c \in Callers |->
             IF Unanswered(c) /\ caller[c].id = r.id
             THEN [caller[c] EXCEPT !.got = r.what] ELSE caller[c]]
      /\ UNCHANGED <<current, writer, sequence, connectQueue, writeQueue, cancels, identity,
                     sent, abandoned, link, sessionOf, wire, session, qgisUp, authenticated>>
  BY DEF Deliver, qgis
<1>2. r.what \in Callers \union {"welcome", "error"} /\ r.what \in Outcome
  BY DEF IInv, TypeOK, Lines
<1>3. \A d \in Callers :
         /\ caller'[d] \in Record
         /\ caller'[d].at = caller[d].at /\ caller'[d].for = caller[d].for
         /\ caller'[d].conn = caller[d].conn /\ caller'[d].id = caller[d].id
         /\ caller'[d].got = IF Unanswered(d) /\ caller[d].id = r.id
                             THEN r.what ELSE caller[d].got
  <2> SUFFICES ASSUME NEW d \in Callers
               PROVE  /\ caller'[d] \in Record
                      /\ caller'[d].at = caller[d].at /\ caller'[d].for = caller[d].for
                      /\ caller'[d].conn = caller[d].conn /\ caller'[d].id = caller[d].id
                      /\ caller'[d].got = IF Unanswered(d) /\ caller[d].id = r.id
                                          THEN r.what ELSE caller[d].got
    OBVIOUS
  <2>1. caller[d] \in Record
    BY DEF IInv, TypeOK, Record
  <2>2. [caller[d] EXCEPT !.got = r.what] \in Record
    BY <1>2, <2>1 DEF Record
  <2>3. CASE Unanswered(d) /\ caller[d].id = r.id
    <3>1. caller'[d] = [caller[d] EXCEPT !.got = r.what]
      BY <1>1, <2>3
    <3> QED BY <2>2, <2>3, <3>1
  <2>4. CASE ~(Unanswered(d) /\ caller[d].id = r.id)
    <3>1. caller'[d] = caller[d]
      BY <1>1, <2>4
    <3> QED BY <2>1, <2>4, <3>1
  <2> QED BY <2>3, <2>4
<1>4. caller' \in [Callers -> Record]
  BY <1>1, <1>3
<1>5. \A d \in Callers : Unanswered(d) /\ caller[d].id = r.id =>
         /\ Numbered(d)
         /\ r.what \in Callers => r.what = d /\ caller[d].for = "call"
         /\ r.what = "welcome" => caller[d].for = "hello"
  BY DEF IInv, Lines, Numbered, Unanswered
<1>6. TypeOK'
  <2>1. (\A d \in Callers : caller[d].at \in Awaits <=> current # d)'
    BY <1>1 DEF IInv, TypeOK
  <2> QED BY <1>1, <1>3, <1>4, <2>1 DEF IInv, TypeOK, Record
<1>7. ConnectLock'
  BY <1>1 DEF IInv, ConnectLock, Connecting
<1>8. WriteLock'
  BY <1>1 DEF IInv, WriteLock, Writing
<1>9. Places'
  BY <1>3 DEF IInv, Places, Unanswered
<1>10. OneConnection'
  BY <1>1 DEF IInv, OneConnection
<1>11. Numbers'
  <2>1. \A d \in Callers : Numbered(d)' <=> Numbered(d)
    BY <1>3 DEF Numbered
  <2>2. ASSUME NEW d \in Callers, Numbered(d), caller'[d].got = "nothing"
        PROVE  caller[d].id \in pending \ {r.id}
    <3>1. caller[d].got = "nothing" /\ caller[d].id \in pending
      BY <1>2, <1>3, <2>2, ClientAssumption DEF IInv, Numbers, Results
    <3>2. caller[d].at # "write"
      BY <1>1, ClientAssumption DEF IInv, TypeOK, Awaits
    <3>3. Unanswered(d)
      BY <2>2, <3>1, <3>2 DEF Numbered, Unanswered
    <3> QED BY <1>2, <1>3, <2>2, <3>1, <3>3, ClientAssumption DEF Results
  <2> QED BY <1>1, <2>1, <2>2 DEF IInv, Numbers
<1>12. Lines'
  BY <1>1 DEF IInv, Lines, Numbered
<1>13. AnswersOwnCall'
  BY <1>3, <1>5 DEF IInv, AnswersOwnCall
<1>14. NoAbandonedWaiter'
  <2> SUFFICES ASSUME NEW d \in Callers, caller'[d].at \in {"draining", "waiting"},
                      caller'[d].got = "nothing"
               PROVE  caller'[d].id \in pending' /\ BeingRead(caller[d].conn)
    BY <1>1 DEF NoAbandonedWaiter, BeingRead
  <2>1. caller[d].at \in {"draining", "waiting"} /\ caller[d].got = "nothing"
    BY <1>2, <1>3, ClientAssumption DEF Results
  <2>2. caller[d].id \in pending /\ BeingRead(caller[d].conn)
    BY <2>1 DEF IInv, NoAbandonedWaiter
  <2>3. Unanswered(d)
    BY <2>1, <2>2 DEF Unanswered
  <2> QED BY <1>1, <1>2, <2>2, <2>3, ClientAssumption DEF Results
<1>15. NoLeakedConnection'
  BY <1>1 DEF IInv, NoLeakedConnection
<1>16. WrittenOnce'
  BY <1>1 DEF IInv, WrittenOnce
<1>17. SessionAnnounced'
  BY <1>1 DEF IInv, SessionAnnounced
<1> QED BY <1>6, <1>7, <1>8, <1>9, <1>10, <1>11, <1>12, <1>13, <1>14, <1>15, <1>16, <1>17 DEF
   IInv

LEMMA QgisStartsKeeps ==
    ASSUME IInv, QgisStarts
    PROVE  IInv'
<1>1. /\ session' = session + 1 /\ session < MaxSessions /\ qgisUp' = TRUE
      /\ UNCHANGED <<caller, current, writer, pending, sequence, connectQueue, writeQueue,
                     cancels, identity, sent, abandoned, link, sessionOf, wire, replies,
                     authenticated>>
  BY DEF QgisStarts, client, network
<1>2. session' \in 1..MaxSessions
  BY <1>1, ClientAssumption DEF IInv, TypeOK
<1> QED BY <1>1, <1>2, NetworkKeeps DEF IInv, TypeOK

LEMMA QgisEndsKeeps ==
    ASSUME IInv, QgisEnds
    PROVE  IInv'
<1>1. /\ qgisUp' = FALSE /\ wire' = {}
      /\ link' = [k \in Conns |-> IF link[k] = "up" THEN "hungup" ELSE link[k]]
      /\ UNCHANGED <<caller, current, writer, pending, sequence, connectQueue, writeQueue,
                     cancels, identity, sent, abandoned, sessionOf, replies, session,
                     authenticated>>
  BY DEF QgisEnds, client
<1>2. /\ link' \in [Conns -> {"unused", "up", "hungup", "closing", "shut", "closed"}]
      /\ \A k \in Conns : link'[k] # link[k] => link[k] = "up" /\ link'[k] = "hungup"
  BY <1>1 DEF IInv, TypeOK
<1> QED BY <1>1, <1>2, NetworkKeeps DEF IInv, TypeOK

LEMMA DiscardKeeps ==
    ASSUME IInv, NEW k \in Conns, Discard(k)
    PROVE  IInv'
<1>1. wire' \subseteq wire /\ UNCHANGED <<caller, current, writer, pending, sequence,
                                          connectQueue, writeQueue, cancels, identity, sent,
                                          abandoned, link, sessionOf, replies, session, qgisUp,
                                          authenticated>>
  BY DEF Discard, client, qgis
<1> QED BY <1>1, NetworkKeeps DEF IInv, TypeOK

LEMMA SendCancelKeeps ==
    ASSUME IInv, NEW n \in cancels, SendCancel(n)
    PROVE  IInv'
<1>1. /\ sequence' \in {sequence, sequence + 1} /\ cancels' \subseteq cancels
      /\ \A l \in wire' \ wire :
            l \in Line({"cancel"}, {Nobody}) /\ l.id = n /\ l.for = "cancel"
      /\ UNCHANGED <<caller, current, writer, pending, connectQueue, writeQueue, identity,
                     sent, abandoned, link, sessionOf, replies, session, qgisUp, authenticated>>
  BY DEF IInv, TypeOK, SendCancel, NextNumber, qgis, Line
<1>2. n \in 1..sequence' /\ cancels' \subseteq 1..sequence'
  BY <1>1 DEF IInv, TypeOK
<1> QED BY <1>1, <1>2, NetworkKeeps DEF IInv, TypeOK

\* An answer of QGIS is to a line it was sent, and carries its number.
LEMMA ReplyFacts ==
    ASSUME IInv, NEW line \in wire, NEW what, Reply(line, what),
           \/ what = "error"
           \/ what = "welcome" /\ line.for = "hello"
           \/ what = line.by /\ line.for = "call"
    PROVE  \A r \in replies' \ replies :
             /\ r \in [conn : Conns, id : Nat, what : Outcome] /\ r.id = line.id
             /\ r.what \in Callers \union {"welcome", "error"}
             /\ r.what = "welcome" => line.for = "hello"
             /\ r.what \in Callers => r.what = line.by /\ line.for = "call"
<1>1. line \in Line({"hello", "call"}, Callers) \union Line({"cancel"}, {Nobody})
  BY DEF IInv, TypeOK
<1>2. /\ line.conn \in Conns /\ line.id \in Nat
      /\ line.for = "call" => line.by \in Callers
  BY <1>1 DEF Line
<1>3. what \in Callers \union {"welcome", "error"} /\ what \in Outcome
  BY <1>2, Names
<1>4. \A r \in replies' \ replies : r = [conn |-> line.conn, id |-> line.id, what |-> what]
  BY DEF Reply
<1>5. "welcome" \notin Callers /\ "error" \notin Callers
  BY ClientAssumption DEF Results
<1> QED BY <1>2, <1>3, <1>4, <1>5

LEMMA HandleKeeps ==
    ASSUME IInv, NEW line \in wire, Handle(line)
    PROVE  IInv'
<1>1. \A r \in replies' \ replies :
         /\ r \in [conn : Conns, id : Nat, what : Outcome] /\ r.id = line.id
         /\ r.what \in Callers \union {"welcome", "error"}
         /\ r.what = "welcome" => line.for = "hello"
         /\ r.what \in Callers => r.what = line.by /\ line.for = "call"
  <2>1. CASE Greet(line)
    BY <2>1, ReplyFacts DEF Greet
  <2>2. CASE Serve(line)
    BY <2>2, ReplyFacts DEF Serve
  <2>3. CASE Withdraw(line)
    BY <2>3 DEF Withdraw
  <2>4. CASE Rebuff(line)
    <3>1. Reply(line, "error")
      BY <2>4 DEF Rebuff
    <3> QED BY <3>1, ReplyFacts
  <2>5. CASE Decline(line)
    <3>1. replies' = replies \/ Reply(line, "error")
      BY <2>5 DEF Decline
    <3> QED BY <3>1, ReplyFacts
  <2> QED BY <2>1, <2>2, <2>3, <2>4, <2>5 DEF Handle
<1>2. line.conn \in Conns
  BY DEF IInv, TypeOK, Line
<1>3. /\ wire' \subseteq wire /\ authenticated' \subseteq Conns
      /\ link' \in {link, [link EXCEPT ![line.conn] = IF @ = "up" THEN "hungup" ELSE @]}
      /\ UNCHANGED <<caller, current, writer, pending, sequence, connectQueue, writeQueue,
                     cancels, identity, sent, abandoned, sessionOf, session, qgisUp>>
  BY <1>2 DEF IInv, TypeOK, Handle, Greet, Serve, Withdraw, Rebuff, Decline, client
<1>4. /\ link' \in [Conns -> {"unused", "up", "hungup", "closing", "shut", "closed"}]
      /\ \A k \in Conns : link'[k] # link[k] => link[k] = "up" /\ link'[k] = "hungup"
  <2>1. link \in [Conns -> {"unused", "up", "hungup", "closing", "shut", "closed"}]
    BY DEF IInv, TypeOK
  <2>2. CASE link' = link
    BY <2>1, <2>2
  <2>3. CASE link' = [link EXCEPT ![line.conn] = IF link[line.conn] = "up"
                                                    THEN "hungup" ELSE link[line.conn]]
    BY <1>2, <2>1, <2>3
  <2> QED BY <1>3, <2>2, <2>3
<1>5. line.id \in 1..sequence
  BY DEF IInv, Lines
<1>6. \A r \in replies' \ replies, c \in Callers :
         Numbered(c) /\ caller[c].id = r.id =>
             /\ r.what \in Callers => r.what = c /\ caller[c].for = "call"
             /\ r.what = "welcome" => caller[c].for = "hello"
  <2> SUFFICES ASSUME NEW r \in replies' \ replies, NEW c \in Callers, Numbered(c),
                      caller[c].id = r.id
               PROVE  /\ r.what \in Callers => r.what = c /\ caller[c].for = "call"
                      /\ r.what = "welcome" => caller[c].for = "hello"
    OBVIOUS
  <2>1. line.for # "cancel" => line.by = c /\ line.for = caller[c].for
    BY <1>1 DEF IInv, Lines
  <2> QED BY <1>1, <2>1
<1> QED BY <1>1, <1>3, <1>4, <1>5, <1>6, NetworkKeeps DEF IInv, TypeOK

LEMMA ReadLoopEndsKeeps ==
    ASSUME IInv, NEW k \in Conns, ReadLoopEnds(k)
    PROVE  IInv'
<1>1. /\ current = Nobody /\ link[k] = "hungup" /\ pending' = {} /\ caller' = FailedCallers
      /\ link' = [link EXCEPT ![k] = "shut"]
      /\ writer' = IF writer = k THEN 0 ELSE writer
      /\ UNCHANGED <<current, sequence, connectQueue, writeQueue, cancels, identity, sent,
                     abandoned, sessionOf, wire, replies, session, qgisUp, authenticated>>
  BY DEF ReadLoopEnds, FailPending, qgis
<1>2. \A d \in Callers : caller[d].at # "write"
  BY <1>1, ClientAssumption DEF IInv, TypeOK, Awaits
<1>3. /\ caller' \in [Callers -> Record]
      /\ \A d \in Callers :
           /\ caller'[d].at = caller[d].at /\ caller'[d].for = caller[d].for
           /\ caller'[d].conn = caller[d].conn /\ caller'[d].id = caller[d].id
           /\ caller'[d].got \in {caller[d].got, "unavailable"}
           /\ Numbered(d)' => caller'[d].got # "nothing"
  BY <1>1, <1>2, FailedFacts DEF Numbered
<1>4. (\A d \in Callers : caller[d].at \in Awaits <=> current # d)'
  BY <1>1, <1>3 DEF IInv, TypeOK
<1>5. /\ link' \in [Conns -> {"unused", "up", "hungup", "closing", "shut", "closed"}]
      /\ \A j \in Conns : link'[j] \in {"up", "hungup"}
              => link'[j] = link[j] /\ writer' = writer
      /\ writer' # 0 => link'[writer] = link[writer]
  BY <1>1 DEF IInv, TypeOK, NoLeakedConnection
<1> QED BY <1>1, <1>3, <1>4, <1>5, FailingKeeps DEF IInv, TypeOK

LEMMA TransportEndsKeeps ==
    ASSUME IInv, NEW k \in Conns, TransportEnds(k)
    PROVE  IInv'
<1>1. CASE link[k] = "closing"
  <2>1. /\ current = Nobody /\ link[k] = "closing"
        /\ link' = [link EXCEPT ![k] = "closed"]
        /\ replies' = {r \in replies : r.conn # k}
        /\ pending' = {} /\ caller' = FailedCallers
        /\ UNCHANGED <<current, writer, sequence, connectQueue, writeQueue, cancels, identity,
                       sent, abandoned, sessionOf, wire, session, qgisUp, authenticated>>
    BY <1>1 DEF TransportEnds, FailPending, qgis
  <2>2. \A d \in Callers : caller[d].at # "write"
    BY <2>1, ClientAssumption DEF IInv, TypeOK, Awaits
  <2>3. /\ caller' \in [Callers -> Record]
        /\ \A d \in Callers :
             /\ caller'[d].at = caller[d].at /\ caller'[d].for = caller[d].for
             /\ caller'[d].conn = caller[d].conn /\ caller'[d].id = caller[d].id
             /\ caller'[d].got \in {caller[d].got, "unavailable"}
             /\ Numbered(d)' => caller'[d].got # "nothing"
    BY <2>1, <2>2, FailedFacts DEF Numbered
  <2>4. (\A d \in Callers : caller[d].at \in Awaits <=> current # d)'
    BY <2>1, <2>3 DEF IInv, TypeOK
  <2>5. /\ link' \in [Conns -> {"unused", "up", "hungup", "closing", "shut", "closed"}]
        /\ \A j \in Conns : link'[j] \in {"up", "hungup"}
                => link'[j] = link[j] /\ writer' = writer
        /\ writer' # 0 => link'[writer] = link[writer]
    BY <2>1 DEF IInv, TypeOK, OneConnection
  <2> QED BY <2>1, <2>3, <2>4, <2>5, FailingKeeps DEF IInv, TypeOK
<1>2. CASE link[k] = "shut"
  <2>1. /\ current = Nobody /\ link[k] = "shut"
        /\ link' = [link EXCEPT ![k] = "closed"]
        /\ replies' = {r \in replies : r.conn # k}
        /\ UNCHANGED <<caller, current, writer, pending, sequence, connectQueue, writeQueue,
                       cancels, identity, sent, abandoned, sessionOf, wire, session, qgisUp,
                       authenticated>>
    BY <1>2 DEF TransportEnds, qgis
  <2>2. TypeOK'
    BY <2>1 DEF IInv, TypeOK, Record
  <2>3. ConnectLock'
    BY <2>1 DEF IInv, ConnectLock, Connecting
  <2>4. WriteLock'
    BY <2>1 DEF IInv, WriteLock, Writing
  <2>5. Places'
    BY <2>1 DEF IInv, Places
  <2>6. OneConnection'
    BY <2>1 DEF IInv, OneConnection
  <2>7. Numbers'
    BY <2>1 DEF IInv, Numbers, Numbered
  <2>8. Lines'
    BY <2>1 DEF IInv, Lines, Numbered
  <2>9. AnswersOwnCall'
    BY <2>1 DEF IInv, AnswersOwnCall
  <2>10. NoAbandonedWaiter'
    BY <2>1 DEF IInv, NoAbandonedWaiter, BeingRead
  <2>11. NoLeakedConnection'
    BY <2>1 DEF IInv, NoLeakedConnection
  <2>12. WrittenOnce'
    BY <2>1 DEF IInv, WrittenOnce
  <2>13. SessionAnnounced'
    BY <2>1 DEF IInv, SessionAnnounced
  <2> QED BY <2>2, <2>3, <2>4, <2>5, <2>6, <2>7, <2>8, <2>9, <2>10, <2>11, <2>12, <2>13 DEF IInv
<1> QED BY <1>1, <1>2 DEF TransportEnds

\* The two halves of _close.
LEMMA CloseKeeps ==
    ASSUME IInv, NEW c \in Callers, Close(c)
    PROVE  IInv'
<1>1. CASE writer # 0
  <2>1. /\ current = c /\ caller[c].at = "close" /\ writer # 0 /\ writer' = 0
        /\ link' = [link EXCEPT ![writer] = "closing"]
        /\ caller' = [caller EXCEPT ![c] = [caller[c] EXCEPT !.at = "closing", !.conn = writer]]
        /\ current' = Nobody
        /\ UNCHANGED <<pending, sequence, connectQueue, writeQueue, cancels, identity, sent,
                       abandoned, sessionOf, wire, replies, session, qgisUp, authenticated>>
    BY <1>1 DEF Close, qgis
  <2>2. writer \in Conns /\ link[writer] \in {"up", "hungup"} /\ writer # 0
    BY <2>1 DEF IInv, TypeOK, OneConnection
  <2>3. caller[c] \in Record /\ "closing" \in Stages
    BY Names DEF IInv, TypeOK, Record
  <2>4. [caller[c] EXCEPT !.at = "closing", !.conn = writer] \in Record
    BY <2>2, <2>3 DEF Record
  <2>5. caller' \in [Callers -> Record]
    BY <2>1, <2>4 DEF IInv, TypeOK, Record
  <2>6. (\A d \in Callers : caller[d].at \in Awaits <=> current # d)'
    BY <2>1, ClientAssumption DEF IInv, TypeOK, Awaits
  <2>7. TypeOK'
    BY <2>1, <2>2, <2>5, <2>6 DEF IInv, TypeOK, Record
  <2>8. ConnectLock'
    BY <2>1 DEF IInv, ConnectLock, Connecting
  <2>9. WriteLock'
    BY <2>1 DEF IInv, WriteLock, Writing
  <2>10. Places'
    BY <2>1 DEF IInv, Places
  <2>11. OneConnection'
    BY <2>1 DEF OneConnection
  <2>12. Numbers'
    BY <2>1 DEF IInv, Numbers, Numbered
  <2>13. Lines'
    BY <2>1 DEF IInv, Lines, Numbered, Places
  <2>14. AnswersOwnCall'
    BY <2>1 DEF IInv, AnswersOwnCall
  <2>15. NoAbandonedWaiter'
    BY <2>1 DEF IInv, NoAbandonedWaiter, BeingRead
  <2>16. NoLeakedConnection'
    BY <2>1 DEF IInv, NoLeakedConnection, TypeOK
  <2>17. WrittenOnce'
    BY <2>1 DEF IInv, WrittenOnce
  <2>18. SessionAnnounced'
    BY <2>1 DEF SessionAnnounced
  <2> QED BY <2>7, <2>8, <2>9, <2>10, <2>11, <2>12, <2>13, <2>14, <2>15, <2>16, <2>17, <2>18
     DEF IInv
<1>2. CASE writer = 0
  <2>1. /\ current = c /\ caller[c].at = "close" /\ writer = 0
        /\ current' = c /\ pending' = {}
        /\ caller' = [FailedCallers EXCEPT ![c].at = "closed"]
        /\ UNCHANGED <<writer, sequence, connectQueue, writeQueue, cancels, identity, sent,
                       abandoned, link, sessionOf, wire, replies, session, qgisUp,
                       authenticated>>
    BY <1>2 DEF Close, qgis
  <2>2. \A d \in Callers : caller[d].at # "write"
    BY <2>1 DEF IInv, TypeOK, Awaits
  <2>3. /\ caller' \in [Callers -> Record] /\ caller'[c].at = "closed"
        /\ \A d \in Callers \ {c} : caller'[d].at = caller[d].at
        /\ \A d \in Callers :
             /\ caller'[d].for = caller[d].for
             /\ caller'[d].conn = caller[d].conn /\ caller'[d].id = caller[d].id
             /\ caller'[d].got \in {caller[d].got, "unavailable"}
             /\ Numbered(d)' => caller'[d].got # "nothing"
    <3>1. "closed" \in Stages /\ FailedCallers[c] \in Record
      BY Names, FailedFacts
    <3>2. [FailedCallers[c] EXCEPT !.at = "closed"] \in Record
      BY <3>1 DEF Record
    <3>3. caller'[c] = [FailedCallers[c] EXCEPT !.at = "closed"]
      BY <2>1 DEF FailedCallers
    <3>4. \A d \in Callers \ {c} : caller'[d] = FailedCallers[d]
      BY <2>1
    <3>5. caller' \in [Callers -> Record]
      BY <2>1, <3>2, <3>3, <3>4, FailedFacts DEF FailedCallers
    <3>6. /\ caller'[c].at = "closed" /\ caller'[c].for = FailedCallers[c].for
          /\ caller'[c].conn = FailedCallers[c].conn /\ caller'[c].id = FailedCallers[c].id
          /\ caller'[c].got = FailedCallers[c].got
      BY <3>3
    <3> QED BY <2>2, <3>4, <3>5, <3>6, FailedFacts DEF Numbered
  <2>4. (\A d \in Callers : caller[d].at \in Awaits <=> current # d)'
    BY <2>1, <2>3 DEF IInv, TypeOK, Awaits
  <2>5. /\ link' \in [Conns -> {"unused", "up", "hungup", "closing", "shut", "closed"}]
        /\ \A j \in Conns : link'[j] \in {"up", "hungup"}
                => link'[j] = link[j] /\ writer' = writer
        /\ writer' # 0 => link'[writer] = link[writer]
    BY <2>1 DEF IInv, TypeOK
  <2> QED BY <2>1, <2>3, <2>4, <2>5, FailingKeeps DEF IInv, TypeOK
<1> QED BY <1>1, <1>2

LEMMA CloseReturnsKeeps ==
    ASSUME IInv, NEW c \in Callers, CloseReturns(c)
    PROVE  IInv'
<1>1. /\ current = Nobody /\ caller[c].at = "closing"
      /\ current' = c /\ pending' = {}
      /\ caller' = [FailedCallers EXCEPT ![c].at = "closed"]
      /\ UNCHANGED <<writer, sequence, connectQueue, writeQueue, cancels, identity, sent,
                     abandoned, link, sessionOf, wire, replies, session, qgisUp, authenticated>>
  BY DEF CloseReturns, network, qgis
<1>2. \A d \in Callers : caller[d].at # "write"
  BY <1>1, ClientAssumption DEF IInv, TypeOK, Awaits
<1>3. /\ caller' \in [Callers -> Record] /\ caller'[c].at = "closed"
      /\ \A d \in Callers \ {c} : caller'[d].at = caller[d].at
      /\ \A d \in Callers :
           /\ caller'[d].for = caller[d].for
           /\ caller'[d].conn = caller[d].conn /\ caller'[d].id = caller[d].id
           /\ caller'[d].got \in {caller[d].got, "unavailable"}
           /\ Numbered(d)' => caller'[d].got # "nothing"
  <2>1. "closed" \in Stages /\ FailedCallers[c] \in Record
    BY Names, FailedFacts
  <2>2. [FailedCallers[c] EXCEPT !.at = "closed"] \in Record
    BY <2>1 DEF Record
  <2>3. caller'[c] = [FailedCallers[c] EXCEPT !.at = "closed"]
    BY <1>1 DEF FailedCallers
  <2>4. \A d \in Callers \ {c} : caller'[d] = FailedCallers[d]
    BY <1>1
  <2>5. caller' \in [Callers -> Record]
    BY <1>1, <2>2, <2>3, <2>4, FailedFacts DEF FailedCallers
  <2>6. /\ caller'[c].at = "closed" /\ caller'[c].for = FailedCallers[c].for
        /\ caller'[c].conn = FailedCallers[c].conn /\ caller'[c].id = FailedCallers[c].id
        /\ caller'[c].got = FailedCallers[c].got
    BY <2>3
  <2> QED BY <1>2, <2>4, <2>5, <2>6, FailedFacts DEF Numbered
<1>4. (\A d \in Callers : caller[d].at \in Awaits <=> current # d)'
  BY <1>1, <1>3, ClientAssumption DEF IInv, TypeOK, Awaits
<1>5. /\ link' \in [Conns -> {"unused", "up", "hungup", "closing", "shut", "closed"}]
      /\ \A j \in Conns : link'[j] \in {"up", "hungup"}
              => link'[j] = link[j] /\ writer' = writer
      /\ writer' # 0 => link'[writer] = link[writer]
  BY <1>1 DEF IInv, TypeOK
<1> QED BY <1>1, <1>3, <1>4, <1>5, FailingKeeps DEF IInv, TypeOK

\* Every step keeps all of it.
LEMMA NextKeeps == IInv /\ [Next]_vars => IInv'
<1> SUFFICES ASSUME IInv, [Next]_vars PROVE IInv'
  OBVIOUS
<1>1. ASSUME NEW c \in Callers,
             Begin(c) \/ Continue(c) \/ TimesOut(c) \/ DeadlinePasses(c) \/ Cancel(c)
      PROVE  IInv'
  <2>1. CASE Begin(c) \/ TimesOut(c) \/ DeadlinePasses(c) \/ Cancel(c)
    BY <2>1, BeginKeeps, TimesOutKeeps, DeadlinePassesKeeps, CancelKeeps
  <2>2. CASE Attempt(c) \/ ConnectLockGranted(c) \/ Opened(c) \/ Refused(c)
    BY <2>2, AttemptKeeps, ConnectLockGrantedKeeps, OpenedKeeps, RefusedKeeps
  <2>3. CASE \/ Issue(c) \/ IssueUnconnected(c) \/ WriteLockGranted(c) \/ Write(c)
             \/ WriteToNone(c)
    BY <2>3, IssueKeeps, IssueUnconnectedKeeps, WriteLockGrantedKeeps, WriteKeeps,
       WriteToNoneKeeps
  <2>4. CASE Drained(c) \/ Answered(c) \/ Welcomed(c) \/ Failed(c)
    BY <2>4, DrainedKeeps, AnsweredKeeps, WelcomedKeeps, FailedKeeps
  <2>5. CASE \/ RaiseFromHello(c) \/ Raise(c) \/ Close(c) \/ CloseReturns(c)
             \/ AfterClose(c) \/ Wakes(c)
    BY <2>5, RaiseFromHelloKeeps, RaiseKeeps, CloseKeeps, CloseReturnsKeeps, AfterCloseKeeps,
       WakesKeeps
  <2> QED BY <1>1, <2>1, <2>2, <2>3, <2>4, <2>5 DEF Continue
<1>2. ASSUME NEW n \in cancels, SendCancel(n) PROVE IInv'
  BY <1>2, SendCancelKeeps
<1>3. ASSUME NEW k \in Conns, ReadLoop(k) \/ TransportEnds(k) \/ Discard(k) PROVE IInv'
  BY <1>3, DeliverKeeps, ReadLoopEndsKeeps, TransportEndsKeeps, DiscardKeeps DEF ReadLoop
<1>4. ASSUME NEW line \in wire, Handle(line) PROVE IInv'
  BY <1>4, HandleKeeps
<1>5. CASE QgisEnds \/ QgisStarts
  BY <1>5, QgisEndsKeeps, QgisStartsKeeps
<1>6. CASE UNCHANGED vars
  <2>1. TypeOK' /\ Places' /\ OneConnection'
    BY <1>6 DEF vars, IInv, TypeOK, Places, OneConnection
  <2>2. ConnectLock' /\ WriteLock'
    BY <1>6 DEF vars, IInv, ConnectLock, WriteLock, Connecting, Writing
  <2>3. Numbers' /\ Lines'
    BY <1>6 DEF vars, IInv, Numbers, Numbered, Lines
  <2>4. /\ AnswersOwnCall' /\ NoAbandonedWaiter' /\ NoLeakedConnection' /\ WrittenOnce'
        /\ SessionAnnounced'
    BY <1>6 DEF vars, IInv, AnswersOwnCall, NoAbandonedWaiter, BeingRead, NoLeakedConnection,
       WrittenOnce, SessionAnnounced
  <2> QED BY <2>1, <2>2, <2>3, <2>4 DEF IInv
<1> QED BY <1>1, <1>2, <1>3, <1>4, <1>5, <1>6 DEF Next

\* The invariant holds in every behaviour.
LEMMA AlwaysIInv == Spec => []IInv
BY InitKeeps, NextKeeps, PTL DEF Spec
-----------------------------------------------------------------------------
(* The variables keep their types, and a coroutine that has the event loop *)
(* is in between two awaits (bridge.py, _LocalBridgeClient's attributes).  *)
THEOREM ClientTypeCorrect == Spec => []TypeOK
<1>1. IInv => TypeOK
  BY DEF IInv
<1> QED BY <1>1, AlwaysIInv, PTL

(* However many coroutines share a connection, and whatever is cancelled,    *)
(* retried or answered late, what a caller is given is the answer to its own *)
(* call (bridge.py, lines 263-267 and 320-322).                              *)
THEOREM AnswersAreOwn == Spec => []AnswersOwnCall
<1>1. IInv => AnswersOwnCall
  BY DEF IInv
<1> QED BY <1>1, AlwaysIInv, PTL

(* No coroutine waits on a connection that has gone for an answer that will *)
(* not come (bridge.py, _fail_pending).                                     *)
THEOREM WaitersAreNotAbandoned == Spec => []NoAbandonedWaiter
<1>1. IInv => NoAbandonedWaiter
  BY DEF IInv
<1> QED BY <1>1, AlwaysIInv, PTL

(* No connection is left open that the client has lost sight of (bridge.py, *)
(* lines 71-76 and 155-164).                                                *)
THEOREM NoConnectionLeaks == Spec => []NoLeakedConnection
<1>1. IInv => NoLeakedConnection
  BY DEF IInv
<1> QED BY <1>1, AlwaysIInv, PTL

(* What may not be repeated is written to a connection once at most, over   *)
(* any number of QGIS sessions (bridge.py, lines 185-193).                  *)
THEOREM NothingIsSentTwice == Spec => []SentOnce
<1>1. IInv => SentOnce
  BY DEF IInv, WrittenOnce, SentOnce
<1> QED BY <1>1, AlwaysIInv, PTL

(* No call goes to a QGIS session that has not been announced, except over a *)
(* connection whose greeting was cancelled (bridge.py, lines 135-153).       *)
THEOREM SessionsAreAnnounced == Spec => []SessionAnnounced
<1>1. IInv => SessionAnnounced
  BY DEF IInv
<1> QED BY <1>1, AlwaysIInv, PTL
===============================================================================
