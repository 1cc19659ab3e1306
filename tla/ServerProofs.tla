------------------------------- MODULE ServerProofs -------------------------------
(***************************************************************************)
(* The two parts of the MCP server that keep state between requests. What  *)
(* a client reads of an MCP task is true, for any number of servers and    *)
(* tasks, and whatever saves fail, servers die or are started. A proposal  *)
(* of the plugin advisor stands for one installation, however many calls   *)
(* use it at once and with whatever keys.                                  *)
(***************************************************************************)
EXTENDS MCServer, TLAPS

(* --------------------------------- tasks ---------------------------------- *)

\* A coroutine that has not ended has a process.
JobsLive ==
    \A t \in Tasks : job[t] \in {"created", "waiting", "cancelling"} => owner[t] \in alive

\* Nothing is known of a task that was never started.
NothingYet ==
    \A t \in Tasks : job[t] = "none" =>
        /\ events[t] = {} /\ saved[t] = Manager!Unknown
        /\ \A s \in Servers : record[s][t] = Manager!Unknown

\* Only its own process takes a task for working, while it is.
WorkingIsOwn ==
    \A s \in Servers, t \in Tasks :
        record[s][t] = "working" => s \in alive /\ owner[t] = s /\ job[t] # "ended"

\* Nothing is completed before its coroutine has ended.
CompletedHasEnded ==
    \A t \in Tasks : job[t] # "ended" =>
        saved[t] # "completed" /\ \A s \in Servers : record[s][t] # "completed"

\* A coroutine that was cancelled and goes on is marked in its process.
CancelIsMarked ==
    \A t \in Tasks :
        /\ job[t] = "cancelling" => "asked" \in events[t] /\ record[owner[t]][t] = "cancelled"
        /\ job[t] \in {"none", "created", "waiting"} => "asked" \notin events[t]

AllTruthful ==
    \A t \in Tasks : Truthful(t, saved[t]) /\ \A s \in Servers : Truthful(t, record[s][t])

TaskInv ==
    /\ Manager!TypeOK /\ JobsLive /\ NothingYet /\ WorkingIsOwn
    /\ CompletedHasEnded /\ CancelIsMarked /\ AllTruthful

\* Nothing is running and nothing is known at first.
LEMMA TaskInitKeeps == Manager!Init => TaskInv
BY DEF Manager!Unknown, Truthful, AllTruthful, CancelIsMarked, CompletedHasEnded, WorkingIsOwn,
   NothingYet, JobsLive, Manager!TypeOK, TaskInv, Manager!Init

LEMMA LoadKeeps ==
    ASSUME TaskInv, NEW s \in Servers, Manager!Load(s)
    PROVE  TaskInv'
<1>1. Manager!TypeOK'
  BY DEF Manager!Events, Manager!TerminalTaskStates, Manager!TypeOK, TaskInv, Manager!Load
<1>2. JobsLive'
  BY DEF TaskInv, Manager!Load, JobsLive
<1>3. NothingYet'
  BY DEF TaskInv, Manager!Interrupted, Manager!Load, NothingYet
<1>4. WorkingIsOwn'
  BY DEF Manager!TerminalTaskStates, Manager!Unknown, TaskInv, Manager!Interrupted,
         Manager!Load, WorkingIsOwn
<1>5. CompletedHasEnded'
  BY DEF TaskInv, Manager!Load, CompletedHasEnded
<1>6. CancelIsMarked'
  BY DEF TaskInv, Manager!Load, JobsLive, CancelIsMarked
<1>7. AllTruthful'
  <2> SUFFICES ASSUME NEW u \in Tasks, NEW q \in Servers
               PROVE  Truthful(u, saved[u])' /\ Truthful(u, record[q][u])'
    BY DEF AllTruthful
  <2>1. events[u] \subseteq events'[u] /\ ("asked" \in events'[u] => "asked" \in events[u])
    BY DEF Manager!Load
  <2>2. saved'[u] = saved[u] \/ Truthful(u, saved[u])'
    BY DEF Manager!Load, Truthful
  <2>3. record'[q][u] \in {record[q][u], saved[u]} \/ Truthful(u, record[q][u])'
    BY DEF Manager!Load, Truthful
  <2> QED
    BY <2>1, <2>2, <2>3 DEF TaskInv, Truthful, AllTruthful
<1> QED BY <1>1, <1>2, <1>3, <1>4, <1>5, <1>6, <1>7 DEF TaskInv

LEMMA StopKeeps ==
    ASSUME TaskInv, NEW s \in Servers, Manager!Stop(s)
    PROVE  TaskInv'
<1>1. Manager!TypeOK'
  BY DEF Manager!Events, Manager!TerminalTaskStates, Manager!TypeOK, TaskInv, Manager!Gone,
         Manager!Stop
<1>2. JobsLive'
  BY DEF TaskInv, Manager!Own, Manager!Gone, Manager!Stop, JobsLive
<1>3. NothingYet'
  BY DEF TaskInv, Manager!Gone, Manager!Stop, NothingYet
<1>4. WorkingIsOwn'
  BY DEF Manager!Unknown, Manager!TypeOK, TaskInv, Manager!Own, Manager!Gone, Manager!Stop,
         WorkingIsOwn
<1>5. CompletedHasEnded'
  BY DEF Manager!Unknown, TaskInv, Manager!Gone, Manager!Stop, CompletedHasEnded
<1>6. CancelIsMarked'
  BY DEF TaskInv, Manager!Own, Manager!Gone, Manager!Stop, CancelIsMarked
<1>7. AllTruthful'
  <2> SUFFICES ASSUME NEW u \in Tasks, NEW q \in Servers
               PROVE  Truthful(u, saved[u])' /\ Truthful(u, record[q][u])'
    BY DEF AllTruthful
  <2>1. events[u] \subseteq events'[u] /\ ("asked" \in events'[u] => "asked" \in events[u])
    BY DEF Manager!Stop
  <2>2. saved'[u] = saved[u] \/ Truthful(u, saved[u])'
    BY DEF Manager!Stop, Truthful
  <2>3. record'[q][u] = record[q][u] \/ Truthful(u, record[q][u])'
    BY DEF Manager!Unknown, Manager!Gone, Manager!Stop, Truthful
  <2> QED
    BY <2>1, <2>2, <2>3 DEF TaskInv, Truthful, AllTruthful
<1> QED BY <1>1, <1>2, <1>3, <1>4, <1>5, <1>6, <1>7 DEF TaskInv

LEMMA KillKeeps ==
    ASSUME TaskInv, NEW s \in Servers, Manager!Kill(s)
    PROVE  TaskInv'
<1>1. Manager!TypeOK'
  BY DEF Manager!TypeOK, TaskInv, Manager!Gone, Manager!Kill
<1>2. JobsLive'
  BY DEF TaskInv, Manager!Own, Manager!Gone, Manager!Kill, JobsLive
<1>3. NothingYet'
  BY DEF TaskInv, Manager!Gone, Manager!Kill, NothingYet
<1>4. WorkingIsOwn'
  BY DEF Manager!Unknown, Manager!TypeOK, TaskInv, Manager!Own, Manager!Gone, Manager!Kill,
         WorkingIsOwn
<1>5. CompletedHasEnded'
  BY DEF Manager!Unknown, TaskInv, Manager!Gone, Manager!Kill, CompletedHasEnded
<1>6. CancelIsMarked'
  BY DEF TaskInv, Manager!Own, Manager!Gone, Manager!Kill, CancelIsMarked
<1>7. AllTruthful'
  BY DEF Manager!Unknown, TaskInv, Manager!Gone, Manager!Kill, Truthful, AllTruthful
<1> QED BY <1>1, <1>2, <1>3, <1>4, <1>5, <1>6, <1>7 DEF TaskInv

LEMMA StartKeeps ==
    ASSUME TaskInv, NEW s \in Servers, NEW t \in Tasks,
             Manager!Start(s, t)
    PROVE  TaskInv'
<1>1. Manager!TypeOK'
  BY DEF Manager!TypeOK, TaskInv, Manager!SetStatus, Manager!Start
<1>2. JobsLive'
  BY DEF Manager!TypeOK, TaskInv, Manager!Start, JobsLive
<1>3. NothingYet'
  BY DEF Manager!TypeOK, TaskInv, Manager!SetStatus, Manager!Start, NothingYet
<1>4. WorkingIsOwn'
  BY DEF Manager!TypeOK, TaskInv, Manager!SetStatus, Manager!Start, NothingYet, WorkingIsOwn
<1>5. CompletedHasEnded'
  BY DEF Manager!TypeOK, TaskInv, Manager!SetStatus, Manager!Start, CompletedHasEnded
<1>6. CancelIsMarked'
  BY DEF TaskInv, Manager!SetStatus, Manager!Start, CancelIsMarked
<1>7. AllTruthful'
  BY DEF Manager!TypeOK, TaskInv, Manager!SetStatus, Manager!Start, Truthful, AllTruthful
<1> QED BY <1>1, <1>2, <1>3, <1>4, <1>5, <1>6, <1>7 DEF TaskInv

LEMMA CancelKeeps ==
    ASSUME TaskInv, NEW s \in Servers, NEW t \in Tasks, Manager!Cancel(s, t)
    PROVE  TaskInv'
<1>1. Manager!TypeOK'
  BY DEF Manager!Events, Manager!TerminalTaskStates, Manager!TypeOK, TaskInv, Manager!Happens,
         Manager!SetStatus, Manager!CancelJob, Manager!Cancel
<1>2. JobsLive'
  BY DEF TaskInv, Manager!CancelJob, Manager!Cancel, JobsLive
<1>3. NothingYet'
  BY DEF Manager!TypeOK, TaskInv, Manager!Happens, Manager!SetStatus, Manager!CancelJob,
         Manager!Cancel, NothingYet
<1>4. WorkingIsOwn'
  BY DEF Manager!TypeOK, TaskInv, Manager!SetStatus, Manager!CancelJob, Manager!Cancel,
         WorkingIsOwn
<1>5. CompletedHasEnded'
  BY DEF Manager!TypeOK, TaskInv, Manager!SetStatus, Manager!CancelJob, Manager!Cancel,
         CompletedHasEnded
<1>6. CancelIsMarked'
  BY DEF Manager!TypeOK, TaskInv, Manager!Happens, Manager!SetStatus, Manager!CancelJob,
         Manager!Cancel, WorkingIsOwn, NothingYet, CancelIsMarked
<1>7. AllTruthful'
  BY DEF Manager!TypeOK, TaskInv, Manager!Happens, Manager!SetStatus, Manager!Cancel, Truthful,
         CancelIsMarked, CompletedHasEnded, WorkingIsOwn, AllTruthful
<1> QED BY <1>1, <1>2, <1>3, <1>4, <1>5, <1>6, <1>7 DEF TaskInv

LEMMA PurgeKeeps ==
    ASSUME TaskInv, NEW s \in Servers, NEW t \in Tasks, Manager!Purge(s, t)
    PROVE  TaskInv'
<1>1. Manager!TypeOK'
  BY DEF Manager!TypeOK, TaskInv, Manager!Purge
<1>2. JobsLive'
  BY DEF TaskInv, Manager!Purge, JobsLive
<1>3. NothingYet'
  BY DEF TaskInv, Manager!Purge, NothingYet
<1>4. WorkingIsOwn'
  BY DEF Manager!Unknown, TaskInv, Manager!Purge, WorkingIsOwn
<1>5. CompletedHasEnded'
  BY DEF TaskInv, Manager!Purge, CompletedHasEnded
<1>6. CancelIsMarked'
  BY DEF TaskInv, Manager!Purge, CancelIsMarked
<1>7. AllTruthful'
  BY DEF Manager!Unknown, TaskInv, Manager!Purge, Truthful, AllTruthful
<1> QED BY <1>1, <1>2, <1>3, <1>4, <1>5, <1>6, <1>7 DEF TaskInv

LEMMA EnterKeeps ==
    ASSUME TaskInv, NEW t \in Tasks,
             Manager!Enter(t)
    PROVE  TaskInv'
<1>1. Manager!TypeOK'
  BY DEF Manager!TypeOK, TaskInv, Manager!Enter
<1>2. JobsLive'
  BY DEF TaskInv, Manager!Enter, JobsLive
<1>3. NothingYet'
  BY DEF TaskInv, Manager!Enter, NothingYet
<1>4. WorkingIsOwn'
  BY DEF TaskInv, Manager!Enter, WorkingIsOwn
<1>5. CompletedHasEnded'
  BY DEF TaskInv, Manager!Enter, CompletedHasEnded
<1>6. CancelIsMarked'
  BY DEF TaskInv, Manager!Enter, CancelIsMarked
<1>7. AllTruthful'
  BY DEF TaskInv, Manager!Enter, Truthful, AllTruthful
<1> QED BY <1>1, <1>2, <1>3, <1>4, <1>5, <1>6, <1>7 DEF TaskInv

LEMMA ReturnKeeps ==
    ASSUME TaskInv, NEW t \in Tasks, Manager!Return(t)
    PROVE  TaskInv'
<1>1. Manager!TypeOK'
  BY DEF Manager!Events, Manager!TerminalTaskStates, Manager!Unknown, Manager!TypeOK, TaskInv,
         Manager!Ends, Manager!Happens, Manager!SetStatus, Manager!Return, Truthful,
         AllTruthful, CompletedHasEnded, WorkingIsOwn, JobsLive, NothingYet
<1>2. JobsLive'
  BY DEF TaskInv, Manager!Ends, Manager!Return, JobsLive
<1>3. NothingYet'
  BY DEF Manager!TypeOK, TaskInv, Manager!Ends, Manager!Happens, Manager!SetStatus,
         Manager!Return, NothingYet
<1>4. WorkingIsOwn'
  BY DEF Manager!TypeOK, TaskInv, Manager!Ends, Manager!SetStatus, Manager!Return, WorkingIsOwn
<1>5. CompletedHasEnded'
  BY DEF Manager!TypeOK, TaskInv, Manager!Ends, Manager!SetStatus, Manager!Return, Truthful,
         CompletedHasEnded
<1>6. CancelIsMarked'
  BY DEF Manager!TypeOK, TaskInv, Manager!Ends, Manager!Happens, Manager!SetStatus,
         Manager!Return, JobsLive, CancelIsMarked
<1>7. AllTruthful'
  <2> SUFFICES ASSUME NEW u \in Tasks, NEW q \in Servers
               PROVE  Truthful(u, saved[u])' /\ Truthful(u, record[q][u])'
    BY DEF Manager!TypeOK, TaskInv, JobsLive, Manager!Return, AllTruthful
  <2>1. events' = [events EXCEPT ![t] = @ \cup {"returned"}]
    BY DEF Manager!Happens, Manager!Return
  <2>2. events[u] \subseteq events'[u] /\ ("asked" \in events'[u] => "asked" \in events[u])
    BY <2>1
  <2>3. CASE record[owner[t]][t] = "cancelled"
    <3>1. saved' = saved /\ record' = record
      BY <2>3 DEF Manager!Return
    <3> QED BY <2>2, <3>1 DEF TaskInv, Truthful, AllTruthful
  <2>4. CASE record[owner[t]][t] # "cancelled"
    <3>1. Manager!SetStatus(owner[t], t, "completed")
      BY <2>4 DEF Manager!Return
    <3>2. u = t => "returned" \in events'[u] /\ "asked" \notin events'[u]
      BY <2>1, <2>2, <2>4 DEF CancelIsMarked, Manager!TypeOK, TaskInv, Manager!Return
    <3>3. saved'[u] = saved[u] \/ (u = t /\ saved'[u] = "completed")
      BY <3>1 DEF Manager!TypeOK, TaskInv, Manager!SetStatus
    <3>4. record'[q][u] = record[q][u] \/ (u = t /\ record'[q][u] = "completed")
      BY <3>1 DEF Manager!SetStatus
    <3> QED BY <2>2, <3>2, <3>3, <3>4 DEF TaskInv, Truthful, AllTruthful
  <2> QED BY <2>3, <2>4
<1> QED BY <1>1, <1>2, <1>3, <1>4, <1>5, <1>6, <1>7 DEF TaskInv

LEMMA RaiseKeeps ==
    ASSUME TaskInv, NEW t \in Tasks, Manager!Raise(t)
    PROVE  TaskInv'
<1>1. Manager!TypeOK'
  BY DEF Manager!Events, Manager!TerminalTaskStates, Manager!TypeOK, TaskInv, Manager!Ends,
         Manager!Happens, Manager!SetStatus, Manager!Raise
<1>2. JobsLive'
  BY DEF TaskInv, Manager!Ends, Manager!Raise, JobsLive
<1>3. NothingYet'
  BY DEF Manager!TypeOK, TaskInv, Manager!Ends, Manager!Happens, Manager!SetStatus,
         Manager!Raise, NothingYet
<1>4. WorkingIsOwn'
  BY DEF Manager!TypeOK, TaskInv, Manager!Ends, Manager!SetStatus, Manager!Raise, WorkingIsOwn
<1>5. CompletedHasEnded'
  BY DEF Manager!TypeOK, TaskInv, Manager!Ends, Manager!SetStatus, Manager!Raise,
         CompletedHasEnded
<1>6. CancelIsMarked'
  BY DEF Manager!TypeOK, TaskInv, Manager!Ends, Manager!Happens, Manager!SetStatus,
         Manager!Raise, CancelIsMarked
<1>7. AllTruthful'
  <2> SUFFICES ASSUME NEW u \in Tasks, NEW q \in Servers
               PROVE  Truthful(u, saved[u])' /\ Truthful(u, record[q][u])'
    BY DEF Manager!TypeOK, TaskInv, JobsLive, Manager!Raise, AllTruthful
  <2>1. events[u] \subseteq events'[u] /\ ("asked" \in events'[u] => "asked" \in events[u])
    BY DEF Manager!Happens, Manager!Raise
  <2>2. saved'[u] = saved[u] \/ Truthful(u, saved[u])'
    BY DEF Manager!TypeOK, TaskInv, Manager!Happens, Manager!SetStatus, Manager!Raise, Truthful
  <2>3. record'[q][u] = record[q][u] \/ Truthful(u, record[q][u])'
    BY DEF Manager!TypeOK, TaskInv, Manager!Happens, Manager!SetStatus, Manager!Raise, Truthful
  <2> QED
    BY <2>1, <2>2, <2>3 DEF TaskInv, Truthful, AllTruthful
<1> QED BY <1>1, <1>2, <1>3, <1>4, <1>5, <1>6, <1>7 DEF TaskInv

LEMMA BeCancelledKeeps ==
    ASSUME TaskInv, NEW t \in Tasks, Manager!BeCancelled(t)
    PROVE  TaskInv'
<1>1. Manager!TypeOK'
  BY DEF Manager!TypeOK, TaskInv, Manager!Ends, Manager!SetStatus, Manager!BeCancelled,
         CancelIsMarked, JobsLive
<1>2. JobsLive'
  BY DEF TaskInv, Manager!Ends, Manager!BeCancelled, JobsLive
<1>3. NothingYet'
  BY DEF Manager!TypeOK, TaskInv, Manager!Ends, Manager!SetStatus, Manager!BeCancelled,
         NothingYet
<1>4. WorkingIsOwn'
  BY DEF TaskInv, Manager!Ends, Manager!SetStatus, Manager!BeCancelled, CancelIsMarked,
         WorkingIsOwn
<1>5. CompletedHasEnded'
  BY DEF Manager!TypeOK, TaskInv, Manager!Ends, Manager!SetStatus, Manager!BeCancelled,
         CompletedHasEnded
<1>6. CancelIsMarked'
  BY DEF TaskInv, Manager!Ends, Manager!SetStatus, Manager!BeCancelled, CancelIsMarked
<1>7. AllTruthful'
  BY DEF Manager!TypeOK, TaskInv, Manager!SetStatus, Manager!BeCancelled, Truthful,
         CancelIsMarked, AllTruthful
<1> QED BY <1>1, <1>2, <1>3, <1>4, <1>5, <1>6, <1>7 DEF TaskInv

LEMMA TaskNextKeeps ==
    ASSUME TaskInv, [Manager!Next]_Manager!taskVars
    PROVE  TaskInv'
<1>1. CASE UNCHANGED Manager!taskVars
  BY <1>1 DEF Truthful, AllTruthful, CancelIsMarked, CompletedHasEnded, WorkingIsOwn,
     NothingYet, JobsLive, Manager!TypeOK, TaskInv, Manager!taskVars
<1>2. ASSUME NEW s \in Servers, Manager!Load(s) \/ Manager!Stop(s) \/ Manager!Kill(s)
      PROVE  TaskInv'
  BY <1>2, LoadKeeps, StopKeeps, KillKeeps
<1>3. ASSUME NEW s \in Servers, NEW t \in Tasks,
             Manager!Start(s, t) \/ Manager!Cancel(s, t) \/ Manager!Purge(s, t)
      PROVE  TaskInv'
  BY <1>3, StartKeeps, CancelKeeps, PurgeKeeps
<1>4. ASSUME NEW t \in Tasks,
             Manager!Enter(t) \/ Manager!Return(t) \/ Manager!Raise(t) \/ Manager!BeCancelled(t)
      PROVE  TaskInv'
  BY <1>4, EnterKeeps, ReturnKeeps, RaiseKeeps, BeCancelledKeeps
<1> QED BY <1>1, <1>2, <1>3, <1>4 DEF Manager!Next

LEMMA TaskAlways == Manager!Spec => []TaskInv
<1>1. TaskInv /\ [Manager!Next]_Manager!taskVars => TaskInv'
  BY TaskNextKeeps
<1> QED BY TaskInitKeeps, <1>1, PTL DEF Manager!Spec

\* Every record and file holds a status a task may have, and every task a
\* coroutine in one of its stages (tasks.py).
THEOREM TasksTypeCorrect == Manager!Spec => []Manager!TypeOK
<1>1. TaskInv => Manager!TypeOK
  BY DEF TaskInv
<1> QED BY TaskAlways, <1>1, PTL

\* A client reads "completed" only of a task that returned and was not asked to
\* stop, "cancelled" and "failed" only for a reason, and nothing that has ended
\* as "working" in its own server (_run, cancel and _load of tasks.py).
THEOREM TasksAreTruthful == Manager!Spec => []TasksTellTheTruth
<1>1. TaskInv => TasksTellTheTruth
  BY DEF Told, TasksTellTheTruth, WorkingIsOwn, AllTruthful, TaskInv
<1> QED BY TaskAlways, <1>1, PTL

(* ------------------------------- proposals -------------------------------- *)

\* Whether QGIS replays the call, because it knows its key.
Known(c) == \E d \in installed : key[d] # NoKey /\ key[d] = key[c]

\* A call has been answered, in some way, when QGIS has installed for it.
InstalledAreOver ==
    \A c \in installed : phase[c] \in {"done", "unknown"} /\ ~dry[c] /\ confirmed[c]

\* A call that waits was validated, so its user has confirmed it.
AskedIsConfirmed == \A c \in Asking : dry[c] \/ confirmed[c]

\* Whoever waits together overlaps.
WaitingOverlap == \A c, d \in Asking : c = d \/ {c, d} \in overlaps

\* The proposal is not as good as new once a call was answered, and the key it
\* is kept for is known to QGIS.
AnsweredIsConsumed ==
    /\ (\E c \in installed : phase[c] = "done") => proposal = "gone" \/ consumedBy # NoKey
    /\ consumedBy # NoKey => \E d \in installed : key[d] = consumedBy
    /\ phase # [c \in Calls |-> "idle"] => proposal # "none"

\* A call that waits while another has been answered overlaps with it, or QGIS
\* will replay it.
LateIsReplayed ==
    \A c \in installed, d \in Asking : phase[c] = "done" => {c, d} \in overlaps \/ Known(d)

ProposalInv ==
    /\ TypeOK /\ InstalledAreOver /\ AskedIsConfirmed /\ WaitingOverlap
    /\ AnsweredIsConsumed /\ LateIsReplayed /\ OneInstallationPerProposal

LEMMA ProposalInitKeeps == Init => ProposalInv
BY DEF Init, ProposalInv, TypeOK, InstalledAreOver, AskedIsConfirmed, WaitingOverlap,
       AnsweredIsConsumed, LateIsReplayed, OneInstallationPerProposal, Asking, Known, Phases

LEMMA AdviseKeeps ==
    ASSUME ProposalInv, Advise
    PROVE  ProposalInv'
BY DEF Advise, ProposalInv, TypeOK, InstalledAreOver, AskedIsConfirmed, WaitingOverlap,
       AnsweredIsConsumed, LateIsReplayed, OneInstallationPerProposal, Asking, Known, Phases

LEMMA ExpireKeeps ==
    ASSUME ProposalInv, Expire
    PROVE  ProposalInv'
BY DEF Expire, ProposalInv, TypeOK, InstalledAreOver, AskedIsConfirmed, WaitingOverlap,
       AnsweredIsConsumed, LateIsReplayed, OneInstallationPerProposal, Asking, Known, Phases

LEMMA InstallKeeps ==
    ASSUME ProposalInv, NEW c \in Calls, Install(c)
    PROVE  ProposalInv'
<1>1. phase[c] = "idle" /\ c \notin installed /\ c \notin Asking
  BY DEF Install, ProposalInv, InstalledAreOver, Asking
<1>2. CASE Valid(c)
  <2>1. /\ phase' = [phase EXCEPT ![c] = "asking"]
        /\ overlaps' = overlaps \cup {{c, d} : d \in Asking}
    BY <1>2 DEF Install
  <2>2. Asking' = Asking \cup {c}
    BY <2>1 DEF Asking, ProposalInv, TypeOK
  <2>3. TypeOK'
    BY <2>1 DEF Install, ProposalInv, TypeOK, Phases, Asking
  <2>4. InstalledAreOver'
    BY <1>1, <2>1 DEF Install, ProposalInv, TypeOK, InstalledAreOver
  <2>5. AskedIsConfirmed'
    BY <1>2, <2>2 DEF Install, Valid, ProposalInv, AskedIsConfirmed
  <2>6. WaitingOverlap'
    BY <2>1, <2>2 DEF ProposalInv, WaitingOverlap
  <2>7. AnsweredIsConsumed'
    BY <1>1, <2>1 DEF Install, ProposalInv, TypeOK, AnsweredIsConsumed
  <2>8. LateIsReplayed'
    <3> SUFFICES ASSUME NEW a \in installed, NEW d \in Asking', phase'[a] = "done"
                 PROVE  {a, d} \in overlaps' \/ Known(d)'
      BY DEF LateIsReplayed, Install
    <3>1. phase[a] = "done" /\ a \in Calls
      BY <1>1, <2>1 DEF ProposalInv, TypeOK
    <3>2. CASE d = c
      BY <1>2, <3>1, <3>2 DEF Valid, Known, Install, ProposalInv, AnsweredIsConsumed
    <3>3. CASE d \in Asking
      BY <2>1, <3>1, <3>3 DEF Known, Install, ProposalInv, LateIsReplayed
    <3> QED BY <2>2, <3>2, <3>3
  <2>9. OneInstallationPerProposal'
    BY <1>1, <2>1 DEF Install, ProposalInv, TypeOK, OneInstallationPerProposal
  <2> QED BY <2>3, <2>4, <2>5, <2>6, <2>7, <2>8, <2>9 DEF ProposalInv
<1>3. CASE ~Valid(c)
  <2>1. phase' = [phase EXCEPT ![c] = "refused"] /\ UNCHANGED <<installed, overlaps, key>>
    BY <1>3 DEF Install
  <2>2. Asking' = Asking
    BY <1>1, <2>1 DEF Asking, ProposalInv, TypeOK
  <2>3. TypeOK'
    BY <2>1 DEF Install, ProposalInv, TypeOK, Phases
  <2>4. InstalledAreOver' /\ AnsweredIsConsumed'
    BY <1>1, <2>1 DEF Install, ProposalInv, TypeOK, InstalledAreOver, AnsweredIsConsumed
  <2>5. AskedIsConfirmed' /\ WaitingOverlap'
    BY <2>1, <2>2 DEF Install, ProposalInv, AskedIsConfirmed, WaitingOverlap
  <2>6. LateIsReplayed' /\ OneInstallationPerProposal'
    BY <1>1, <2>1, <2>2 DEF Install, ProposalInv, TypeOK, LateIsReplayed, Known,
                            OneInstallationPerProposal
  <2> QED BY <2>3, <2>4, <2>5, <2>6 DEF ProposalInv
<1> QED BY <1>2, <1>3

\* What QGIS does for a call that ends, in whatever way the call is told.
LEMMA EndsOnceInstalled ==
    ASSUME ProposalInv, NEW c \in Calls, NEW outcome \in {"done", "unknown"},
           phase[c] = "asking", phase' = [phase EXCEPT ![c] = outcome],
           RunsInQgis(c) \/ UNCHANGED installed,
           UNCHANGED <<key, dry, confirmed, overlaps>>
    PROVE  /\ InstalledAreOver' /\ AskedIsConfirmed' /\ WaitingOverlap'
           /\ LateIsReplayed' /\ OneInstallationPerProposal'
           /\ installed \subseteq installed' /\ installed' \subseteq Calls
<1>1. installed' = installed \/ (installed' = installed \cup {c} /\ ~dry[c] /\ ~Known(c))
  BY DEF RunsInQgis, Executes, Known
<1>2. Asking' = Asking \ {c} /\ c \in Asking
  BY DEF Asking, ProposalInv, TypeOK
<1>3. c \notin installed
  BY DEF ProposalInv, InstalledAreOver
<1>4. InstalledAreOver'
  BY <1>1, <1>2, <1>3 DEF ProposalInv, TypeOK, InstalledAreOver, AskedIsConfirmed
<1>5. AskedIsConfirmed' /\ WaitingOverlap'
  BY <1>2 DEF ProposalInv, AskedIsConfirmed, WaitingOverlap
<1>6. LateIsReplayed'
  <2> SUFFICES ASSUME NEW a \in installed', NEW d \in Asking \ {c}, phase'[a] = "done"
               PROVE  {a, d} \in overlaps \/ Known(d)'
    BY <1>2 DEF LateIsReplayed
  <2>1. CASE a = c
    BY <1>2, <2>1 DEF ProposalInv, WaitingOverlap
  <2>2. CASE a # c
    BY <1>1, <2>2 DEF ProposalInv, TypeOK, LateIsReplayed, Known
  <2> QED BY <2>1, <2>2
<1>7. OneInstallationPerProposal'
  <2>1. \A a \in installed' : confirmed'[a]
    BY <1>4 DEF InstalledAreOver
  <2>2. ASSUME NEW a \in installed, NEW b \in installed
        PROVE  a = b \/ {a, b} \in overlaps \/ "unknown" \in {phase'[a], phase'[b]}
    BY <1>3, <2>2 DEF ProposalInv, TypeOK, OneInstallationPerProposal
  <2>3. ASSUME NEW a \in installed, c \in installed'
        PROVE  {a, c} \in overlaps \/ phase'[a] = "unknown"
    <3>1. ~Known(c)
      BY <1>1, <1>3, <2>3
    <3>2. phase'[a] = phase[a] /\ phase[a] \in {"done", "unknown"}
      BY <1>3 DEF ProposalInv, TypeOK, InstalledAreOver
    <3> QED BY <1>2, <3>1, <3>2 DEF ProposalInv, LateIsReplayed
  <2>4. \A a : {a, c} = {c, a}
    OBVIOUS
  <2> QED BY <1>1, <2>1, <2>2, <2>3, <2>4 DEF OneInstallationPerProposal
<1>8. installed \subseteq installed' /\ installed' \subseteq Calls
  BY <1>1 DEF ProposalInv, TypeOK
<1> QED BY <1>4, <1>5, <1>6, <1>7, <1>8

LEMMA AnsweredKeeps ==
    ASSUME ProposalInv, NEW c \in Calls, Answered(c)
    PROVE  ProposalInv'
<1>1. /\ InstalledAreOver' /\ AskedIsConfirmed' /\ WaitingOverlap'
      /\ LateIsReplayed' /\ OneInstallationPerProposal'
      /\ installed \subseteq installed' /\ installed' \subseteq Calls
  BY EndsOnceInstalled DEF Answered
<1>2. proposal # "none" /\ proposal' # "none"
  BY DEF Answered, Complete, ProposalInv, TypeOK, AnsweredIsConsumed
<1>3. TypeOK'
  BY <1>1 DEF Answered, Complete, ProposalInv, TypeOK, Phases
<1>4. consumedBy' # NoKey => \E d \in installed' : key[d] = consumedBy'
  BY <1>1 DEF Answered, Complete, RunsInQgis, Executes, ProposalInv, AnsweredIsConsumed
<1>5. (\E a \in installed' : phase'[a] = "done") => proposal' = "gone" \/ consumedBy' # NoKey
  <2>1. CASE dry[c]
    BY <2>1 DEF Answered, Complete, RunsInQgis, Executes, ProposalInv, TypeOK, InstalledAreOver,
                AnsweredIsConsumed
  <2>2. CASE ~dry[c]
    BY <1>2, <2>2 DEF Answered, Complete, ProposalInv, TypeOK
  <2> QED BY <2>1, <2>2
<1>6. AnsweredIsConsumed'
  BY <1>2, <1>4, <1>5 DEF AnsweredIsConsumed, Answered
<1> QED BY <1>1, <1>3, <1>6 DEF ProposalInv

LEMMA FailsKeeps ==
    ASSUME ProposalInv, NEW c \in Calls, Fails(c)
    PROVE  ProposalInv'
<1>1. /\ InstalledAreOver' /\ AskedIsConfirmed' /\ WaitingOverlap'
      /\ LateIsReplayed' /\ OneInstallationPerProposal'
      /\ installed \subseteq installed' /\ installed' \subseteq Calls
  BY EndsOnceInstalled DEF Fails
<1>2. TypeOK'
  BY <1>1 DEF Fails, ProposalInv, TypeOK, Phases
<1>3. proposal # "none"
  BY DEF Fails, ProposalInv, TypeOK, AnsweredIsConsumed
<1>4. (\E a \in installed' : phase'[a] = "done") => \E a \in installed : phase[a] = "done"
  BY DEF Fails, RunsInQgis, ProposalInv, TypeOK
<1>5. AnsweredIsConsumed'
  BY <1>1, <1>3, <1>4 DEF Fails, ProposalInv, AnsweredIsConsumed
<1> QED BY <1>1, <1>2, <1>5 DEF ProposalInv

LEMMA ProposalNextKeeps == ProposalInv /\ [Next]_proposalVars => ProposalInv'
<1> SUFFICES ASSUME ProposalInv, [Next]_proposalVars PROVE ProposalInv'
  OBVIOUS
<1>1. CASE UNCHANGED proposalVars
  BY <1>1 DEF proposalVars, ProposalInv, TypeOK, InstalledAreOver, AskedIsConfirmed,
              WaitingOverlap, AnsweredIsConsumed, LateIsReplayed, OneInstallationPerProposal,
              Asking, Known
<1>2. ASSUME NEW c \in Calls, Install(c) PROVE ProposalInv'
  BY <1>2, InstallKeeps
<1>3. ASSUME NEW c \in Calls, Answered(c) PROVE ProposalInv'
  BY <1>3, AnsweredKeeps
<1>4. ASSUME NEW c \in Calls, Fails(c) PROVE ProposalInv'
  BY <1>4, FailsKeeps
<1> QED BY <1>1, <1>2, <1>3, <1>4, AdviseKeeps, ExpireKeeps DEF Next

\* Under one proposal QGIS installs once, except for calls that were validated
\* side by side or whose outcome was lost, and never without the confirmation
\* of the user (validate_proposal and complete_proposal of plugin_advisor.py).
THEOREM ProposalsInstallOnce == Spec => []OneInstallationPerProposal
<1>1. ProposalInv => OneInstallationPerProposal
  BY DEF ProposalInv
<1> QED BY ProposalInitKeeps, ProposalNextKeeps, <1>1, PTL DEF Spec

(* --------------------------------- the run -------------------------------- *)

\* What the run about both parts checks of each of them, it checks of the
\* behaviours of its module: none of its steps is a step of neither.
THEOREM PartsKeepTheirSpecifications == MCSpec => Spec /\ Manager!Spec
<1>1. MCInit => Init /\ Manager!Init
  BY DEF MCInit
<1>2. [MCNext]_<<part, proposalVars, taskVars>>
        => [Next]_proposalVars /\ [Manager!Next]_Manager!taskVars
  BY DEF MCNext, taskVars, Manager!taskVars
<1> QED BY <1>1, <1>2, PTL DEF MCSpec, Spec, Manager!Spec
===================================================================================
