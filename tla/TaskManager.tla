------------------------------- MODULE TaskManager -------------------------------
(***************************************************************************)
(* tasks.py: MCP tasks of server processes that share a directory of       *)
(* records (~/.qgis-mcp/tasks). A task runs as a coroutine of the process  *)
(* that started it; every process keeps its own copy of the records it     *)
(* found when it started.                                                  *)
(***************************************************************************)
EXTENDS Integers, TaskOutcomes

Unknown == "unknown"
Nobody == "nobody"
TerminalTaskStates == {"completed", "failed", "cancelled"}
Events == {"asked", "returned", "raised", "stopped", "adopted"}

Init ==
    /\ alive = {}
    /\ record = [s \in Servers |-> [t \in Tasks |-> Unknown]]
    /\ saved = [t \in Tasks |-> Unknown]
    /\ owner = [t \in Tasks |-> Nobody]
    /\ job = [t \in Tasks |-> "none"]
    /\ events = [t \in Tasks |-> {}]

Happens(t, event) == events' = [events EXCEPT ![t] = @ \cup {event}]

\* _set_status of the owner's record, and _save, which swallows an OSError.
SetStatus(s, t, status) ==
    /\ record' = [record EXCEPT ![s][t] = status]
    /\ saved' \in {saved, [saved EXCEPT ![t] = status]}

\* _load: what some process left working, or works on right now.
Interrupted == {t \in Tasks : saved[t] # Unknown /\ saved[t] \notin TerminalTaskStates}

Load(s) ==
    /\ s \notin alive
    /\ alive' = alive \cup {s}
    /\ record' = [record EXCEPT ![s] =
                    [t \in Tasks |-> IF t \in Interrupted THEN "failed" ELSE saved[t]]]
    /\ saved' \in {saved, [t \in Tasks |-> IF t \in Interrupted THEN "failed" ELSE saved[t]]}
    /\ events' = [t \in Tasks |->
                    IF t \in Interrupted THEN events[t] \cup {"adopted"} ELSE events[t]]
    /\ UNCHANGED <<owner, job>>

Start(s, t) ==
    /\ s \in alive /\ job[t] = "none"
    /\ owner' = [owner EXCEPT ![t] = s]
    /\ job' = [job EXCEPT ![t] = "created"]
    /\ SetStatus(s, t, "working")
    /\ UNCHANGED <<alive, events>>

\* The event loop enters _run, which awaits run().
Enter(t) ==
    /\ job[t] = "created"
    /\ job' = [job EXCEPT ![t] = "waiting"]
    /\ UNCHANGED <<alive, record, saved, owner, events>>

Ends(t) == job' = [job EXCEPT ![t] = "ended"] /\ UNCHANGED <<alive, owner>>

\* A mutant of Return: a cancelled task is completed by a late answer.
ReturnAnyway(t) ==
    /\ job[t] \in {"waiting", "cancelling"}
    /\ SetStatus(owner[t], t, "completed")
    /\ Happens(t, "returned")
    /\ Ends(t)

\* run() may return after it was cancelled, when the answer of QGIS was there
\* first; errors of QGIS are results as well.
Return(t) ==
    /\ job[t] \in {"waiting", "cancelling"}
    /\ IF record[owner[t]][t] # "cancelled"
       THEN SetStatus(owner[t], t, "completed")
       ELSE UNCHANGED <<record, saved>>
    /\ Happens(t, "returned")
    /\ Ends(t)

\* Whatever the status is by then.
Raise(t) ==
    /\ job[t] \in {"waiting", "cancelling"}
    /\ SetStatus(owner[t], t, "failed")
    /\ Happens(t, "raised")
    /\ Ends(t)

\* except CancelledError
BeCancelled(t) ==
    /\ job[t] = "cancelling"
    /\ SetStatus(owner[t], t, "cancelled")
    /\ UNCHANGED events
    /\ Ends(t)

\* A coroutine that is cancelled before it is entered never runs at all.
CancelJob(t) ==
    job' = [job EXCEPT ![t] = CASE @ = "created" -> "ended"
                                [] @ = "waiting" -> "cancelling"
                                [] OTHER -> @]

\* cancel, where it does not return at once. Other processes than the owner
\* have no record of the task that is not terminal.
Cancel(s, t) ==
    /\ s \in alive /\ record[s][t] \notin TerminalTaskStates \cup {Unknown}
    /\ CancelJob(t)
    /\ SetStatus(s, t, "cancelled")
    /\ Happens(t, "asked")
    /\ UNCHANGED <<alive, owner>>

\* _purge_expired. A task does not live as long as its record: a call of QGIS
\* has a timeout of five minutes, a record an hour.
Purge(s, t) ==
    /\ s \in alive /\ record[s][t] \in TerminalTaskStates
    /\ job[t] = "ended"
    /\ record' = [record EXCEPT ![s][t] = Unknown]
    /\ saved' = [saved EXCEPT ![t] = Unknown]
    /\ UNCHANGED <<alive, owner, job, events>>

Own(s) == {t \in Tasks : owner[t] = s /\ job[t] # "ended"}

Gone(s) ==
    /\ alive' = alive \ {s}
    /\ record' = [record EXCEPT ![s] = [t \in Tasks |-> Unknown]]
    /\ job' = [t \in Tasks |-> IF t \in Own(s) THEN "ended" ELSE job[t]]
    /\ UNCHANGED owner

\* The end of the input cancels what the event loop still runs; a coroutine
\* that was entered records it.
Stop(s) ==
    /\ s \in alive
    /\ LET told == {t \in Own(s) : job[t] \in {"waiting", "cancelling"}}
       IN  /\ saved' \in {saved, [t \in Tasks |-> IF t \in told THEN "cancelled" ELSE saved[t]]}
           /\ events' = [t \in Tasks |-> IF t \in told THEN events[t] \cup {"stopped"}
                                         ELSE events[t]]
    /\ Gone(s)

Kill(s) ==
    /\ s \in alive
    /\ Gone(s)
    /\ UNCHANGED <<saved, events>>

Next ==
    \/ \E s \in Servers : Load(s) \/ Stop(s) \/ Kill(s)
    \/ \E s \in Servers, t \in Tasks : Start(s, t) \/ Cancel(s, t) \/ Purge(s, t)
    \/ \E t \in Tasks : Enter(t) \/ Return(t) \/ Raise(t) \/ BeCancelled(t)

Spec == Init /\ [][Next]_taskVars

-----------------------------------------------------------------------------
TypeOK ==
    /\ alive \subseteq Servers
    /\ record \in [Servers -> [Tasks -> TerminalTaskStates \cup {"working", Unknown}]]
    /\ saved \in [Tasks -> TerminalTaskStates \cup {"working", Unknown}]
    /\ owner \in [Tasks -> Servers \cup {Nobody}]
    /\ job \in [Tasks -> {"none", "created", "waiting", "cancelling", "ended"}]
    /\ events \in [Tasks -> SUBSET Events]
===============================================================================
