------------------------------ MODULE TaskOutcomes ------------------------------
(***************************************************************************)
(* The state of the MCP tasks of several server processes, and what the    *)
(* servers promise of it. TaskManager says how it changes.                 *)
(***************************************************************************)
CONSTANTS
    Servers,        \* server processes
    Tasks           \* task ids

VARIABLES
    alive,          \* the processes that run
    record,         \* of each process and task, _records: the status, or Unknown
    saved,          \* of each task the status in its file, or Unknown
    owner,          \* the process that started the task, or Nobody
    job,            \* its coroutine: "none", "created", "waiting", "cancelling", "ended"
    events          \* history: what has happened to the task

taskVars == <<alive, record, saved, owner, job, events>>

\* A status that somebody may read, in a process or in a file, and its reason.
Truthful(t, status) ==
    /\ status = "completed" => "returned" \in events[t] /\ "asked" \notin events[t]
    /\ status = "cancelled" => events[t] \cap {"asked", "stopped"} # {}
    /\ status = "failed" => events[t] \cap {"raised", "adopted"} # {}

\* A task that is over reads so in the process that started it.
Told(s, t) ==
    (owner[t] = s /\ s \in alive /\ job[t] = "ended") => record[s][t] # "working"

\* What a client reads of a task is what became of it: the result of a task
\* that was cancelled is never reported, and nothing ends without an outcome.
\* Only the start of another server on the same directory may tell a lie:
\* "failed", of a task that goes on and may succeed.
TasksTellTheTruth ==
    \A t \in Tasks :
        /\ Truthful(t, saved[t])
        /\ \A s \in Servers : Truthful(t, record[s][t]) /\ Told(s, t)
================================================================================
