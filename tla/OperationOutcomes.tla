--------------------------- MODULE OperationOutcomes ---------------------------
(***************************************************************************)
(* The state of Processing operations, and what the plugin promises of it. *)
(* Operations says how it changes.                                         *)
(***************************************************************************)
EXTENDS Integers

CONSTANTS
    Ops,            \* operations
    MaxWrites       \* bound of the model on the writes to the output file

VARIABLES
    status,         \* operation["status"], or NotStarted
    thread,         \* operation["execution"]: "main_thread" or "background_task"
    work,           \* its timer or task: "waiting", "working", "ended"
    stopped,        \* its feedback, or its task, was cancelled
    begun,          \* the signal begun waits in the event queue
    baseline,       \* _output_baseline: the version of the file at the start
    file,           \* the version of the output file
    wanted,         \* operation["add_to_project"]
    placed,         \* its output in the project: "no", or once retaining tried,
                    \* "added", "skipped" (no valid layer), "refused" (not added)
    wrote           \* history: whether the operation wrote the file

operationVars == <<status, thread, work, stopped, begun, baseline, file, wanted, placed, wrote>>

Terminal == {"succeeded", "failed", "cancelled"}

\* No operation is left without an outcome, but for one that was to run on the
\* main thread and was cancelled while it was queued.
Settles(o) ==
    work[o] = "ended"
        => \/ status[o] \in Terminal
           \/ status[o] = "cancelling" /\ thread[o] = "main_thread"

\* Success means that the operation produced its output, but for one that
\* shares its output file with another that wrote it meanwhile.
SuccessIsOwn(o) ==
    (status[o] = "succeeded" /\ ~wrote[o]) => \E p \in Ops \ {o} : wrote[p] /\ file > baseline[o]

\* Success of an operation that was to add its output to the project means that the
\* output is a layer there, with the two exceptions that the code makes: an output
\* that resolves to no valid layer is passed over, and on a worker's task, though
\* not on the main thread, the refusal of the project comes too late to undo it.
SuccessIsAdded(o) ==
    (status[o] = "succeeded" /\ wanted[o])
        => \/ placed[o] \in {"added", "skipped"}
           \/ placed[o] = "refused" /\ thread[o] = "background_task"

\* A status the client reads as final is what became of its operation and, but for
\* the exceptions named above, of its output.
OutcomesAreTrue == \A o \in Ops : Settles(o) /\ SuccessIsOwn(o) /\ SuccessIsAdded(o)
================================================================================
