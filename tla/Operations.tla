------------------------------- MODULE Operations -------------------------------
(***************************************************************************)
(* operations.py: the life of Processing operations, in the background as  *)
(* tasks of QGIS or on the main thread from a timer. All operations of the *)
(* model are asked to write the same output file.                          *)
(***************************************************************************)
EXTENDS Integers, OperationOutcomes

NotStarted == "none"

Init ==
    /\ status = [o \in Ops |-> NotStarted]
    /\ thread \in [Ops -> {"main_thread", "background_task"}]
    /\ work = [o \in Ops |-> "waiting"]
    /\ stopped = [o \in Ops |-> FALSE]
    /\ begun = [o \in Ops |-> FALSE]
    /\ baseline = [o \in Ops |-> 0]
    /\ file = 0
    /\ wanted \in [Ops -> BOOLEAN]
    /\ placed = [o \in Ops |-> "no"]
    /\ wrote = [o \in Ops |-> FALSE]

\* The conflicts it checks are those with files loaded as layers.
StartProcessing(o) ==
    /\ status[o] = NotStarted
    /\ status' = [status EXCEPT ![o] = "queued"]
    /\ baseline' = [baseline EXCEPT ![o] = file]
    /\ UNCHANGED <<thread, work, stopped, begun, file, wanted, placed, wrote>>

\* A worker takes the task; begun is posted to the main thread.
TaskBegins(o) ==
    /\ thread[o] = "background_task" /\ work[o] = "waiting" /\ ~stopped[o]
    /\ status[o] # NotStarted
    /\ work' = [work EXCEPT ![o] = "working"]
    /\ begun' = [begun EXCEPT ![o] = TRUE]
    /\ UNCHANGED <<status, thread, stopped, baseline, file, wanted, placed, wrote>>

\* _status, whatever the status is by then.
BegunArrives(o) ==
    /\ begun[o]
    /\ begun' = [begun EXCEPT ![o] = FALSE]
    /\ status' = [status EXCEPT ![o] = "running"]
    /\ UNCHANGED <<thread, work, stopped, baseline, file, wanted, placed, wrote>>

\* The algorithm may write its output whether it ends well or not.
Writes(o) ==
    \/ UNCHANGED <<file, wrote>>
    \/ /\ file < MaxWrites
       /\ file' = file + 1
       /\ wrote' = [wrote EXCEPT ![o] = TRUE]

\* A mutant of Validated: the file only has to exist.
ValidatedIfThere(o) == file' > 0

\* _validate_processing_result: the file must differ from what it was.
Validated(o) == file' # baseline[o]

\* _finished, up to the point where it retains the outputs.
Outcome(o, successful) ==
    IF successful /\ Validated(o) THEN "succeeded"
    ELSE IF stopped[o] THEN "cancelled" ELSE "failed"

\* _retain_outputs, of the layer that a successful operation was to add.
Retains(o, successful) ==
    IF wanted[o] /\ Outcome(o, successful) = "succeeded"
    THEN \E fate \in {"added", "skipped", "refused"} : placed' = [placed EXCEPT ![o] = fate]
    ELSE UNCHANGED placed

\* executed: of a task that ran, or of one that was cancelled while it waited.
\* The status is set before the outputs are retained: if the project refuses the
\* layer, the exception skips the rest and the status stays.
TaskFinishes(o) ==
    /\ thread[o] = "background_task" /\ ~begun[o]
    /\ \/ work[o] = "working" /\ Writes(o)
          /\ \E successful \in BOOLEAN :
                /\ status' = [status EXCEPT ![o] = Outcome(o, successful)]
                /\ Retains(o, successful)
       \/ work[o] = "waiting" /\ stopped[o] /\ UNCHANGED <<file, placed, wrote>>
          /\ status' = [status EXCEPT ![o] = Outcome(o, FALSE)]
    /\ work' = [work EXCEPT ![o] = "ended"]
    /\ UNCHANGED <<thread, stopped, begun, baseline, wanted>>

\* _run_main_thread of an operation that was cancelled before its timer.
TimerFindsCancelled(o) ==
    /\ thread[o] = "main_thread" /\ work[o] = "waiting" /\ status[o] = "cancelling"
    /\ work' = [work EXCEPT ![o] = "ended"]
    /\ UNCHANGED <<status, thread, stopped, begun, baseline, file, wanted, placed, wrote>>

\* It runs and finishes; if the algorithm or the retaining of its output raises, it
\* is finished again, as failed. All of this happens in one slot.
RunMainThread(o) ==
    /\ thread[o] = "main_thread" /\ work[o] = "waiting" /\ status[o] = "queued"
    /\ Writes(o)
    /\ \E raised \in BOOLEAN :
          /\ Retains(o, ~raised)
          /\ status' = [status EXCEPT ![o] = Outcome(o, ~raised /\ placed'[o] # "refused")]
    /\ work' = [work EXCEPT ![o] = "ended"]
    /\ UNCHANGED <<thread, stopped, begun, baseline, wanted>>

\* control with action "cancel"
Cancel(o) ==
    /\ status[o] \in {"queued", "running"}
    /\ status' = [status EXCEPT ![o] = "cancelling"]
    /\ stopped' = [stopped EXCEPT ![o] = TRUE]
    /\ UNCHANGED <<thread, work, begun, baseline, file, wanted, placed, wrote>>

Next ==
    \E o \in Ops :
        \/ StartProcessing(o)
        \/ TaskBegins(o)
        \/ BegunArrives(o)
        \/ TaskFinishes(o)
        \/ TimerFindsCancelled(o)
        \/ RunMainThread(o)
        \/ Cancel(o)

Spec == Init /\ [][Next]_operationVars

-----------------------------------------------------------------------------
TypeOK ==
    /\ status \in [Ops -> Terminal \cup {NotStarted, "queued", "running", "cancelling"}]
    /\ thread \in [Ops -> {"main_thread", "background_task"}]
    /\ work \in [Ops -> {"waiting", "working", "ended"}]
    /\ stopped \in [Ops -> BOOLEAN] /\ begun \in [Ops -> BOOLEAN]
    /\ file \in 0..MaxWrites /\ baseline \in [Ops -> 0..file]
    /\ wanted \in [Ops -> BOOLEAN] /\ wrote \in [Ops -> BOOLEAN]
    /\ placed \in [Ops -> {"no", "added", "skipped", "refused"}]
===============================================================================
