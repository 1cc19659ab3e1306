------------------------------- MODULE Automation -------------------------------
(***************************************************************************)
(* Batches (dispatcher.batch_execute), workflows (workflows.py) and the    *)
(* checkpoints both rely on (safety.py), all on the main thread of QGIS.   *)
(* They nest: a step may be a batch, a batch may run a workflow, and a     *)
(* step that pumps the event loop (visual.review) lets other clients and   *)
(* the timers in. frames is the stack of what has begun and not ended.     *)
(*                                                                         *)
(* Every step is a mutation under its own key. Of the project only this is *)
(* kept: which atomic activities, by their depth, have changed it.         *)
(***************************************************************************)
EXTENDS Integers, Sequences, SequencesExt, FiniteSets

CONSTANTS
    Flows,          \* workflows
    Resuming,       \* those with resume_on_restart
    Steps,          \* steps of a workflow (at most 25)
    Calls,          \* calls of a batch (at most 25)
    MaxCheckpoints, \* CheckpointManager.max_checkpoints (20)
    MaxDepth        \* bound of the model on the stack

ASSUME AutomationAssumption ==
    /\ Resuming \subseteq Flows
    /\ Steps \in Nat \ {0} /\ Calls \in Nat \ {0}
    /\ MaxCheckpoints \in Nat \ {0} /\ MaxDepth \in Nat \ {0}

VARIABLES
    recovering,     \* the zero timer of resume_interrupted is due
    project,        \* the depths whose atomic activity has changed the project
    checkpoints,    \* the listed ones, oldest first: whose, and the project in it
    file,           \* of each workflow its file, or Absent
    remembered,     \* of each workflow the steps whose key, of the last run id,
                    \* the idempotency cache knows
    frames,         \* the stack of activities
    settled,        \* history: the steps of the last run, resumptions included,
                    \* that have taken effect and returned
    forgotten,      \* history: those of them whose record the cache has since lost
    cut             \* history: workflows whose run ended in an error of its own

automationVars == <<recovering, project, checkpoints, file, remembered, frames, settled,
                    forgotten, cut>>

Absent == [status |-> "absent"]
Depths == 1..MaxDepth
Nobody == 0                             \* the owner of a client's checkpoint

Init ==
    /\ recovering = FALSE
    /\ project = {} /\ checkpoints = <<>>
    /\ file = [w \in Flows |-> Absent]
    /\ remembered = [w \in Flows |-> {}]
    /\ frames = <<>>
    /\ settled = [w \in Flows |-> {}]
    /\ forgotten = [w \in Flows |-> {}]
    /\ cut = {}

Depth == Len(frames)
Top == frames[Depth]
At(kind, stage) == frames # <<>> /\ Top.kind = kind /\ Top.stage = stage
InRun(stage) == frames # <<>> /\ Top.kind \in {"batch", "flow"} /\ Top.stage = stage

\* Handlers and timers run when nothing does, or out of a step's handler.
Open == frames # <<>> => Top.stage \in {"inside", "acted"}

Push(frame) == frames' = Append(frames, frame)
Become(frame) == frames' = [frames EXCEPT ![Depth] = frame]
Go(stage) == Become([Top EXCEPT !.stage = stage])

\* An exception that no except clause of the activity takes.
Escape(cause) == Become([Top EXCEPT !.stage = "closing", !.cause = cause])

OnStack(w) == {d \in DOMAIN frames : frames[d].kind = "flow" /\ frames[d].flow = w}

(* ------------------------------ checkpoints ------------------------------ *)

\* A mutant of Kept: one too many is kept.
KeptAndOneMore(entries) ==
    IF Len(entries) > MaxCheckpoints + 1 THEN Tail(entries) ELSE entries

\* _prune, after each create: the oldest go, whoever needs them.
Kept(entries) ==
    IF Len(entries) > MaxCheckpoints THEN Tail(entries) ELSE entries

Create(owner) ==
    checkpoints' = Kept(Append(checkpoints, [owner |-> owner, has |-> project]))

\* A mutant of Own: the newest checkpoint is taken for one's own.
Newest == {Len(checkpoints)} \ {0}

Own == {i \in DOMAIN checkpoints : checkpoints[i].owner = Depth}

\* checkpoint.execute; the ids of internal checkpoints are listed as well.
ClientCheckpoints ==
    /\ Open
    /\ \/ Create(Nobody) /\ UNCHANGED project
       \/ \E i \in DOMAIN checkpoints :
            project' = checkpoints[i].has /\ UNCHANGED checkpoints
       \/ \E i \in DOMAIN checkpoints :
            checkpoints' = RemoveAt(checkpoints, i) /\ UNCHANGED project
    /\ UNCHANGED <<recovering, file, remembered, frames, settled, forgotten, cut>>

(* -------------------------------- workflows ------------------------------- *)

\* No key of a new run id is in the cache.
NewRun(w) ==
    /\ remembered' = [remembered EXCEPT ![w] = {}]
    /\ settled' = [settled EXCEPT ![w] = {}]
    /\ forgotten' = [forgotten EXCEPT ![w] = {}]

\* create; ids are never reused.
CreateWorkflow(w) ==
    /\ Open /\ file[w] = Absent /\ OnStack(w) = {}
    /\ \E due, atomic, continues \in BOOLEAN :
        file' = [file EXCEPT ![w] =
            [status |-> "ready", step |-> 0, run |-> FALSE, due |-> due,
             atomic |-> atomic, continues |-> continues]]
    /\ NewRun(w)
    /\ cut' = cut \ {w}
    /\ UNCHANGED <<recovering, project, checkpoints, frames>>

\* enable, disable and delete write the file, whether the workflow runs or not.
ChangeWorkflow(w) ==
    /\ Open /\ file[w] # Absent
    /\ \E due \in BOOLEAN :
            file' \in {[file EXCEPT ![w].due = due], [file EXCEPT ![w] = Absent]}
    /\ UNCHANGED <<recovering, project, checkpoints, remembered, frames, settled,
                   forgotten, cut>>

\* A mutant of RunIdKept: every run has an id of its own.
RunIdNeverKept(w, resume) == FALSE

RunIdKept(w, resume) == resume /\ file[w].run

StartIndex(w, resume) ==
    IF resume /\ file[w].step < Steps THEN file[w].step ELSE 0

\* A mutant of Runnable: whether it is running is not asked.
RunnableAgain(w) == file[w] # Absent

Runnable(w) == file[w] # Absent /\ file[w].status # "running"

\* run, up to its first save. The frame has a copy of the workflow; each of its
\* saves writes that copy.
Run(w, resume, under) ==
    /\ Runnable(w) /\ Len(under) < MaxDepth
    /\ LET copy == [file[w] EXCEPT !.status = "running", !.run = TRUE,
                                   !.step = StartIndex(w, resume)]
       IN  /\ file' = [file EXCEPT ![w] = copy]
           /\ frames' = Append(under,
                [kind |-> "flow", flow |-> w, copy |-> copy, atomic |-> copy.atomic,
                 stage |-> IF copy.atomic THEN "checkpoint" ELSE "next",
                 failed |-> FALSE, cause |-> "none"])
    /\ IF resume /\ file[w].run
       THEN /\ remembered' = IF RunIdKept(w, resume) THEN remembered
                             ELSE [remembered EXCEPT ![w] = {}]
            /\ UNCHANGED <<settled, forgotten>>
       ELSE NewRun(w)
    /\ UNCHANGED <<project, checkpoints, cut>>

RunByClient(w) ==
    /\ Open
    /\ \E resume \in BOOLEAN : Run(w, resume, frames)
    /\ UNCHANGED recovering

\* run_due and resume_interrupted read all files first, then run one after the
\* other what was due, or interrupted, by then.
Scan(resume, found) ==
    /\ Open /\ Depth < MaxDepth /\ found # {}
    /\ Push([kind |-> "scan", resume |-> resume, rest |-> found, stage |-> "scanning"])
    /\ UNCHANGED <<project, checkpoints, file, remembered, settled, forgotten, cut>>

ScanDue ==
    /\ Scan(FALSE, {w \in Flows : file[w] # Absent /\ file[w].due /\ file[w].status # "running"})
    /\ UNCHANGED recovering

ScanInterrupted ==
    /\ recovering /\ recovering' = FALSE
    /\ Scan(TRUE, {w \in Flows : w \in Resuming /\ file[w].status = "interrupted"})

Scanned(w) == [frames EXCEPT ![Depth].rest = @ \ {w}]

ScanRuns ==
    /\ At("scan", "scanning")
    /\ \E w \in Top.rest : Run(w, Top.resume, Scanned(w))
    /\ UNCHANGED recovering

\* What cannot run any more, or fails to be saved, is logged.
ScanPasses ==
    /\ At("scan", "scanning")
    /\ \/ \E w \in Top.rest : frames' = Scanned(w)
       \/ Top.rest = {} /\ frames' = Front(frames)
    /\ UNCHANGED <<recovering, project, checkpoints, file, remembered, settled,
                   forgotten, cut>>

(* --------------------------------- batches -------------------------------- *)

\* batch_execute after its validation; an atomic one that only reads is as
\* one that is not atomic.
BatchBegins(atomic, continues) ==
    /\ Open /\ Depth < MaxDepth
    /\ Push([kind |-> "batch", atomic |-> atomic,
             copy |-> [step |-> 0, continues |-> continues],
             stage |-> IF atomic THEN "checkpoint" ELSE "next",
             failed |-> FALSE, cause |-> "none"])
    /\ UNCHANGED <<recovering, project, checkpoints, file, remembered, settled, forgotten, cut>>

(* ------------------------- batches and workflows -------------------------- *)

TakeCheckpoint ==
    /\ InRun("checkpoint")
    /\ Create(Depth)
    /\ Go("next")
    /\ UNCHANGED <<recovering, project, file, remembered, settled, forgotten, cut>>

\* The project cannot be written: create raises before the try block.
NoCheckpoint ==
    /\ InRun("checkpoint")
    /\ frames' = Front(frames)
    /\ cut' = IF Top.kind = "flow" THEN cut \cup {Top.flow} ELSE cut
    /\ UNCHANGED <<recovering, project, checkpoints, file, remembered, settled, forgotten>>

\* A workflow saves its copy, which an error of the disk may prevent.
SavesAs(copy) ==
    IF Top.kind = "flow" THEN file' = [file EXCEPT ![Top.flow] = copy] ELSE UNCHANGED file

Length == IF Top.kind = "flow" THEN Steps ELSE Calls

StepBegins ==
    /\ InRun("next") /\ Top.copy.step < Length
    /\ SavesAs(Top.copy)
    /\ Go("inside")
    /\ UNCHANGED <<recovering, project, checkpoints, remembered, settled, forgotten, cut>>

Step == Top.copy.step + 1
Replayed == Top.kind = "flow" /\ Step \in remembered[Top.flow]

\* The handler of the step takes effect. Until its result is recorded a death
\* of QGIS leaves it in doubt.
StepActs ==
    /\ InRun("inside") /\ ~Replayed
    /\ project' = IF Top.atomic THEN project \cup {Depth} ELSE project
    /\ Go("acted")
    /\ UNCHANGED <<recovering, checkpoints, file, remembered, settled, forgotten, cut>>

NextStep == [Top.copy EXCEPT !.step = Step]

\* Its result comes from the handler, and is remembered, or from the cache.
StepWorks ==
    /\ InRun("acted") \/ (InRun("inside") /\ Replayed)
    /\ IF Top.kind = "flow"
       THEN /\ remembered' = [remembered EXCEPT ![Top.flow] = @ \cup {Step}]
            /\ settled' = [settled EXCEPT ![Top.flow] = @ \cup {Step}]
            /\ forgotten' = [forgotten EXCEPT ![Top.flow] = @ \ {Step}]
       ELSE UNCHANGED <<remembered, settled, forgotten>>
    /\ Become([Top EXCEPT !.copy = NextStep,
                          !.stage = IF Top.kind = "flow" THEN "noting" ELSE "next"])
    /\ UNCHANGED <<recovering, project, checkpoints, file, cut>>

\* It raises, before or after it took effect; an OSError of remember is one
\* of the latter. A batch has its rollback in the except clause.
StepFails ==
    /\ InRun("acted") \/ InRun("inside")
    /\ Become([Top EXCEPT
            !.failed = TRUE,
            !.copy = IF Top.copy.continues THEN NextStep ELSE @,
            !.stage = IF Top.kind = "flow"
                      THEN IF Top.atomic \/ ~Top.copy.continues THEN "stopping" ELSE "noting"
                      ELSE IF Top.atomic THEN "ending"
                      ELSE IF Top.copy.continues THEN "next" ELSE "closing"])
    /\ UNCHANGED <<recovering, project, checkpoints, file, remembered, settled, forgotten, cut>>

\* The save after a step, of a workflow only.
StepNoted ==
    /\ \/ At("flow", "noting") /\ Go("next")
       \/ At("flow", "stopping") /\ Go("ending")
    /\ SavesAs(Top.copy)
    /\ UNCHANGED <<recovering, project, checkpoints, remembered, settled, forgotten, cut>>

LastStepDone ==
    /\ InRun("next") /\ Top.copy.step = Length
    /\ Go(IF Top.kind = "flow" THEN "ending" ELSE "closing")
    /\ UNCHANGED <<recovering, project, checkpoints, file, remembered, settled, forgotten, cut>>

MustRestore == Top.failed /\ Top.atomic

Finishing == IF Top.kind = "flow" THEN "finishing" ELSE "closing"

\* checkpoints.restore reads the whole project of the checkpoint.
Restore ==
    /\ InRun("ending") /\ MustRestore
    /\ \E i \in Own : project' = checkpoints[i].has
    /\ Become([Top EXCEPT !.stage = Finishing,
                          !.copy = IF Top.kind = "flow" THEN [@ EXCEPT !.step = 0, !.run = FALSE]
                                   ELSE @])
    /\ UNCHANGED <<recovering, checkpoints, file, remembered, settled, forgotten, cut>>

NothingToRestore ==
    /\ At("flow", "ending") /\ ~MustRestore
    /\ Go("finishing")
    /\ UNCHANGED <<recovering, project, checkpoints, file, remembered, settled, forgotten, cut>>

\* The last save. A failed run that is not undone keeps its id for a resume.
Finish ==
    /\ At("flow", "finishing")
    /\ \E again \in {FALSE, Top.copy.due} :
        SavesAs([Top.copy EXCEPT !.status = IF Top.failed THEN "failed" ELSE "completed",
                                 !.run = Top.failed /\ @, !.due = again])
    /\ Go("closing")
    /\ UNCHANGED <<recovering, project, checkpoints, remembered, settled, forgotten, cut>>

\* What leaves the try block early: a save or the storing of a result that the
\* disk refuses; a checkpoint that is gone or cannot be read.
DiskRefuses ==
    /\ \/ At("flow", "next") /\ Top.copy.step < Steps
       \/ At("flow", "noting") \/ At("flow", "stopping")
       \/ At("flow", "finishing")
       \/ At("batch", "next") /\ Top.copy.step > 0
    /\ Escape("disk")
    /\ UNCHANGED <<recovering, project, checkpoints, file, remembered, settled, forgotten, cut>>

RestoreFails ==
    /\ InRun("ending") /\ MustRestore
    /\ Escape("checkpoint")
    /\ UNCHANGED <<recovering, project, checkpoints, file, remembered, settled, forgotten, cut>>

\* delete, of the checkpoint of the activity.
Deleted ==
    IF Own = {} THEN checkpoints ELSE RemoveAt(checkpoints, CHOOSE i \in Own : TRUE)

\* finally: the checkpoint is deleted, which raises if it is gone; a batch then
\* evaluates its outputs. Effects whose activity has ended are nobody's.
Close ==
    /\ InRun("closing")
    /\ cut' = IF Top.kind = "flow" /\ Top.cause # "none" THEN cut \cup {Top.flow} ELSE cut
    /\ frames' = Front(frames)
    /\ project' = project \ {Depth}
    /\ checkpoints' = [i \in DOMAIN Deleted |-> [Deleted[i] EXCEPT !.has = @ \ {Depth}]]
    /\ UNCHANGED <<recovering, file, remembered, settled, forgotten>>

(* ----------------------------- lost records ------------------------------- *)

\* MutationGuard drops keys.
Forget(lost) ==
    /\ \A w \in Flows : lost[w] \subseteq remembered[w]
    /\ remembered' = [w \in Flows |-> remembered[w] \ lost[w]]
    /\ forgotten' = [w \in Flows |-> forgotten[w] \cup lost[w]]

\* prune, of keys an hour old, with every lookup and remember; and the keys of
\* other clients' calls that displace these.
KeysForgotten ==
    /\ Open
    /\ \E lost \in [Flows -> SUBSET (1..Steps)] : Forget(lost)
    /\ UNCHANGED <<recovering, project, checkpoints, file, frames, settled, cut>>

(* ---------------------------- the end of QGIS ----------------------------- *)

\* QGIS dies, with nothing of the open project saved, and is started again,
\* however much later; the files and checkpoints have stayed, and those of the
\* keys that are not too old by then, if their file can be read and had room
\* for them. _mark_interrupted
Restart ==
    /\ project' = {} /\ frames' = <<>>
    /\ checkpoints' = [i \in DOMAIN checkpoints |-> [owner |-> Nobody, has |-> {}]]
    /\ file' = [w \in Flows |->
            IF file[w].status = "running"
            THEN [file[w] EXCEPT !.status = "interrupted", !.due = FALSE] ELSE file[w]]
    /\ recovering' = (\E w \in Resuming : file[w].status = "running")
    /\ cut' = {}
    /\ \E lost \in [Flows -> SUBSET (1..Steps)] : Forget(lost)
    /\ UNCHANGED settled

Next ==
    \/ ClientCheckpoints
    \/ \E w \in Flows : CreateWorkflow(w) \/ ChangeWorkflow(w) \/ RunByClient(w)
    \/ ScanDue \/ ScanInterrupted \/ ScanRuns \/ ScanPasses
    \/ \E atomic, continues \in BOOLEAN : ~(atomic /\ continues) /\ BatchBegins(atomic, continues)
    \/ TakeCheckpoint \/ NoCheckpoint
    \/ StepBegins \/ StepActs \/ StepWorks \/ StepFails \/ StepNoted \/ LastStepDone
    \/ Restore \/ NothingToRestore \/ Finish
    \/ DiskRefuses \/ RestoreFails \/ Close
    \/ KeysForgotten \/ Restart

Spec == Init /\ [][Next]_automationVars

-----------------------------------------------------------------------------
Copies ==
    [status : {"ready", "running", "completed", "failed", "interrupted"}, step : 0..Steps,
     run : BOOLEAN, due : BOOLEAN, atomic : BOOLEAN, continues : BOOLEAN]

TypeOK ==
    /\ recovering \in BOOLEAN
    /\ project \subseteq DOMAIN frames
    /\ Len(checkpoints) <= MaxCheckpoints
    /\ ToSet(checkpoints) \subseteq [owner : {Nobody} \cup DOMAIN frames, has : SUBSET DOMAIN frames]
    /\ file \in [Flows -> Copies \cup {Absent}]
    /\ remembered \in [Flows -> SUBSET (1..Steps)]
    /\ Depth <= MaxDepth
    /\ settled \in [Flows -> SUBSET (1..Steps)]
    /\ forgotten \in [Flows -> SUBSET (1..Steps)]
    /\ cut \subseteq Flows

\* An atomic batch or workflow that ends in failure has left nothing of its own
\* in the project, whatever its steps, the steps nested in them and other
\* clients did, but for two causes: the disk refused a file of the workflow or
\* of a result, or the checkpoint was pruned, deleted by a client or unreadable.
RolledBackLeavesNothing ==
    (InRun("closing") /\ Top.atomic /\ Top.failed /\ Depth \in project)
        => Top.cause \in {"disk", "checkpoint"}

\* Over a run and its resumptions, after failures and restarts, a step takes
\* effect once, unless an earlier attempt raised after it took effect, QGIS
\* died before the result was recorded, or the cache has lost the record since:
\* it keeps one for an hour, a resumption may come later than that.
StepsOnceUnlessInDoubt ==
    (InRun("acted") /\ Top.kind = "flow") =>
        Step \notin settled[Top.flow] \ forgotten[Top.flow]

\* A workflow never runs inside of itself, and says that it is running only
\* while it is, or after its run was cut off by an error that is not a step's.
RunningIsTrue ==
    \A w \in Flows :
        /\ Cardinality(OnStack(w)) <= 1
        /\ file[w].status = "running" => OnStack(w) # {} \/ w \in cut
===============================================================================
