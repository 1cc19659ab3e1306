----------------------------- MODULE AutomationProofs -----------------------------
(***************************************************************************)
(* What batches and workflows leave behind, for any number of workflows,   *)
(* steps, calls, checkpoints and nested activities: the inductive          *)
(* invariant, a lemma for each way the stack changes (the activity on top  *)
(* goes on, a new one begins, it ends), and one lemma for each action.     *)
(***************************************************************************)
EXTENDS Automation, FiniteSetTheorems, SequenceTheorems, TLAPS

Stages ==
    {"checkpoint", "next", "inside", "acted", "noting", "stopping", "ending", "finishing",
     "closing"}
Causes == {"none", "disk", "checkpoint"}

BatchCopies == [step : 0..Calls, continues : BOOLEAN]
FlowFrames ==
    [kind : {"flow"}, flow : Flows, copy : Copies, atomic : BOOLEAN, stage : Stages,
     failed : BOOLEAN, cause : Causes]
BatchFrames ==
    [kind : {"batch"}, atomic : BOOLEAN, copy : BatchCopies, stage : Stages,
     failed : BOOLEAN, cause : Causes]
ScanFrames ==
    [kind : {"scan"}, resume : BOOLEAN, rest : SUBSET Flows, stage : {"scanning"}]
Frames == FlowFrames \cup BatchFrames \cup ScanFrames
Checkpoints == [owner : Nat, has : SUBSET Nat]

\* The stack has its type; a step that is under way is one of the activity.
StackTyped ==
    /\ frames \in Seq(Frames) /\ Depth <= MaxDepth
    /\ \A d \in DOMAIN frames :
        /\ frames[d].kind = "flow" /\ frames[d].stage \in {"inside", "acted"} =>
             frames[d].copy.step < Steps
        /\ frames[d].kind = "batch" /\ frames[d].stage \in {"inside", "acted"} =>
             frames[d].copy.step < Calls

CheckpointsTyped ==
    /\ checkpoints \in Seq(Checkpoints) /\ Len(checkpoints) <= MaxCheckpoints
    /\ project \subseteq 1..Depth
    /\ \A i \in DOMAIN checkpoints :
        checkpoints[i].owner \in 0..Depth /\ checkpoints[i].has \subseteq 1..Depth

FilesTyped ==
    /\ recovering \in BOOLEAN
    /\ file \in [Flows -> Copies \cup {Absent}]
    /\ remembered \in [Flows -> SUBSET (1..Steps)]
    /\ settled \in [Flows -> SUBSET (1..Steps)]
    /\ forgotten \in [Flows -> SUBSET (1..Steps)]
    /\ cut \subseteq Flows

\* Whatever has begun inside of an activity began inside of a step of it.
Suspended ==
    \A d \in DOMAIN frames : d < Depth => frames[d].stage \in {"inside", "acted", "scanning"}

\* No effect and no checkpoint is of this depth.
Fresh(d) ==
    /\ d \notin project
    /\ \A i \in DOMAIN checkpoints : checkpoints[i].owner # d /\ d \notin checkpoints[i].has

\* What has changed nothing so far.
Untouched ==
    \A d \in DOMAIN frames :
        frames[d].kind = "scan" \/ frames[d].stage = "checkpoint" => Fresh(d)

\* An activity has one checkpoint, of a project without its own effects.
TakenBefore ==
    /\ \A i \in DOMAIN checkpoints : checkpoints[i].owner \notin checkpoints[i].has
    /\ \A i, j \in DOMAIN checkpoints :
        checkpoints[i].owner = checkpoints[j].owner /\ checkpoints[i].owner # Nobody => i = j

\* An atomic activity that has failed goes straight to its restoration.
FailedIsUndone ==
    \A d \in DOMAIN frames :
        frames[d].kind # "scan" /\ frames[d].atomic /\ frames[d].failed =>
            /\ frames[d].stage \in {"stopping", "ending", "finishing", "closing"}
            /\ frames[d].stage \in {"finishing", "closing"} /\ frames[d].cause = "none" =>
                 d \notin project

IsFlow(d) == d \in DOMAIN frames /\ frames[d].kind = "flow"

OneRun == \A d, e \in DOMAIN frames :
    IsFlow(d) /\ IsFlow(e) /\ frames[d].flow = frames[e].flow => d = e

\* The file of a workflow that runs says so until the last save, or is deleted.
RunIsMarked ==
    \A d \in DOMAIN frames : IsFlow(d) =>
        /\ frames[d].copy.status = "running"
        /\ \/ file[frames[d].flow] = Absent
           \/ file[frames[d].flow].status = "running"
           \/ frames[d].stage = "closing"
        /\ frames[d].stage = "closing" /\ frames[d].cause = "none" =>
             file[frames[d].flow].status # "running"

MarkedRuns ==
    \A w \in Flows : file[w].status = "running" =>
        w \in cut \/ \E d \in DOMAIN frames : IsFlow(d) /\ frames[d].flow = w

\* A step whose effect is known is in the cache, unless its record has been lost;
\* the one that has just acted is not.
SettledIsRemembered == \A w \in Flows : settled[w] \ forgotten[w] \subseteq remembered[w]
ActedOnce ==
    \A d \in DOMAIN frames : IsFlow(d) /\ frames[d].stage = "acted" =>
        frames[d].copy.step + 1 \notin settled[frames[d].flow] \ forgotten[frames[d].flow]

IInv ==
    /\ StackTyped /\ CheckpointsTyped /\ FilesTyped /\ Suspended /\ Untouched /\ TakenBefore
    /\ FailedIsUndone /\ OneRun /\ RunIsMarked /\ MarkedRuns /\ SettledIsRemembered
    /\ ActedOnce
-----------------------------------------------------------------------------
(* The stack.                                                               *)

\* The operations on the stack, of frames that are not empty where they need one.
LEMMA TopOfStack ==
    ASSUME StackTyped, frames # <<>>
    PROVE  Depth \in DOMAIN frames /\ DOMAIN frames = 1..Depth /\ Depth \in Nat \ {0}
           /\ Top \in Frames
BY DEF StackTyped, Depth, Top

LEMMA Popped ==
    ASSUME StackTyped, frames # <<>>
    PROVE  /\ Front(frames) \in Seq(Frames) /\ Len(Front(frames)) = Depth - 1
           /\ DOMAIN Front(frames) = 1..(Depth - 1)
           /\ \A d \in 1..(Depth - 1) : Front(frames)[d] = frames[d]
<1>1. Front(frames) = SubSeq(frames, 1, Depth - 1) /\ Depth \in Nat \ {0}
  BY TopOfStack DEF Front, Depth
<1>2. \A d \in 1..(Depth - 1) : frames[d] \in Frames
  BY DEF StackTyped, Depth
<1> QED BY <1>1, <1>2, SubSeqProperties

LEMMA Became ==
    ASSUME StackTyped, frames # <<>>, NEW f \in Frames, Become(f)
    PROVE  /\ frames' \in Seq(Frames) /\ Depth' = Depth /\ DOMAIN frames' = DOMAIN frames
           /\ frames'[Depth] = f
           /\ \A d \in DOMAIN frames : d # Depth => frames'[d] = frames[d]
BY DEF StackTyped, Become, Depth

LEMMA Pushed ==
    ASSUME NEW under \in Seq(Frames), NEW f \in Frames, frames' = Append(under, f)
    PROVE  /\ frames' \in Seq(Frames) /\ Depth' = Len(under) + 1
           /\ DOMAIN frames' = 1..(Len(under) + 1)
           /\ frames'[Len(under) + 1] = f
           /\ \A d \in 1..Len(under) : frames'[d] = under[d]
BY DEF Depth

\* The activity on top goes on as f.
Goes(f) ==
    /\ frames # <<>> /\ f \in Frames /\ Become(f)
    /\ f.kind \in {"batch", "flow"} /\ f.kind = Top.kind /\ f.atomic = Top.atomic
    /\ f.kind = "flow" => f.flow = Top.flow
    /\ f.stage # "checkpoint"
    /\ f.stage \in {"inside", "acted"} => f.copy.step < IF f.kind = "flow" THEN Steps ELSE Calls

LEMMA StackGoesOn ==
    ASSUME IInv, NEW f, Goes(f)
    PROVE  /\ StackTyped' /\ Suspended' /\ OneRun' /\ Depth' = Depth /\ Depth \in DOMAIN frames
           /\ DOMAIN frames' = DOMAIN frames /\ DOMAIN frames = 1..Depth /\ frames'[Depth] = f
           /\ \A d \in DOMAIN frames : d # Depth => frames'[d] = frames[d]
           /\ \A d \in DOMAIN frames : IsFlow(d)' <=> IsFlow(d)
           /\ \A d \in DOMAIN frames : IsFlow(d) => frames'[d].flow = frames[d].flow
<1>1. f \in Frames /\ StackTyped /\ frames # <<>>
  BY DEF Goes, IInv
<1>2. /\ frames' \in Seq(Frames) /\ Depth' = Depth /\ DOMAIN frames' = DOMAIN frames
      /\ frames'[Depth] = f
      /\ \A d \in DOMAIN frames : d # Depth => frames'[d] = frames[d]
  BY <1>1, Became DEF Goes
<1>3. Depth \in DOMAIN frames /\ DOMAIN frames = 1..Depth /\ Depth \in Nat \ {0}
  BY <1>1, TopOfStack
<1>4. StackTyped'
  BY <1>1, <1>2, <1>3 DEF Goes, StackTyped
<1>5. Suspended'
  BY <1>2, <1>3 DEF IInv, Suspended
<1>6. \A d \in DOMAIN frames : IsFlow(d)' <=> IsFlow(d)
  BY <1>2, <1>3 DEF IsFlow, Goes, Top
<1>7. \A d \in DOMAIN frames : IsFlow(d) => frames'[d].flow = frames[d].flow
  BY <1>2, <1>3 DEF IsFlow, Goes, Top
<1>8. OneRun'
  BY <1>2, <1>6, <1>7 DEF IInv, OneRun
<1> QED BY <1>2, <1>3, <1>4, <1>5, <1>6, <1>7, <1>8

\* It has not changed the project in this step.
LEMMA ProjectStays ==
    ASSUME IInv, NEW f, Goes(f), UNCHANGED <<project, checkpoints>>,
           f.atomic /\ f.failed =>
               /\ f.stage \in {"stopping", "ending", "finishing", "closing"}
               /\ f.stage \in {"finishing", "closing"} /\ f.cause = "none" => Depth \notin project
    PROVE  CheckpointsTyped' /\ Untouched' /\ TakenBefore' /\ FailedIsUndone'
<1>1. /\ Depth' = Depth /\ Depth \in DOMAIN frames /\ DOMAIN frames' = DOMAIN frames
      /\ frames'[Depth] = f
      /\ \A d \in DOMAIN frames : d # Depth => frames'[d] = frames[d]
  BY StackGoesOn
<1>2. CheckpointsTyped' /\ TakenBefore'
  BY <1>1 DEF IInv, CheckpointsTyped, TakenBefore
<1>3. Untouched'
  BY <1>1 DEF IInv, Untouched, Fresh, Goes
<1>4. FailedIsUndone'
  BY <1>1 DEF IInv, FailedIsUndone
<1> QED BY <1>2, <1>3, <1>4

\* What it writes to the file of its workflow: its copy, or the result of the run.
Writes(f) ==
    \/ UNCHANGED file /\ (f.kind = "flow" /\ f.stage = "closing" => f.cause # "none")
    \/ /\ f.kind = "flow" /\ f.stage # "closing"
       /\ file' = [file EXCEPT ![f.flow] = f.copy]
    \/ /\ f.kind = "flow" /\ f.stage = "closing"
       /\ \E c \in Copies : c.status # "running" /\ file' = [file EXCEPT ![f.flow] = c]

LEMMA FilesStay ==
    ASSUME IInv, NEW f, Goes(f), Writes(f), Top.stage # "closing",
           f.kind = "flow" => f.copy.status = "running",
           UNCHANGED <<recovering, cut>>
    PROVE  RunIsMarked' /\ MarkedRuns' /\ (recovering \in BOOLEAN)' /\ (cut \subseteq Flows)'
           /\ (file \in [Flows -> Copies \cup {Absent}])'
<1>1. /\ Depth \in DOMAIN frames /\ DOMAIN frames' = DOMAIN frames /\ frames'[Depth] = f
      /\ \A d \in DOMAIN frames : d # Depth => frames'[d] = frames[d]
      /\ \A d \in DOMAIN frames : IsFlow(d)' <=> IsFlow(d)
      /\ \A d \in DOMAIN frames : IsFlow(d) => frames'[d].flow = frames[d].flow
  BY StackGoesOn
<1>2. f.kind = "flow" => IsFlow(Depth) /\ frames[Depth].flow = f.flow /\ f.flow \in Flows
                         /\ f.copy \in Copies /\ frames[Depth].stage # "closing"
  BY <1>1 DEF Goes, Top, IsFlow, Frames, FlowFrames, BatchFrames, ScanFrames
<1>3. (file \in [Flows -> Copies \cup {Absent}])'
  BY <1>2 DEF Writes, IInv, FilesTyped
<1>4. \A w \in Flows : (f.kind = "flow" => w # f.flow) => file'[w] = file[w]
  BY <1>2 DEF Writes, IInv, FilesTyped
<1>5. ASSUME NEW d \in DOMAIN frames, IsFlow(d)
      PROVE  frames[d].flow \in Flows
             /\ (d # Depth => file'[frames[d].flow] = file[frames[d].flow])
  <2>1. frames[d].flow \in Flows
    BY <1>5 DEF IsFlow, IInv, StackTyped, Frames, FlowFrames, BatchFrames, ScanFrames
  <2>2. d # Depth /\ f.kind = "flow" => frames[d].flow # f.flow
    BY <1>1, <1>2, <1>5 DEF IInv, OneRun
  <2> QED BY <2>1, <2>2, <1>4
<1>6. f.kind = "flow" => \/ UNCHANGED file /\ (f.stage = "closing" => f.cause # "none")
                         \/ f.stage # "closing" /\ file'[f.flow].status = "running"
                         \/ f.stage = "closing" /\ file'[f.flow].status # "running"
  BY <1>2 DEF Writes, IInv, FilesTyped
<1>7. RunIsMarked'
  <2> SUFFICES ASSUME NEW d \in DOMAIN frames, IsFlow(d)
               PROVE  /\ frames'[d].copy.status = "running"
                      /\ \/ file'[frames[d].flow] = Absent
                         \/ file'[frames[d].flow].status = "running"
                         \/ frames'[d].stage = "closing"
                      /\ frames'[d].stage = "closing" /\ frames'[d].cause = "none" =>
                           file'[frames[d].flow].status # "running"
    BY <1>1 DEF RunIsMarked
  <2>1. CASE d # Depth
    BY <2>1, <1>1, <1>5 DEF IInv, RunIsMarked
  <2>2. CASE d = Depth
    BY <2>2, <1>1, <1>2, <1>6 DEF IInv, RunIsMarked, IsFlow
  <2> QED BY <2>1, <2>2
<1>8. MarkedRuns'
  BY <1>1, <1>2, <1>4 DEF IInv, MarkedRuns
<1> QED BY <1>3, <1>7, <1>8 DEF IInv, FilesTyped

\* None of its steps has taken effect or been recorded.
LEMMA KeysStay ==
    ASSUME IInv, NEW f, Goes(f), f.stage # "acted", UNCHANGED <<remembered, settled, forgotten>>
    PROVE  SettledIsRemembered' /\ ActedOnce'
           /\ (remembered \in [Flows -> SUBSET (1..Steps)])'
           /\ (settled \in [Flows -> SUBSET (1..Steps)])'
           /\ (forgotten \in [Flows -> SUBSET (1..Steps)])'
<1>1. /\ DOMAIN frames' = DOMAIN frames /\ frames'[Depth] = f
      /\ \A d \in DOMAIN frames : d # Depth => frames'[d] = frames[d]
      /\ \A d \in DOMAIN frames : IsFlow(d)' <=> IsFlow(d)
  BY StackGoesOn
<1>2. ActedOnce'
  BY <1>1 DEF IInv, ActedOnce
<1> QED BY <1>2 DEF IInv, SettledIsRemembered, FilesTyped

\* An atomic activity that has failed is on its way to the restoration.
Undoes(f) ==
    f.atomic /\ f.failed =>
        /\ f.stage \in {"stopping", "ending", "finishing", "closing"}
        /\ f.stage \in {"finishing", "closing"} /\ f.cause = "none" => Depth \notin project

LEMMA OnlyGoesOn ==
    ASSUME IInv, NEW f, Goes(f), Writes(f), Undoes(f), Top.stage # "closing",
           f.stage # "acted", f.kind = "flow" => f.copy.status = "running",
           UNCHANGED <<recovering, project, checkpoints, remembered, settled, forgotten, cut>>
    PROVE  IInv'
<1>1. StackTyped' /\ Suspended' /\ OneRun'
  BY StackGoesOn
<1>2. CheckpointsTyped' /\ Untouched' /\ TakenBefore' /\ FailedIsUndone'
  BY ProjectStays DEF Undoes
<1>3. RunIsMarked' /\ MarkedRuns' /\ (recovering \in BOOLEAN)' /\ (cut \subseteq Flows)'
      /\ (file \in [Flows -> Copies \cup {Absent}])'
  BY FilesStay
<1>4. SettledIsRemembered' /\ ActedOnce' /\ (remembered \in [Flows -> SUBSET (1..Steps)])'
      /\ (settled \in [Flows -> SUBSET (1..Steps)])'
      /\ (forgotten \in [Flows -> SUBSET (1..Steps)])'
  BY KeysStay
<1> QED BY <1>1, <1>2, <1>3, <1>4 DEF IInv, FilesTyped

\* What the invariant says of the activity on top, of a batch or of a workflow.
LEMMA OfTop ==
    ASSUME IInv, frames # <<>>, Top.kind # "scan"
    PROVE  /\ Top.kind \in {"batch", "flow"} /\ Depth \in DOMAIN frames
           /\ Top.kind = "flow" =>
                /\ Top \in FlowFrames /\ Top.copy.status = "running"
                /\ Top.stage \in {"inside", "acted"} => Top.copy.step < Steps
           /\ Top.kind = "batch" =>
                /\ Top \in BatchFrames
                /\ Top.stage \in {"inside", "acted"} => Top.copy.step < Calls
           /\ Top.stage \in Stages /\ Undoes(Top)
<1>1. Top \in Frames /\ Depth \in DOMAIN frames
  BY TopOfStack DEF IInv
<1>2. Top \in FlowFrames \/ Top \in BatchFrames
  BY <1>1 DEF Frames, ScanFrames
<1>3. Undoes(Top)
  BY <1>1 DEF IInv, FailedIsUndone, Undoes, Top
<1>4. Top.kind = "flow" => Top.copy.status = "running"
  BY <1>1 DEF IInv, RunIsMarked, IsFlow, Top
<1>5. /\ Top.kind = "flow" /\ Top.stage \in {"inside", "acted"} => Top.copy.step < Steps
      /\ Top.kind = "batch" /\ Top.stage \in {"inside", "acted"} => Top.copy.step < Calls
  BY <1>1 DEF IInv, StackTyped, Top
<1> QED BY <1>1, <1>2, <1>3, <1>4, <1>5 DEF FlowFrames, BatchFrames

LEMMA StepBeginsOk == IInv /\ StepBegins => IInv'
<1> SUFFICES ASSUME IInv, StepBegins PROVE IInv'
  OBVIOUS
<1> DEFINE f == [Top EXCEPT !.stage = "inside"]
<1>1. frames # <<>> /\ Top.kind # "scan" /\ Top.stage = "next" /\ Become(f)
      /\ UNCHANGED <<recovering, project, checkpoints, remembered, settled, forgotten, cut>>
  BY DEF StepBegins, InRun, Go
<1>2. Goes(f)
  BY <1>1, OfTop DEF StepBegins, Length, Goes, Frames, FlowFrames, BatchFrames, Stages
<1>3. Writes(f) /\ Undoes(f)
      /\ f.stage # "acted" /\ (f.kind = "flow" => f.copy.status = "running")
  BY <1>1, OfTop DEF StepBegins, SavesAs, Writes, Undoes, FlowFrames, BatchFrames
<1> HIDE DEF f
<1> QED BY <1>1, <1>2, <1>3, OnlyGoesOn

LEMMA StepFailsOk == IInv /\ StepFails => IInv'
<1> SUFFICES ASSUME IInv, StepFails PROVE IInv'
  OBVIOUS
<1> DEFINE c == IF Top.copy.continues THEN NextStep ELSE Top.copy
           s == IF Top.kind = "flow"
                THEN IF Top.atomic \/ ~Top.copy.continues THEN "stopping" ELSE "noting"
                ELSE IF Top.atomic THEN "ending"
                ELSE IF Top.copy.continues THEN "next" ELSE "closing"
           f == [Top EXCEPT !.failed = TRUE, !.copy = c, !.stage = s]
<1>1. frames # <<>> /\ Top.kind # "scan" /\ Top.stage \in {"inside", "acted"}
      /\ UNCHANGED <<recovering, project, checkpoints, file, remembered, settled, forgotten, cut>>
  BY DEF StepFails, InRun
<1>2. Become(f)
  BY DEF StepFails
<1>3. c \in (IF Top.kind = "flow" THEN Copies ELSE BatchCopies)
      /\ (Top.kind = "flow" => c.status = "running")
  <2>1. CASE Top.kind = "flow"
    <3>1. Top.copy \in Copies /\ Top.copy.step < Steps /\ Top.copy.status = "running"
      BY <1>1, <2>1, OfTop DEF FlowFrames
    <3> QED BY <3>1, <2>1, AutomationAssumption DEF NextStep, Step, Copies
  <2>2. CASE Top.kind # "flow"
    <3>1. Top.copy \in BatchCopies /\ Top.copy.step < Calls
      BY <1>1, <2>2, OfTop DEF BatchFrames
    <3> QED BY <3>1, <2>2, AutomationAssumption DEF NextStep, Step, BatchCopies
  <2> QED BY <2>1, <2>2
<1>4. Goes(f)
  <2> HIDE DEF c
  <2> QED BY <1>1, <1>2, <1>3, OfTop DEF Goes, Frames, FlowFrames, BatchFrames, Stages
<1>5. Writes(f) /\ Undoes(f)
      /\ f.stage # "acted" /\ (f.kind = "flow" => f.copy.status = "running")
  <2> HIDE DEF c
  <2> QED BY <1>1, <1>3, OfTop DEF Writes, Undoes, FlowFrames, BatchFrames
<1> HIDE DEF f
<1> QED BY <1>1, <1>2, <1>4, <1>5, OnlyGoesOn

LEMMA StepNotedOk == IInv /\ StepNoted => IInv'
<1> SUFFICES ASSUME IInv, StepNoted PROVE IInv'
  OBVIOUS
<1>1. PICK s \in {"next", "ending"} :
        /\ Top.stage = (IF s = "next" THEN "noting" ELSE "stopping")
        /\ Become([Top EXCEPT !.stage = s])
  BY DEF StepNoted, At, Go
<1> DEFINE f == [Top EXCEPT !.stage = s]
<1>2. frames # <<>> /\ Top.kind = "flow" /\ Become(f)
      /\ file' = [file EXCEPT ![Top.flow] = Top.copy]
      /\ UNCHANGED <<recovering, project, checkpoints, remembered, settled, forgotten, cut>>
  BY <1>1 DEF StepNoted, At, SavesAs
<1>3. Goes(f)
  BY <1>1, <1>2, OfTop DEF Goes, Frames, FlowFrames, Stages
<1>4. Writes(f) /\ Undoes(f)
      /\ f.stage # "acted" /\ (f.kind = "flow" => f.copy.status = "running")
  BY <1>1, <1>2, OfTop DEF Writes, Undoes, FlowFrames
<1> HIDE DEF f
<1> QED BY <1>1, <1>2, <1>3, <1>4, OnlyGoesOn

LEMMA LastStepDoneOk == IInv /\ LastStepDone => IInv'
<1> SUFFICES ASSUME IInv, LastStepDone PROVE IInv'
  OBVIOUS
<1> DEFINE f == [Top EXCEPT !.stage = IF Top.kind = "flow" THEN "ending" ELSE "closing"]
<1>1. frames # <<>> /\ Top.kind # "scan" /\ Top.stage = "next" /\ Become(f)
      /\ UNCHANGED <<recovering, project, checkpoints, file, remembered, settled, forgotten, cut>>
  BY DEF LastStepDone, InRun, Go
<1>2. Goes(f)
  BY <1>1, OfTop DEF Goes, Frames, FlowFrames, BatchFrames, Stages
<1>3. Writes(f) /\ Undoes(f)
      /\ f.stage # "acted" /\ (f.kind = "flow" => f.copy.status = "running")
  BY <1>1, OfTop DEF Writes, Undoes, FlowFrames, BatchFrames
<1> HIDE DEF f
<1> QED BY <1>1, <1>2, <1>3, OnlyGoesOn

LEMMA NothingToRestoreOk == IInv /\ NothingToRestore => IInv'
<1> SUFFICES ASSUME IInv, NothingToRestore PROVE IInv'
  OBVIOUS
<1> DEFINE f == [Top EXCEPT !.stage = "finishing"]
<1>1. frames # <<>> /\ Top.kind = "flow" /\ Top.stage = "ending" /\ Become(f)
      /\ ~(Top.failed /\ Top.atomic)
      /\ UNCHANGED <<recovering, project, checkpoints, file, remembered, settled, forgotten, cut>>
  BY DEF NothingToRestore, At, Go, MustRestore
<1>2. Goes(f)
  BY <1>1, OfTop DEF Goes, Frames, FlowFrames, Stages
<1>3. Writes(f) /\ Undoes(f)
      /\ f.stage # "acted" /\ (f.kind = "flow" => f.copy.status = "running")
  BY <1>1, OfTop DEF Writes, Undoes, FlowFrames
<1> HIDE DEF f
<1> QED BY <1>1, <1>2, <1>3, OnlyGoesOn

LEMMA FinishOk == IInv /\ Finish => IInv'
<1> SUFFICES ASSUME IInv, Finish PROVE IInv'
  OBVIOUS
<1> DEFINE f == [Top EXCEPT !.stage = "closing"]
<1>1. frames # <<>> /\ Top.kind = "flow" /\ Top.stage = "finishing" /\ Become(f)
      /\ UNCHANGED <<recovering, project, checkpoints, remembered, settled, forgotten, cut>>
  BY DEF Finish, At, Go
<1>2. Goes(f)
  BY <1>1, OfTop DEF Goes, Frames, FlowFrames, Stages
<1>3. \E c \in Copies : c.status # "running" /\ file' = [file EXCEPT ![f.flow] = c]
  <2>1. PICK again \in {FALSE, Top.copy.due} :
          SavesAs([Top.copy EXCEPT
              !.status = IF Top.failed THEN "failed" ELSE "completed",
              !.run = Top.failed /\ @, !.due = again])
    BY DEF Finish
  <2> DEFINE c == [Top.copy EXCEPT
              !.status = IF Top.failed THEN "failed" ELSE "completed",
              !.run = Top.failed /\ @, !.due = again]
  <2>2. Top.copy \in Copies /\ Top.failed \in BOOLEAN /\ Top \in FlowFrames
    BY <1>1, OfTop DEF FlowFrames
  <2>3. c \in Copies /\ c.status # "running"
    BY <2>2 DEF Copies
  <2>4. f.flow = Top.flow
    BY <2>2 DEF FlowFrames
  <2>5. file' = [file EXCEPT ![f.flow] = c]
    BY <2>1, <2>4, <1>1 DEF SavesAs
  <2> QED BY <2>3, <2>5
<1>4. Writes(f) /\ Undoes(f)
      /\ f.stage # "acted" /\ (f.kind = "flow" => f.copy.status = "running")
  BY <1>1, <1>3, OfTop DEF Writes, Undoes, FlowFrames
<1> HIDE DEF f
<1> QED BY <1>1, <1>2, <1>4, OnlyGoesOn

LEMMA EscapeOk ==
    ASSUME IInv, NEW cause \in {"disk", "checkpoint"}, Escape(cause), frames # <<>>,
           Top.kind # "scan", Top.stage # "closing",
           UNCHANGED <<recovering, project, checkpoints, file, remembered, settled, forgotten, cut>>
    PROVE  IInv'
<1> DEFINE f == [Top EXCEPT !.stage = "closing", !.cause = cause]
<1>1. Become(f)
  BY DEF Escape
<1>2. Goes(f)
  BY <1>1, OfTop DEF Goes, Frames, FlowFrames, BatchFrames, Stages, Causes
<1>3. Writes(f) /\ Undoes(f)
      /\ f.stage # "acted" /\ (f.kind = "flow" => f.copy.status = "running")
  BY OfTop DEF Writes, Undoes, FlowFrames, BatchFrames
<1> HIDE DEF f
<1> QED BY <1>2, <1>3, OnlyGoesOn

LEMMA DiskRefusesOk == IInv /\ DiskRefuses => IInv'
<1> SUFFICES ASSUME IInv, DiskRefuses PROVE IInv'
  OBVIOUS
<1>1. Escape("disk") /\ frames # <<>> /\ Top.kind # "scan" /\ Top.stage # "closing"
      /\ UNCHANGED <<recovering, project, checkpoints, file, remembered, settled, forgotten, cut>>
  BY DEF DiskRefuses, At
<1> QED BY <1>1, EscapeOk

LEMMA RestoreFailsOk == IInv /\ RestoreFails => IInv'
<1> SUFFICES ASSUME IInv, RestoreFails PROVE IInv'
  OBVIOUS
<1>1. Escape("checkpoint") /\ frames # <<>> /\ Top.kind # "scan" /\ Top.stage # "closing"
      /\ UNCHANGED <<recovering, project, checkpoints, file, remembered, settled, forgotten, cut>>
  BY DEF RestoreFails, InRun
<1> QED BY <1>1, EscapeOk

-----------------------------------------------------------------------------
(* Steps that change the project, a checkpoint or the keys.                 *)

\* What a checkpoint of this owner adds to those that are kept.
LEMMA Checkpointed ==
    ASSUME IInv, NEW owner \in 0..Depth, Create(owner)
    PROVE  /\ checkpoints' \in Seq(Checkpoints) /\ Len(checkpoints') <= MaxCheckpoints
           /\ \A i \in DOMAIN checkpoints' :
                \/ checkpoints'[i] = [owner |-> owner, has |-> project]
                \/ \E j \in DOMAIN checkpoints : checkpoints'[i] = checkpoints[j]
           /\ (owner = Nobody \/ Fresh(owner)) /\ owner \notin project => TakenBefore'
<1> DEFINE c == [owner |-> owner, has |-> project]
           e == Append(checkpoints, c)
<1>1. checkpoints \in Seq(Checkpoints) /\ Len(checkpoints) <= MaxCheckpoints /\ c \in Checkpoints
      /\ MaxCheckpoints \in Nat \ {0}
  BY AutomationAssumption DEF IInv, StackTyped, CheckpointsTyped, Checkpoints, Depth
<1> HIDE DEF c
<1>2. /\ e \in Seq(Checkpoints) /\ Len(e) = Len(checkpoints) + 1 /\ e[Len(e)] = c
      /\ \A i \in DOMAIN checkpoints : i \in DOMAIN e /\ e[i] = checkpoints[i]
      /\ DOMAIN checkpoints = 1..Len(checkpoints) /\ DOMAIN e = 1..Len(e)
      /\ Len(checkpoints) \in Nat
  BY <1>1
<1>3. checkpoints' = IF Len(e) > MaxCheckpoints THEN Tail(e) ELSE e
  BY DEF Create, Kept, c
<1> HIDE DEF e
<1>4. PICK k \in {0, 1} :
        /\ checkpoints' \in Seq(Checkpoints) /\ Len(checkpoints') = Len(e) - k
        /\ Len(checkpoints') <= MaxCheckpoints
        /\ \A i \in DOMAIN checkpoints' : i + k \in DOMAIN e /\ checkpoints'[i] = e[i + k]
  <2>1. CASE Len(e) > MaxCheckpoints
    <3>1. e # <<>>
      BY <1>1, <1>2
    <3>2. /\ Tail(e) \in Seq(Checkpoints) /\ Len(Tail(e)) = Len(e) - 1
          /\ \A i \in 1..Len(Tail(e)) : Tail(e)[i] = e[i + 1]
      BY <3>1, <1>2, HeadTailProperties
    <3> QED BY <3>2, <2>1, <1>1, <1>2, <1>3
  <2>2. CASE ~(Len(e) > MaxCheckpoints)
    BY <2>2, <1>1, <1>2, <1>3
  <2> QED BY <2>1, <2>2
<1>5. \A i \in DOMAIN checkpoints' :
        checkpoints'[i] = c \/ \E j \in DOMAIN checkpoints : checkpoints'[i] = checkpoints[j]
  BY <1>2, <1>4
<1>6. ASSUME owner = Nobody \/ Fresh(owner), owner \notin project
      PROVE  TakenBefore'
  <2>1. \A i \in DOMAIN checkpoints' : checkpoints'[i].owner \notin checkpoints'[i].has
    BY <1>5, <1>6 DEF IInv, TakenBefore, c
  <2>2. ASSUME NEW i \in DOMAIN checkpoints', NEW j \in DOMAIN checkpoints',
               checkpoints'[i].owner = checkpoints'[j].owner, checkpoints'[i].owner # Nobody
        PROVE  i = j
    <3>1. i + k \in 1..Len(e) /\ j + k \in 1..Len(e) /\ e[i + k].owner = e[j + k].owner
          /\ e[i + k].owner # Nobody /\ i \in Nat /\ j \in Nat
      <4>1. i \in Nat /\ j \in Nat
        BY <1>4
      <4>2. e[i + k] = checkpoints'[i] /\ e[j + k] = checkpoints'[j] /\ i + k \in DOMAIN e
            /\ j + k \in DOMAIN e
        BY <1>4
      <4> QED BY <4>1, <4>2, <2>2, <1>2
    <3>2. ASSUME NEW m \in 1..Len(e), NEW n \in 1..Len(e), m < n, e[m].owner = e[n].owner,
                 e[m].owner # Nobody
          PROVE  FALSE
      <4>1. m \in DOMAIN checkpoints /\ e[m] = checkpoints[m]
        BY <3>2, <1>2
      <4>2. CASE n = Len(e)
        BY <4>1, <4>2, <3>2, <1>2, <1>6 DEF Fresh, c
      <4>3. CASE n # Len(e)
        <5>1. n \in DOMAIN checkpoints /\ e[n] = checkpoints[n]
          BY <4>3, <3>2, <1>2
        <5> QED BY <5>1, <4>1, <3>2 DEF IInv, TakenBefore
      <4> QED BY <4>2, <4>3
    <3>3. i + k = j + k
      BY <3>1, <3>2, <1>2
    <3> QED BY <3>1, <3>3
  <2> QED BY <2>1, <2>2 DEF TakenBefore
<1> QED BY <1>4, <1>5, <1>6 DEF c

LEMMA TakeCheckpointOk == IInv /\ TakeCheckpoint => IInv'
<1> SUFFICES ASSUME IInv, TakeCheckpoint PROVE IInv'
  OBVIOUS
<1> DEFINE f == [Top EXCEPT !.stage = "next"]
<1>1. frames # <<>> /\ Top.kind # "scan" /\ Top.stage = "checkpoint" /\ Become(f) /\ Create(Depth)
      /\ UNCHANGED <<recovering, project, file, remembered, settled, forgotten, cut>>
  BY DEF TakeCheckpoint, InRun, Go
<1>2. Goes(f)
  BY <1>1, OfTop DEF Goes, Frames, FlowFrames, BatchFrames, Stages
<1>3. Writes(f) /\ Undoes(f)
      /\ f.stage # "acted" /\ (f.kind = "flow" => f.copy.status = "running")
  BY <1>1, OfTop DEF Writes, Undoes, FlowFrames, BatchFrames
<1>4. f.stage = "next"
  BY <1>1, OfTop DEF FlowFrames, BatchFrames
<1> HIDE DEF f
<1>5. /\ StackTyped' /\ Suspended' /\ OneRun' /\ Depth' = Depth /\ Depth \in DOMAIN frames
      /\ DOMAIN frames' = DOMAIN frames /\ DOMAIN frames = 1..Depth /\ frames'[Depth] = f
      /\ \A d \in DOMAIN frames : d # Depth => frames'[d] = frames[d]
  BY <1>2, StackGoesOn
<1>6. RunIsMarked' /\ MarkedRuns' /\ FilesTyped' /\ SettledIsRemembered' /\ ActedOnce'
  BY <1>1, <1>2, <1>3, FilesStay, KeysStay DEF FilesTyped
<1>7. Fresh(Depth) /\ Depth \in Nat \ {0}
  BY <1>1, <1>5, TopOfStack DEF IInv, Untouched, Top
<1>8. /\ checkpoints' \in Seq(Checkpoints) /\ Len(checkpoints') <= MaxCheckpoints
      /\ \A i \in DOMAIN checkpoints' :
           \/ checkpoints'[i] = [owner |-> Depth, has |-> project]
           \/ \E j \in DOMAIN checkpoints : checkpoints'[i] = checkpoints[j]
      /\ TakenBefore'
  <2>1. Depth \in 0..Depth /\ Depth \notin project
    BY <1>7 DEF Fresh
  <2> QED BY <2>1, <1>1, <1>7, Checkpointed
<1>9. CheckpointsTyped'
  <2>1. project \subseteq 1..Depth /\ \A i \in DOMAIN checkpoints :
          checkpoints[i].owner \in 0..Depth /\ checkpoints[i].has \subseteq 1..Depth
    BY DEF IInv, CheckpointsTyped
  <2>2. \A i \in DOMAIN checkpoints' :
          checkpoints'[i].owner \in 0..Depth /\ checkpoints'[i].has \subseteq 1..Depth
    <3> SUFFICES ASSUME NEW i \in DOMAIN checkpoints'
                 PROVE  checkpoints'[i].owner \in 0..Depth /\ checkpoints'[i].has \subseteq 1..Depth
      OBVIOUS
    <3>1. CASE checkpoints'[i] = [owner |-> Depth, has |-> project]
      BY <3>1, <1>7, <2>1
    <3>2. CASE \E j \in DOMAIN checkpoints : checkpoints'[i] = checkpoints[j]
      BY <3>2, <2>1
    <3> QED BY <3>1, <3>2, <1>8
  <2> QED BY <1>1, <1>5, <1>8, <2>1, <2>2 DEF CheckpointsTyped
<1>10. Untouched'
  <2> SUFFICES ASSUME NEW d \in DOMAIN frames, d # Depth,
                      frames[d].kind = "scan" \/ frames[d].stage = "checkpoint"
               PROVE  Fresh(d)'
    BY <1>2, <1>4, <1>5 DEF Untouched, Goes
  <2>1. Fresh(d)
    BY DEF IInv, Untouched
  <2> QED BY <2>1, <1>1, <1>8 DEF Fresh
<1>11. FailedIsUndone'
  BY <1>1, <1>3, <1>5 DEF IInv, FailedIsUndone, Undoes
<1> QED BY <1>5, <1>6, <1>8, <1>9, <1>10, <1>11 DEF IInv

\* A change of the depths in project that spares what has changed nothing.
LEMMA ProjectBecomes ==
    ASSUME IInv, NEW f, Goes(f), UNCHANGED checkpoints, project' \subseteq 1..Depth,
           \A d \in DOMAIN frames : d # Depth /\ d \in project' =>
               d \in project \/ \E i \in DOMAIN checkpoints : d \in checkpoints[i].has,
           f.atomic /\ f.failed =>
               /\ f.stage \in {"stopping", "ending", "finishing", "closing"}
               /\ f.stage \in {"finishing", "closing"} /\ f.cause = "none" => Depth \notin project'
    PROVE  CheckpointsTyped' /\ Untouched' /\ TakenBefore' /\ FailedIsUndone'
<1>1. /\ Depth' = Depth /\ Depth \in DOMAIN frames /\ DOMAIN frames' = DOMAIN frames
      /\ frames'[Depth] = f /\ DOMAIN frames = 1..Depth
      /\ \A d \in DOMAIN frames : d # Depth => frames'[d] = frames[d]
  BY StackGoesOn
<1>2. CheckpointsTyped' /\ TakenBefore'
  BY <1>1 DEF IInv, CheckpointsTyped, TakenBefore
<1>3. Untouched'
  BY <1>1 DEF IInv, Untouched, Fresh, Goes
<1>4. FailedIsUndone'
  <2> SUFFICES ASSUME NEW d \in DOMAIN frames, frames'[d].kind # "scan", frames'[d].atomic,
                      frames'[d].failed
               PROVE  /\ frames'[d].stage \in {"stopping", "ending", "finishing", "closing"}
                      /\ frames'[d].stage \in {"finishing", "closing"}
                         /\ frames'[d].cause = "none" => d \notin project'
    BY <1>1 DEF FailedIsUndone
  <2>1. CASE d = Depth
    BY <2>1, <1>1
  <2>2. CASE d # Depth
    <3>1. frames'[d] = frames[d] /\ d < Depth
      BY <2>2, <1>1 DEF IInv, StackTyped, Depth
    <3> QED BY <3>1 DEF IInv, FailedIsUndone, Suspended
  <2> QED BY <2>1, <2>2
<1> QED BY <1>2, <1>3, <1>4

LEMMA StepActsOk == IInv /\ StepActs => IInv'
<1> SUFFICES ASSUME IInv, StepActs PROVE IInv'
  OBVIOUS
<1> DEFINE f == [Top EXCEPT !.stage = "acted"]
<1>1. frames # <<>> /\ Top.kind # "scan" /\ Top.stage = "inside" /\ Become(f)
      /\ project' = (IF Top.atomic THEN project \cup {Depth} ELSE project)
      /\ UNCHANGED <<recovering, checkpoints, file, remembered, settled, forgotten, cut>>
  BY DEF StepActs, InRun, Go
<1>2. Goes(f) /\ f.stage = "acted" /\ f.kind = Top.kind /\ ~(f.atomic /\ f.failed)
      /\ (f.kind = "flow" => f.copy = Top.copy /\ f.flow = Top.flow)
  BY <1>1, OfTop DEF Goes, Frames, FlowFrames, BatchFrames, Stages, Undoes
<1>3. Writes(f) /\ (f.kind = "flow" => f.copy.status = "running")
  BY <1>1, <1>2, OfTop DEF Writes
<1> HIDE DEF f
<1>4. /\ StackTyped' /\ Suspended' /\ OneRun' /\ Depth \in DOMAIN frames
      /\ DOMAIN frames' = DOMAIN frames /\ DOMAIN frames = 1..Depth /\ frames'[Depth] = f
      /\ \A d \in DOMAIN frames : d # Depth => frames'[d] = frames[d]
      /\ \A d \in DOMAIN frames : IsFlow(d)' <=> IsFlow(d)
  BY <1>2, StackGoesOn
<1>5. RunIsMarked' /\ MarkedRuns' /\ FilesTyped' /\ SettledIsRemembered'
  BY <1>1, <1>2, <1>3, FilesStay DEF IInv, FilesTyped, SettledIsRemembered
<1>6. CheckpointsTyped' /\ Untouched' /\ TakenBefore' /\ FailedIsUndone'
  <2>1. project' \subseteq 1..Depth
    BY <1>1, <1>4 DEF IInv, CheckpointsTyped
  <2> QED BY <2>1, <1>1, <1>2, ProjectBecomes
<1>7. ActedOnce'
  <2>1. Top.kind = "flow" =>
          Top.copy.step + 1 \notin settled[Top.flow] \ forgotten[Top.flow]
    <3> SUFFICES ASSUME Top.kind = "flow"
                 PROVE  Top.copy.step + 1 \notin settled[Top.flow] \ forgotten[Top.flow]
      OBVIOUS
    <3>1. Top.flow \in Flows /\ Top.copy.step + 1 \notin remembered[Top.flow]
      BY <1>1, OfTop DEF StepActs, Replayed, Step, FlowFrames
    <3> QED BY <3>1 DEF IInv, SettledIsRemembered
  <2> QED BY <2>1, <1>1, <1>2, <1>4 DEF IInv, ActedOnce, IsFlow
<1> QED BY <1>4, <1>5, <1>6, <1>7 DEF IInv

LEMMA StepWorksOk == IInv /\ StepWorks => IInv'
<1> SUFFICES ASSUME IInv, StepWorks PROVE IInv'
  OBVIOUS
<1> DEFINE f == [Top EXCEPT !.copy = NextStep,
                            !.stage = IF Top.kind = "flow" THEN "noting" ELSE "next"]
<1>1. frames # <<>> /\ Top.kind # "scan" /\ Top.stage \in {"inside", "acted"} /\ Become(f)
      /\ UNCHANGED <<recovering, project, checkpoints, file, cut>>
  BY DEF StepWorks, InRun
<1>2. /\ NextStep \in (IF Top.kind = "flow" THEN Copies ELSE BatchCopies)
      /\ Top.kind = "flow" => NextStep.status = "running" /\ Step \in 1..Steps
  <2>1. CASE Top.kind = "flow"
    <3>1. Top.copy \in Copies /\ Top.copy.step < Steps /\ Top.copy.status = "running"
      BY <1>1, <2>1, OfTop DEF FlowFrames
    <3> QED BY <3>1, <2>1, AutomationAssumption DEF NextStep, Step, Copies
  <2>2. CASE Top.kind # "flow"
    <3>1. Top.copy \in BatchCopies /\ Top.copy.step < Calls
      BY <1>1, <2>2, OfTop DEF BatchFrames
    <3> QED BY <3>1, <2>2, AutomationAssumption DEF NextStep, Step, BatchCopies
  <2> QED BY <2>1, <2>2
<1>3. Goes(f) /\ f.stage \notin {"acted", "closing"} /\ f.kind = Top.kind /\ Undoes(f)
      /\ (f.kind = "flow" => f.copy.status = "running")
  BY <1>1, <1>2, OfTop DEF Goes, Frames, FlowFrames, BatchFrames, Stages, Undoes
<1>4. Writes(f)
  BY <1>1, <1>3 DEF Writes
<1> HIDE DEF f
<1>5. /\ StackTyped' /\ Suspended' /\ OneRun' /\ Depth \in DOMAIN frames
      /\ DOMAIN frames' = DOMAIN frames /\ DOMAIN frames = 1..Depth /\ frames'[Depth] = f
      /\ \A d \in DOMAIN frames : d # Depth => frames'[d] = frames[d]
      /\ \A d \in DOMAIN frames : IsFlow(d)' <=> IsFlow(d)
  BY <1>3, StackGoesOn
<1>6. CheckpointsTyped' /\ Untouched' /\ TakenBefore' /\ FailedIsUndone'
  BY <1>1, <1>3, ProjectStays DEF Undoes
<1>7. RunIsMarked' /\ MarkedRuns' /\ (recovering \in BOOLEAN)' /\ (cut \subseteq Flows)'
      /\ (file \in [Flows -> Copies \cup {Absent}])'
  BY <1>1, <1>3, <1>4, FilesStay
<1>8. CASE Top.kind = "flow"
  <2>1. /\ remembered' = [remembered EXCEPT ![Top.flow] = @ \cup {Step}]
        /\ settled' = [settled EXCEPT ![Top.flow] = @ \cup {Step}]
        /\ forgotten' = [forgotten EXCEPT ![Top.flow] = @ \ {Step}]
        /\ Top.flow \in Flows /\ Step \in 1..Steps
    BY <1>1, <1>2, <1>8, OfTop DEF StepWorks, FlowFrames
  <2>2. /\ (remembered \in [Flows -> SUBSET (1..Steps)])'
        /\ (settled \in [Flows -> SUBSET (1..Steps)])'
        /\ (forgotten \in [Flows -> SUBSET (1..Steps)])' /\ SettledIsRemembered'
    BY <2>1 DEF IInv, FilesTyped, SettledIsRemembered
  <2>3. ActedOnce'
    <3> SUFFICES ASSUME NEW d \in DOMAIN frames, d # Depth, IsFlow(d), frames[d].stage = "acted"
                 PROVE  frames[d].copy.step + 1 \notin
                          settled'[frames[d].flow] \ forgotten'[frames[d].flow]
      BY <1>3, <1>5 DEF ActedOnce
    <3>1. frames[d].flow # Top.flow /\ frames[d].flow \in Flows
      BY <1>5, <1>8 DEF IInv, OneRun, IsFlow, Top, StackTyped, Frames, FlowFrames, BatchFrames,
                        ScanFrames
    <3> QED BY <3>1, <2>1 DEF IInv, ActedOnce, FilesTyped
  <2> QED BY <1>5, <1>6, <1>7, <2>2, <2>3 DEF IInv, FilesTyped
<1>9. CASE Top.kind # "flow"
  <2>1. UNCHANGED <<remembered, settled, forgotten>>
    BY <1>9 DEF StepWorks
  <2> QED BY <2>1, <1>3, <1>5, <1>6, <1>7, KeysStay DEF IInv, FilesTyped
<1> QED BY <1>8, <1>9

LEMMA RestoreOk == IInv /\ Restore => IInv'
<1> SUFFICES ASSUME IInv, Restore PROVE IInv'
  OBVIOUS
<1> DEFINE c == IF Top.kind = "flow" THEN [Top.copy EXCEPT !.step = 0, !.run = FALSE]
                ELSE Top.copy
           f == [Top EXCEPT !.stage = Finishing,
                            !.copy = IF Top.kind = "flow" THEN [@ EXCEPT !.step = 0, !.run = FALSE]
                                     ELSE @]
<1>1. frames # <<>> /\ Top.kind # "scan" /\ Top.stage = "ending" /\ Top.failed
      /\ UNCHANGED <<recovering, checkpoints, file, remembered, settled, forgotten, cut>>
  BY DEF Restore, InRun, MustRestore
<1>2. Become(f)
  BY DEF Restore
<1>3. c \in (IF Top.kind = "flow" THEN Copies ELSE BatchCopies)
      /\ (Top.kind = "flow" => c.status = "running")
  <2>1. CASE Top.kind = "flow"
    <3>1. Top.copy \in Copies /\ Top.copy.status = "running"
      BY <1>1, <2>1, OfTop DEF FlowFrames
    <3>2. [Top.copy EXCEPT !.step = 0, !.run = FALSE] \in Copies
      <4>1. 0 \in 0..Steps
        BY AutomationAssumption
      <4> QED BY <4>1, <3>1 DEF Copies
    <3>3. [Top.copy EXCEPT !.step = 0, !.run = FALSE].status = "running"
      BY <3>1 DEF Copies
    <3> QED BY <3>2, <3>3, <2>1
  <2>2. CASE Top.kind # "flow"
    BY <1>1, <2>2, OfTop DEF BatchFrames
  <2> QED BY <2>1, <2>2
<1>10. f = [Top EXCEPT !.stage = Finishing, !.copy = c]
  OBVIOUS
<1> HIDE DEF c, f
<1>4. Goes(f) /\ f.stage = Finishing /\ f.kind = Top.kind
      /\ (f.kind = "flow" => f.copy.status = "running")
  BY <1>1, <1>2, <1>3, <1>10, OfTop
     DEF Goes, Finishing, Frames, FlowFrames, BatchFrames, Stages
<1>5. Writes(f) /\ f.stage # "acted" /\ f.stage \in {"finishing", "closing"}
  BY <1>1, <1>4 DEF Writes, Finishing
<1> HIDE DEF f
<1>6. PICK i \in DOMAIN checkpoints :
        checkpoints[i].owner = Depth /\ project' = checkpoints[i].has
  BY DEF Restore, Own
<1>7. CheckpointsTyped' /\ Untouched' /\ TakenBefore' /\ FailedIsUndone'
  <2>1. project' \subseteq 1..Depth /\ Depth \notin project'
    BY <1>6 DEF IInv, CheckpointsTyped, TakenBefore
  <2> QED BY <2>1, <1>1, <1>4, <1>5, <1>6, ProjectBecomes
<1>8. StackTyped' /\ Suspended' /\ OneRun'
  BY <1>4, StackGoesOn
<1>9. RunIsMarked' /\ MarkedRuns' /\ FilesTyped' /\ SettledIsRemembered' /\ ActedOnce'
  BY <1>1, <1>4, <1>5, FilesStay, KeysStay DEF FilesTyped
<1> QED BY <1>7, <1>8, <1>9 DEF IInv

-----------------------------------------------------------------------------
(* Activities that begin.                                                   *)

\* The stack that something new is put upon: a scan has crossed out what it runs.
Under(u) ==
    /\ u \in Seq(Frames) /\ Len(u) = Depth
    /\ \A d \in 1..Depth :
        /\ u[d] = frames[d] \/ (u[d].kind = "scan" /\ frames[d].kind = "scan")
        /\ frames[d].stage \in {"inside", "acted", "scanning"}
        /\ u[d].stage \in {"inside", "acted", "scanning"}

LEMMA OpenUnder == ASSUME IInv, Open PROVE Under(frames)
<1>1. \A d \in DOMAIN frames : d < Depth => frames[d].stage \in {"inside", "acted", "scanning"}
  BY DEF IInv, Suspended
<1>2. frames # <<>> => frames[Depth].stage \in {"inside", "acted"}
  BY DEF Open, Top
<1> QED BY <1>1, <1>2 DEF IInv, StackTyped, Under, Depth

LEMMA ScannedUnder ==
    ASSUME IInv, At("scan", "scanning"), NEW w \in Top.rest
    PROVE  /\ Under(Scanned(w)) /\ Top \in ScanFrames /\ Depth \in DOMAIN frames
           /\ Scanned(w)[Depth].kind = "scan"
           /\ \A d \in DOMAIN frames : d # Depth => Scanned(w)[d] = frames[d]
           /\ DOMAIN Scanned(w) = DOMAIN frames
<1>1. frames # <<>> /\ Top.kind = "scan" /\ Top.stage = "scanning"
  BY DEF At
<1>2. Depth \in DOMAIN frames /\ DOMAIN frames = 1..Depth /\ Depth \in Nat \ {0} /\ Top \in Frames
      /\ frames \in Seq(Frames) /\ Len(frames) = Depth
  BY <1>1, TopOfStack DEF IInv, StackTyped, Depth
<1>3. Top \in ScanFrames
  BY <1>1, <1>2 DEF Frames, FlowFrames, BatchFrames
<1> DEFINE g == [Top EXCEPT !.rest = @ \ {w}]
<1>4. g \in ScanFrames
  BY <1>3 DEF ScanFrames
<1>5. Scanned(w) = [frames EXCEPT ![Depth] = g]
  BY <1>2 DEF Scanned, Top
<1> HIDE DEF g
<1>6. g \in Frames /\ g.kind = "scan" /\ g.stage = "scanning"
  BY <1>4 DEF Frames, ScanFrames
<1>7. /\ Scanned(w) \in Seq(Frames) /\ Len(Scanned(w)) = Depth /\ Scanned(w)[Depth] = g
      /\ \A d \in DOMAIN frames : d # Depth => Scanned(w)[d] = frames[d]
      /\ DOMAIN Scanned(w) = DOMAIN frames
  BY <1>2, <1>5, <1>6
<1>8. \A d \in 1..Depth : d # Depth => frames[d].stage \in {"inside", "acted", "scanning"}
  BY <1>2 DEF IInv, Suspended
<1> QED BY <1>1, <1>2, <1>3, <1>6, <1>7, <1>8 DEF Under, Top

LEMMA Pushes ==
    ASSUME IInv, NEW u, Under(u), NEW g \in Frames, frames' = Append(u, g), Depth < MaxDepth,
           g.stage \notin {"inside", "acted"}, g.kind # "scan" => ~g.failed,
           UNCHANGED <<project, checkpoints>>
    PROVE  /\ StackTyped' /\ CheckpointsTyped' /\ Suspended' /\ Untouched' /\ TakenBefore'
           /\ FailedIsUndone' /\ DOMAIN frames' = 1..(Depth + 1) /\ frames'[Depth + 1] = g
           /\ DOMAIN frames = 1..Depth /\ Depth \in Nat
           /\ \A d \in 1..Depth : IsFlow(d)' <=> IsFlow(d)
           /\ \A d \in 1..Depth : IsFlow(d) => frames'[d] = frames[d]
<1>1. Depth \in Nat /\ DOMAIN frames = 1..Depth /\ MaxDepth \in Nat
  BY AutomationAssumption DEF IInv, StackTyped, Depth
<1>2. /\ frames' \in Seq(Frames) /\ Depth' = Depth + 1 /\ DOMAIN frames' = 1..(Depth + 1)
      /\ frames'[Depth + 1] = g /\ \A d \in 1..Depth : frames'[d] = u[d]
  BY <1>1, Pushed DEF Under
<1>3. \A d \in 1..(Depth + 1) : d \in 1..Depth \/ d = Depth + 1
  BY <1>1
<1>4. \A d \in 1..Depth : frames'[d] = frames[d] \/ (frames'[d].kind = "scan" /\ frames[d].kind = "scan")
  BY <1>2 DEF Under
<1>5. StackTyped'
  <2> SUFFICES ASSUME NEW d \in 1..(Depth + 1)
               PROVE  /\ frames'[d].kind = "flow" /\ frames'[d].stage \in {"inside", "acted"} =>
                           frames'[d].copy.step < Steps
                      /\ frames'[d].kind = "batch" /\ frames'[d].stage \in {"inside", "acted"} =>
                           frames'[d].copy.step < Calls
    BY <1>1, <1>2 DEF StackTyped
  <2>1. CASE d \in 1..Depth
    BY <2>1, <1>1, <1>4 DEF IInv, StackTyped
  <2>2. CASE d = Depth + 1
    BY <2>2, <1>2
  <2> QED BY <2>1, <2>2, <1>3
<1>6. CheckpointsTyped' /\ TakenBefore'
  BY <1>1, <1>2 DEF IInv, CheckpointsTyped, TakenBefore
<1>7. Suspended'
  BY <1>1, <1>2 DEF Suspended, Under
<1>8. Untouched'
  <2> SUFFICES ASSUME NEW d \in 1..(Depth + 1),
                      frames'[d].kind = "scan" \/ frames'[d].stage = "checkpoint"
               PROVE  Fresh(d)
    BY <1>2 DEF Untouched, Fresh
  <2>1. CASE d \in 1..Depth
    BY <2>1, <1>1, <1>4 DEF IInv, Untouched
  <2>2. CASE d = Depth + 1
    BY <2>2, <1>1 DEF IInv, CheckpointsTyped, Fresh
  <2> QED BY <2>1, <2>2, <1>3
<1>9. FailedIsUndone'
  <2> SUFFICES ASSUME NEW d \in 1..(Depth + 1), frames'[d].kind # "scan", frames'[d].atomic,
                      frames'[d].failed
               PROVE  FALSE
    BY <1>2 DEF FailedIsUndone
  <2>1. d \in 1..Depth /\ frames'[d] = frames[d]
    BY <1>2, <1>3, <1>4
  <2> QED BY <2>1, <1>1 DEF IInv, FailedIsUndone, Under
<1>10. \A d \in 1..Depth : IsFlow(d)' <=> IsFlow(d)
  BY <1>1, <1>2, <1>4 DEF IsFlow
<1>11. \A d \in 1..Depth : IsFlow(d) => frames'[d] = frames[d]
  BY <1>4 DEF IsFlow
<1> QED BY <1>1, <1>2, <1>5, <1>6, <1>7, <1>8, <1>9, <1>10, <1>11

\* A batch or a scan begins.
LEMMA OtherBegins ==
    ASSUME IInv, Open, Depth < MaxDepth, NEW g \in BatchFrames \cup ScanFrames, Push(g),
           g.stage \notin {"inside", "acted"}, g.kind = "batch" => ~g.failed,
           recovering' \in BOOLEAN,
           UNCHANGED <<project, checkpoints, file, remembered, settled, forgotten, cut>>
    PROVE  IInv'
<1>1. Under(frames) /\ g \in Frames /\ g.kind \in {"batch", "scan"} /\ frames' = Append(frames, g)
  BY OpenUnder DEF Frames, BatchFrames, ScanFrames, Push
<1>2. /\ StackTyped' /\ CheckpointsTyped' /\ Suspended' /\ Untouched' /\ TakenBefore'
      /\ FailedIsUndone' /\ DOMAIN frames' = 1..(Depth + 1) /\ frames'[Depth + 1] = g
      /\ DOMAIN frames = 1..Depth /\ Depth \in Nat
      /\ \A d \in 1..Depth : IsFlow(d)' <=> IsFlow(d)
      /\ \A d \in 1..Depth : IsFlow(d) => frames'[d] = frames[d]
  BY <1>1, Pushes
<1>3. frames'[Depth + 1].kind # "flow"
  BY <1>1, <1>2
<1>4. \A d \in DOMAIN frames' : IsFlow(d)' =>
        d \in DOMAIN frames /\ IsFlow(d) /\ frames'[d] = frames[d]
  <2> SUFFICES ASSUME NEW d \in 1..(Depth + 1), IsFlow(d)' PROVE d \in 1..Depth
    BY <1>2
  <2>1. d # Depth + 1
    BY <1>3 DEF IsFlow
  <2> QED BY <2>1, <1>2
<1>5. \A d \in DOMAIN frames : IsFlow(d) =>
        d \in DOMAIN frames' /\ IsFlow(d)' /\ frames'[d] = frames[d]
  BY <1>2
<1>6. OneRun' /\ RunIsMarked' /\ ActedOnce'
  BY <1>4 DEF IInv, OneRun, RunIsMarked, ActedOnce
<1>7. MarkedRuns' /\ FilesTyped' /\ SettledIsRemembered'
  BY <1>5 DEF IInv, MarkedRuns, FilesTyped, SettledIsRemembered
<1> QED BY <1>2, <1>6, <1>7 DEF IInv

LEMMA BatchBeginsOk ==
    ASSUME IInv, NEW atomic \in BOOLEAN, NEW continues \in BOOLEAN, BatchBegins(atomic, continues)
    PROVE  IInv'
<1> DEFINE g == [kind |-> "batch", atomic |-> atomic,
                 copy |-> [step |-> 0, continues |-> continues],
                 stage |-> IF atomic THEN "checkpoint" ELSE "next",
                 failed |-> FALSE, cause |-> "none"]
<1>1. g \in BatchFrames /\ g.stage \notin {"inside", "acted"} /\ ~g.failed
  BY AutomationAssumption DEF BatchFrames, BatchCopies, Stages, Causes
<1>2. Open /\ Depth < MaxDepth /\ Push(g) /\ recovering' \in BOOLEAN
      /\ UNCHANGED <<project, checkpoints, file, remembered, settled, forgotten, cut>>
  BY DEF BatchBegins, IInv, FilesTyped
<1> HIDE DEF g
<1> QED BY <1>1, <1>2, OtherBegins

LEMMA ScanOk ==
    ASSUME IInv, NEW resume \in BOOLEAN, NEW found \in SUBSET Flows, Scan(resume, found),
           recovering' \in BOOLEAN
    PROVE  IInv'
<1> DEFINE g == [kind |-> "scan", resume |-> resume, rest |-> found, stage |-> "scanning"]
<1>1. g \in ScanFrames /\ g.stage = "scanning" /\ g.kind = "scan"
  BY DEF ScanFrames
<1>2. Open /\ Depth < MaxDepth /\ Push(g)
      /\ UNCHANGED <<project, checkpoints, file, remembered, settled, forgotten, cut>>
  BY DEF Scan
<1> HIDE DEF g
<1> QED BY <1>1, <1>2, OtherBegins

LEMMA RunOk ==
    ASSUME IInv, NEW u, Under(u), NEW w \in Flows, NEW resume \in BOOLEAN, Run(w, resume, u),
           UNCHANGED recovering
    PROVE  IInv'
<1> DEFINE copy == [file[w] EXCEPT !.status = "running", !.run = TRUE,
                                   !.step = StartIndex(w, resume)]
           g == [kind |-> "flow", flow |-> w, copy |-> copy, atomic |-> copy.atomic,
                 stage |-> IF copy.atomic THEN "checkpoint" ELSE "next",
                 failed |-> FALSE, cause |-> "none"]
<1>1. file[w] \in Copies /\ file[w].status # "running" /\ file[w] # Absent
  BY DEF Run, Runnable, IInv, FilesTyped
<1>2. copy \in Copies /\ copy.status = "running"
  <2>1. StartIndex(w, resume) \in 0..Steps
    BY <1>1, AutomationAssumption DEF StartIndex, Copies
  <2> QED BY <2>1, <1>1 DEF Copies
<1>3. g \in FlowFrames /\ g.kind = "flow" /\ g.flow = w /\ g.copy = copy /\ ~g.failed
      /\ g.stage \notin {"inside", "acted", "closing"}
  <2> HIDE DEF copy
  <2>1. copy.atomic \in BOOLEAN
    BY <1>2 DEF Copies
  <2> QED BY <2>1, <1>2 DEF FlowFrames, Stages, Causes
<1>4. frames' = Append(u, g) /\ file' = [file EXCEPT ![w] = copy] /\ Depth < MaxDepth
      /\ UNCHANGED <<project, checkpoints, cut>>
  BY DEF Run, Under
<1> HIDE DEF g, copy
<1>5. g \in Frames
  BY <1>3 DEF Frames
<1>6. /\ StackTyped' /\ CheckpointsTyped' /\ Suspended' /\ Untouched' /\ TakenBefore'
      /\ FailedIsUndone' /\ DOMAIN frames' = 1..(Depth + 1) /\ frames'[Depth + 1] = g
      /\ DOMAIN frames = 1..Depth /\ Depth \in Nat
      /\ \A d \in 1..Depth : IsFlow(d)' <=> IsFlow(d)
      /\ \A d \in 1..Depth : IsFlow(d) => frames'[d] = frames[d]
  BY <1>3, <1>4, <1>5, Pushes
<1>7. \A d \in 1..Depth : IsFlow(d) => frames[d].flow # w /\ frames[d].flow \in Flows
  <2> SUFFICES ASSUME NEW d \in 1..Depth, IsFlow(d)
               PROVE  frames[d].flow # w /\ frames[d].flow \in Flows
    OBVIOUS
  <2>1. frames[d].stage # "closing"
    BY DEF Under
  <2>2. frames[d].flow # w
    BY <2>1, <1>1, <1>6 DEF IInv, RunIsMarked
  <2>3. frames[d] \in Frames /\ frames[d].kind = "flow"
    BY <1>6 DEF IsFlow, IInv, StackTyped
  <2> QED BY <2>2, <2>3 DEF Frames, FlowFrames, BatchFrames, ScanFrames
<1>8. \A d \in DOMAIN frames' : IsFlow(d)' =>
        \/ d = Depth + 1
        \/ d \in 1..Depth /\ IsFlow(d) /\ frames'[d] = frames[d]
  <2> SUFFICES ASSUME NEW d \in 1..(Depth + 1), d # Depth + 1 PROVE d \in 1..Depth
    BY <1>6
  <2> QED BY <1>6
<1>9. OneRun'
  BY <1>3, <1>6, <1>7, <1>8 DEF IInv, OneRun
<1>10. file' \in [Flows -> Copies \cup {Absent}] /\ file'[w].status = "running"
       /\ \A v \in Flows : v # w => file'[v] = file[v]
  BY <1>2, <1>4 DEF IInv, FilesTyped
<1>11. RunIsMarked'
  BY <1>2, <1>3, <1>6, <1>7, <1>8, <1>10 DEF IInv, RunIsMarked
<1>12. MarkedRuns'
  <2> SUFFICES ASSUME NEW v \in Flows, file'[v].status = "running", v \notin cut
               PROVE  \E d \in DOMAIN frames' : IsFlow(d)' /\ frames'[d].flow = v
    BY <1>4 DEF MarkedRuns
  <2>1. CASE v = w
    <3>1. PICK d \in 1..(Depth + 1) : d = Depth + 1
      BY <1>6
    <3>2. d \in DOMAIN frames' /\ frames'[d] = g
      BY <3>1, <1>6
    <3> QED BY <3>2, <2>1, <1>3 DEF IsFlow
  <2>2. CASE v # w
    <3>1. PICK d \in 1..Depth : IsFlow(d) /\ frames[d].flow = v
      BY <2>2, <1>6, <1>10 DEF IInv, MarkedRuns
    <3> QED BY <3>1, <1>6
  <2> QED BY <2>1, <2>2
<1>13. /\ remembered' \in [Flows -> SUBSET (1..Steps)] /\ settled' \in [Flows -> SUBSET (1..Steps)]
       /\ forgotten' \in [Flows -> SUBSET (1..Steps)] /\ SettledIsRemembered'
       /\ \A v \in Flows : v # w =>
            settled'[v] = settled[v] /\ forgotten'[v] = forgotten[v]
  <2>1. CASE resume /\ file[w].run
    <3>1. UNCHANGED <<remembered, settled, forgotten>>
      BY <2>1 DEF Run, RunIdKept
    <3> QED BY <3>1 DEF IInv, FilesTyped, SettledIsRemembered
  <2>2. CASE ~(resume /\ file[w].run)
    <3>1. /\ remembered' = [remembered EXCEPT ![w] = {}]
          /\ settled' = [settled EXCEPT ![w] = {}]
          /\ forgotten' = [forgotten EXCEPT ![w] = {}]
      BY <2>2 DEF Run, NewRun
    <3> QED BY <3>1 DEF IInv, FilesTyped, SettledIsRemembered
  <2> QED BY <2>1, <2>2
<1>14. ActedOnce'
  BY <1>3, <1>6, <1>7, <1>8, <1>13 DEF IInv, ActedOnce
<1>15. FilesTyped'
  BY <1>4, <1>10, <1>13 DEF IInv, FilesTyped
<1> QED BY <1>6, <1>9, <1>11, <1>12, <1>13, <1>14, <1>15 DEF IInv

LEMMA ScanRunsOk == IInv /\ ScanRuns => IInv'
<1> SUFFICES ASSUME IInv, ScanRuns PROVE IInv'
  OBVIOUS
<1>1. PICK w \in Top.rest : Run(w, Top.resume, Scanned(w))
  BY DEF ScanRuns
<1>2. At("scan", "scanning") /\ UNCHANGED recovering
  BY DEF ScanRuns
<1>3. Under(Scanned(w)) /\ Top.resume \in BOOLEAN /\ w \in Flows
  BY <1>2, ScannedUnder DEF ScanFrames
<1> QED BY <1>1, <1>2, <1>3, RunOk

-----------------------------------------------------------------------------
(* Activities that end.                                                     *)

LEMMA Pops ==
    ASSUME IInv, frames # <<>>, frames' = Front(frames)
    PROVE  /\ StackTyped' /\ Suspended' /\ OneRun' /\ Depth' = Depth - 1
           /\ Depth \in DOMAIN frames /\ Depth \in Nat \ {0} /\ DOMAIN frames' = 1..(Depth - 1)
           /\ DOMAIN frames = 1..Depth
           /\ \A d \in DOMAIN frames' : d \in DOMAIN frames /\ d < Depth /\ frames'[d] = frames[d]
           /\ \A d \in DOMAIN frames' : IsFlow(d)' <=> IsFlow(d)
<1>1. /\ Depth \in DOMAIN frames /\ Depth \in Nat \ {0} /\ DOMAIN frames = 1..Depth
  BY TopOfStack DEF IInv
<1>2. /\ frames' \in Seq(Frames) /\ Depth' = Depth - 1 /\ DOMAIN frames' = 1..(Depth - 1)
      /\ \A d \in 1..(Depth - 1) : frames'[d] = frames[d]
  BY Popped DEF IInv, Depth
<1>3. \A d \in DOMAIN frames' : d \in DOMAIN frames /\ d < Depth /\ frames'[d] = frames[d]
  BY <1>1, <1>2
<1>4. \A d \in DOMAIN frames' : IsFlow(d)' <=> IsFlow(d)
  BY <1>3 DEF IsFlow
<1>5. StackTyped'
  <2>1. Depth - 1 <= MaxDepth
    BY <1>1, AutomationAssumption DEF IInv, StackTyped
  <2> QED BY <2>1, <1>2, <1>3 DEF IInv, StackTyped
<1>6. Suspended'
  BY <1>3 DEF IInv, Suspended
<1>7. OneRun'
  BY <1>3, <1>4 DEF IInv, OneRun
<1> QED BY <1>1, <1>2, <1>3, <1>4, <1>5, <1>6, <1>7

\* What is left of the checkpoints: each was there, of the same owner, with no more in it.
Forgets ==
    /\ checkpoints' \in Seq(Checkpoints) /\ Len(checkpoints') <= MaxCheckpoints
    /\ \E from \in [DOMAIN checkpoints' -> DOMAIN checkpoints] :
        /\ \A i, j \in DOMAIN checkpoints' : from[i] = from[j] => i = j
        /\ \A i \in DOMAIN checkpoints' :
            /\ checkpoints'[i].owner = checkpoints[from[i]].owner
            /\ checkpoints'[i].has \subseteq checkpoints[from[i]].has

LEMMA ForgetsNone == ASSUME IInv, UNCHANGED checkpoints PROVE Forgets
<1> DEFINE from == [i \in DOMAIN checkpoints |-> i]
<1>1. from \in [DOMAIN checkpoints' -> DOMAIN checkpoints]
  OBVIOUS
<1>2. \A i \in DOMAIN checkpoints' : from[i] = i
  OBVIOUS
<1> HIDE DEF from
<1>3. \A i, j \in DOMAIN checkpoints' : from[i] = from[j] => i = j
  BY <1>2
<1>4. \A i \in DOMAIN checkpoints' :
        /\ checkpoints'[i].owner = checkpoints[from[i]].owner
        /\ checkpoints'[i].has \subseteq checkpoints[from[i]].has
  BY <1>2
<1> QED BY <1>1, <1>3, <1>4 DEF Forgets, IInv, CheckpointsTyped

\* Nothing is left of the one on top when it had changed nothing, or all of it
\* is taken out of the project and of the checkpoints.
LEMMA PopsProject ==
    ASSUME IInv, frames # <<>>, frames' = Front(frames), Forgets, project' \subseteq project,
           Depth \notin project',
           \A i \in DOMAIN checkpoints' :
               checkpoints'[i].owner # Depth /\ Depth \notin checkpoints'[i].has
    PROVE  CheckpointsTyped' /\ Untouched' /\ TakenBefore' /\ FailedIsUndone'
<1>1. /\ Depth' = Depth - 1 /\ Depth \in Nat \ {0} /\ DOMAIN frames' = 1..(Depth - 1)
      /\ \A d \in DOMAIN frames' : d \in DOMAIN frames /\ d < Depth /\ frames'[d] = frames[d]
  BY Pops
<1>2. PICK from \in [DOMAIN checkpoints' -> DOMAIN checkpoints] :
        /\ \A i, j \in DOMAIN checkpoints' : from[i] = from[j] => i = j
        /\ \A i \in DOMAIN checkpoints' :
            /\ checkpoints'[i].owner = checkpoints[from[i]].owner
            /\ checkpoints'[i].has \subseteq checkpoints[from[i]].has
  BY DEF Forgets
<1>3. \A d \in 0..Depth : d # Depth => d \in 0..(Depth - 1)
  BY <1>1
<1>4. \A d \in 1..Depth : d # Depth => d \in 1..(Depth - 1)
  BY <1>1
<1>5. CheckpointsTyped'
  <2>1. project' \subseteq 1..(Depth - 1)
    BY <1>4 DEF IInv, CheckpointsTyped
  <2>2. ASSUME NEW i \in DOMAIN checkpoints'
        PROVE  checkpoints'[i].owner \in 0..(Depth - 1) /\ checkpoints'[i].has \subseteq 1..(Depth - 1)
    <3>1. checkpoints'[i].owner \in 0..Depth /\ checkpoints'[i].has \subseteq 1..Depth
      BY <1>2 DEF IInv, CheckpointsTyped
    <3> QED BY <3>1, <1>3, <1>4
  <2> QED BY <2>1, <2>2, <1>1 DEF CheckpointsTyped, Forgets
<1>6. Untouched'
  BY <1>1, <1>2 DEF IInv, Untouched, Fresh
<1>7. TakenBefore'
  <2>1. \A i \in DOMAIN checkpoints' : checkpoints'[i].owner \notin checkpoints'[i].has
    BY <1>2 DEF IInv, TakenBefore
  <2>2. \A i, j \in DOMAIN checkpoints' :
          checkpoints'[i].owner = checkpoints'[j].owner /\ checkpoints'[i].owner # Nobody => i = j
    BY <1>2 DEF IInv, TakenBefore
  <2> QED BY <2>1, <2>2 DEF TakenBefore
<1>8. FailedIsUndone'
  BY <1>1 DEF IInv, FailedIsUndone
<1> QED BY <1>5, <1>6, <1>7, <1>8

\* A workflow whose file still says that it runs is remembered as cut off.
LEMMA PopsFiles ==
    ASSUME IInv, frames # <<>>, frames' = Front(frames),
           UNCHANGED <<recovering, file, remembered, settled, forgotten>>,
           cut' = cut \/ (IsFlow(Depth) /\ cut' = cut \cup {Top.flow}),
           IsFlow(Depth) /\ Top.flow \notin cut' => file[Top.flow].status # "running"
    PROVE  FilesTyped' /\ RunIsMarked' /\ MarkedRuns' /\ SettledIsRemembered' /\ ActedOnce'
<1>1. /\ Depth \in DOMAIN frames /\ DOMAIN frames' = 1..(Depth - 1) /\ DOMAIN frames = 1..Depth
      /\ \A d \in DOMAIN frames' : d \in DOMAIN frames /\ d < Depth /\ frames'[d] = frames[d]
      /\ \A d \in DOMAIN frames' : IsFlow(d)' <=> IsFlow(d)
      /\ Depth \in Nat \ {0}
  BY Pops
<1>2. FilesTyped'
  <2>1. IsFlow(Depth) => Top.flow \in Flows
    BY <1>1 DEF IInv, StackTyped, IsFlow, Top, Frames, FlowFrames, BatchFrames, ScanFrames
  <2> QED BY <2>1 DEF IInv, FilesTyped
<1>3. RunIsMarked' /\ SettledIsRemembered' /\ ActedOnce'
  BY <1>1 DEF IInv, RunIsMarked, SettledIsRemembered, ActedOnce
<1>4. MarkedRuns'
  <2> SUFFICES ASSUME NEW w \in Flows, file[w].status = "running", w \notin cut'
               PROVE  \E d \in DOMAIN frames' : IsFlow(d)' /\ frames'[d].flow = w
    BY DEF MarkedRuns
  <2>1. PICK d \in DOMAIN frames : IsFlow(d) /\ frames[d].flow = w
    BY DEF IInv, MarkedRuns
  <2>2. d # Depth
    BY <2>1 DEF Top
  <2>3. d \in DOMAIN frames'
    BY <2>1, <2>2, <1>1
  <2> QED BY <2>1, <2>3, <1>1
<1> QED BY <1>2, <1>3, <1>4

LEMMA NoCheckpointOk == IInv /\ NoCheckpoint => IInv'
<1> SUFFICES ASSUME IInv, NoCheckpoint PROVE IInv'
  OBVIOUS
<1>1. frames # <<>> /\ Top.kind \in {"batch", "flow"} /\ Top.stage = "checkpoint"
      /\ frames' = Front(frames)
      /\ cut' = (IF Top.kind = "flow" THEN cut \cup {Top.flow} ELSE cut)
      /\ UNCHANGED <<recovering, project, checkpoints, file, remembered, settled, forgotten>>
  BY DEF NoCheckpoint, InRun
<1>2. StackTyped' /\ Suspended' /\ OneRun' /\ Depth \in DOMAIN frames
  BY <1>1, Pops
<1>3. Fresh(Depth)
  BY <1>1, <1>2 DEF IInv, Untouched, Top
<1>4. CheckpointsTyped' /\ Untouched' /\ TakenBefore' /\ FailedIsUndone'
  BY <1>1, <1>3, ForgetsNone, PopsProject DEF Fresh
<1>5. FilesTyped' /\ RunIsMarked' /\ MarkedRuns' /\ SettledIsRemembered' /\ ActedOnce'
  <2>1. IsFlow(Depth) <=> Top.kind = "flow"
    BY <1>2 DEF IsFlow, Top
  <2> QED BY <2>1, <1>1, PopsFiles
<1> QED BY <1>2, <1>4, <1>5 DEF IInv

LEMMA ScanPassesOk == IInv /\ ScanPasses => IInv'
<1> SUFFICES ASSUME IInv, ScanPasses PROVE IInv'
  OBVIOUS
<1>1. At("scan", "scanning") /\ frames # <<>> /\ Top.kind = "scan"
      /\ UNCHANGED <<recovering, project, checkpoints, file, remembered, settled, forgotten, cut>>
  BY DEF ScanPasses, At
<1>2. ASSUME NEW w \in Top.rest, frames' = Scanned(w)
      PROVE  IInv'
  <2>1. /\ Under(frames') /\ Top \in ScanFrames /\ Depth \in DOMAIN frames
        /\ frames'[Depth].kind = "scan" /\ DOMAIN frames' = DOMAIN frames
        /\ \A d \in DOMAIN frames : d # Depth => frames'[d] = frames[d]
    BY <1>1, <1>2, ScannedUnder
  <2>2. Depth' = Depth /\ frames' \in Seq(Frames) /\ frames[Depth].kind = "scan"
        /\ DOMAIN frames = 1..Depth
    BY <2>1, <1>1 DEF Under, Depth, Top, IInv, StackTyped
  <2>3. \A d \in DOMAIN frames : frames'[d].kind # "scan" => frames'[d] = frames[d]
    BY <2>1
  <2>4. \A d \in DOMAIN frames : frames[d].kind # "scan" => frames'[d] = frames[d]
    BY <2>1, <2>2
  <2>5. \A d \in DOMAIN frames : IsFlow(d)' <=> IsFlow(d)
    BY <2>1, <2>3, <2>4 DEF IsFlow
  <2>6. \A d \in DOMAIN frames : IsFlow(d) => frames'[d] = frames[d]
    BY <2>4 DEF IsFlow
  <2>7. StackTyped' /\ Suspended'
    BY <2>1, <2>2, <2>3 DEF IInv, StackTyped, Suspended, Under
  <2>8. CheckpointsTyped' /\ TakenBefore'
    BY <1>1, <2>1, <2>2 DEF IInv, CheckpointsTyped, TakenBefore
  <2>9. Untouched'
    BY <1>1, <2>1, <2>2 DEF IInv, Untouched, Fresh
  <2>10. FailedIsUndone'
    BY <1>1, <2>1, <2>3 DEF IInv, FailedIsUndone
  <2>11. OneRun' /\ RunIsMarked' /\ ActedOnce'
    BY <1>1, <2>1, <2>5, <2>6 DEF IInv, OneRun, RunIsMarked, ActedOnce
  <2>12. MarkedRuns' /\ FilesTyped' /\ SettledIsRemembered'
    BY <1>1, <2>1, <2>5, <2>6 DEF IInv, MarkedRuns, FilesTyped, SettledIsRemembered
  <2> QED BY <2>7, <2>8, <2>9, <2>10, <2>11, <2>12 DEF IInv
<1>3. ASSUME frames' = Front(frames)
      PROVE  IInv'
  <2>1. StackTyped' /\ Suspended' /\ OneRun' /\ Depth \in DOMAIN frames
    BY <1>1, <1>3, Pops
  <2>2. Fresh(Depth)
    BY <1>1, <2>1 DEF IInv, Untouched, Top
  <2>3. CheckpointsTyped' /\ Untouched' /\ TakenBefore' /\ FailedIsUndone'
    BY <1>1, <1>3, <2>2, ForgetsNone, PopsProject DEF Fresh
  <2>4. ~IsFlow(Depth)
    BY <1>1 DEF IsFlow, Top
  <2>5. FilesTyped' /\ RunIsMarked' /\ MarkedRuns' /\ SettledIsRemembered' /\ ActedOnce'
    BY <1>1, <1>3, <2>4, PopsFiles
  <2> QED BY <2>1, <2>3, <2>5 DEF IInv
<1> QED BY <1>2, <1>3 DEF ScanPasses

\* RemoveAt of SequencesExt.
LEMMA Removed ==
    ASSUME NEW S, NEW s \in Seq(S), NEW i \in DOMAIN s
    PROVE  /\ RemoveAt(s, i) \in Seq(S) /\ Len(RemoveAt(s, i)) = Len(s) - 1
           /\ \A k \in 1..(Len(s) - 1) : RemoveAt(s, i)[k] = s[IF k < i THEN k ELSE k + 1]
<1> DEFINE before == SubSeq(s, 1, i - 1)
           after == SubSeq(s, i + 1, Len(s))
<1>1. i \in 1..Len(s) /\ Len(s) \in Nat /\ i \in Nat /\ \A k \in 1..Len(s) : s[k] \in S
  OBVIOUS
<1>2. /\ before \in Seq(S) /\ Len(before) = i - 1 /\ \A k \in 1..(i - 1) : before[k] = s[k]
  <2>1. \A k \in 1..(i - 1) : s[k] \in S
    BY <1>1
  <2> QED BY <2>1, <1>1, SubSeqProperties
<1>3. /\ after \in Seq(S) /\ Len(after) = Len(s) - i
      /\ \A k \in 1..(Len(s) - i) : after[k] = s[i + k]
  <2>1. \A k \in (i + 1)..Len(s) : s[k] \in S
    BY <1>1
  <2>2. /\ after \in Seq(S)
        /\ Len(after) = IF i + 1 <= Len(s) THEN Len(s) - (i + 1) + 1 ELSE 0
        /\ \A k \in 1..(Len(s) - (i + 1) + 1) : after[k] = s[i + 1 + k - 1]
    BY <2>1, <1>1, SubSeqProperties
  <2> QED BY <2>2, <1>1
<1>4. RemoveAt(s, i) = before \o after
  BY DEF RemoveAt
<1> HIDE DEF before, after
<1>5. before \o after \in Seq(S) /\ Len(before \o after) = Len(s) - 1
  BY <1>1, <1>2, <1>3
<1>6. ASSUME NEW k \in 1..(Len(s) - 1)
      PROVE  (before \o after)[k] = s[IF k < i THEN k ELSE k + 1]
  <2>1. CASE k < i
    <3>1. (before \o after)[k] = before[k]
      BY <2>1, <1>1, <1>2, <1>3
    <3> QED BY <3>1, <2>1, <1>1, <1>2
  <2>2. CASE ~(k < i)
    <3>1. (before \o after)[k] = after[k - (i - 1)] /\ k - (i - 1) \in 1..(Len(s) - i)
      BY <2>2, <1>1, <1>2, <1>3
    <3>2. after[k - (i - 1)] = s[i + (k - (i - 1))]
      BY <3>1, <1>3
    <3> QED BY <3>1, <3>2, <2>2, <1>1
  <2> QED BY <2>1, <2>2
<1> QED BY <1>4, <1>5, <1>6

\* Where the ones that are kept were.
LEMMA RemovedFrom ==
    ASSUME IInv, NEW i \in DOMAIN checkpoints
    PROVE  /\ RemoveAt(checkpoints, i) \in Seq(Checkpoints)
           /\ Len(RemoveAt(checkpoints, i)) <= MaxCheckpoints
           /\ \E from \in [DOMAIN RemoveAt(checkpoints, i) -> DOMAIN checkpoints \ {i}] :
                /\ \A j, k \in DOMAIN RemoveAt(checkpoints, i) : from[j] = from[k] => j = k
                /\ \A j \in DOMAIN RemoveAt(checkpoints, i) :
                    RemoveAt(checkpoints, i)[j] = checkpoints[from[j]]
<1> DEFINE r == RemoveAt(checkpoints, i)
           from == [j \in DOMAIN r |-> IF j < i THEN j ELSE j + 1]
<1>1. checkpoints \in Seq(Checkpoints) /\ Len(checkpoints) <= MaxCheckpoints
      /\ i \in 1..Len(checkpoints) /\ DOMAIN checkpoints = 1..Len(checkpoints)
      /\ Len(checkpoints) \in Nat /\ MaxCheckpoints \in Nat
  BY AutomationAssumption DEF IInv, CheckpointsTyped
<1>2. r \in Seq(Checkpoints) /\ Len(r) = Len(checkpoints) - 1
      /\ \A k \in 1..(Len(checkpoints) - 1) : r[k] = checkpoints[IF k < i THEN k ELSE k + 1]
  BY <1>1, Removed
<1> HIDE DEF r
<1>3. DOMAIN r = 1..(Len(checkpoints) - 1)
  BY <1>1, <1>2
<1>4. /\ from \in [DOMAIN r -> DOMAIN checkpoints \ {i}]
      /\ \A j, k \in DOMAIN r : from[j] = from[k] => j = k
      /\ \A j \in DOMAIN r : from[j] = (IF j < i THEN j ELSE j + 1)
  BY <1>1, <1>3
<1>5. \A j \in DOMAIN r : r[j] = checkpoints[from[j]]
  BY <1>2, <1>3, <1>4
<1> HIDE DEF from
<1>6. \E g \in [DOMAIN r -> DOMAIN checkpoints \ {i}] :
        /\ \A j, k \in DOMAIN r : g[j] = g[k] => j = k
        /\ \A j \in DOMAIN r : r[j] = checkpoints[g[j]]
  BY <1>4, <1>5
<1> QED BY <1>1, <1>2, <1>6 DEF r

LEMMA CloseOk == IInv /\ Close => IInv'
<1> SUFFICES ASSUME IInv, Close PROVE IInv'
  OBVIOUS
<1>1. frames # <<>> /\ Top.kind \in {"batch", "flow"} /\ Top.stage = "closing"
      /\ frames' = Front(frames) /\ project' = project \ {Depth}
      /\ cut' = (IF Top.kind = "flow" /\ Top.cause # "none" THEN cut \cup {Top.flow} ELSE cut)
      /\ checkpoints' = [i \in DOMAIN Deleted |-> [Deleted[i] EXCEPT !.has = @ \ {Depth}]]
      /\ UNCHANGED <<recovering, file, remembered, settled, forgotten>>
  BY DEF Close, InRun
<1>2. StackTyped' /\ Suspended' /\ OneRun' /\ Depth \in DOMAIN frames /\ Depth \in Nat \ {0}
  BY <1>1, Pops
<1>3. /\ Deleted \in Seq(Checkpoints) /\ Len(Deleted) <= MaxCheckpoints
      /\ \E from \in [DOMAIN Deleted -> DOMAIN checkpoints] :
           /\ \A i, j \in DOMAIN Deleted : from[i] = from[j] => i = j
           /\ \A i \in DOMAIN Deleted :
                Deleted[i] = checkpoints[from[i]] /\ checkpoints[from[i]].owner # Depth
  <2>1. CASE Own = {}
    <3>1. Deleted = checkpoints /\ \A i \in DOMAIN checkpoints : checkpoints[i].owner # Depth
      BY <2>1 DEF Deleted, Own
    <3> DEFINE from == [i \in DOMAIN checkpoints |-> i]
    <3>2. from \in [DOMAIN checkpoints -> DOMAIN checkpoints]
          /\ \A i \in DOMAIN checkpoints : from[i] = i
      OBVIOUS
    <3> HIDE DEF from
    <3>3. /\ \A i, j \in DOMAIN Deleted : from[i] = from[j] => i = j
          /\ \A i \in DOMAIN Deleted :
               Deleted[i] = checkpoints[from[i]] /\ checkpoints[from[i]].owner # Depth
      BY <3>1, <3>2
    <3> QED BY <3>1, <3>2, <3>3 DEF IInv, CheckpointsTyped
  <2>2. CASE Own # {}
    <3>1. PICK k \in DOMAIN checkpoints :
            checkpoints[k].owner = Depth /\ Deleted = RemoveAt(checkpoints, k)
      BY <2>2 DEF Deleted, Own
    <3>2. PICK from \in [DOMAIN Deleted -> DOMAIN checkpoints \ {k}] :
            /\ \A i, j \in DOMAIN Deleted : from[i] = from[j] => i = j
            /\ \A i \in DOMAIN Deleted : Deleted[i] = checkpoints[from[i]]
      BY <3>1, RemovedFrom
    <3>3. \A i \in DOMAIN Deleted : from[i] \in DOMAIN checkpoints /\ from[i] # k
      BY <3>2
    <3>4. \A i \in DOMAIN Deleted : checkpoints[from[i]].owner # Depth
      BY <3>1, <3>3, <1>2 DEF IInv, TakenBefore, Nobody
    <3>5. from \in [DOMAIN Deleted -> DOMAIN checkpoints]
      BY <3>2
    <3>6. Deleted \in Seq(Checkpoints) /\ Len(Deleted) <= MaxCheckpoints
      BY <3>1, RemovedFrom
    <3> QED BY <3>2, <3>4, <3>5, <3>6
  <2> QED BY <2>1, <2>2
<1>4. PICK from \in [DOMAIN Deleted -> DOMAIN checkpoints] :
        /\ \A i, j \in DOMAIN Deleted : from[i] = from[j] => i = j
        /\ \A i \in DOMAIN Deleted :
             Deleted[i] = checkpoints[from[i]] /\ checkpoints[from[i]].owner # Depth
  BY <1>3
<1>5. /\ checkpoints' \in Seq(Checkpoints) /\ Len(checkpoints') <= MaxCheckpoints
      /\ DOMAIN checkpoints' = DOMAIN Deleted
      /\ \A i \in DOMAIN Deleted :
           checkpoints'[i].owner = Deleted[i].owner /\ checkpoints'[i].has = Deleted[i].has \ {Depth}
  <2>1. \A i \in DOMAIN Deleted : Deleted[i] \in Checkpoints
    BY <1>3
  <2>2. \A i \in DOMAIN Deleted :
          /\ [Deleted[i] EXCEPT !.has = @ \ {Depth}] \in Checkpoints
          /\ [Deleted[i] EXCEPT !.has = @ \ {Depth}].owner = Deleted[i].owner
          /\ [Deleted[i] EXCEPT !.has = @ \ {Depth}].has = Deleted[i].has \ {Depth}
    BY <2>1 DEF Checkpoints
  <2>3. DOMAIN Deleted = 1..Len(Deleted) /\ Len(Deleted) \in Nat
    BY <1>3
  <2>4. checkpoints' \in Seq(Checkpoints) /\ Len(checkpoints') = Len(Deleted)
    <3>1. checkpoints' \in [1..Len(Deleted) -> Checkpoints]
      BY <1>1, <2>2, <2>3
    <3> QED BY <3>1, <2>3
  <2> QED BY <1>1, <1>3, <2>2, <2>4
<1>6. Forgets
  BY <1>4, <1>5 DEF Forgets
<1>7. CheckpointsTyped' /\ Untouched' /\ TakenBefore' /\ FailedIsUndone'
  <2>1. \A i \in DOMAIN checkpoints' :
          checkpoints'[i].owner # Depth /\ Depth \notin checkpoints'[i].has
    BY <1>4, <1>5
  <2> QED BY <2>1, <1>1, <1>6, PopsProject
<1>8. FilesTyped' /\ RunIsMarked' /\ MarkedRuns' /\ SettledIsRemembered' /\ ActedOnce'
  <2>1. IsFlow(Depth) <=> Top.kind = "flow"
    BY <1>2 DEF IsFlow, Top
  <2>2. IsFlow(Depth) /\ Top.cause = "none" => file[Top.flow].status # "running"
    BY <1>1, <1>2 DEF IInv, RunIsMarked, Top
  <2>3. IsFlow(Depth) /\ Top.flow \notin cut' => file[Top.flow].status # "running"
    BY <2>1, <2>2, <1>1
  <2>4. cut' = cut \/ (IsFlow(Depth) /\ cut' = cut \cup {Top.flow})
    BY <2>1, <1>1
  <2> QED BY <2>3, <2>4, <1>1, PopsFiles
<1> QED BY <1>2, <1>7, <1>8 DEF IInv

-----------------------------------------------------------------------------
(* Other clients, and the end of QGIS.                                      *)

\* With the stack as it is, inside of steps only.
LEMMA OpenStays ==
    ASSUME IInv, Open, UNCHANGED frames, CheckpointsTyped', TakenBefore',
           \A d \in DOMAIN frames : Fresh(d) => Fresh(d)'
    PROVE  StackTyped' /\ Suspended' /\ Untouched' /\ FailedIsUndone' /\ OneRun'
<1>1. Under(frames) /\ DOMAIN frames = 1..Depth
  BY OpenUnder DEF IInv, StackTyped, Depth
<1>2. StackTyped' /\ Suspended' /\ OneRun'
  BY DEF IInv, StackTyped, Suspended, OneRun, IsFlow, Depth
<1>3. Untouched'
  BY DEF IInv, Untouched
<1>4. FailedIsUndone'
  BY <1>1 DEF IInv, FailedIsUndone, Under
<1> QED BY <1>2, <1>3, <1>4

LEMMA ClientCheckpointsOk == IInv /\ ClientCheckpoints => IInv'
<1> SUFFICES ASSUME IInv, ClientCheckpoints PROVE IInv'
  OBVIOUS
<1>1. Open /\ UNCHANGED <<recovering, file, remembered, frames, settled, forgotten, cut>>
  BY DEF ClientCheckpoints
<1>2. Depth' = Depth /\ Depth \in Nat
  BY <1>1 DEF Depth, IInv, StackTyped
<1>3. FilesTyped' /\ RunIsMarked' /\ MarkedRuns' /\ SettledIsRemembered' /\ ActedOnce'
  BY <1>1 DEF IInv, FilesTyped, RunIsMarked, MarkedRuns, SettledIsRemembered, ActedOnce, IsFlow
<1>4. CheckpointsTyped' /\ TakenBefore' /\ \A d \in DOMAIN frames : Fresh(d) => Fresh(d)'
  <2>1. CASE Create(Nobody) /\ UNCHANGED project
    <3>1. Nobody \in 0..Depth /\ Nobody \notin project /\ Nobody = 0
      BY <1>2 DEF Nobody, IInv, CheckpointsTyped
    <3>2. /\ checkpoints' \in Seq(Checkpoints) /\ Len(checkpoints') <= MaxCheckpoints
          /\ \A i \in DOMAIN checkpoints' :
               \/ checkpoints'[i] = [owner |-> Nobody, has |-> project]
               \/ \E j \in DOMAIN checkpoints : checkpoints'[i] = checkpoints[j]
          /\ TakenBefore'
      BY <2>1, <3>1, Checkpointed
    <3>3. ASSUME NEW i \in DOMAIN checkpoints'
          PROVE  checkpoints'[i].owner \in 0..Depth /\ checkpoints'[i].has \subseteq 1..Depth
      <4>1. CASE checkpoints'[i] = [owner |-> Nobody, has |-> project]
        BY <4>1, <3>1 DEF IInv, CheckpointsTyped
      <4>2. CASE \E j \in DOMAIN checkpoints : checkpoints'[i] = checkpoints[j]
        BY <4>2 DEF IInv, CheckpointsTyped
      <4> QED BY <4>1, <4>2, <3>2
    <3>4. CheckpointsTyped'
      BY <2>1, <1>2, <3>2, <3>3 DEF IInv, CheckpointsTyped
    <3>5. \A d \in DOMAIN frames : Fresh(d) => Fresh(d)'
      <4> SUFFICES ASSUME NEW d \in DOMAIN frames, Fresh(d), NEW i \in DOMAIN checkpoints'
                   PROVE  checkpoints'[i].owner # d /\ d \notin checkpoints'[i].has
        BY <2>1 DEF Fresh
      <4>1. d # Nobody
        BY <3>1 DEF IInv, StackTyped
      <4>2. CASE checkpoints'[i] = [owner |-> Nobody, has |-> project]
        BY <4>1, <4>2 DEF Fresh
      <4>3. CASE \E j \in DOMAIN checkpoints : checkpoints'[i] = checkpoints[j]
        BY <4>3 DEF Fresh
      <4> QED BY <4>2, <4>3, <3>2
    <3> QED BY <3>2, <3>4, <3>5
  <2>2. ASSUME NEW i \in DOMAIN checkpoints, project' = checkpoints[i].has, UNCHANGED checkpoints
        PROVE  CheckpointsTyped' /\ TakenBefore' /\ \A d \in DOMAIN frames : Fresh(d) => Fresh(d)'
    BY <2>2, <1>2 DEF IInv, CheckpointsTyped, TakenBefore, Fresh
  <2>3. ASSUME NEW i \in DOMAIN checkpoints, checkpoints' = RemoveAt(checkpoints, i),
               UNCHANGED project
        PROVE  CheckpointsTyped' /\ TakenBefore' /\ \A d \in DOMAIN frames : Fresh(d) => Fresh(d)'
    <3>1. /\ checkpoints' \in Seq(Checkpoints) /\ Len(checkpoints') <= MaxCheckpoints
          /\ \E from \in [DOMAIN checkpoints' -> DOMAIN checkpoints \ {i}] :
               /\ \A j, k \in DOMAIN checkpoints' : from[j] = from[k] => j = k
               /\ \A j \in DOMAIN checkpoints' : checkpoints'[j] = checkpoints[from[j]]
      BY <2>3, RemovedFrom
    <3>2. PICK from \in [DOMAIN checkpoints' -> DOMAIN checkpoints \ {i}] :
            /\ \A j, k \in DOMAIN checkpoints' : from[j] = from[k] => j = k
            /\ \A j \in DOMAIN checkpoints' : checkpoints'[j] = checkpoints[from[j]]
      BY <3>1
    <3>3. \A j \in DOMAIN checkpoints' : from[j] \in DOMAIN checkpoints
      BY <3>2
    <3>4. CheckpointsTyped'
      BY <2>3, <1>2, <3>1, <3>2, <3>3 DEF IInv, CheckpointsTyped
    <3>5. TakenBefore'
      BY <3>2, <3>3 DEF IInv, TakenBefore
    <3>6. \A d \in DOMAIN frames : Fresh(d) => Fresh(d)'
      BY <2>3, <3>2, <3>3 DEF Fresh
    <3> QED BY <3>4, <3>5, <3>6
  <2> QED BY <2>1, <2>2, <2>3 DEF ClientCheckpoints
<1> QED BY <1>1, <1>3, <1>4, OpenStays DEF IInv

LEMMA CreateWorkflowOk == ASSUME IInv, NEW w \in Flows, CreateWorkflow(w) PROVE IInv'
<1>1. PICK due \in BOOLEAN, atomic \in BOOLEAN, continues \in BOOLEAN :
        file' = [file EXCEPT ![w] =
            [status |-> "ready", step |-> 0, run |-> FALSE, due |-> due,
             atomic |-> atomic, continues |-> continues]]
  BY DEF CreateWorkflow
<1>2. Open /\ OnStack(w) = {} /\ cut' = cut \ {w}
      /\ remembered' = [remembered EXCEPT ![w] = {}] /\ settled' = [settled EXCEPT ![w] = {}]
      /\ forgotten' = [forgotten EXCEPT ![w] = {}]
      /\ UNCHANGED <<recovering, project, checkpoints, frames>>
  BY DEF CreateWorkflow, NewRun
<1>3. /\ file' \in [Flows -> Copies \cup {Absent}] /\ file'[w].status = "ready"
      /\ \A v \in Flows : v # w => file'[v] = file[v]
  <2>1. [status |-> "ready", step |-> 0, run |-> FALSE, due |-> due,
             atomic |-> atomic, continues |-> continues] \in Copies
    BY AutomationAssumption DEF Copies
  <2> QED BY <2>1, <1>1 DEF IInv, FilesTyped
<1>4. \A d \in DOMAIN frames : IsFlow(d) => frames[d].flow # w /\ frames[d].flow \in Flows
  <2> SUFFICES ASSUME NEW d \in DOMAIN frames, IsFlow(d)
               PROVE  frames[d].flow # w /\ frames[d].flow \in Flows
    OBVIOUS
  <2>1. frames[d].flow # w
    BY <1>2 DEF OnStack, IsFlow
  <2>2. frames[d] \in Frames /\ frames[d].kind = "flow"
    BY DEF IsFlow, IInv, StackTyped
  <2> QED BY <2>1, <2>2 DEF Frames, FlowFrames, BatchFrames, ScanFrames
<1>5. CheckpointsTyped' /\ TakenBefore' /\ \A d \in DOMAIN frames : Fresh(d) => Fresh(d)'
  BY <1>2 DEF IInv, CheckpointsTyped, TakenBefore, Fresh, Depth
<1>6. StackTyped' /\ Suspended' /\ Untouched' /\ FailedIsUndone' /\ OneRun'
  BY <1>2, <1>5, OpenStays
<1>7. FilesTyped' /\ SettledIsRemembered'
  BY <1>2, <1>3 DEF IInv, FilesTyped, SettledIsRemembered
<1>8. RunIsMarked' /\ ActedOnce'
  <2>1. \A v \in Flows : v # w => settled'[v] = settled[v] /\ forgotten'[v] = forgotten[v]
    BY <1>2 DEF IInv, FilesTyped
  <2> QED BY <2>1, <1>2, <1>3, <1>4 DEF IInv, RunIsMarked, ActedOnce, IsFlow
<1>9. MarkedRuns'
  BY <1>2, <1>3 DEF IInv, MarkedRuns, IsFlow
<1> QED BY <1>5, <1>6, <1>7, <1>8, <1>9 DEF IInv

LEMMA ChangeWorkflowOk == ASSUME IInv, NEW w \in Flows, ChangeWorkflow(w) PROVE IInv'
<1>1. PICK due \in BOOLEAN :
        file' \in {[file EXCEPT ![w].due = due], [file EXCEPT ![w] = Absent]}
  BY DEF ChangeWorkflow
<1>2. Open /\ file[w] # Absent
      /\ UNCHANGED <<recovering, project, checkpoints, remembered, frames, settled, forgotten, cut>>
  BY DEF ChangeWorkflow
<1>3. /\ file' \in [Flows -> Copies \cup {Absent}]
      /\ \A v \in Flows : file'[v] = Absent \/ file'[v].status = file[v].status
      /\ \A v \in Flows : file[v] = Absent => file'[v] = Absent
  <2>1. file[w] \in Copies
    BY <1>2 DEF IInv, FilesTyped
  <2>2. [file[w] EXCEPT !.due = due] \in Copies
        /\ [file[w] EXCEPT !.due = due].status = file[w].status
    BY <2>1 DEF Copies
  <2>3. [file EXCEPT ![w].due = due] = [file EXCEPT ![w] = [file[w] EXCEPT !.due = due]]
    OBVIOUS
  <2> QED BY <1>1, <1>2, <2>2, <2>3 DEF IInv, FilesTyped
<1>4. Absent.status # "running"
  BY DEF Absent
<1>5. \A d \in DOMAIN frames : IsFlow(d) => frames[d].flow \in Flows
  BY DEF IsFlow, IInv, StackTyped, Frames, FlowFrames, BatchFrames, ScanFrames
<1>6. CheckpointsTyped' /\ TakenBefore' /\ \A d \in DOMAIN frames : Fresh(d) => Fresh(d)'
  BY <1>2 DEF IInv, CheckpointsTyped, TakenBefore, Fresh, Depth
<1>7. StackTyped' /\ Suspended' /\ Untouched' /\ FailedIsUndone' /\ OneRun'
  BY <1>2, <1>6, OpenStays
<1>8. FilesTyped' /\ SettledIsRemembered' /\ ActedOnce'
  BY <1>2, <1>3 DEF IInv, FilesTyped, SettledIsRemembered, ActedOnce, IsFlow
<1>9. RunIsMarked'
  BY <1>2, <1>3, <1>4, <1>5 DEF IInv, RunIsMarked, IsFlow
<1>10. MarkedRuns'
  BY <1>2, <1>3, <1>4 DEF IInv, MarkedRuns, IsFlow
<1> QED BY <1>6, <1>7, <1>8, <1>9, <1>10 DEF IInv

\* The cache loses records, and the history tells which.
LEMMA RecordsLost ==
    ASSUME IInv, NEW lost \in [Flows -> SUBSET (1..Steps)], Forget(lost), UNCHANGED settled
    PROVE  /\ remembered' \in [Flows -> SUBSET (1..Steps)]
           /\ forgotten' \in [Flows -> SUBSET (1..Steps)] /\ SettledIsRemembered'
           /\ \A w \in Flows : forgotten[w] \subseteq forgotten'[w]
<1>1. \A w \in Flows : /\ remembered'[w] = remembered[w] \ lost[w]
                       /\ forgotten'[w] = forgotten[w] \cup lost[w]
  BY DEF Forget
<1>2. /\ remembered' \in [Flows -> SUBSET (1..Steps)]
      /\ forgotten' \in [Flows -> SUBSET (1..Steps)]
  BY DEF Forget, IInv, FilesTyped
<1>3. SettledIsRemembered'
  BY <1>1 DEF IInv, SettledIsRemembered
<1> QED BY <1>1, <1>2, <1>3

LEMMA KeysForgottenOk == IInv /\ KeysForgotten => IInv'
<1> SUFFICES ASSUME IInv, KeysForgotten PROVE IInv'
  OBVIOUS
<1>1. UNCHANGED <<recovering, project, checkpoints, file, frames, settled, cut>>
  BY DEF KeysForgotten
<1>2. PICK lost \in [Flows -> SUBSET (1..Steps)] : Forget(lost)
  BY DEF KeysForgotten
<1>3. /\ remembered' \in [Flows -> SUBSET (1..Steps)]
      /\ forgotten' \in [Flows -> SUBSET (1..Steps)] /\ SettledIsRemembered'
      /\ \A w \in Flows : forgotten[w] \subseteq forgotten'[w]
  BY <1>1, <1>2, RecordsLost
<1>4. \A d \in DOMAIN frames : IsFlow(d) => frames[d].flow \in Flows
  BY DEF IsFlow, IInv, StackTyped, Frames, FlowFrames, BatchFrames, ScanFrames
<1>5. ActedOnce'
  BY <1>1, <1>3, <1>4 DEF IInv, ActedOnce, IsFlow
<1>6. FilesTyped'
  BY <1>1, <1>3 DEF IInv, FilesTyped
<1>7. StackTyped' /\ CheckpointsTyped' /\ Suspended' /\ Untouched' /\ TakenBefore'
      /\ FailedIsUndone' /\ OneRun' /\ RunIsMarked' /\ MarkedRuns'
  BY <1>1 DEF IInv, StackTyped, CheckpointsTyped, Suspended, Untouched, Fresh, TakenBefore,
              FailedIsUndone, OneRun, RunIsMarked, MarkedRuns, IsFlow, Depth
<1> QED BY <1>3, <1>5, <1>6, <1>7 DEF IInv

LEMMA RestartOk == IInv /\ Restart => IInv'
<1> SUFFICES ASSUME IInv, Restart PROVE IInv'
  OBVIOUS
<1>1. project' = {} /\ frames' = <<>> /\ cut' = {} /\ recovering' \in BOOLEAN
      /\ checkpoints' = [i \in DOMAIN checkpoints |-> [owner |-> Nobody, has |-> {}]]
      /\ UNCHANGED settled
  BY DEF Restart
<1>2. Depth' = 0 /\ DOMAIN frames' = {} /\ frames' \in Seq(Frames) /\ MaxDepth \in Nat
  BY <1>1, AutomationAssumption DEF Depth
<1>3. StackTyped' /\ Suspended' /\ Untouched' /\ FailedIsUndone' /\ OneRun' /\ RunIsMarked'
      /\ ActedOnce'
  BY <1>2 DEF StackTyped, Suspended, Untouched, FailedIsUndone, OneRun, RunIsMarked, ActedOnce
<1>4. checkpoints' \in Seq(Checkpoints) /\ Len(checkpoints') = Len(checkpoints)
      /\ DOMAIN checkpoints' = DOMAIN checkpoints
      /\ \A i \in DOMAIN checkpoints' : checkpoints'[i] = [owner |-> Nobody, has |-> {}]
  <2>1. [owner |-> Nobody, has |-> {}] \in Checkpoints
    BY DEF Checkpoints, Nobody
  <2>2. DOMAIN checkpoints = 1..Len(checkpoints) /\ Len(checkpoints) \in Nat
    BY DEF IInv, CheckpointsTyped
  <2>3. checkpoints' \in [1..Len(checkpoints) -> Checkpoints]
    BY <1>1, <2>1, <2>2
  <2>4. checkpoints' \in Seq(Checkpoints) /\ Len(checkpoints') = Len(checkpoints)
    BY <2>2, <2>3
  <2>5. DOMAIN checkpoints' = DOMAIN checkpoints
    BY <2>2, <2>4
  <2>6. \A i \in DOMAIN checkpoints : checkpoints'[i] = [owner |-> Nobody, has |-> {}]
    BY <1>1
  <2> QED BY <2>4, <2>5, <2>6
<1>5. CheckpointsTyped' /\ TakenBefore'
  BY <1>1, <1>2, <1>4 DEF IInv, CheckpointsTyped, TakenBefore, Nobody
<1>6. /\ file' \in [Flows -> Copies \cup {Absent}]
      /\ \A w \in Flows : file'[w].status # "running"
  <2>1. file' = [w \in Flows |->
            IF file[w].status = "running"
            THEN [file[w] EXCEPT !.status = "interrupted", !.due = FALSE] ELSE file[w]]
    BY DEF Restart
  <2>2. ASSUME NEW w \in Flows, file[w].status = "running"
        PROVE  /\ [file[w] EXCEPT !.status = "interrupted", !.due = FALSE] \in Copies
               /\ [file[w] EXCEPT !.status = "interrupted", !.due = FALSE].status # "running"
    <3>1. file[w] \in Copies
      BY <2>2 DEF IInv, FilesTyped, Absent
    <3> QED BY <3>1 DEF Copies
  <2> QED BY <2>1, <2>2 DEF IInv, FilesTyped
<1>7. FilesTyped' /\ MarkedRuns' /\ SettledIsRemembered'
  <2>1. PICK lost \in [Flows -> SUBSET (1..Steps)] : Forget(lost)
    BY DEF Restart
  <2>2. /\ remembered' \in [Flows -> SUBSET (1..Steps)]
        /\ forgotten' \in [Flows -> SUBSET (1..Steps)] /\ SettledIsRemembered'
    BY <1>1, <2>1, RecordsLost
  <2> QED BY <1>1, <1>6, <2>2 DEF IInv, FilesTyped, MarkedRuns
<1> QED BY <1>3, <1>5, <1>7 DEF IInv

-----------------------------------------------------------------------------
LEMMA IInvInitially == Init => IInv
<1> SUFFICES ASSUME Init PROVE IInv
  OBVIOUS
<1>1. Depth = 0 /\ frames = <<>> /\ DOMAIN frames = {} /\ checkpoints = <<>>
      /\ DOMAIN checkpoints = {} /\ Len(checkpoints) = 0
  BY DEF Init, Depth
<1>2. StackTyped /\ CheckpointsTyped
  BY <1>1, AutomationAssumption DEF Init, StackTyped, CheckpointsTyped
<1>3. Suspended /\ Untouched /\ TakenBefore /\ FailedIsUndone /\ OneRun /\ RunIsMarked /\ ActedOnce
  BY <1>1 DEF Suspended, Untouched, TakenBefore, FailedIsUndone, OneRun, RunIsMarked, ActedOnce
<1>4. FilesTyped /\ MarkedRuns /\ SettledIsRemembered
  BY DEF Init, FilesTyped, MarkedRuns, SettledIsRemembered, Absent
<1> QED BY <1>2, <1>3, <1>4 DEF IInv

LEMMA IInvStep == IInv /\ [Next]_automationVars => IInv'
<1> SUFFICES ASSUME IInv, [Next]_automationVars PROVE IInv'
  OBVIOUS
<1>1. CASE UNCHANGED automationVars
  BY <1>1 DEF automationVars, IInv, StackTyped, CheckpointsTyped, FilesTyped, Suspended,
              Untouched, Fresh, TakenBefore, FailedIsUndone, OneRun, RunIsMarked, MarkedRuns,
              SettledIsRemembered, ActedOnce, IsFlow, Depth
<1>2. ASSUME NEW w \in Flows, RunByClient(w)
      PROVE  IInv'
  <2>1. PICK resume \in BOOLEAN : Run(w, resume, frames)
    BY <1>2 DEF RunByClient
  <2> QED BY <1>2, <2>1, OpenUnder, RunOk DEF RunByClient
<1>3. CASE ScanDue
  <2>1. {w \in Flows : file[w] # Absent /\ file[w].due /\ file[w].status # "running"}
          \in SUBSET Flows
    OBVIOUS
  <2>2. UNCHANGED recovering /\ recovering' \in BOOLEAN
    BY <1>3 DEF ScanDue, IInv, FilesTyped
  <2> QED BY <1>3, <2>1, <2>2, ScanOk DEF ScanDue
<1>4. CASE ScanInterrupted
  <2>1. {w \in Flows : w \in Resuming /\ file[w].status = "interrupted"} \in SUBSET Flows
    OBVIOUS
  <2> QED BY <1>4, <2>1, ScanOk DEF ScanInterrupted
<1>5. ASSUME NEW atomic \in BOOLEAN, NEW continues \in BOOLEAN, BatchBegins(atomic, continues)
      PROVE  IInv'
  BY <1>5, BatchBeginsOk
<1> QED
  BY <1>1, <1>2, <1>3, <1>4, <1>5, ClientCheckpointsOk, CreateWorkflowOk, ChangeWorkflowOk,
     ScanRunsOk, ScanPassesOk, TakeCheckpointOk, NoCheckpointOk, StepBeginsOk, StepActsOk,
     StepWorksOk, StepFailsOk, StepNotedOk, LastStepDoneOk, RestoreOk, NothingToRestoreOk,
     FinishOk, DiskRefusesOk, RestoreFailsOk, CloseOk, KeysForgottenOk, RestartOk
  DEF Next

LEMMA IInvAlways == Spec => []IInv
BY IInvInitially, IInvStep, PTL DEF Spec

\* The state of batches, workflows and checkpoints has its type (Automation.tla), for
\* any number of workflows, steps, calls, kept checkpoints and nested activities.
THEOREM AutomationTypeCorrect == Spec => []TypeOK
<1>1. IInv => TypeOK
  <2> SUFFICES ASSUME IInv PROVE TypeOK
    OBVIOUS
  <2>1. DOMAIN frames = 1..Depth
    BY DEF IInv, StackTyped, Depth
  <2>2. ToSet(checkpoints) \subseteq [owner : {Nobody} \cup DOMAIN frames, has : SUBSET DOMAIN frames]
    <3> SUFFICES ASSUME NEW i \in DOMAIN checkpoints
                 PROVE  checkpoints[i] \in [owner : {Nobody} \cup DOMAIN frames,
                                            has : SUBSET DOMAIN frames]
      BY DEF ToSet
    <3>1. checkpoints[i] \in Checkpoints /\ checkpoints[i].owner \in 0..Depth
          /\ checkpoints[i].has \subseteq 1..Depth
      BY DEF IInv, CheckpointsTyped
    <3>2. checkpoints[i].owner \in {Nobody} \cup 1..Depth
      BY <3>1 DEF Nobody, IInv, StackTyped, Depth
    <3> QED BY <3>1, <3>2, <2>1 DEF Checkpoints
  <2> QED BY <2>1, <2>2 DEF IInv, StackTyped, CheckpointsTyped, FilesTyped, TypeOK
<1> QED BY <1>1, IInvAlways, PTL

\* What an atomic batch or workflow that ends in failure has left in the project, the
\* disk or a lost checkpoint has kept it from taking back: the restoration of
\* batch_execute and of _run reads a checkpoint without its own effects.
THEOREM FailuresAreUndone == Spec => []RolledBackLeavesNothing
<1>1. IInv => RolledBackLeavesNothing
  <2> SUFFICES ASSUME IInv, InRun("closing"), Top.atomic, Top.failed, Depth \in project
               PROVE  Top.cause \in {"disk", "checkpoint"}
    BY DEF RolledBackLeavesNothing
  <2>1. frames # <<>> /\ Top.kind # "scan" /\ Top.stage = "closing"
    BY DEF InRun
  <2>2. Undoes(Top) /\ Top.cause \in Causes
    BY <2>1, OfTop DEF FlowFrames, BatchFrames
  <2> QED BY <2>1, <2>2 DEF Undoes, Causes
<1> QED BY <1>1, IInvAlways, PTL

\* The handler of a workflow's step does not take effect again in a run or its
\* resumption, unless it raised, QGIS died before its result was recorded, or
\* MutationGuard has dropped the record: what has settled and is not forgotten is in
\* the idempotency cache under the run's key.
THEOREM StepsActOnce == Spec => []StepsOnceUnlessInDoubt
<1>1. IInv => StepsOnceUnlessInDoubt
  BY TopOfStack DEF IInv, ActedOnce, IsFlow, StepsOnceUnlessInDoubt, InRun, Step, Top
<1> QED BY <1>1, IInvAlways, PTL

\* A workflow never runs inside of itself, and its file says that it is running only
\* while it is on the stack, or after an error that was not a step's.
THEOREM RunningIsNotLeftBehind == Spec => []RunningIsTrue
<1>1. IInv => RunningIsTrue
  <2> SUFFICES ASSUME IInv, NEW w \in Flows
               PROVE  /\ Cardinality(OnStack(w)) <= 1
                      /\ file[w].status = "running" => OnStack(w) # {} \/ w \in cut
    BY DEF RunningIsTrue
  <2>1. \A d \in OnStack(w) : d \in DOMAIN frames /\ IsFlow(d) /\ frames[d].flow = w
    BY DEF OnStack, IsFlow
  <2>2. Cardinality(OnStack(w)) <= 1
    <3>1. CASE OnStack(w) = {}
      BY <3>1, FS_EmptySet
    <3>2. CASE OnStack(w) # {}
      <4>1. PICK d \in OnStack(w) : OnStack(w) = {d}
        BY <3>2, <2>1 DEF IInv, OneRun
      <4> QED BY <4>1, FS_Singleton
    <3> QED BY <3>1, <3>2
  <2>3. file[w].status = "running" => OnStack(w) # {} \/ w \in cut
    BY DEF IInv, MarkedRuns, OnStack, IsFlow
  <2> QED BY <2>2, <2>3
<1> QED BY <1>1, IInvAlways, PTL
================================================================================
