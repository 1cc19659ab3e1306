------------------------------ MODULE HandlerCalls ------------------------------
(***************************************************************************)
(* One client and the handlers of the dispatcher: the client looks at the  *)
(* session, then calls tools, some of them under if_revision. Handlers run *)
(* one at a time on the main thread; each follows one of its scripts and   *)
(* may raise at each of its checks. Batches and workflows are the subject  *)
(* of Automation.                                                          *)
(*                                                                         *)
(* The revision and the content are only ever compared with those the      *)
(* client saw, so moved and changed say whether they differ from these.    *)
(***************************************************************************)
EXTENDS ToolCatalog, LayerScripts, CartographyScripts, ServiceScripts, ReadScripts,
        Integers, Sequences

Handled == UNION {ProjectCalls, LayerCalls, CartographyCalls, ServiceCalls, ReadCalls}

\* The tools that reach a handler of this module.
Elsewhere == {"batch.execute", "workflow.execute", "plugins.advise"}

\* Every tool of the catalog reaches a handler that has a script, and every
\* handler here is reached by a tool.
ASSUME EveryToolIsHandled ==
    {t[2] : t \in ToolMethods} = {c.method : c \in Handled} \cup Elsewhere

MutationMethods ==
    {"project.action", "selection.set", "vector.edit", "capabilities.invoke",
     "processing.start", "operation.control", "ui.invoke", "batch.execute", "artifact.release",
     "data.fetch", "data.service", "data.refresh", "layer.manage", "cartography.style",
     "cartography.labels", "layout.execute", "checkpoint.execute", "workflow.execute",
     "visual.review", "connector.fire_map", "runtime.tasks", "runtime.render",
     "runtime.transaction", "runtime.undo", "project.manage", "project.properties",
     "project.repair", "layer.source", "canvas.control", "bookmark.manage", "map_theme.manage",
     "crs.control", "metadata.manage", "vector.schema", "vector.geometry", "vector.index",
     "vector.join", "project.relation", "project.snapping", "selection.advanced",
     "processing.provider", "processing.batch", "processing.history", "database.control",
     "connection.manage", "cartography.renderer", "cartography.symbol", "style.library",
     "cartography.labeling", "layout.item", "layout.atlas", "layer.properties", "raster.style",
     "mesh.control", "point_cloud.control", "vector_tile.control", "tiled_scene.control",
     "layer.temporal", "layer.elevation", "ecosystem.plugins", "ecosystem.settings",
     "ecosystem.shortcuts", "ecosystem.gps", "ecosystem.3d", "ecosystem.server",
     "ecosystem.offline", "authoring.forms", "authoring.diagrams", "authoring.annotations",
     "authoring.geometry_quality", "authoring.vector_export"}

VARIABLES
    call,       \* the call that a handler serves, or NoCall
    pc,         \* its next step
    changed,    \* the content differs from what the client looked at
    moved,      \* so does StateTracker.revision
    undo,       \* changed at the start of the part that would be undone, or NoPart
    blame       \* who first left changed content under an unmoved revision

callVars == <<call, pc, changed, moved, undo, blame>>

NoCall == [tool |-> "none"]
NoPart == "none"

\* The common arguments are in the schemas of the mutation tools only.
Request(t, c, guarded, dry) ==
    [tool |-> t[1], method |-> c.method, script |-> c.script, guarded |-> guarded, dry |-> dry]

Requests ==
    {Request(x[1], x[2], FALSE, FALSE) : x \in
        {x \in ToolMethods \X Handled : x[1][2] = x[2].method}}
    \cup
    {Request(x[1], x[2], x[3] = "if_revision", x[3] = "dry_run") : x \in
        {x \in ToolMethods \X Handled \X {"if_revision", "dry_run"} :
            x[1][2] = x[2].method /\ x[1][1] \in MutationTools}}

Init ==
    /\ call = NoCall
    /\ pc = 0
    /\ changed \in BOOLEAN
    /\ moved = TRUE
    /\ undo = NoPart
    /\ blame = "nobody"

Idle == call = NoCall

\* qgis_session_snapshot: both are read in one handler.
Look ==
    /\ Idle
    /\ changed' = FALSE /\ moved' = FALSE /\ blame' = "nobody"
    /\ UNCHANGED <<call, pc, undo>>

\* Mutants of Executes: a dispatch without the check of the revision, and one
\* that forgets dry_run.
ExecutesUnguarded(r) == r.method \in MutationMethods => ~r.dry
ExecutesDry(r) == r.method \in MutationMethods => (r.guarded => ~moved)

\* Only for these methods the arguments mean anything to dispatch. A call that
\* is refused, or a dry run, changes nothing.
Executes(r) ==
    r.method \in MutationMethods => ~r.dry /\ (r.guarded => ~moved)

Serve(r) ==
    /\ Idle
    /\ Executes(r)
    /\ call' = r /\ pc' = 1
    /\ UNCHANGED <<changed, moved, undo, blame>>

Running == ~Idle /\ pc <= Len(call.script)
Current == call.script[pc]
Changes == {"project", "layers", "edit", "data", "disk", "profile", "view"}

Pass ==
    /\ Running /\ Current \in {"check", "session"}
    /\ pc' = pc + 1
    /\ UNCHANGED <<call, changed, moved, undo, blame>>

\* QGIS signals some changes to the StateTracker, and those of layers always.
Change ==
    /\ Running /\ Current \in Changes
    /\ pc' = pc + 1
    /\ \/ UNCHANGED <<changed, moved>>
       \/ /\ changed' = TRUE
          /\ moved' \in IF Current = "layers" THEN {TRUE} ELSE {moved, TRUE}
    /\ UNCHANGED <<call, undo, blame>>

Touch ==
    /\ Running /\ Current = "touch"
    /\ pc' = pc + 1 /\ moved' = TRUE
    /\ UNCHANGED <<call, changed, undo, blame>>

BeginPart ==
    /\ Running /\ Current = "begin"
    /\ pc' = pc + 1 /\ undo' = IF changed THEN "changed" ELSE "same"
    /\ UNCHANGED <<call, changed, moved, blame>>

EndPart ==
    /\ Running /\ Current = "end"
    /\ pc' = pc + 1 /\ undo' = NoPart
    /\ UNCHANGED <<call, changed, moved, blame>>

\* The first one to leave content that the revision does not tell of.
Blamed(who) ==
    IF blame = "nobody" /\ changed' /\ ~moved' THEN who ELSE blame

\* No handler touches on its way out of an exception.
Raise ==
    /\ Running /\ Current \in {"check", "raise"}
    /\ changed' = IF undo = NoPart THEN changed ELSE undo = "changed"
    /\ call' = NoCall /\ pc' = 0 /\ undo' = NoPart
    /\ UNCHANGED moved
    /\ blame' = Blamed("failure")

Return ==
    /\ ~Idle /\ pc > Len(call.script)
    /\ call' = NoCall /\ pc' = 0
    /\ UNCHANGED <<changed, moved, undo>>
    /\ blame' = Blamed(call.method)

\* The person at the screen, between two calls; not every change is signalled.
UserActs ==
    /\ Idle
    /\ changed' = TRUE /\ moved' \in {moved, TRUE}
    /\ UNCHANGED <<call, pc, undo>>
    /\ blame' = Blamed("user")

Next ==
    \/ Look
    \/ \E r \in Requests : Serve(r)
    \/ Pass
    \/ Change
    \/ Touch
    \/ BeginPart
    \/ EndPart
    \/ Raise
    \/ Return
    \/ UserActs

Spec == Init /\ [][Next]_callVars

-----------------------------------------------------------------------------
TypeOK ==
    /\ call \in Requests \cup {NoCall}
    /\ pc \in 0..(1 + IF Idle THEN 0 ELSE Len(call.script))
    /\ changed \in BOOLEAN /\ moved \in BOOLEAN
    /\ undo \in {NoPart, "changed", "same"}
    /\ blame \in {"nobody", "failure", "user"} \cup {c.method : c \in Handled}

\* The methods with a way through them that returns without a touch.
QuietMethods ==
    {"bookmark.manage", "visual.review", "cartography.renderer", "database.control",
     "ecosystem.plugins"}

\* What if_revision is for: a call made under it starts on the content its
\* client looked at (MutationTools, "Require the current global session
\* revision"). It may be fooled by a call that failed half way, by a change
\* on the screen that QGIS does not signal, and by five methods, no others.
GuardedCallsMeetTheirContent ==
    (~Idle /\ call.guarded /\ pc = 1 /\ changed)
        => blame \in {"failure", "user"} \cup QuietMethods

\* A tool that is annotated as read-only changes neither content nor
\* revision, and neither does a dry run: the tables of the server and of the
\* dispatcher and the handlers agree.
ReadOnlyMeansReadOnly ==
    [][(~Idle /\ (ReadOnlyHint(call.tool) \/ call.dry)) => UNCHANGED <<changed, moved>>]_callVars
===============================================================================
