---------------------------- MODULE ProjectScripts ----------------------------
(***************************************************************************)
(* What the handlers of the plugin do to QGIS, as scripts: for each bridge *)
(* method, the ways through its handler that can change something, each a  *)
(* sequence of steps in the order of the code.                             *)
(*   "check"    may raise: a lookup, a validation, a refusal by QGIS       *)
(*   "raise"    always raises                                              *)
(*   "project"  changes what the project file holds                        *)
(*   "layers"   the same, and QGIS signals it to the StateTracker          *)
(*   "edit"     changes an edit buffer or the edit mode of a layer         *)
(*   "begin", "end"  the part between them is undone if a step raises      *)
(*   "data", "disk", "profile"  commits features, writes a file, writes    *)
(*              the user's settings: nothing takes these back              *)
(*   "view"     changes what the windows show or a selection               *)
(*   "session"  changes tables or caches of the plugin itself              *)
(*   "touch"    calls StateTracker.touch                                   *)
(* A changing step may find that there is nothing to change. A loop over   *)
(* items is written as two rounds.                                         *)
(***************************************************************************)

Method(name, scripts) == {[method |-> name, script |-> s] : s \in scripts}

(* ------------------------- dispatcher.py itself ------------------------- *)

\* save; add and remove a layer; activate, zoom, refresh; load a style.
ProjectAction == Method("project.action",
    {<<"disk", "check", "touch">>, <<"check", "layers", "touch">>,
     <<"check", "view", "touch">>, <<"check", "project", "check", "touch">>})

SelectionSet == Method("selection.set", {<<"check", "view", "touch">>})

\* start ends in reading a result that no branch has assigned. Features are
\* changed one by one under one edit command, after the edit mode was opened.
VectorEdit == Method("vector.edit",
    {<<"check", "edit", "touch", "raise">>,
     <<"check", "edit", "begin", "check", "edit", "check", "edit", "end", "touch">>,
     <<"check", "data", "check", "touch">>, <<"check", "edit", "check", "touch">>})

\* The widget's slots run whatever QGIS or a plugin connected to it.
UiInvoke == Method("ui.invoke",
    {<<"check", change, "touch", "check">> : change \in {"view", "project", "profile"}})

ArtifactRelease == Method("artifact.release", {<<"session">>})

\* record; capture, after the canvas was given time to draw; apply, with one
\* correction standing for its batch, that works, or that fails half way while
\* the batch is not atomic: the review goes on to its capture either way.
VisualReview == Method("visual.review",
    {<<"check", "touch">>, <<"check", "view", "check">>,
     <<"check", "project", "touch", "check", "view", "check">>,
     <<"check", "project", "check", "view", "check">>})

(* --------------------------- project_tools.py --------------------------- *)

\* new and close; open, where a file that cannot be read leaves QGIS without a
\* project; save.
ProjectManage == Method("project.manage",
    {<<"disk", "check", "layers", "touch">>,
     <<"check", "disk", "check", "layers", "check", "touch">>,
     <<"check", "disk", "check", "touch">>})

\* Each property is set before the next one is validated.
ProjectProperties == Method("project.properties",
    {<<"project", "check", "project", "check", "project", "touch">>})

ProjectRepair == Method("project.repair", {<<"check", "project", "check", "project", "touch">>})

LayerSource == Method("layer.source",
    {<<"check", "project", "check", "touch">>, <<"check", "view", "touch">>})

CanvasControl == Method("canvas.control", {<<"check", "view", "touch">>})

\* zoom does not touch: the canvas signals its new extent itself.
BookmarkManage == Method("bookmark.manage",
    {<<"check", "project", "touch">>, <<"check", "view">>})

MapThemeManage == Method("map_theme.manage",
    {<<"check", "project", "touch">>, <<"check", "view", "touch">>})

CrsControl == Method("crs.control", {<<"check", "project", "check", "touch">>})

\* The setters work on a copy, which replaces the metadata when all are accepted.
MetadataManage == Method("metadata.manage", {<<"check", "project", "touch">>})

(* --------------------------- runtime_tools.py --------------------------- *)

RuntimeTasks == Method("runtime.tasks", {<<"check", "session", "touch">>})

RuntimeRender == Method("runtime.render", {<<"view", "touch">>, <<"check", "view", "touch">>})

\* start rolls back the layers it opened when one cannot be opened; commit and
\* save go on with the next layer and raise at the end.
RuntimeTransaction == Method("runtime.transaction",
    {<<"check", "begin", "edit", "check", "edit", "check", "end", "touch">>,
     <<"check", "data", "data", "check", "touch">>, <<"check", "edit", "touch">>})

RuntimeUndo == Method("runtime.undo", {<<"check", "edit", "touch">>})

ProjectCalls ==
    UNION {ProjectAction, SelectionSet, VectorEdit, UiInvoke, ArtifactRelease, VisualReview,
           ProjectManage, ProjectProperties, ProjectRepair, LayerSource, CanvasControl,
           BookmarkManage, MapThemeManage, CrsControl, MetadataManage,
           RuntimeTasks, RuntimeRender, RuntimeTransaction, RuntimeUndo}
===============================================================================
