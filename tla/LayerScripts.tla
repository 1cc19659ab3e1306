----------------------------- MODULE LayerScripts -----------------------------
(***************************************************************************)
(* The scripts of the handlers that work on layers: vector_raster_tools.py,*)
(* specialized_data_tools.py and authoring_tools.py, in the notation of    *)
(* ProjectScripts.                                                         *)
(***************************************************************************)
EXTENDS ProjectScripts

(* ------------------------- vector_raster_tools.py ------------------------ *)

\* The edit mode is opened, one field added, deleted or renamed, then its
\* settings are replaced one by one.
VectorSchema == Method("vector.schema",
    {<<"check", "edit", "check", "edit", "check", "project", "check", "project", "touch">>})

VectorGeometry == Method("vector.geometry",
    {<<"check", "edit", "begin", "check", "edit", "check", "edit", "end", "touch">>})

VectorIndex == Method("vector.index", {<<"check", "data", "check", "touch">>})

VectorJoin == Method("vector.join", {<<"check", "project", "touch">>})

ProjectRelation == Method("project.relation", {<<"check", "project", "touch">>})

\* The configuration is changed as a copy and set once.
ProjectSnapping == Method("project.snapping", {<<"check", "project", "touch">>})

SelectionAdvanced == Method("selection.advanced", {<<"check", "view", "touch">>})

(* ------------------------ specialized_data_tools.py ---------------------- *)

LayerProperties == Method("layer.properties",
    {<<"check", "project", "check", "project", "touch">>, <<"check", "view", "touch">>})

\* The opacity is set before the band and the colours are validated.
RasterStyle == Method("raster.style", {<<"check", "project", "check", "project", "touch">>})

Mesh == Method("mesh.control",
    {<<"check", "project", "check", "project", "touch">>, <<"check", "view", "touch">>})

PointCloud == Method("point_cloud.control",
    {<<"check", "project", "check", "project", "touch">>, <<"check", "view", "touch">>})

\* Of vector tiles and of tiled scenes: reload, set the opacity, load a style.
TileLayer(name) == Method(name,
    {<<"check", "view", "touch">>, <<"check", "project", "touch">>,
     <<"check", "project", "check", "touch">>})

VectorTiles == TileLayer("vector_tile.control")
TiledScene == TileLayer("tiled_scene.control")

LayerTemporal == Method("layer.temporal", {<<"check", "project", "check", "touch">>})

LayerElevation == Method("layer.elevation",
    {<<"check", "project", "check", "project", "touch">>})

(* --------------------------- authoring_tools.py -------------------------- *)

Forms == Method("authoring.forms", {<<"check", "project", "touch">>})

Diagrams == Method("authoring.diagrams", {<<"check", "project", "touch">>})

Annotations == Method("authoring.annotations",
    {<<"check", "layers", "touch">>, <<"check", "project", "touch">>})

\* validate reads. repair opens the edit mode before it begins its edit command.
GeometryQuality == Method("authoring.geometry_quality",
    {<<"check">>, <<"check", "edit", "check", "begin", "edit", "check", "edit", "end", "touch">>})

\* The directory is made first; the writer may fail with the file half written.
VectorExport == Method("authoring.vector_export",
    {<<"check", "disk", "check", "disk", "check", "touch">>})

LayerCalls ==
    UNION {VectorSchema, VectorGeometry, VectorIndex, VectorJoin, ProjectRelation,
           ProjectSnapping, SelectionAdvanced, LayerProperties, RasterStyle, Mesh, PointCloud,
           VectorTiles, TiledScene, LayerTemporal, LayerElevation, Forms, Diagrams,
           Annotations, GeometryQuality, VectorExport}
===============================================================================
