------------------------------ MODULE ReadScripts ------------------------------
(***************************************************************************)
(* The scripts of the handlers whose methods are not in MUTATION_METHODS,  *)
(* in the notation of ProjectScripts: no precondition, dry run or          *)
(* idempotency key applies to them, so all they may change is what the     *)
(* plugin keeps for its clients.                                           *)
(***************************************************************************)
EXTENDS ProjectScripts

Reading(name) == Method(name, {<<"check">>})

\* Also looks through the Qt objects and remembers them, or stores an artifact.
Remembering(name) == Method(name, {<<"check", "session", "check">>})

(* ----------------------------- dispatcher.py ----------------------------- *)

SessionSnapshot == Remembering("session.snapshot")
ProjectInspect == Reading("project.inspect")
LayerInspect == Reading("layer.inspect")
FeatureQuery == Reading("feature.query")
UiSearch == Remembering("ui.search")
UiScreenshot == Remembering("ui.screenshot")
LogsRead == Reading("logs.read")
ArtifactList == Reading("artifact.list")

\* A page of large items stores each of them as a handle of its own.
HandleRead == Remembering("handle.read")
ArtifactRead == Remembering("artifact.read")

(* ---- capabilities.py, data_sources.py, connectors.py and safety.py ------ *)

CapabilitiesSearch == Remembering("capabilities.search")
CapabilitiesDescribe == Reading("capabilities.describe")
DataCatalog == Reading("data.catalog")
DataProvenance == Reading("data.provenance")
ConnectorCatalog == Reading("connector.catalog")
ProjectVerify == Reading("project.verify")

(* --------------------------- runtime_tools.py ---------------------------- *)

RuntimeControl == Reading("runtime.control")
RuntimeEvents == Reading("runtime.events")
RuntimePreflight == Reading("runtime.preflight")
RuntimeDiff == Reading("runtime.diff")
RuntimeDiagnostics == Reading("runtime.diagnostics")
RuntimePermissions == Reading("runtime.permissions")
RuntimeAuth == Reading("runtime.auth")

(* --------- project_tools.py, vector_raster_tools.py and the others ------- *)

\* Identifying and evaluating run on contexts of their own.
MapIdentify == Reading("map.identify")
MapMeasure == Reading("map.measure")
ExpressionControl == Reading("expression.control")
ConnectionInspect == Reading("connection.inspect")
VectorStatistics == Reading("vector.statistics")
RasterInspect == Reading("raster.inspect")
ProcessingAssets == Reading("processing.assets")
ProcessingContext == Reading("processing.context")
LayerCapabilities == Reading("layer.capabilities")
LayoutValidate == Reading("layout.validate")

(* ------------------------------ qa_tools.py ------------------------------ *)

QaCompatibility == Reading("qa.compatibility")
QaProjectAudit == Reading("qa.project_audit")
QaBenchmark == Reading("qa.benchmark")
QaSelfTest == Reading("qa.self_test")

ReadCalls ==
    UNION {SessionSnapshot, ProjectInspect, LayerInspect, FeatureQuery, UiSearch, UiScreenshot,
           LogsRead, ArtifactList, HandleRead, ArtifactRead, CapabilitiesSearch,
           CapabilitiesDescribe, DataCatalog, DataProvenance, ConnectorCatalog, ProjectVerify,
           RuntimeControl, RuntimeEvents, RuntimePreflight, RuntimeDiff, RuntimeDiagnostics,
           RuntimePermissions, RuntimeAuth, MapIdentify, MapMeasure, ExpressionControl,
           ConnectionInspect, VectorStatistics, RasterInspect, ProcessingAssets,
           ProcessingContext, LayerCapabilities, LayoutValidate, QaCompatibility,
           QaProjectAudit, QaBenchmark, QaSelfTest}
===============================================================================
