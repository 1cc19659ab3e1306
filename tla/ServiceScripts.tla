----------------------------- MODULE ServiceScripts -----------------------------
(***************************************************************************)
(* The scripts of the handlers that reach beyond the project, to plugins,  *)
(* settings, windows, databases, Processing, the network and the disk:     *)
(* ecosystem_tools.py, processing_database_tools.py, capabilities.py,      *)
(* data_sources.py, connectors.py and the checkpoints of safety.py, in the *)
(* notation of ProjectScripts.                                             *)
(***************************************************************************)
EXTENDS ProjectScripts

(* --------------------------- ecosystem_tools.py -------------------------- *)

\* The installer's window is not touched for.
EcosystemPlugins == Method("ecosystem.plugins",
    {<<"check", "profile", "touch">>, <<"view">>})

\* A plugin that turns out to have another version stays installed.
InstallOfficialPlugin == Method("ecosystem.plugins",
    {<<"check", "profile", "check", "touch">>})

EcosystemSettings == Method("ecosystem.settings", {<<"check", "profile", "touch">>})

EcosystemShortcuts == Method("ecosystem.shortcuts", {<<"check", "profile", "check", "touch">>})

EcosystemGps == Method("ecosystem.gps",
    {<<"check", "session", "touch">>, <<"check", "begin", "session", "check", "end", "touch">>})

\* create, close and configure; a part that is configured stays when a later
\* part is refused.
Ecosystem3D == Method("ecosystem.3d",
    {<<"check", "view", "check", "view", "check", "touch">>, <<"check", "view", "touch">>})

EcosystemServer == Method("ecosystem.server", {<<"check", "project", "project", "touch">>})

EcosystemOffline == Method("ecosystem.offline", {<<"check", "project", "touch">>})

(* --------------------- processing_database_tools.py ---------------------- *)

ProcessingProvider == Method("processing.provider", {<<"check", "session", "touch">>})

\* Rows that cannot be started are collected and do not stop the others.
ProcessingBatch == Method("processing.batch", {<<"check", "session", "session", "touch">>})

ProcessingHistory == Method("processing.history", {<<"check", "session", "touch">>})

\* A query that is allowed to change data returns its rows without touching.
DatabaseControl == Method("database.control",
    {<<"check", "data", "touch">>, <<"check", "data", "check">>})

ConnectionManage == Method("connection.manage", {<<"check", "profile", "check", "touch">>})

(* ----------------- capabilities.py and operations.py --------------------- *)

\* Whatever the native object does; touched before the result is serialized.
CapabilitiesInvoke == Method("capabilities.invoke",
    {<<"check", change, "touch", "check">> : change \in {"view", "project", "session"}})

\* The task changes what it changes later, when it finishes, and touches then.
ProcessingStart == Method("processing.start", {<<"check", "session", "touch">>})

OperationControl == Method("operation.control", {<<"check", "session">>})

(* --------------------- data_sources.py and connectors.py ----------------- *)

\* The download goes to the plugin's cache. Each layer that is loaded is put in
\* its group and touched for by itself.
DataFetch == Method("data.fetch",
    {<<"check", "session", "check">>,
     <<"check", "session", "check", "layers", "project", "touch", "layers", "project", "touch",
       "check">>})

DataService == Method("data.service", {<<"check", "layers", "project", "touch">>})

DataRefresh == Method("data.refresh", {<<"check", "view", "touch">>})

\* The fetched layers are styled and ordered, a base map and a layout follow,
\* each by the handler that does it alone.
ConnectorFireMap == Method("connector.fire_map",
    {<<"check", "session", "check", "layers", "project", "touch", "check", "project", "touch",
       "check", "layers", "project", "touch", "view", "check", "project", "touch",
       "check", "disk", "check", "touch", "touch">>})

(* -------------------------------- safety.py ------------------------------ *)

\* create, with the pruning of the oldest; restore; delete.
CheckpointCreate == {<<"check", "disk", "check", "disk", "touch">>}
CheckpointRestore == {<<"check", "layers", "check", "project", "touch">>}
CheckpointDelete == {<<"check", "disk", "touch">>}

CheckpointExecute ==
    Method("checkpoint.execute", CheckpointCreate \cup CheckpointRestore \cup CheckpointDelete)

ServiceCalls ==
    UNION {EcosystemPlugins, InstallOfficialPlugin, EcosystemSettings, EcosystemShortcuts,
           EcosystemGps, Ecosystem3D, EcosystemServer, EcosystemOffline, ProcessingProvider,
           ProcessingBatch, ProcessingHistory, DatabaseControl, ConnectionManage, CapabilitiesInvoke,
           ProcessingStart, OperationControl, DataFetch, DataService, DataRefresh,
           ConnectorFireMap, CheckpointExecute}
===============================================================================
