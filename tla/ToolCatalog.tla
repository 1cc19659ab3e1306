------------------------------ MODULE ToolCatalog ------------------------------
(***************************************************************************)
(* What the server offers to its clients: the tables of tool_catalog.py.   *)
(* A tool stands for the bridge method it is translated to.                *)
(***************************************************************************)

(* The table TOOL_METHODS, tool by tool. *)

SessionTools ==
   {<<"qgis_session_snapshot", "session.snapshot">>,
    <<"qgis_project_inspect", "project.inspect">>, <<"qgis_project_action", "project.action">>,
    <<"qgis_layer_inspect", "layer.inspect">>, <<"qgis_feature_query", "feature.query">>,
    <<"qgis_selection_set", "selection.set">>, <<"qgis_vector_edit", "vector.edit">>,
    <<"qgis_capabilities_search", "capabilities.search">>,
    <<"qgis_capability_describe", "capabilities.describe">>,
    <<"qgis_capability_invoke", "capabilities.invoke">>,
    <<"qgis_processing_start", "processing.start">>, <<"qgis_operation", "operation.control">>,
    <<"qgis_ui_search", "ui.search">>, <<"qgis_ui_invoke", "ui.invoke">>,
    <<"qgis_screenshot", "ui.screenshot">>, <<"qgis_logs", "logs.read">>,
    <<"qgis_handle_read", "handle.read">>}

DataTools ==
   {<<"qgis_batch", "batch.execute">>, <<"qgis_artifact_read", "artifact.read">>,
    <<"qgis_artifacts_list", "artifact.list">>, <<"qgis_artifact_release", "artifact.release">>,
    <<"qgis_data_fetch", "data.fetch">>, <<"qgis_data_service", "data.service">>,
    <<"qgis_data_refresh", "data.refresh">>, <<"qgis_data_catalog", "data.catalog">>,
    <<"qgis_data_provenance", "data.provenance">>, <<"qgis_layer_manage", "layer.manage">>,
    <<"qgis_style_apply", "cartography.style">>, <<"qgis_labels_apply", "cartography.labels">>,
    <<"qgis_layout", "layout.execute">>, <<"qgis_checkpoint", "checkpoint.execute">>,
    <<"qgis_project_verify", "project.verify">>, <<"qgis_workflow", "workflow.execute">>,
    <<"qgis_visual_review", "visual.review">>, <<"qgis_connectors", "connector.catalog">>,
    <<"qgis_fire_map", "connector.fire_map">>}

RuntimeTools ==
   {<<"qgis_runtime", "runtime.control">>, <<"qgis_tasks", "runtime.tasks">>,
    <<"qgis_events", "runtime.events">>, <<"qgis_render", "runtime.render">>,
    <<"qgis_transaction", "runtime.transaction">>, <<"qgis_undo", "runtime.undo">>,
    <<"qgis_preflight", "runtime.preflight">>, <<"qgis_state_diff", "runtime.diff">>,
    <<"qgis_diagnostics", "runtime.diagnostics">>,
    <<"qgis_permissions", "runtime.permissions">>, <<"qgis_auth", "runtime.auth">>}

ProjectTools ==
   {<<"qgis_project_manage", "project.manage">>,
    <<"qgis_project_properties", "project.properties">>,
    <<"qgis_project_repair", "project.repair">>, <<"qgis_source", "layer.source">>,
    <<"qgis_canvas", "canvas.control">>, <<"qgis_identify", "map.identify">>,
    <<"qgis_measure", "map.measure">>, <<"qgis_bookmarks", "bookmark.manage">>,
    <<"qgis_map_themes", "map_theme.manage">>, <<"qgis_crs", "crs.control">>,
    <<"qgis_expression", "expression.control">>, <<"qgis_metadata", "metadata.manage">>,
    <<"qgis_connections", "connection.inspect">>}

VectorTools ==
   {<<"qgis_vector_schema", "vector.schema">>,
    <<"qgis_vector_statistics", "vector.statistics">>,
    <<"qgis_geometry_edit", "vector.geometry">>, <<"qgis_vector_indexes", "vector.index">>,
    <<"qgis_vector_joins", "vector.join">>, <<"qgis_relations", "project.relation">>,
    <<"qgis_snapping", "project.snapping">>, <<"qgis_vector_select", "selection.advanced">>,
    <<"qgis_raster_inspect", "raster.inspect">>}

ProcessingTools ==
   {<<"qgis_processing_providers", "processing.provider">>,
    <<"qgis_processing_batch", "processing.batch">>,
    <<"qgis_processing_history", "processing.history">>,
    <<"qgis_processing_assets", "processing.assets">>,
    <<"qgis_processing_context", "processing.context">>,
    <<"qgis_database", "database.control">>, <<"qgis_connection_manage", "connection.manage">>}

CartographyTools ==
   {<<"qgis_renderer", "cartography.renderer">>, <<"qgis_symbol", "cartography.symbol">>,
    <<"qgis_style_library", "style.library">>, <<"qgis_labeling", "cartography.labeling">>,
    <<"qgis_layout_items", "layout.item">>, <<"qgis_atlas", "layout.atlas">>,
    <<"qgis_layout_validate", "layout.validate">>}

LayerTools ==
   {<<"qgis_layer_properties", "layer.properties">>,
    <<"qgis_layer_capabilities", "layer.capabilities">>,
    <<"qgis_raster_style", "raster.style">>, <<"qgis_mesh", "mesh.control">>,
    <<"qgis_point_cloud", "point_cloud.control">>,
    <<"qgis_vector_tiles", "vector_tile.control">>,
    <<"qgis_tiled_scene", "tiled_scene.control">>, <<"qgis_temporal", "layer.temporal">>,
    <<"qgis_elevation", "layer.elevation">>}

EcosystemTools ==
   {<<"qgis_plugin_advisor", "plugins.advise">>, <<"qgis_plugins", "ecosystem.plugins">>,
    <<"qgis_settings", "ecosystem.settings">>, <<"qgis_shortcuts", "ecosystem.shortcuts">>,
    <<"qgis_gps", "ecosystem.gps">>, <<"qgis_3d_views", "ecosystem.3d">>,
    <<"qgis_server", "ecosystem.server">>, <<"qgis_offline", "ecosystem.offline">>}

AuthoringTools ==
   {<<"qgis_forms", "authoring.forms">>, <<"qgis_diagrams", "authoring.diagrams">>,
    <<"qgis_annotations", "authoring.annotations">>,
    <<"qgis_geometry_quality", "authoring.geometry_quality">>,
    <<"qgis_vector_export", "authoring.vector_export">>,
    <<"qgis_compatibility", "qa.compatibility">>, <<"qgis_project_audit", "qa.project_audit">>,
    <<"qgis_benchmark", "qa.benchmark">>, <<"qgis_self_test", "qa.self_test">>}

ToolMethods ==
    UNION {SessionTools, DataTools, RuntimeTools, ProjectTools, VectorTools, ProcessingTools,
           CartographyTools, LayerTools, EcosystemTools, AuthoringTools}

\* These accept idempotency_key, if_revision, if_resource_revisions and dry_run.
MutationTools ==
    {"qgis_project_action", "qgis_selection_set", "qgis_vector_edit", "qgis_capability_invoke",
     "qgis_processing_start", "qgis_operation", "qgis_ui_invoke", "qgis_batch",
     "qgis_artifact_release", "qgis_data_fetch", "qgis_data_service", "qgis_data_refresh",
     "qgis_layer_manage", "qgis_style_apply", "qgis_labels_apply", "qgis_layout",
     "qgis_checkpoint", "qgis_workflow", "qgis_visual_review", "qgis_fire_map", "qgis_tasks",
     "qgis_render", "qgis_transaction", "qgis_undo", "qgis_project_manage",
     "qgis_project_properties", "qgis_project_repair", "qgis_source", "qgis_canvas",
     "qgis_bookmarks", "qgis_map_themes", "qgis_crs", "qgis_metadata", "qgis_vector_schema",
     "qgis_geometry_edit", "qgis_vector_indexes", "qgis_vector_joins", "qgis_relations",
     "qgis_snapping", "qgis_vector_select", "qgis_processing_providers",
     "qgis_processing_batch", "qgis_processing_history", "qgis_database",
     "qgis_connection_manage", "qgis_renderer", "qgis_symbol", "qgis_style_library",
     "qgis_labeling", "qgis_layout_items", "qgis_atlas", "qgis_layer_properties",
     "qgis_raster_style", "qgis_mesh", "qgis_point_cloud", "qgis_vector_tiles",
     "qgis_tiled_scene", "qgis_temporal", "qgis_elevation", "qgis_plugins", "qgis_settings",
     "qgis_shortcuts", "qgis_gps", "qgis_3d_views", "qgis_server", "qgis_offline", "qgis_forms",
     "qgis_diagrams", "qgis_annotations", "qgis_geometry_quality", "qgis_vector_export"}

\* enrich_tool_definition: what the annotations tell the client's user.
ReadOnlyHint(tool) == tool \notin MutationTools
===============================================================================
