--------------------------- MODULE CartographyScripts ---------------------------
(***************************************************************************)
(* The scripts of the handlers for the layer tree, styles, labels and      *)
(* layouts: cartography.py and advanced_cartography.py, in the notation of *)
(* ProjectScripts.                                                         *)
(***************************************************************************)
EXTENDS ProjectScripts

(* ----------------------------- cartography.py ---------------------------- *)

\* A created layer is added first, and the group it goes to is created then,
\* before the place in it is read; remove_group takes the group away first.
LayerManage == Method("layer.manage",
    {<<"check", "layers", "project", "check", "project", "touch">>,
     <<"check", "project", "touch">>,
     <<"check", "project", "check", "project", "touch">>,
     <<"check", "project", "layers", "touch">>})

\* The renderer is built apart and set at the end. A raster layer is left to
\* raster_style, which sets the opacity before it looks at the band.
CartographyStyle == Method("cartography.style",
    {<<"check", "project", "touch">>, <<"check", "project", "check", "project", "touch">>})

CartographyLabels == Method("cartography.labels", {<<"check", "project", "touch">>})

\* A new layout is added when it is complete. export makes the directory of its
\* path, then may fail with the file half written.
LayoutExecute == Method("layout.execute",
    {<<"check", "project", "touch">>, <<"check", "disk", "check", "disk", "check", "touch">>})

(* ------------------------- advanced_cartography.py ----------------------- *)

\* save_qml returns without touching.
CartographyRenderer == Method("cartography.renderer",
    {<<"check", "project", "touch">>, <<"check", "project", "check", "touch">>,
     <<"check", "disk", "check">>})

\* Colour, opacity and sizes are set as each is parsed.
CartographySymbol == Method("cartography.symbol",
    {<<"check", "project", "check", "project", "touch">>})

StyleLibrary == Method("style.library",
    {<<"check", "profile", "check", "touch">>, <<"check", "disk", "check", "touch">>})

CartographyLabeling == Method("cartography.labeling", {<<"check", "project", "touch">>})

\* An added item is in the layout before the rest of the request is read.
LayoutItem == Method("layout.item",
    {<<"check", "project", "check", "project", "touch">>, <<"check", "project", "touch">>})

LayoutAtlas == Method("layout.atlas", {<<"check", "project", "check", "project", "touch">>})

CartographyCalls ==
    UNION {LayerManage, CartographyStyle, CartographyLabels, LayoutExecute,
           CartographyRenderer, CartographySymbol, StyleLibrary, CartographyLabeling,
           LayoutItem, LayoutAtlas}
===============================================================================
