------------------------------ MODULE MCTiling ------------------------------
(***************************************************************************)
(* Instances of the tiled layout for TLC, two scenes of one system: the    *)
(* tree of a dwindle column by itself, with more windows, and a workspace  *)
(* whose dwindle columns are what the tree is shown to implement.          *)
(***************************************************************************)
EXTENDS WorkspaceProperties

CONSTANTS
    Scenes,
    TreeWindow,   \* the windows of the tree, more than those of the workspace
    MaxBesides

VARIABLES scene, tiles, activeTile, leaf, split, active, preselect

MCRatios == {6}
MCOptions == LET default == [ratio |-> 10, bias |-> FALSE, force |-> "auto", smart |-> FALSE,
                             multiplier |-> 10, permanent |-> FALSE]
             IN  {[default EXCEPT !.smart = TRUE, !.ratio = 14],
                  [default EXCEPT !.permanent = TRUE, !.force = "first", !.ratio = 14, !.bias = TRUE]}
MCPlacements == {[side |-> "right", dwindle |-> FALSE]}
Symmetry == Permutations(TreeWindow)

Tree == INSTANCE DwindleProperties
          WITH Window <- TreeWindow, Options <- MCOptions, Ratios <- MCRatios,
               ContentW <- 1261, ContentH <- 800, Gaps <- 8, MinSize <- 100

\* A preselection is not pursued once every window is open.
TreeBounded == ToSet(tiles) = TreeWindow => preselect = NoSide

\* How many things there are besides windows: columns that are fullscreen or
\* maximized but not stuck, the normal display chosen for the session, windows
\* that return to the floating layer or are resized, columns that have a side
\* preselected, and, when windows are tiled, windows that float or have a parent;
\* where there are any of these last ones, also the dwindle display chosen.
Besides(x) ==
    LET cols  == x.strip.cols
        sized == Cardinality({i \in DOMAIN cols : cols[i].full /\ ~cols[i].stuck})
                 + Cardinality({i \in DOMAIN cols : cols[i].max /\ ~cols[i].stuck})
        other == Cardinality(x.restore)
                 + Cardinality({x.layer.resize, x.strip.resize} \ {NoWindow})
                 + Cardinality({i \in DOMAIN cols : cols[i].pre # NoSide})
                 + IF cols = <<>> THEN 0
                   ELSE Len(x.layer.stack) + Cardinality({w \in Window : x.parent[w] # NoWindow})
        display == CASE x.display = "normal"  -> 1
                     [] x.display = "dwindle" -> IF other > 0 THEN 1 ELSE 0
                     [] x.display = "none"    -> 0
    IN  sized + other + display

\* The scene that is not played stands still, and tells no windows apart.
TreeVars == <<tiles, activeTile, leaf, split, active, preselect>>
TreeInit == /\ Tree!Init
            /\ ws = [strip |-> EmptyStrip, layer |-> EmptyLayer, floatingActive |-> "no",
                     display |-> "none", restore |-> {}, parent |-> <<>>]
TreeNext == Tree!Next /\ TreeBounded' /\ UNCHANGED ws
WorkspaceInit == Init /\ Tree!Init /\ tiles[1] \notin Window
WorkspaceNext == Next /\ Besides(ws') <= MaxBesides /\ UNCHANGED TreeVars

MCInit == scene \in Scenes /\ IF scene = "tree" THEN TreeInit ELSE WorkspaceInit
MCNext == UNCHANGED scene /\ IF scene = "tree" THEN TreeNext ELSE WorkspaceNext
MCSpec == MCInit /\ [][MCNext]_<<ws, scene, TreeVars>>

(***************************************************************************)
(* The tree is sound, its operations are local, and it implements the list *)
(* of windows that Strip works on (DwindleProperties).  The scene is named *)
(* for TLC's sake, which else compares the steps of a workspace, too.      *)
(***************************************************************************)
TreeSound == Tree!TreeSound
StepsAreLocal == Tree!StepsAreLocal
ColumnSeen == Tree!seen
ImplementsColumn == Tree!Seen!Init /\ [][scene = "tree" => Tree!Seen!Next]_ColumnSeen
=============================================================================
