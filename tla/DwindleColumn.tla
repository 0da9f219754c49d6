---------------------------- MODULE DwindleColumn ---------------------------
(***************************************************************************)
(* What a dwindle column promises to the layout: a list of windows, one of *)
(* them focused, on which each operation has an effect that the layout can *)
(* tell without knowing the tree.  DwindleTree implements this.            *)
(***************************************************************************)
EXTENDS Column

CONSTANT Window
VARIABLE column

Fresh == Window \ ToSet(column.tiles)
Positions == DOMAIN column.tiles

Init == \E w \in Window : column = [tiles |-> <<w>>, act |-> 1, pre |-> NoSide]

\* A window opens next to the focused one, on the preselected side if any.
Open == \E w \in Fresh, side \in Side, permanent \in BOOLEAN :
    /\ column.pre \in {side, NoSide}
    /\ column' = OpenBeside(column, w, side, permanent)

Close == \E i \in Positions :
    /\ TileCount(column) > 1
    /\ column' = RemoveTile(column, i)

Focus == \E i \in Positions : column' = ActivateTile(column, i)

Move == \E i \in Positions : column' = SwapTiles(column, column.act, i)

Promote == column' = PromoteTile(column)

Preselect == \E side \in Side : column' = [column EXCEPT !.pre = side]

Rebuild == column' = RebuildTree(column)

Next == Open \/ Close \/ Focus \/ Move \/ Promote \/ Preselect \/ Rebuild

Spec == Init /\ [][Next]_column
=============================================================================
