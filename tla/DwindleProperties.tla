-------------------------- MODULE DwindleProperties -------------------------
(***************************************************************************)
(* What the tree of a dwindle column guarantees, and that it implements    *)
(* the list of windows the layout sees.                                    *)
(***************************************************************************)
EXTENDS DwindleTree

(***************************************************************************)
(* The tree and the list agree (Column::verify_invariants): every leaf     *)
(* holds its position, the tree's focus is the column's, and every split   *)
(* has two children.                                                       *)
(***************************************************************************)
TypeOK ==
    /\ tiles \in Seq(Window) /\ tiles # <<>> /\ IsInjective(tiles)
    /\ activeTile \in DOMAIN tiles
    /\ DOMAIN leaf \cap DOMAIN split = {}
    /\ DOMAIN leaf \cup DOMAIN split =
         {<<>>} \cup {Append(p, child) : p \in DOMAIN split, child \in {First, Second}}
    /\ \A p \in DOMAIN split : split[p].axis \in Axis /\ split[p].ratio \in MinRatio..MaxRatio
    /\ Cardinality(DOMAIN leaf) = Len(tiles)
    /\ leaf = Reindexed(leaf)
    /\ active = LeafPaths(leaf)[activeTile]
    /\ preselect \in Side \cup {NoSide}

(***************************************************************************)
(* A leaf has a neighbour across exactly those edges that are dividers of  *)
(* the tree, so that moving the focus or a window stops only at the        *)
(* column's border (spatial_neighbor and the doc of adjust_ratio_for_edge).*)
(***************************************************************************)
NeighboursAcrossDividers ==
    \A p \in DOMAIN leaf, side \in Side :
        Neighbours(p, side) = {} <=> EdgeSplits(p, side) = {}

(***************************************************************************)
(* Every window of the column can be reached from every other one with the *)
(* four directions (focus_dwindle_direction).                              *)
(***************************************************************************)
AllReachable ==
    LET beside == UNION {{p} \X Neighbours(p, side) : p \in DOMAIN leaf, side \in Side}
    IN  \A some \in SUBSET DOMAIN leaf \ {{}, DOMAIN leaf} :
            \E e \in beside : e[1] \in some /\ e[2] \notin some

(***************************************************************************)
(* After any operation the tree is well-formed, and its four directions    *)
(* stop only at the border and lead everywhere.                            *)
(***************************************************************************)
TreeSound == TypeOK /\ NeighboursAcrossDividers /\ AllReachable

(***************************************************************************)
(* Operations are local (move_dwindle_direction: a window never teleports):*)
(* a window that opens takes the space of one other, a window that closes  *)
(* only gives space away, a move exchanges two windows' places.            *)
(***************************************************************************)
Places == {<<tiles[leaf[p]], RectOf(p)>> : p \in DOMAIN leaf}
StepsAreLocal == [][
    LET before == Places
        after  == Places'
        moved  == {place \in after \ before : place[1] \in ToSet(tiles)}
    IN  CASE Len(tiles') > Len(tiles) -> Cardinality(moved) <= 1
          [] Len(tiles') < Len(tiles) -> \A new \in moved : \E old \in before :
                 old[1] = new[1] /\ new[2].w >= old[2].w /\ new[2].h >= old[2].h
          [] tiles' # tiles           -> /\ Cardinality(moved) = 2
                                         /\ {old[2] : old \in before} = {new[2] : new \in after}
          [] OTHER                    -> TRUE]_vars

(***************************************************************************)
(* The tree implements the column that the layout sees.                    *)
(***************************************************************************)
seen == [tiles |-> tiles, act |-> activeTile, pre |-> preselect]
Seen == INSTANCE DwindleColumn WITH column <- seen
ImplementsColumn == Seen!Spec

=============================================================================
