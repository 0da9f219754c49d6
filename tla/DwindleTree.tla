----------------------------- MODULE DwindleTree ----------------------------
(***************************************************************************)
(* A dwindle column with its tree (layout/dwindle.rs and the functions of  *)
(* layout/scrolling.rs that call it).  A node of the tree is the path to   *)
(* it, a sequence of First and Second; the leaves hold positions in the    *)
(* list of tiles.  Ratios are tenths, sizes are whole pixels.              *)
(***************************************************************************)
EXTENDS Column, FiniteSetsExt, Functions

CONSTANTS
    Window,
    Options,     \* the dwindle options a configuration may have
    Ratios,      \* the ratios a drag may leave behind, in tenths
    ContentW, ContentH, Gaps, MinSize

First == 1
Second == 2
Other(child) == 3 - child
Axis == {"vertical", "horizontal"}
MinRatio == 1
MaxRatio == 19
DefaultOptions ==
    [ratio |-> 10, bias |-> FALSE, force |-> "auto", smart |-> FALSE,
     multiplier |-> 10, permanent |-> FALSE]

VARIABLES
    tiles,       \* the windows of the column
    activeTile,  \* active_tile_idx
    leaf,        \* the position that each leaf holds
    split,       \* the axis and the ratio of each split
    active,      \* the path of the tree's active leaf
    preselect

vars == <<tiles, activeTile, leaf, split, active, preselect>>
tree == <<leaf, split, active>>

SideAxis(side) == IF side \in {"top", "bottom"} THEN "horizontal" ELSE "vertical"
SideChild(side) == IF IsFirst(side) THEN First ELSE Second
Flipped(axis) == IF axis = "vertical" THEN "horizontal" ELSE "vertical"
ClampRatio(r) == IF r < MinRatio THEN MinRatio ELSE IF r > MaxRatio THEN MaxRatio ELSE r
NonNeg(n) == IF n < 0 THEN 0 ELSE n
Least(m, n) == IF m < n THEN m ELSE n
Most(m, n) == IF m < n THEN n ELSE m

-----------------------------------------------------------------------------
(* Paths.  The functions take the tree's leaves and splits as lf and sp. *)

Under(q, p) == IsPrefix(p, q)

\* Leaf paths in depth-first order.
Precedes(p, q) == \E k \in DOMAIN p \cap DOMAIN q :
    /\ \A j \in 1..(k - 1) : p[j] = q[j]
    /\ p[k] < q[k]
Position(lf, p) == Cardinality({q \in DOMAIN lf : Precedes(q, p)}) + 1
LeafPaths(lf) == [i \in 1..Cardinality(DOMAIN lf) |-> CHOOSE p \in DOMAIN lf : Position(lf, p) = i]

DfsOrder(lf) == LET paths == LeafPaths(lf) IN [i \in DOMAIN paths |-> lf[paths[i]]]

\* reindex: every leaf gets its position.
Reindexed(lf) == [p \in DOMAIN lf |-> Position(lf, p)]

\* set_active_at.
SetActiveAt(lf, i) == LeafPaths(lf)[i]

\* Where open_leaf_at splits: the leaf on the way if the path goes deeper
\* than the tree, the first leaf below if it ends at a split.
OpenTarget(lf, path) ==
    IF \E l \in DOMAIN lf : Under(path, l)
    THEN CHOOSE l \in DOMAIN lf : Under(path, l)
    ELSE CHOOSE l \in DOMAIN lf :
            Under(l, path) /\ \A k \in (Len(path) + 1)..Len(l) : l[k] = First

BadOpenLeafs(lf, l, child, value) ==
    [p \in (DOMAIN lf \ {l}) \cup {Append(l, First), Append(l, Second)} |->
        IF p = Append(l, Second) THEN value
        ELSE IF p = Append(l, First) THEN lf[l] ELSE lf[p]]

\* open_leaf_at: the leaf at l becomes a split, with the new leaf on one side.
OpenLeafs(lf, l, child, value) ==
    [p \in (DOMAIN lf \ {l}) \cup {Append(l, First), Append(l, Second)} |->
        IF p = Append(l, child) THEN value
        ELSE IF p = Append(l, Other(child)) THEN lf[l] ELSE lf[p]]
OpenSplits(sp, l, axis, ratio) ==
    [p \in DOMAIN sp \cup {l} |-> IF p = l THEN [axis |-> axis, ratio |-> ratio] ELSE sp[p]]

\* remove_leaf: the sibling subtree takes the place of the leaf's container.
Collapsed(f, path) ==
    LET container == Front(path)
        sibling   == Append(container, Other(Last(path)))
        lift(p)   == IF Under(p, sibling) THEN RemoveAt(p, Len(path)) ELSE p
        lower(p)  == IF Under(p, container) THEN InsertAt(p, Len(path), Other(Last(path))) ELSE p
    IN  [p \in {lift(q) : q \in DOMAIN f \ {path, container}} |-> f[lower(p)]]

-----------------------------------------------------------------------------
(* Geometry *)

Rect == [x : Nat, y : Nat, w : Nat, h : Nat]
Content(w, h) == [x |-> 0, y |-> 0, w |-> w, h |-> h]

\* split_rect: the First child's extent is floored, the Second gets the rest.
FirstExtent(extent, ratio, gaps) == (NonNeg(extent - gaps) * ratio) \div 20
SplitRect(r, s, child, gaps) ==
    LET extent  == IF s.axis = "vertical" THEN r.w ELSE r.h
        first   == FirstExtent(extent, s.ratio, gaps)
        second  == NonNeg(extent - gaps) - first
        offset  == IF child = First THEN 0 ELSE Least(first + gaps, extent - second)
        size    == IF child = First THEN first ELSE second
    IN  IF s.axis = "vertical" THEN [r EXCEPT !.x = @ + offset, !.w = size]
                               ELSE [r EXCEPT !.y = @ + offset, !.h = size]

\* solve_impl, for one path.
RectIn(sp, path, content, gaps) ==
    LET rect[k \in 0..Len(path)] ==
            IF k = 0 THEN content
            ELSE SplitRect(rect[k - 1], sp[SubSeq(path, 1, k - 1)], path[k], gaps)
    IN  rect[Len(path)]
RectOf(path) == RectIn(split, path, Content(ContentW, ContentH), Gaps)

Overlap(a, la, b, lb) == NonNeg(Least(a + la, b + lb) - Most(a, b))

BadEdgeDistance(a, b, side) ==
    CASE side = "right"  -> b.x - (a.x + a.w)
      [] side = "left"   -> a.x - b.x
      [] side = "bottom" -> b.y - (a.y + a.h)
      [] side = "top"    -> a.y - b.y
\* The distance from a to b across a's edge on that side, and the length of
\* the edge they share.
EdgeDistance(a, b, side) ==
    CASE side = "right"  -> b.x - (a.x + a.w)
      [] side = "left"   -> a.x - (b.x + b.w)
      [] side = "bottom" -> b.y - (a.y + a.h)
      [] side = "top"    -> a.y - (b.y + b.h)
EdgeOverlap(a, b, side) ==
    IF SideAxis(side) = "vertical" THEN Overlap(a.y, a.h, b.y, b.h)
                                   ELSE Overlap(a.x, a.w, b.x, b.w)

\* spatial_neighbor: among the leaves across the edge the one that shares
\* most of it, then the closest, then the first.
Neighbours(from, side) ==
    LET rect == [p \in DOMAIN leaf |-> RectOf(p)]
        dist(p) == EdgeDistance(rect[from], rect[p], side)
        over(p) == EdgeOverlap(rect[from], rect[p], side)
        near == {p \in DOMAIN leaf \ {from} :
                    dist(p) \in (-(Gaps + 1))..(Gaps + 1) /\ over(p) > 0}
        better(p, q) == \/ over(p) > over(q)
                        \/ over(p) = over(q) /\ dist(p) < dist(q)
                        \/ over(p) = over(q) /\ dist(p) = dist(q) /\ Precedes(p, q)
    IN  {p \in near : \A q \in near \ {p} : better(p, q)}

-----------------------------------------------------------------------------
(* Opening and closing windows *)

\* resolve_default_side, for a cursor anywhere over the region.
DefaultSides(o, region) ==
    IF o.force = "auto" /\ o.smart THEN Side
    ELSE LET second == o.force # "first"
         IN  {IF region.h * o.multiplier > 10 * region.w THEN (IF second THEN "bottom" ELSE "top")
                                     ELSE (IF second THEN "right" ELSE "left")}

ActiveRegion ==
    IF active \in DOMAIN leaf THEN RectIn(split, active, Content(ContentW, ContentH), 0)
                              ELSE Content(ContentW, ContentH)

NewRatio(o, side) ==
    IF o.bias /\ IsFirst(side) THEN ClampRatio(20 - ClampRatio(o.ratio)) ELSE ClampRatio(o.ratio)

BadReordered(ts, lf) ==
    /\ tiles' = ts
    /\ leaf' = Reindexed(lf)

\* reorder_tiles_by_dfs, after the tiles and the leaves became ts and lf.
Reordered(ts, lf) ==
    /\ tiles' = LET order == DfsOrder(lf) IN [i \in DOMAIN ts |-> ts[order[i]]]
    /\ leaf' = Reindexed(lf)

\* add_tile_to_dwindle and open_new.
Open == \E w \in Window \ ToSet(tiles), o \in Options :
    \E side \in IF preselect # NoSide THEN {preselect} ELSE DefaultSides(o, ActiveRegion) :
        LET l     == OpenTarget(leaf, active)
            child == SideChild(side)
        IN  /\ Reordered(Append(tiles, w), OpenLeafs(leaf, l, child, Len(tiles) + 1))
            /\ split' = OpenSplits(split, l, SideAxis(side), NewRatio(o, side))
            /\ active' = Append(l, child)
            /\ activeTile' = leaf'[active']
            /\ preselect' = IF o.permanent THEN preselect ELSE NoSide

\* remove_tile_from_dwindle: expel_at, then the tree follows the tiles.
Close == \E i \in DOMAIN tiles :
    LET path == LeafPaths(leaf)[i]
    IN  /\ Len(tiles) > 1
        /\ leaf' = Reindexed(Collapsed(leaf, path))
        /\ split' = Collapsed(split, path)
        /\ tiles' = RemoveAt(tiles, i)
        /\ activeTile' = CASE i < activeTile -> activeTile - 1
                           [] i = activeTile /\ i = Len(tiles) -> i - 1
                           [] OTHER -> activeTile
        /\ active' = SetActiveAt(leaf', activeTile')
        /\ UNCHANGED preselect

-----------------------------------------------------------------------------
(* Focus and order *)

\* activate_idx, which does nothing for the tile that is active already.
ActivateIdx(i) ==
    /\ i # activeTile
    /\ activeTile' = i
    /\ active' = SetActiveAt(leaf, i)
    /\ UNCHANGED <<tiles, leaf, split, preselect>>

Activate == \E i \in DOMAIN tiles : ActivateIdx(i)

\* spatial_neighbor_idx.
NeighbourIdx(i, side) ==
    {j \in DOMAIN tiles : LeafPaths(leaf)[j] \in Neighbours(LeafPaths(leaf)[i], side)}

\* focus_dwindle_direction.
FocusDirection == \E side \in Side : \E i \in NeighbourIdx(activeTile, side) : ActivateIdx(i)

\* swap_leaves.
SwappedLeaves(a, b) == [leaf EXCEPT ![a] = leaf[b], ![b] = leaf[a]]

\* move_dwindle_direction: swap_at, then the tiles follow the tree.
MoveDirection == \E side \in Side : \E j \in NeighbourIdx(activeTile, side) :
    LET a == LeafPaths(leaf)[activeTile]
        b == LeafPaths(leaf)[j]
    IN  /\ Reordered(tiles, SwappedLeaves(a, b))
        /\ active' = b
        /\ activeTile' = leaf'[b]
        /\ UNCHANGED <<split, preselect>>

\* promote_window: promote_at swaps the values, moves the focus to the head
\* and renumbers the leaves before the tiles are sorted by them.
Promote ==
    LET path == LeafPaths(leaf)[activeTile]
        head == LeafPaths(leaf)[1]
    IN  /\ path # head
        /\ active' = head
        /\ Reordered(tiles, Reindexed(SwappedLeaves(path, head)))
        /\ activeTile' = leaf'[active']
        /\ UNCHANGED <<split, preselect>>

Preselect == \E side \in Side : preselect' = side /\ UNCHANGED <<tiles, activeTile, tree>>

\* toggle_split.
ToggleSplit ==
    LET path == LeafPaths(leaf)[activeTile]
    IN  /\ path # <<>>
        /\ split' = [split EXCEPT ![Front(path)].axis = Flipped(@)]
        /\ UNCHANGED <<tiles, activeTile, leaf, active, preselect>>

-----------------------------------------------------------------------------
(* Dragging dividers *)

\* subtree_min, for windows of one minimal size: how many leaves lie side by
\* side along the axis.
Abreast(p, axis) ==
    LET count[k \in 0..Len(tiles), q \in DOMAIN leaf \cup DOMAIN split] ==
            IF k = 0 \/ q \in DOMAIN leaf THEN 1
            ELSE LET f == count[k - 1, Append(q, First)]
                     s == count[k - 1, Append(q, Second)]
                 IN  IF split[q].axis = axis THEN f + s ELSE Most(f, s)
    IN  count[Len(tiles), p]
MinOf(p, child) == MinSize * Abreast(Append(p, child), split[p].axis)
Usable(p) == (IF split[p].axis = "vertical" THEN RectOf(p).w ELSE RectOf(p).h) - Gaps

\* Whether the clamp of adjust_ratio_for_edge_impl leaves the ratio r, in
\* tenths, and whether it leaves any.
Allows(p, r) ==
    /\ r \in MinRatio..MaxRatio
    /\ r * Usable(p) >= 20 * MinOf(p, First)
    /\ r * Usable(p) <= 20 * (Usable(p) - MinOf(p, Second))
AllowsSome(p) ==
    /\ Usable(p) > 0
    /\ MinOf(p, First) + MinOf(p, Second) <= Usable(p)
    /\ 20 * Most(MinOf(p, First), MinOf(p, Second)) <= MaxRatio * Usable(p)

\* The splits whose divider may be the leaf's edge on that side, and the one
\* that a drag of the edge moves: the deepest that has room to move.
EdgeSplits(path, side) == {SubSeq(path, 1, k) : k \in
    {k \in 0..(Len(path) - 1) :
        /\ split[SubSeq(path, 1, k)].axis = SideAxis(side)
        /\ path[k + 1] = IF IsFirst(side) THEN Second ELSE First}}
Deepest(ps) == {p \in ps : \A q \in ps : Len(q) <= Len(p)}
DraggedSplits(path, side) == Deepest({p \in EdgeSplits(path, side) : AllowsSome(p)})

\* interactive_resize_update_dwindle and adjust_ratio_for_edge.
DragDivider == \E i \in DOMAIN tiles, side \in Side, r \in Ratios :
    \E p \in DraggedSplits(LeafPaths(leaf)[i], side) :
        /\ Allows(p, r)
        /\ split' = [split EXCEPT ![p].ratio = r]
        /\ UNCHANGED <<tiles, activeTile, leaf, active, preselect>>

-----------------------------------------------------------------------------
(* The tree of a column *)

\* become_dwindle: each window is opened below the one before.
ChainPath(n, i) == IF i = n THEN [k \in 1..(n - 1) |-> Second]
                            ELSE Append([k \in 1..(i - 1) |-> Second], First)
Rebuild ==
    LET n == Len(tiles)
    IN  /\ leaf' = [p \in {ChainPath(n, i) : i \in 1..n} |->
                        CHOOSE i \in 1..n : p = ChainPath(n, i)]
        /\ split' = [p \in {[k \in 1..i |-> Second] : i \in 0..(n - 2)} |->
                        [axis |-> "horizontal", ratio |-> DefaultOptions.ratio]]
        /\ active' = ChainPath(n, activeTile)
        /\ preselect' = NoSide
        /\ UNCHANGED <<tiles, activeTile>>

Init == \E w \in Window :
    /\ tiles = <<w>> /\ activeTile = 1
    /\ leaf = (<<>> :> 1) /\ split = [p \in {} |-> 0] /\ active = <<>>
    /\ preselect = NoSide

Next == \/ Open \/ Close \/ Activate \/ FocusDirection \/ MoveDirection \/ Promote
        \/ Preselect \/ ToggleSplit \/ DragDivider \/ Rebuild

Spec == Init /\ [][Next]_vars
=============================================================================
