------------------------------- MODULE Column -------------------------------
(***************************************************************************)
(* What the operations on a column of windows do to its list of tiles and  *)
(* to the focused one (layout/scrolling.rs, Column), for ordinary columns  *)
(* and for dwindle columns, whose tiles are the leaves of a binary tree in *)
(* depth-first order.  Positions start at 1.  A column is a record with    *)
(* at least the fields                                                     *)
(*   tiles  the windows, top to bottom or in depth-first order,            *)
(*   act    the position of the focused one,                               *)
(*   pre    the side preselected for the next window, dwindle only.        *)
(***************************************************************************)
EXTENDS Integers, Sequences, SequencesExt

Side == {"top", "bottom", "left", "right"}
NoSide == "none"
IsFirst(side) == side \in {"top", "left"}   \* the First child of a split

TileCount(c) == Len(c.tiles)
PositionOf(c, w) == SelectInSeq(c.tiles, LAMBDA v : v = w)
FocusedTile(c) == c.tiles[c.act]

\* activate_idx.
ActivateTile(c, i) == [c EXCEPT !.act = i]

\* The focus after the tile at i went away: it stays on its window, and the
\* focus of the window that went moves to the next one, or to the last.
ActAfterRemoval(c, i) ==
    IF i < c.act THEN c.act - 1
    ELSE IF i = c.act /\ i = TileCount(c) THEN i - 1 ELSE c.act

RemoveTile(c, i) ==
    [c EXCEPT !.tiles = RemoveAt(c.tiles, i), !.act = ActAfterRemoval(c, i)]

\* Two tiles of a column trade places; the focus follows the first.
SwapTiles(c, i, j) ==
    [c EXCEPT !.tiles = [@ EXCEPT ![i] = c.tiles[j], ![j] = c.tiles[i]], !.act = j]

\* add_tile_to_dwindle: the new window takes a half of the focused one's
\* region and the focus.  The preselection is used up, unless the option
\* permanent_direction_override keeps it.
OpenBeside(c, w, side, permanent) ==
    LET i == IF IsFirst(side) THEN c.act ELSE c.act + 1
    IN  [c EXCEPT !.tiles = InsertAt(c.tiles, i, w),
                  !.act   = i,
                  !.pre   = IF permanent THEN @ ELSE NoSide]

\* promote_window.  The tree renumbers its leaves before the tiles are
\* sorted by them, so the focus moves to the first tile and no tile moves.
PromoteTile(c) == ActivateTile(c, 1)

\* become_dwindle: a new tree with the same tiles and focus.
RebuildTree(c) == [c EXCEPT !.pre = NoSide]
=============================================================================
