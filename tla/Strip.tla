-------------------------------- MODULE Strip --------------------------------
(***************************************************************************)
(* The scrolling layout of a workspace (layout/scrolling.rs,               *)
(* ScrollingSpace): columns side by side, one of them active.  Columns are *)
(* those of Column, so what happens inside a dwindle column is what        *)
(* DwindleColumn promises.  The operators take the strip s, a record:      *)
(*   cols    the columns, left to right,                                   *)
(*   act     the position of the active one, 1 when there is none,         *)
(*   prev    whether closing the active column activates the one before    *)
(*           it (activate_prev_column_on_removal),                         *)
(*   resize  the window of the interactive resize, if any.                 *)
(* How a window that is added opens is a record: the side it takes in a    *)
(* dwindle column without a preselection, and whether a column of its own  *)
(* is born dwindle, by the configuration or a window rule.  Besides those  *)
(* of Column, a column has the fields                                      *)
(*   id, src  its id, and that of the dwindle column it was taken from     *)
(*            (fullscreen_source_column), where they are remembered,       *)
(*   dwindle  whether it is displayed as a dwindle column,                 *)
(*   full, max  is_pending_fullscreen and is_pending_maximized,            *)
(*   leaf     the position the tree has the focus at, where a swap has left*)
(*            it at another than act, 0 otherwise,                         *)
(*   stuck    history: leaving dwindle mode has left several windows       *)
(*            fullscreen or maximized.                                     *)
(***************************************************************************)
EXTENDS Column, Folds

CONSTANTS
    Window,
    Permanent,  \* permanent_direction_override
    NoWindow

NoColumn == 0
EmptyStrip == [cols |-> <<>>, act |-> 1, prev |-> FALSE, resize |-> NoWindow]

Mode == {"normal", "maximized", "fullscreen"}
\* pending_sizing_mode.
ModeOf(c) == IF c.full THEN "fullscreen" ELSE IF c.max THEN "maximized" ELSE "normal"

ColumnWindows(c) == ToSet(c.tiles)
TiledWindows(s) == UNION {ColumnWindows(s.cols[i]) : i \in DOMAIN s.cols}
ColumnOf(s, w) == CHOOSE i \in DOMAIN s.cols : w \in ColumnWindows(s.cols[i])
ActiveColumn(s) == s.cols[s.act]
FocusedTiled(s) == IF s.cols = <<>> THEN NoWindow ELSE FocusedTile(ActiveColumn(s))

\* ColumnId::next.  Only ids that a column remembers matter, so a column has
\* none until then.
IdOf(s, i) ==
    LET used == {s.cols[k].id : k \in DOMAIN s.cols} \cup {s.cols[k].src : k \in DOMAIN s.cols}
    IN  IF s.cols[i].id # NoColumn THEN s.cols[i].id
        ELSE CHOOSE n \in 1..(2 * Len(s.cols) + 1) :
                n \notin used /\ \A m \in 1..(n - 1) : m \in used

\* The focus of the tree, activate_idx, and a focus that the tree is not told of.
TreeFocus(c) == IF c.leaf = 0 THEN c.act ELSE c.leaf
Synced(c) == [c EXCEPT !.leaf = 0]
FocusOn(c, i) == IF i = c.act THEN c ELSE Synced(ActivateTile(c, i))
SetFocus(c, i) ==
    [c EXCEPT !.act = i, !.leaf = IF c.dwindle /\ TreeFocus(c) # i THEN TreeFocus(c) ELSE 0]
Promoted(c) == IF c.act = 1 THEN c ELSE Synced(PromoteTile(c))

\* A column is stuck until it has a window less, another mode or another display.
Loosened(c) == [c EXCEPT !.stuck = @ /\ ModeOf(c) # "normal" /\ TileCount(c) > 1 /\ ~c.dwindle]

\* The ids that no column remembers any more.  SubSeq makes the sequence a tuple:
\* TLC's sequence operators ignore an EXCEPT of a function constructor.
Forget(s) == [s EXCEPT !.cols = SubSeq(
    [i \in DOMAIN @ |->
        Loosened([@[i] EXCEPT !.id = IF \E k \in DOMAIN s.cols : s.cols[k].src = @
                                     THEN @ ELSE NoColumn])],
    1, Len(@))]

\* Column::new_with_tile: the window keeps its pending mode.
NewColumn(w, mode, how) ==
    [id |-> NoColumn, tiles |-> <<w>>, act |-> 1, pre |-> NoSide, dwindle |-> how.dwindle,
     full |-> mode = "fullscreen", max |-> mode = "maximized", src |-> NoColumn,
     leaf |-> 0, stuck |-> FALSE]

-----------------------------------------------------------------------------
(* Columns *)

ActivateColumn(s, i) ==
    IF i = s.act THEN s ELSE [s EXCEPT !.act = i, !.prev = FALSE, !.resize = NoWindow]

BadAddColumn(s, i, c, activate) ==
    LET act   == IF s.cols # <<>> /\ i <= s.act THEN s.act + 1 ELSE s.act
        added == [s EXCEPT !.cols = InsertAt(@, i, c), !.act = act]
    IN  IF activate
        THEN [ActivateColumn(added, i) EXCEPT !.prev = s.cols # <<>> /\ i = act]
        ELSE added

\* add_column.
AddColumn(s, i, c, activate) ==
    LET act   == IF s.cols # <<>> /\ i <= s.act THEN s.act + 1 ELSE s.act
        added == [s EXCEPT !.cols = InsertAt(@, i, c), !.act = act]
    IN  IF activate
        THEN [ActivateColumn(added, i) EXCEPT !.prev = s.cols # <<>> /\ i = act + 1]
        ELSE added

\* add_tile, and add_tile without an index.
AddTile(s, i, w, mode, activate, how) == AddColumn(s, i, NewColumn(w, mode, how), activate)
NextIndex(s) == IF s.cols = <<>> THEN 1 ELSE s.act + 1

\* remove_column_by_idx.
RemoveColumn(s, i) ==
    LET n       == Len(s.cols) - 1
        removed == [s EXCEPT
            !.cols   = RemoveAt(@, i),
            !.resize = IF @ \in ColumnWindows(s.cols[i]) THEN NoWindow ELSE @,
            !.prev   = @ /\ i + 1 # s.act]
    IN  IF n = 0 THEN removed
        ELSE IF i < s.act THEN [removed EXCEPT !.act = @ - 1, !.prev = FALSE]
        ELSE IF i = s.act /\ removed.prev
        THEN IF i > 1 THEN ActivateColumn(removed, i - 1) ELSE removed
        ELSE ActivateColumn(removed, IF s.act > n THEN n ELSE s.act)

\* cancel_resize_for_column.
CancelResize(s, i) ==
    [s EXCEPT !.resize = IF @ \in ColumnWindows(s.cols[i]) THEN NoWindow ELSE @]

\* move_column_to.
MoveColumnTo(s, i) ==
    IF i = s.act THEN s
    ELSE ActivateColumn([CancelResize(s, s.act) EXCEPT
                            !.cols = InsertAt(RemoveAt(@, s.act), i, ActiveColumn(s))], i)

-----------------------------------------------------------------------------
(* Windows *)

\* remove_tile_by_idx and remove_tile_from_dwindle.
Taken(s, w) ==
    LET i == ColumnOf(s, w)
        c == s.cols[i]
    IN  IF TileCount(c) = 1 THEN RemoveColumn(s, i)
        ELSE [s EXCEPT !.cols[i] = Synced(RemoveTile(c, PositionOf(c, w))),
                       !.resize = IF @ = w THEN NoWindow ELSE @]
TakeTile(s, w) == Forget(Taken(s, w))

BadInserted(c, j, w, activate, how) ==
    IF c.dwindle
    THEN LET opened == OpenBeside(Synced([c EXCEPT !.act = TreeFocus(c)]), w,
                                  IF c.pre = NoSide THEN how.side ELSE c.pre, Permanent)
         IN  IF activate THEN opened ELSE ActivateTile(opened, c.act)
    ELSE [c EXCEPT !.tiles = InsertAt(@, j, w), !.full = FALSE, !.max = FALSE, !.stuck = FALSE,
                   !.act = IF activate THEN j ELSE IF j <= @ THEN @ + 1 ELSE @]

\* What add_tile_to_column does to the column: a dwindle column decides for
\* itself where, another one leaves fullscreen and maximized.
Inserted(c, j, w, activate, how) ==
    IF c.dwindle
    THEN LET opened == OpenBeside(Synced([c EXCEPT !.act = TreeFocus(c)]), w,
                                  IF c.pre = NoSide THEN how.side ELSE c.pre, Permanent)
         IN  IF activate THEN opened
             ELSE ActivateTile(opened, PositionOf(opened, FocusedTile(c)))
    ELSE [c EXCEPT !.tiles = InsertAt(@, j, w), !.full = FALSE, !.max = FALSE, !.stuck = FALSE,
                   !.act = IF activate THEN j ELSE IF j <= @ THEN @ + 1 ELSE @]

\* add_tile_to_column.
AddTileToColumn(s, i, j, w, activate, how) ==
    LET added == [s EXCEPT !.cols[i] = Inserted(@, j, w, activate, how)]
    IN  IF activate THEN ActivateColumn(added, i) ELSE added
AppendTile(s, i, w, activate, how) ==
    AddTileToColumn(s, i, TileCount(s.cols[i]) + 1, w, activate, how)

\* open_dwindle_column_at_active_plus_one.
OpenPage(s, w, mode, activate, how) ==
    AddTile(s, s.act + 1, w, mode, activate, [how EXCEPT !.dwindle = TRUE])

IsFocused(s, w) == FocusedTiled(s) = w

\* consume_or_expel_window_left and _right, for a column that is not dwindle.
ConsumeOrExpelLeft(s, w, how) ==
    LET i == ColumnOf(s, w)
        c == s.cols[i]
        focused == IsFocused(s, w)
    IN  IF TileCount(c) > 1
        THEN LET moved == AddTile(TakeTile(s, w), i, w, ModeOf(c), focused, how)
             IN  [moved EXCEPT !.prev = @ /\ ~focused]
        ELSE IF i = 1 THEN s
        ELSE AppendTile(TakeTile([s EXCEPT !.prev = @ \/ focused], w), i - 1, w, focused, how)

ConsumeOrExpelRight(s, w, how) ==
    LET i == ColumnOf(s, w)
        c == s.cols[i]
        focused == IsFocused(s, w)
    IN  IF TileCount(c) > 1
        THEN AddTile(TakeTile(s, w), i + 1, w, ModeOf(c), focused, how)
        ELSE IF i = Len(s.cols) THEN s
        ELSE AppendTile(TakeTile([s EXCEPT !.prev = @ /\ ~focused], w), i, w, focused, how)

\* consume_into_column.
ConsumeIntoColumn(s, how) ==
    LET w == s.cols[s.act + 1].tiles[1]
    IN  AppendTile(TakeTile(s, w), s.act, w, FALSE, how)

\* swap_window_in_direction; i is the neighbour of the active column.  What comes
\* back from there is the tile below the place of the focused one, wherever a dwindle
\* column has put the one it got.
SwapWindow(s, i, how) ==
    LET source == ActiveColumn(s)
        target == s.cols[i]
        drained == TileCount(source) = 1
        v == FocusedTile(source)
        k == IF drained /\ i > s.act THEN i - 1 ELSE i
        given == AddTileToColumn(TakeTile(s, v), k, target.act, v, FALSE, how)
        w == given.cols[k].tiles[target.act + 1]
        freed == TakeTile(given, w)
        back  == IF drained THEN AddTile(freed, s.act, w, ModeOf(given.cols[k]), TRUE, how)
                 ELSE AddTileToColumn(freed, s.act, source.act, w, FALSE, how)
    IN  IF drained /\ TileCount(target) = 1 THEN MoveColumnTo(s, i)
        ELSE ActivateColumn([back EXCEPT !.cols[s.act] = SetFocus(@, source.act),
                                         !.cols[i] = SetFocus(@, target.act)], i)

-----------------------------------------------------------------------------
(* Fullscreen, maximized and the display of columns *)

\* The part of set_fullscreen for a column that was taken out of a dwindle
\* column: its first window goes back, if that column is still there.
ReturnToSource(s, i, how) ==
    LET c == s.cols[i]
        w == c.tiles[1]
        taken == Taken([s EXCEPT !.cols[i].src = NoColumn], w)
        home  == {k \in DOMAIN taken.cols : taken.cols[k].id = c.src}
        at    == IF i > Len(taken.cols) THEN Len(taken.cols) + 1 ELSE i
    IN  Forget(IF home = {} THEN AddTile(taken, at, w, ModeOf(c), TRUE, how)
               ELSE AppendTile(taken, CHOOSE k \in home : TRUE, w, TRUE, how))

BadExtracted(s, i, w, how) ==
    LET taken == TakeTile(s, w)
    IN  AddTile(taken, i + 1, w, ModeOf(s.cols[i]), TRUE, how)

\* A window of a dwindle column becomes fullscreen in a column of its own.
Extracted(s, i, w, how) ==
    LET taken == TakeTile(s, w)
        added == AddTile(taken, i + 1, w, ModeOf(s.cols[i]), TRUE, how)
    IN  [added EXCEPT !.cols[i].id = IdOf(s, i), !.cols[i + 1].src = IdOf(s, i)]

SetFullscreen(s, w, fullscreen, how) ==
    LET i == ColumnOf(s, w)
        c == s.cols[i]
        ready == CancelResize(s, i)
        alone == IF ~fullscreen \/ TileCount(c) = 1 THEN ready
                 ELSE IF c.dwindle THEN Extracted(ready, i, w, how)
                 ELSE ConsumeOrExpelRight(ready, w, how)
    IN  IF c.src # NoColumn THEN ReturnToSource(s, i, how)
        ELSE IF fullscreen = c.full THEN s
        ELSE [alone EXCEPT !.cols[ColumnOf(alone, w)] = Loosened([@ EXCEPT !.full = fullscreen])]

SetMaximized(s, w, maximize, how) ==
    LET i == ColumnOf(s, w)
        c == s.cols[i]
        ready == CancelResize(s, i)
        alone == IF maximize /\ TileCount(c) > 1 /\ ~c.dwindle
                 THEN ConsumeOrExpelRight(ready, w, how) ELSE ready
    IN  IF maximize = c.max THEN s
        ELSE [alone EXCEPT !.cols[ColumnOf(alone, w)] = Loosened([@ EXCEPT !.max = maximize])]

\* make_column_dwindle_exclusive.
MakeExclusive(s, i, how) ==
    LET others   == SelectSeq([k \in DOMAIN s.cols |-> k], LAMBDA k : k # i)
        alone    == FoldRight(LAMBDA k, rest : RemoveColumn(rest, k), others, s)
        incoming == FlattenSeq([k \in DOMAIN others |-> Reverse(s.cols[others[k]].tiles)])
        filled   == FoldLeft(LAMBDA rest, w : AppendTile(rest, 1, w, FALSE, how), alone, incoming)
    IN  IF Len(s.cols) = 1 THEN s
        ELSE [filled EXCEPT !.cols[1] =
                FocusOn(@, PositionOf(@, FocusedTile(s.cols[i])))]

\* Column::set_column_display.
Displayed(c, dwindle, stuck) ==
    [Synced(RebuildTree(c)) EXCEPT !.dwindle = dwindle,
                                   !.stuck = ~dwindle /\ stuck /\ ModeOf(c) # "normal"]

\* set_column_display_at.  A column that a window left a dwindle column for keeps the
\* mark when other windows join it: where dwindle mode is left, set_fullscreen returns
\* its first window and the others stay as they are.
Marked(c) == c.src # NoColumn /\ TileCount(c) > 2
SetColumnDisplayAt(s, i, dwindle, how) ==
    LET c       == s.cols[i]
        changed == [CancelResize(s, i) EXCEPT !.cols[i] = Displayed(@, dwindle, Marked(c))]
        w       == FocusedTile(c)
    IN  IF dwindle = c.dwindle THEN s
        ELSE IF dwindle THEN Forget(MakeExclusive(changed, i, how))
        ELSE IF TileCount(c) > 1
        THEN SetMaximized(SetFullscreen(changed, w, FALSE, how), w, FALSE, how)
        ELSE changed

\* expel_from_column: the bottom window, or the focused one of a dwindle
\* column, which is no dwindle column from then on but is as fullscreen as before.
ExpelFromColumn(s, how) ==
    LET c == ActiveColumn(s)
        w == c.tiles[IF c.dwindle THEN c.act ELSE TileCount(c)]
        taken == TakeTile(s, w)
        left  == IF c.dwindle
                 THEN [taken EXCEPT !.cols[s.act] = Displayed(@, FALSE, TileCount(@) > 1)]
                 ELSE taken
        added == AddTile(left, s.act + 1, w, ModeOf(c), FALSE, how)
    IN  IF c.dwindle THEN SetColumnDisplayAt(added, s.act + 1, FALSE, how) ELSE added

\* The operations on the width or height of a column end maximizing.
ChangeSize(s, i) == 
    [CancelResize(s, i) EXCEPT !.cols[i] = Loosened([@ EXCEPT !.max = FALSE])]

-----------------------------------------------------------------------------
(* Focus *)

\* activate_window.
ActivateTiled(s, w) ==
    LET i == ColumnOf(s, w)
    IN  ActivateColumn([s EXCEPT !.cols[i] = FocusOn(@, PositionOf(@, w))], i)
=============================================================================
