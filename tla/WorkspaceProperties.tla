------------------------- MODULE WorkspaceProperties ------------------------
(***************************************************************************)
(* What the layout of a workspace guarantees.                              *)
(***************************************************************************)
EXTENDS Workspace

ColumnType ==
    [id : Nat, tiles : Seq(Window), act : Nat, pre : Side \cup {NoSide}, dwindle : BOOLEAN,
     full : BOOLEAN, max : BOOLEAN, src : Nat, leaf : Nat, stuck : BOOLEAN]

(***************************************************************************)
(* Column::verify_invariants (scrolling.rs:6256-6283): only one window or a*)
(* dwindle column is fullscreen or maximized, and the tree of a dwindle    *)
(* column has the focus where the column has it.                           *)
(***************************************************************************)
ColumnsVerified ==
    \A i \in DOMAIN ws.strip.cols :
        LET c == ws.strip.cols[i]
        IN  /\ ModeOf(c) # "normal" => TileCount(c) = 1 \/ c.dwindle
            /\ c.dwindle => TreeFocus(c) = c.act

(***************************************************************************)
(* verify_invariants of workspace, strip, columns and floating layer: every*)
(* window is in one place, columns are not empty and have a focus, only    *)
(* one window or a dwindle column is fullscreen or maximized, the layer    *)
(* has the focus only if it has windows and always when the strip has none,*)
(* dialogs are above their parents, and a window that is resized is there. *)
(* Of the columns what ColumnsVerified asks is asked here but for those    *)
(* that leaving dwindle mode left stuck and those whose tree a swap left   *)
(* with another focus, until the next operation on them puts it right.     *)
(***************************************************************************)
Verified ==
    LET st == ws.strip
        f  == ws.layer
    IN  /\ \A i \in DOMAIN st.cols :
             LET c == st.cols[i]
             IN  /\ c \in ColumnType
                 /\ c.act \in DOMAIN c.tiles
                 /\ ModeOf(c) # "normal" => TileCount(c) = 1 \/ c.dwindle \/ c.stuck
                 /\ c.leaf # 0 => c.dwindle /\ c.leaf \in DOMAIN c.tiles \ {c.act}
        /\ IF st.cols = <<>> THEN st.act = 1 ELSE st.act \in DOMAIN st.cols
        /\ IsInjective(FlattenSeq([i \in DOMAIN st.cols |-> st.cols[i].tiles]) \o f.stack)
        /\ \A i, k \in DOMAIN st.cols :
             st.cols[i].id = st.cols[k].id => i = k \/ st.cols[i].id = NoColumn
        /\ st.prev \in BOOLEAN
        /\ st.resize \in TiledWindows(st) \cup {NoWindow}
        /\ f.resize \in Floats(f) \cup {NoWindow}
        /\ IF f.stack = <<>> THEN f.active = NoWindow ELSE f.active \in Floats(f)
        /\ ChildrenAbove(f, ws.parent)
        /\ ws.floatingActive \in FloatingActive
        /\ f.stack = <<>> => ~FloatingFocused(ws)
        /\ st.cols = <<>> /\ f.stack # <<>> => FloatingFocused(ws)
        /\ ws.display \in RuntimeDisplay
        /\ ws.restore \subseteq WindowsOf(ws)

(***************************************************************************)
(* Opening a window in a column of its own and closing it again leaves the *)
(* workspace and its focus as they were, whatever was the active column    *)
(* (activate_prev_column_on_removal).                                      *)
(***************************************************************************)
OpenCloseRestores ==
    \A w \in Window \ WindowsOf(ws), activate \in BOOLEAN, how \in Placements :
        \A i \in {NextIndex(s)} \cup (IF activate THEN {} ELSE 1..(Len(s.cols) + 1)) :
            LET after == TakeTile(AddTile(s, i, w, "normal", activate, how), w)
            IN  after.cols = s.cols /\ after.act = s.act

(***************************************************************************)
(* Rearranging the windows on the strip keeps the focus on its window, with*)
(* three exceptions: a window that is expelled leaves the focus in its     *)
(* column (expel_from_column), a window that leaves a dwindle column to be *)
(* fullscreen, or comes back from there, takes the focus with it, and a    *)
(* swap that involves a dwindle column of several windows may take back the*)
(* window it has just given (swap_window_in_direction).                    *)
(***************************************************************************)
Arrangement(x) == [i \in DOMAIN x.cols |-> x.cols[i].tiles]
Expelled(before, after, w) ==
    /\ after.act < Len(after.cols) /\ after.cols[after.act + 1].tiles = <<w>>
    /\ FocusedTiled(after) \in ColumnWindows(ActiveColumn(before))
SwappedWithTree(before, after) ==
    \E i \in {before.act - 1, before.act + 1} \cap DOMAIN before.cols, how \in Placements :
        /\ \E c \in {ActiveColumn(before), before.cols[i]} : c.dwindle /\ TileCount(c) > 1
        /\ after = SwapWindow(before, i, how)
RearrangingKeepsFocus == [][
    LET before == s
        after  == ws'.strip
        focus  == FocusedTiled(after)
    IN  /\ Arrangement(before) # Arrangement(after)
        /\ TiledWindows(before) = TiledWindows(after)
        => \/ focus = FocusedTiled(before)
           \/ Expelled(before, after, FocusedTiled(before))
           \/ SwappedWithTree(before, after)
           \/ before.cols[ColumnOf(before, focus)].src # NoColumn
           \/ after.cols[ColumnOf(after, focus)].src # NoColumn]_ws

(***************************************************************************)
(* A window that was made fullscreen goes back to where it was when it no  *)
(* longer is: to the floating layer, or to its dwindle column              *)
(* (restore_to_floating and fullscreen_source_column).  A column that was  *)
(* taken from a dwindle column once and has other windows since is left out*)
(* because set_fullscreen takes any request for the way back.              *)
(***************************************************************************)
Groups(x) == {ColumnWindows(x.strip.cols[i]) : i \in DOMAIN x.strip.cols}
FullscreenReturns ==
    \A w \in WindowsOf(ws), how \in Placements :
        LET away == Fullscreen(ws, w, TRUE, how)
            back == Fullscreen(away, w, FALSE, how)
            tiled == w \in TiledWindows(s)
        IN  /\ ModeIn(ws, w) = "normal"
            /\ tiled => LET c == s.cols[ColumnOf(s, w)] IN c.dwindle /\ c.src = NoColumn
            => /\ ModeIn(away, w) = "fullscreen"
               /\ Floats(back.layer) = Floats(ws.layer)
               /\ Groups(back) = Groups(ws)
=============================================================================
