------------------------------ MODULE Workspace ------------------------------
(***************************************************************************)
(* The windows of one workspace (layout/workspace.rs): those tiled on the  *)
(* strip, those floating above it, and which of the two has the focus.     *)
(* Every handler is an operator on the workspace's record; the actions     *)
(* choose its arguments.                                                   *)
(***************************************************************************)
EXTENDS Strip, FloatingStack, FiniteSetsExt

CONSTANTS
    Placements,  \* how windows that are added may open, see Strip
    Preselections,
    PageSize     \* dwindle_windows_per_column

ASSUME PageSizeAssumption == PageSize \in Nat \ {0}

VARIABLE ws
(***************************************************************************)
(*   strip, layer    the tiled and the floating windows                    *)
(*   floatingActive  whether the floating layer has the focus, or was      *)
(*                   left above the strip by focus that follows the mouse  *)
(*   display         the column display chosen for the session             *)
(*   restore         windows that return to the layer when they are no     *)
(*                   longer fullscreen or maximized                        *)
(*   parent          the parents of the windows' toplevels                 *)
(***************************************************************************)

FloatingActive == {"no", "noButRaised", "yes"}
RuntimeDisplay == {"none", "normal", "dwindle"}
Activate == {"yes", "no", "smart"}

FloatingFocused(x) == x.floatingActive = "yes"
WindowsOf(x) == TiledWindows(x.strip) \cup Floats(x.layer)
ActiveWindow(x) == IF FloatingFocused(x) THEN x.layer.active ELSE FocusedTiled(x.strip)
ModeIn(x, w) == IF w \in Floats(x.layer) THEN "normal"
                ELSE ModeOf(x.strip.cols[ColumnOf(x.strip, w)])

\* The strip or the layer got the window w, and the focus with it.
OnStrip(x, s, activate) ==
    [x EXCEPT !.strip = s, !.floatingActive = IF activate THEN "no" ELSE @]
OnLayer(x, f, activate) ==
    [x EXCEPT !.layer = f, !.floatingActive = IF activate THEN "yes" ELSE @]

-----------------------------------------------------------------------------
(* Opening and closing windows *)

\* add_tile with the target Auto, for a window that is not to float.
OpenOnStrip(x, w, mode, activate, how) ==
    LET s == x.strip
        i == NextIndex(s)
        added == AddTile(s, i, w, mode, activate, how)
    IN  OnStrip(x,
            IF s.cols # <<>> /\ ActiveColumn(s).dwindle
            THEN IF TileCount(ActiveColumn(s)) >= PageSize
                 THEN OpenPage(s, w, mode, activate, how)
                 ELSE AppendTile(s, s.act, w, activate, how)
            ELSE IF x.display = "none" THEN added
            ELSE SetColumnDisplayAt(added, i, x.display = "dwindle", how),
            activate)

OpenAuto(x, w, mode, floating, activate, how) ==
    LET active == \/ activate = "yes"
                  \/ activate = "smart" /\
                        (x.strip.cols = <<>> \/ ModeOf(ActiveColumn(x.strip)) # "fullscreen")
    IN  IF floating /\ mode = "normal"
        THEN OnLayer(x, AddFloat(x.layer, w, active, x.parent), active \/ x.strip.cols = <<>>)
        ELSE OpenOnStrip(x, w, mode, active, how)

\* The target NewColumnAt.
OpenAt(x, i, w, mode, activate, how) ==
    OnStrip(x, AddTile(x.strip, i, w, mode, activate = "yes", how), activate = "yes")

\* The target NextTo.
OpenNextTo(x, v, w, mode, floating, activate, how) ==
    LET active == activate = "yes" \/ (activate = "smart" /\ ActiveWindow(x) = v)
        beside == v \in Floats(x.layer)
        s      == x.strip
    IN  IF floating /\ mode = "normal"
        THEN OnLayer(x, IF beside THEN AddFloatAbove(x.layer, v, w, active, x.parent)
                                  ELSE AddFloat(x.layer, w, active, x.parent),
                     active \/ s.cols = <<>>)
        ELSE OnStrip(x, AddTile(s, IF beside THEN NextIndex(s) ELSE ColumnOf(s, v) + 1,
                                w, mode, active, how),
                     active)

\* remove_tile with update_focus_floating_tiling_after_removing.  A parent
\* that is gone is nobody's parent.
RemoveWindow(x, w) ==
    LET gone == [x EXCEPT !.restore = @ \ {w},
                          !.parent = [v \in DOMAIN @ |->
                              IF v = w \/ @[v] = w THEN NoWindow ELSE @[v]]]
        left == RemoveFloat(x.layer, w)
        s    == TakeTile(x.strip, w)
    IN  IF w \in Floats(x.layer)
        THEN [gone EXCEPT !.layer = left, !.floatingActive = IF left.stack = <<>> THEN "no" ELSE @]
        ELSE OnLayer([gone EXCEPT !.strip = s], x.layer, s.cols = <<>> /\ x.layer.stack # <<>>)

-----------------------------------------------------------------------------
(* Between the strip and the floating layer *)

\* toggle_window_floating.
ToggleFloating(x, w, how) ==
    LET active == w = ActiveWindow(x)
        s      == x.strip
    IN  IF w \in Floats(x.layer)
        THEN OnStrip([x EXCEPT !.layer = RemoveFloat(@, w)],
                     AddTile(s, NextIndex(s), w, "normal", active, how), active)
        ELSE OnLayer([x EXCEPT !.strip = TakeTile(s, w)],
                     AddFloat(x.layer, w, active, x.parent), active)

\* The window is tiled and may return to the layer later.
Sized(x, y, w, restore) ==
    IF ModeIn(x, w) = "normal" /\ ModeIn(y, w) # "normal"
    THEN [y EXCEPT !.restore = IF restore THEN @ \cup {w} ELSE @ \ {w}]
    ELSE y

\* set_fullscreen.
Fullscreen(x, w, on, how) ==
    LET floats == w \in Floats(x.layer)
        c      == x.strip.cols[ColumnOf(x.strip, w)]
        tiled  == IF floats THEN ToggleFloating(x, w, how) ELSE x
    IN  IF floats /\ ~on THEN x
        ELSE IF ~floats /\ ~on /\ c.full /\ ~c.max /\ w \in x.restore
        THEN ToggleFloating(x, w, how)
        ELSE Sized(tiled, [tiled EXCEPT !.strip = SetFullscreen(@, w, on, how)], w, floats)

\* set_maximized.
Maximize(x, w, on, how) ==
    LET floats == w \in Floats(x.layer)
        tiled  == IF floats THEN ToggleFloating(x, w, how) ELSE x
    IN  IF floats /\ ~on THEN x
        ELSE IF ~floats /\ ~on /\ ModeIn(x, w) = "maximized" /\ w \in x.restore
        THEN ToggleFloating(x, w, how)
        ELSE Sized(tiled, [tiled EXCEPT !.strip = SetMaximized(@, w, on, how)], w, floats)

-----------------------------------------------------------------------------
(* Actions.  Those that act on the focused column do nothing while the     *)
(* floating layer has the focus.                                           *)

s == ws.strip
Tiling == ~FloatingFocused(ws) /\ s.cols # <<>>

\* A dialog opens next to its parent.
Open == \E w \in Window \ WindowsOf(ws), floating \in BOOLEAN, activate \in Activate, how \in Placements :
    LET x == [ws EXCEPT !.restore = IF floating THEN @ \cup {w} ELSE @]
    IN  \/ \E mode \in Mode : ws' = OpenAuto(x, w, mode, floating, activate, how)
        \/ \E i \in 1..(Len(s.cols) + 1) : ws' = OpenAt(x, i, w, "normal", activate, how)
        \/ \E p \in WindowsOf(ws) :
            ws' = OpenNextTo([x EXCEPT !.parent[w] = p], p, w, "normal", floating, activate, how)

Close == \E w \in WindowsOf(ws) : ws' = RemoveWindow(ws, w)

\* focus_column and its relatives, and the focus within a column.
FocusColumn == \E i \in DOMAIN s.cols :
    ws' = OnStrip(ws, ActivateColumn(s, i), TRUE)
FocusTile == Tiling /\ \E i \in DOMAIN ActiveColumn(s).tiles :
    ws' = [ws EXCEPT !.strip.cols[s.act] = FocusOn(@, i)]

SwitchFocus ==
    /\ s.cols # <<>> /\ ws.layer.stack # <<>>
    /\ ws' = [ws EXCEPT !.floatingActive = IF @ = "yes" THEN "no" ELSE "yes"]

\* activate_window, which focus_directional of the layer calls too.
ActivateAny == \E w \in WindowsOf(ws) :
    ws' = IF w \in Floats(ws.layer)
          THEN OnLayer(ws, RaiseFloat(ws.layer, w, ws.parent), TRUE)
          ELSE OnStrip(ws, ActivateTiled(s, w), TRUE)

\* activate_window_without_raising.
ActivateUnraised == \E w \in WindowsOf(ws) :
    ws' = IF w \in Floats(ws.layer)
          THEN OnLayer(ws, [ws.layer EXCEPT !.active = w], TRUE)
          ELSE [ws EXCEPT !.strip = ActivateTiled(s, w),
                          !.floatingActive = IF @ = "yes" THEN "noButRaised" ELSE @]

MoveColumn == \E i \in DOMAIN s.cols :
    /\ Tiling
    /\ ws' = [ws EXCEPT !.strip = MoveColumnTo(s, i)]

\* move_up and move_down.
MoveTile == Tiling /\ \E i \in DOMAIN ActiveColumn(s).tiles :
    LET c == ActiveColumn(s)
    IN  /\ ~c.dwindle /\ i \in {c.act - 1, c.act + 1}
        /\ ws' = [ws EXCEPT !.strip.cols[s.act] = SwapTiles(c, c.act, i)]

\* move_dwindle_direction, to which a consume or expel request comes down in
\* a dwindle column whatever window it names.
MoveInTree == \E i \in DOMAIN s.cols :
    LET c == s.cols[i]
    IN  /\ c.dwindle
        /\ \E k \in DOMAIN c.tiles \ {c.act} :
            ws' = [ws EXCEPT !.strip.cols[i] = Synced(SwapTiles(c, c.act, k))]

ConsumeOrExpel == \E w \in TiledWindows(s), how \in Placements :
    /\ ~s.cols[ColumnOf(s, w)].dwindle
    /\ \/ ws' = [ws EXCEPT !.strip = ConsumeOrExpelLeft(s, w, how)]
       \/ ws' = [ws EXCEPT !.strip = ConsumeOrExpelRight(s, w, how)]

Consume == \E how \in Placements :
    /\ Tiling /\ s.act < Len(s.cols)
    /\ ws' = [ws EXCEPT !.strip = ConsumeIntoColumn(s, how)]

Expel == \E how \in Placements :
    /\ Tiling /\ TileCount(ActiveColumn(s)) > 1
    /\ ws' = [ws EXCEPT !.strip = ExpelFromColumn(s, how)]

Swap == \E i \in {s.act - 1, s.act + 1} \cap DOMAIN s.cols, how \in Placements :
    /\ Tiling
    /\ ws' = [ws EXCEPT !.strip = SwapWindow(s, i, how)]

\* set_column_display and switch_column_display.
SetDisplay == \E dwindle \in BOOLEAN, how \in Placements :
    LET changed == SetColumnDisplayAt(s, s.act, dwindle, how)
    IN  /\ Tiling
        /\ ws' = [ws EXCEPT !.strip = changed,
                            !.display = IF ActiveColumn(changed).dwindle
                                        THEN "dwindle" ELSE "normal"]

Promote ==
    /\ Tiling /\ ActiveColumn(s).dwindle
    /\ ws' = [ws EXCEPT !.strip.cols[s.act] = Promoted(@)]

Preselect == \E side \in Preselections :
    /\ Tiling /\ ActiveColumn(s).dwindle
    /\ ws' = [ws EXCEPT !.strip.cols[s.act].pre = side]

ToFullscreen == \E w \in WindowsOf(ws), on \in BOOLEAN, how \in Placements :
    ws' = Fullscreen(ws, w, on, how)

ToMaximized == \E w \in WindowsOf(ws), on \in BOOLEAN, how \in Placements :
    ws' = Maximize(ws, w, on, how)

Resize == \E w \in TiledWindows(s) : ws' = [ws EXCEPT !.strip = ChangeSize(s, ColumnOf(s, w))]

Float == \E w \in WindowsOf(ws), how \in Placements : ws' = ToggleFloating(ws, w, how)

BeginResize == \E w \in WindowsOf(ws) :
    \/ /\ w \in Floats(ws.layer) /\ ws.layer.resize = NoWindow
       /\ ws' = [ws EXCEPT !.layer.resize = w]
    \/ /\ w \in TiledWindows(s) /\ s.resize = NoWindow /\ ModeIn(ws, w) = "normal"
       /\ ws' = [ws EXCEPT !.strip.resize = w]

EndResize ==
    \/ ws' = [ws EXCEPT !.layer.resize = NoWindow]
    \/ ws' = [ws EXCEPT !.strip.resize = NoWindow]

\* xdg_toplevel.set_parent, refused where it would close a loop, with
\* parent_changed.
IsAncestor(p, w, parent) ==
    LET up[n \in 0..Cardinality(Window)] ==
            IF n = 0 THEN {p}
            ELSE up[n - 1] \cup {parent[v] : v \in up[n - 1] \ {NoWindow}}
    IN  w \in up[Cardinality(Window)]
SetParent == \E w \in WindowsOf(ws), p \in WindowsOf(ws) \cup {NoWindow} :
    LET parents == [ws.parent EXCEPT ![w] = p]
    IN  /\ ~IsAncestor(p, w, ws.parent)
        /\ ws' = [ws EXCEPT !.parent = parents,
                            !.layer = IF p \in Floats(@) THEN DescendantsAdded(@, p, parents)
                                      ELSE @]

\* update_layout_config.
ReloadConfig == ws' = [ws EXCEPT !.display = "none"]

Init == ws = [strip |-> EmptyStrip, layer |-> EmptyLayer, floatingActive |-> "no",
              display |-> "none", restore |-> {}, parent |-> [w \in Window |-> NoWindow]]

FocusNext == FocusColumn \/ FocusTile \/ SwitchFocus \/ ActivateAny \/ ActivateUnraised
MoveNext == \/ MoveColumn \/ MoveTile \/ MoveInTree \/ ConsumeOrExpel \/ Consume \/ Expel \/ Swap
            \/ SetDisplay \/ Promote
SizeNext == ToFullscreen \/ ToMaximized \/ Resize \/ Float \/ BeginResize \/ EndResize
Next == \/ Open \/ Close \/ FocusNext \/ MoveNext \/ SizeNext
        \/ Preselect \/ SetParent \/ ReloadConfig

Spec == Init /\ [][Next]_ws
=============================================================================
