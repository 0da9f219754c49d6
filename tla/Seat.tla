-------------------------------- MODULE Seat --------------------------------
(***************************************************************************)
(* The keyboard and the buttons of the pointer: what goes to clients, what *)
(* triggers binds (input/mod.rs), and the interfaces of the compositor     *)
(* that take the keyboard for themselves: exit dialog, session lock,       *)
(* screenshot UI, recent windows and overview.  An input event may be      *)
(* followed by others before the refresh that moves the keyboard focus.    *)
(***************************************************************************)
EXTENDS KeyboardFocus

CONSTANTS
    Key,          \* keys; the keysyms are those of the code
    Modifier,     \* those that are modifiers
    Workspace, OutputOf,   \* workspaces and their outputs
    Button,       \* buttons of the pointer
    IpcActions,   \* actions that are asked for over IPC
    Configs       \* configurations: binds, whether debounce_ms > 0, levels of layers

ASSUME KeysAssumption == Modifier \subseteq Key

\* Actions, those with arguments last, and the binds that a configuration may have.
Action ==
    [op : {"changeVt", "suspend", "screenshot", "cancelShot", "confirmShot", "toggleInhibit",
           "overview", "focusPrevious", "focusOther", "spawn", "mruConfirm", "mruCancel",
           "mruFirst", "mruLast", "mruCycleScope", "mruClose"}]
    \cup [op : {"quit"}, skip : BOOLEAN]
    \cup [op : {"mruScope"}, scope : Scope]
    \cup [op : {"mruAdvance"}, dir : Direction, scope : Scope \cup {"same"},
          filter : Filter \cup {"same"}]
Bind == [key : Key \cup Button, mods : SUBSET Modifier, action : Action,
         repeat : BOOLEAN, cooldown : BOOLEAN, allowLocked : BOOLEAN, inhibitable : BOOLEAN,
         class : {"general", "mru", "made"}]

ASSUME BindsAssumption ==
    IpcActions \subseteq Action /\ \A c \in Configs : c.binds \subseteq Bind

VARIABLE seat
(***************************************************************************)
(*   config                the configuration                               *)
(*   held                  the keys that are down                          *)
(*   forwarded             those a client was told of                      *)
(*   suppressed            suppressed_keys: their release is swallowed     *)
(*   strays                history: keys that were suppressed when a VT    *)
(*                         switch forgot them                              *)
(*   repeat                the bind that bind_repeat_timer repeats, if any *)
(*   cooling               keys of binds that cool down                    *)
(*   buttons, swallowed    buttons that are down, suppressed_buttons       *)
(*   dialog, locked, shot  the exit dialog, the lock, the screenshot UI    *)
(*   lockSurface           whether there is a lock surface                 *)
(*   mru, scope            recent windows, scope of the last time          *)
(*   overview              the overview                                    *)
(*   cancellable           whether Escape would cancel a pointer grab      *)
(*   stopped               whether the session ends                        *)
(*   mapped, place         windows, and their workspaces                   *)
(*   active, top           the active workspace, the active window of each *)
(*   layer, onDemand       layer surfaces, the one that got the focus      *)
(*   grab                  popup_grab; focused: history, whether its root  *)
(*                         has had the focus since                         *)
(*   inhibit               keyboard shortcuts inhibitors of windows        *)
(*   focus                 keyboard_focus                                  *)
(*   marked                windows told to be focused                      *)
(*   stamp, pending        focus timestamps, pending_mru_commit            *)
(***************************************************************************)

Modifiers(s) == s.held \cap Modifier
NoBind == [key |-> "none"]
NoRepeat == NoBind
Closed == [open |-> FALSE, thumbnails |-> <<>>, current |-> NoWindow, app |-> NoApp, scope |-> "all"]

AllowedWhenLocked == {"quit", "changeVt", "suspend", "toggleInhibit"}
AllowedDuringScreenshot == {"quit", "changeVt", "suspend", "spawn"}

-----------------------------------------------------------------------------
(* The recent windows *)

\* The list of all windows as of now.
NewRecent(s) ==
    LET ws == Recent(s)
    IN  NewList([i \in DOMAIN ws |->
            Thumbnail(ws[i], OutputOf[s.place[ws[i]]] = OutputOf[s.active], s.place[ws[i]] = s.active)])

\* close: the scope is kept for the next time.
CloseMru(s) == IF s.mru.open THEN [s EXCEPT !.mru = Closed, !.scope = s.mru.scope] ELSE s

ActivateWindow(s, w) ==
    [s EXCEPT !.active = s.place[w], !.top[s.place[w]] = w]

ConfirmMru(s) ==
    LET w == s.mru.current
        closed == CloseMru(s)
    IN  IF ~s.mru.open \/ w \notin s.mapped THEN closed
        ELSE ActivateWindow(UpdateKeyboardFocus(closed), w)

OpenMru(s, a) ==
    LET committed == ApplyCommit(s)
        list == SetScope(NewRecent(committed), IF a.scope = "same" THEN s.scope ELSE a.scope)
        filtered == IF a.filter = "same" THEN list ELSE SetFilter(list, a.filter)
        keepFirst == a.dir = "forward" /\ LayoutFocus(s) = NoWindow
        m == IF keepFirst THEN filtered ELSE Advance(filtered, a.dir)
    IN  IF s.mapped = {} THEN committed
        ELSE [committed EXCEPT !.mru = m]

AdvanceMru(s, a) ==
    IF s.mru.open
    THEN [s EXCEPT !.mru = Advance(IF a.filter = "same" THEN @ ELSE SetFilter(@, a.filter), a.dir)]
    ELSE OpenMru(s, a)

InMru(s, m) == IF s.mru.open THEN [s EXCEPT !.mru = m] ELSE s

MruAction(s, a) ==
    CASE a.op = "mruConfirm"    -> ConfirmMru(s)
      [] a.op = "mruCancel"     -> CloseMru(s)
      [] a.op = "mruAdvance"    -> AdvanceMru(s, a)
      [] a.op = "mruFirst"      -> InMru(s, SelectFirst(s.mru))
      [] a.op = "mruLast"       -> InMru(s, SelectLast(s.mru))
      [] a.op = "mruScope"      -> InMru(s, SetScope(s.mru, a.scope))
      [] a.op = "mruCycleScope" -> InMru(s, SetScope(s.mru, NextScope(s.mru.scope)))
      [] a.op = "mruClose"      -> s    \* asks the client only

-----------------------------------------------------------------------------
(* Actions *)

OpenScreenshot(s) ==
    IF s.locked \/ s.shot THEN s ELSE [s EXCEPT !.shot = TRUE, !.cancellable = FALSE]

ToggleInhibit(s) ==
    LET w == s.focus.surface
    IN  IF w \notin Window THEN s
        ELSE [s EXCEPT !.inhibit[w] = CASE @ = "active" -> "inactive"
                                        [] @ = "inactive" -> "active"
                                        [] OTHER -> @]

\* The window used last, other than the active one.
FocusPrevious(s) ==
    LET others == s.mapped \ {LayoutFocus(s)}
    IN  IF others = {} THEN s
        ELSE ActivateWindow(ApplyCommit(s),
                CHOOSE w \in others : \A v \in others \ {w} :
                    \/ s.stamp[v] < s.stamp[w]
                    \/ s.stamp[v] = s.stamp[w] /\ IndexIn(WindowOrder, v) < IndexIn(WindowOrder, w))

\* One of the actions that move the focus inside the workspace.
FocusOther(s) ==
    LET others == {w \in s.mapped : s.place[w] = s.active} \ {LayoutFocus(s)}
        moved == [s EXCEPT !.onDemand = NoWindow]
    IN  IF others = {} THEN moved ELSE ActivateWindow(moved, CHOOSE w \in others : TRUE)

\* "Changing VT may not deliver the key releases, so clear the state."
ForgetKeys(s) == [s EXCEPT !.suppressed = {}, !.strays = @ \cup s.suppressed]

SeatAction(s, a) ==
    CASE a.op = "quit" /\ ~a.skip  -> [s EXCEPT !.dialog = TRUE]
      [] a.op = "quit" /\ a.skip   -> [s EXCEPT !.stopped = TRUE]
      [] a.op \in {"changeVt", "suspend"} -> ForgetKeys(s)
      [] a.op = "screenshot"       -> CloseMru(OpenScreenshot(s))
      [] a.op \in {"cancelShot", "confirmShot"} -> [s EXCEPT !.shot = FALSE]
      [] a.op = "toggleInhibit"    -> ToggleInhibit(s)
      [] a.op = "overview"         -> [s EXCEPT !.overview = ~@]
      [] a.op = "focusPrevious"    -> FocusPrevious(s)
      [] a.op = "focusOther"       -> FocusOther(s)
      [] a.op = "spawn"            -> s
      [] OTHER                     -> MruAction(s, a)

DoAction(s, a, allowed) ==
    IF s.locked /\ ~allowed /\ a.op \notin AllowedWhenLocked THEN s ELSE SeatAction(s, a)

HandleBind(s, b) ==
    IF ~b.cooldown THEN DoAction(s, b.action, b.allowLocked)
    ELSE IF b.key \in s.cooling
            \/ (s.locked /\ ~b.allowLocked /\ b.action.op \notin AllowedWhenLocked) THEN s
    ELSE DoAction([s EXCEPT !.cooling = @ \cup {b.key}], b.action, b.allowLocked)

-----------------------------------------------------------------------------
(* Binds *)

Act(op) == [op |-> op]
MruAdvance(dir, scope, filter) == [op |-> "mruAdvance", dir |-> dir, scope |-> scope, filter |-> filter]

\* A bind as the code makes them itself, for whatever modifiers.
MadeBind(key, action) ==
    [key |-> key, mods |-> {}, action |-> action, repeat |-> TRUE, cooldown |-> FALSE,
     allowLocked |-> FALSE, inhibitable |-> FALSE, class |-> "made"]

PresetBinds == {
    MadeBind("escape", Act("mruCancel")),
    MadeBind("return", Act("mruConfirm")),
    MadeBind("a", [op |-> "mruScope", scope |-> "all"]),
    MadeBind("o", [op |-> "mruScope", scope |-> "output"]),
    MadeBind("w", [op |-> "mruScope", scope |-> "workspace"]),
    MadeBind("s", Act("mruCycleScope")),
    MadeBind("home", Act("mruFirst")),
    MadeBind("end", Act("mruLast")),
    MadeBind("left", MruAdvance("backward", "same", "same")),
    MadeBind("right", MruAdvance("forward", "same", "same"))}

\* Binds that are given another meaning while the list is open.
DynamicBinds(s) ==
    {[b EXCEPT !.action = IF @.op = "focusOther" THEN MruAdvance("forward", "same", "same") ELSE @] :
        b \in {c \in s.config.binds : c.class = "general" /\ c.action.op \in {"focusOther", "screenshot"}}}

\* make_binds_iter and find_configured_bind: the binds of the key with just these
\* modifiers, in order of precedence.
Binds(s, key) ==
    LET configured(class) == {b \in s.config.binds : b.class = class /\ b.key = key /\ b.mods = Modifiers(s)}
        opened == {b \in PresetBinds \cup DynamicBinds(s) : b.key = key}
        first == IF s.mru.open THEN {} ELSE configured("general")
    IN  IF first # {} THEN first
        ELSE IF configured("mru") # {} THEN configured("mru")
        ELSE IF ~s.mru.open THEN {}
        ELSE LET preset == {b \in opened : b.class = "made"} IN IF preset # {} THEN preset ELSE opened

FindBind(s, key) ==
    IF key = "vt" THEN MadeBind(key, Act("changeVt"))
    ELSE IF key = "power" THEN MadeBind(key, Act("suspend"))
    ELSE IF Binds(s, key) = {} THEN NoBind ELSE CHOOSE b \in Binds(s, key) : TRUE

\* ScreenshotUi::action
ScreenshotBind(s, key) ==
    CASE key = "escape" -> MadeBind(key, Act("cancelShot"))
      [] key \in {"return", "space"} /\ Modifiers(s) = {} -> MadeBind(key, Act("confirmShot"))
      [] OTHER -> NoBind

BoundTo(s, key) ==
    LET b == FindBind(s, key)
    IN  IF s.shot /\ (b = NoBind \/ b.action.op \notin AllowedDuringScreenshot)
        THEN ScreenshotBind(s, key) ELSE b

OverviewBind(s, key) ==
    IF Modifiers(s) # {} THEN NoBind
    ELSE CASE key \in {"escape", "return"} -> [MadeBind(key, Act("overview")) EXCEPT !.repeat = FALSE]
           [] key \in {"left", "right"}    -> MadeBind(key, Act("focusOther"))
           [] OTHER                        -> NoBind

IsInhibiting(s) == s.focus.surface \in Window /\ s.inhibit[s.focus.surface] = "active"

-----------------------------------------------------------------------------
(* Keys *)

Suppress(s, key) == [s EXCEPT !.suppressed = @ \cup {key}]
Forwarded(s, key) == ApplyCommit([s EXCEPT !.forwarded = @ \cup {key}])

\* A bind is triggered by a key, and repeats.
Trigger(s, b) ==
    LET done == HandleBind(Suppress(s, b.key), b)
    IN  IF b.repeat THEN [done EXCEPT !.repeat = b] ELSE done

\* The filter of on_keyboard for a key that is pressed.
Pressed(s, key) ==
    LET bind == BoundTo(s, key)
        other == IF s.focus.kind = "overview" THEN OverviewBind(s, key) ELSE NoBind
    IN  CASE s.dialog ->
               [Suppress(s, key) EXCEPT !.stopped = (key = "return")]
          [] ~s.dialog /\ key = "escape" /\ s.cancellable ->
               [Suppress(s, key) EXCEPT !.cancellable = FALSE]
          [] OTHER ->
               IF bind # NoBind /\ ~(bind.inhibitable /\ IsInhibiting(s))
               THEN Trigger(s, [bind EXCEPT !.key = key])
               ELSE IF other # NoBind THEN Trigger(s, other)
               ELSE Forwarded(s, key)

\* The dialog goes with any press, once the press has been handled.
HideDialog(s, before) == [s EXCEPT !.dialog = @ /\ ~before.dialog]

PressKey(key) ==
    /\ key \notin seat.held
    /\ LET down == [seat EXCEPT !.held = @ \cup {key}]
       IN  seat' = Ranked(HideDialog(Pressed(down, key), seat))

\* The filter of on_keyboard for a key that is released.  The release of the last
\* modifier confirms what is selected among the recent windows.
BadReleased(s, key) ==
    LET done == IF s.mru.open /\ Modifiers(s) = {} THEN DoAction(s, Act("mruConfirm"), FALSE) ELSE ApplyCommit(s)
    IN  [done EXCEPT !.forwarded = @ \ {key}, !.strays = @ \ {key},
                     !.suppressed = IF s.mru.open THEN @ ELSE @ \ {key}]

Released(s, key) ==
    LET done == CASE s.mru.open /\ Modifiers(s) = {} -> DoAction(s, Act("mruConfirm"), FALSE)
                  [] ~(s.mru.open /\ Modifiers(s) = {}) /\ key \notin s.suppressed -> ApplyCommit(s)
                  [] OTHER -> s
    IN  [done EXCEPT !.forwarded = @ \ {key}, !.suppressed = @ \ {key}, !.strays = @ \ {key}]

ReleaseKey(key) ==
    /\ key \in seat.held
    /\ seat' = Ranked(Released([seat EXCEPT !.held = @ \ {key}, !.repeat = NoRepeat], key))

RepeatTimer ==
    /\ seat.repeat # NoRepeat
    /\ seat' = Ranked(HandleBind(seat, seat.repeat))

CooldownTimer(key) ==
    /\ key \in seat.cooling
    /\ seat' = [seat EXCEPT !.cooling = @ \ {key}]

\* An action asked for by an IPC client.
IpcAction(a) == seat' = Ranked(DoAction(seat, a, FALSE))

-----------------------------------------------------------------------------
(* Buttons of the pointer *)

\* What a press activates: the window or the layer surface under the cursor.
Click(s, under) ==
    LET covered == s.dialog \/ s.locked \/ s.shot \/ s.mru.open
        w == IF covered \/ under \notin s.mapped THEN NoWindow ELSE under
        l == IF covered \/ under \notin Layer THEN NoWindow ELSE under
        clicked == IF w = NoWindow THEN s
                   ELSE [ActivateWindow(s, w) EXCEPT !.overview = FALSE]
    IN  [clicked EXCEPT !.onDemand =
            IF l # NoWindow /\ s.layer[l].mapped /\ s.layer[l].wish = "onDemand" THEN l ELSE NoWindow]

\* In the list of recent windows a click picks the window under the cursor.
ClickMru(s, under) ==
    IF under \in ToSet(Visible(s.mru)) THEN ConfirmMru([s EXCEPT !.mru = SetCurrent(@, under)])
    ELSE CloseMru(s)

ButtonPressed(s, button, under) ==
    LET bind == BoundTo([s EXCEPT !.shot = FALSE], button)
        allowed == bind # NoBind /\ (s.shot => bind.action.op \in AllowedDuringScreenshot)
    IN  CASE button = "mouseLeft" /\ s.mru.open ->
               [ClickMru(s, under) EXCEPT !.swallowed = @ \cup {button}]
          [] ~(button = "mouseLeft" /\ s.mru.open) /\ allowed ->
               HandleBind([s EXCEPT !.swallowed = @ \cup {button}], bind)
          [] OTHER -> Click(s, under)

PressButton(button, under) ==
    /\ button \notin seat.buttons
    /\ LET down == [seat EXCEPT !.buttons = @ \cup {button}]
       IN  seat' = Ranked(HideDialog(ButtonPressed(down, button, under), seat))

\* The release of a button that was not swallowed may end a selection in the
\* screenshot UI, and with it the UI.
ReleaseButton(button, captures) ==
    /\ button \in seat.buttons
    /\ captures => button = "mouseLeft" /\ seat.shot /\ button \notin seat.swallowed
    /\ seat' = [seat EXCEPT !.buttons = @ \ {button}, !.swallowed = @ \ {button},
                            !.shot = @ /\ ~captures]

\* The pointer moves over the list of recent windows.
HoverMru(w) ==
    /\ seat.mru.open
    /\ seat' = [seat EXCEPT !.mru = SetCurrent(@, w)]

-----------------------------------------------------------------------------
(* Windows, layer surfaces, popups and the lock *)

Happens(s) == seat' = Ranked(s)

\* A window needs a configure, and so a refresh, before it can be mapped again.
MapWindow(w, activate) ==
    /\ w \notin seat.mapped /\ seat.focus.surface # w
    /\ Happens([seat EXCEPT !.mapped = @ \cup {w}, !.place[w] = seat.active,
                            !.top[seat.active] = IF activate \/ @ = NoWindow THEN w ELSE @])

\* What does not concern the list of recent windows.  Should the window be mapped
\* again, it is another one: a commit that waits for it finds none.
Removed(s, w, next) ==
    [s EXCEPT !.mapped = @ \ {w}, !.marked = @ \ {w}, !.stamp[w] = 0,
              !.pending = IF @.win = w THEN NoCommit ELSE @,
              !.top = [ws \in Workspace |-> IF @[ws] = w THEN next ELSE @[ws]],
              !.grab.ended = @ \/ s.grab.root = w]

Unmapped(s, w, next) ==
    LET list == Drop(s.mru, w)
        gone == [Removed(s, w, next) EXCEPT !.mru = IF s.mru.open THEN list ELSE @]
    IN  IF s.mru.open /\ list.thumbnails = <<>> THEN CloseMru(gone) ELSE gone

\* A window is unmapped or destroyed; the layout chooses the next one.
UnmapWindow(w, next) ==
    LET rest == {v \in seat.mapped \ {w} : seat.place[v] = seat.place[w]}
    IN  /\ w \in seat.mapped
        /\ IF rest = {} THEN next = NoWindow ELSE next \in rest
        /\ Happens(Unmapped(seat, w, next))

\* A client presents an activation token.
RequestActivation(w) ==
    /\ w \in seat.mapped
    /\ Happens([ActivateWindow(seat, w) EXCEPT !.onDemand = NoWindow])

FocusWorkspace(ws) == ws # seat.active /\ Happens([seat EXCEPT !.active = ws])

NewInhibitor(w) == w \in seat.mapped /\ seat.inhibit[w] = "none"
                   /\ Happens([seat EXCEPT !.inhibit[w] = "active"])

InhibitorDestroyed(w) == seat.inhibit[w] # "none" /\ Happens([seat EXCEPT !.inhibit[w] = "none"])

MapLayer(l, wish) ==
    /\ ~seat.layer[l].mapped
    /\ Happens([seat EXCEPT !.layer[l].mapped = TRUE, !.layer[l].wish = wish,
                            !.onDemand = IF wish = "onDemand" THEN l ELSE @])

CommitLayer(l, wish) ==
    /\ seat.layer[l].mapped /\ seat.layer[l].wish # wish
    /\ Happens([seat EXCEPT !.layer[l].wish = wish])

UnmapLayer(l) ==
    /\ seat.layer[l].mapped
    /\ Happens([seat EXCEPT !.layer[l].mapped = FALSE, !.grab.ended = @ \/ seat.grab.root = l])

\* XdgShellHandler::grab, for a popup of the window, layer or lock surface root.
MayGrab(s, root) ==
    LET blocks(level) == \E l \in LayersOn(s, level) : s.layer[l].wish = "exclusive" \/ l = s.onDemand
    IN  CASE s.dialog -> FALSE
          [] s.locked /\ ~s.dialog -> s.lockSurface /\ root = LockSurface
          [] s.shot /\ ~s.locked /\ ~s.dialog -> FALSE
          [] OTHER -> root \in Layer \/ (/\ ~blocks("overlay")
                                         /\ AboveTopLayer(s) \/ ~blocks("top")
                                         /\ root = LayoutFocus(s))

TakesKeyboard(s, root) == root \in Layer => s.layer[root].wish # "none"

\* The grab mismatches one that is there already.
GrabPopup(root) ==
    /\ root \in seat.mapped \cup {l \in Layer : seat.layer[l].mapped} \cup {LockSurface}
    /\ MayGrab(seat, root)
    /\ seat.grab = NoGrab /\ ~seat.cancellable
    /\ Happens([seat EXCEPT !.grab = [root |-> root, keyboard |-> TakesKeyboard(seat, root),
                                       ended |-> FALSE, focused |-> FALSE]])

DismissPopup == seat.grab.root # NoWindow /\ ~seat.grab.ended /\ Happens([seat EXCEPT !.grab.ended = TRUE])

\* A pointer grab starts that Escape cancels: picking a colour or a window, dragging.
StartPick == ~seat.cancellable /\ seat.grab = NoGrab /\ Happens([seat EXCEPT !.cancellable = TRUE])
EndPick == seat.cancellable /\ Happens([seat EXCEPT !.cancellable = FALSE])

\* continue_to_locking
Lock == ~seat.locked /\ Happens(CloseMru([seat EXCEPT !.locked = TRUE, !.shot = FALSE]))
NewLockSurface == seat.locked /\ ~seat.lockSurface /\ Happens([seat EXCEPT !.lockSurface = TRUE])
Unlock == seat.locked /\ Happens([seat EXCEPT !.locked = FALSE, !.lockSurface = FALSE,
                                              !.grab.ended = @ \/ seat.grab.root = LockSurface])

\* The timer of pending_mru_commit.
CommitTimer ==
    /\ seat.pending # NoCommit
    /\ seat' = Ranked(ApplyCommit(seat))

\* refresh_popup_grab and update_keyboard_focus, at the end of the turn.
Refreshed(s) ==
    LET done == UpdateKeyboardFocus(IF s.grab.ended THEN [s EXCEPT !.grab = NoGrab] ELSE s)
    IN  [done EXCEPT !.grab.focused =
            done.grab # NoGrab /\ (@ \/ done.grab.root = done.focus.surface)]

Refresh == seat' = Ranked(Refreshed(seat))

-----------------------------------------------------------------------------
Init == seat \in {
    [config |-> c, held |-> {}, forwarded |-> {}, suppressed |-> {}, strays |-> {},
     repeat |-> NoRepeat, cooling |-> {}, buttons |-> {}, swallowed |-> {},
     dialog |-> FALSE, locked |-> FALSE, shot |-> FALSE, lockSurface |-> FALSE,
     mru |-> Closed, scope |-> "all", overview |-> FALSE, cancellable |-> FALSE, stopped |-> FALSE,
     mapped |-> {}, place |-> [w \in Window |-> ws], active |-> ws,
     top |-> [v \in Workspace |-> NoWindow],
     layer |-> [l \in Layer |-> [mapped |-> FALSE, level |-> c.level[l], wish |-> "none"]],
     onDemand |-> NoWindow, grab |-> NoGrab, inhibit |-> [w \in Window |-> "none"],
     focus |-> Focus("layout", NoWindow), marked |-> {}, stamp |-> [w \in Window |-> 0],
     pending |-> NoCommit] : c \in Configs, ws \in Workspace}

KeyNext ==
    \/ \E key \in Key : PressKey(key) \/ ReleaseKey(key)
    \/ \E key \in Key \cup Button : CooldownTimer(key)
    \/ RepeatTimer

ButtonNext ==
    \E button \in Button :
        \/ \E under \in Window \cup Layer \cup {NoWindow} : PressButton(button, under)
        \/ \E captures \in BOOLEAN : ReleaseButton(button, captures)

WindowNext ==
    \/ \E w \in Window : \/ \E activate \in BOOLEAN : MapWindow(w, activate)
                         \/ \E next \in Window \cup {NoWindow} : UnmapWindow(w, next)
                         \/ RequestActivation(w) \/ HoverMru(w)
    \/ CommitTimer

InhibitNext == \E w \in Window : NewInhibitor(w) \/ InhibitorDestroyed(w)

LayerNext ==
    \E l \in Layer : \/ \E wish \in Wish : MapLayer(l, wish) \/ CommitLayer(l, wish)
                     \/ UnmapLayer(l)

PopupNext ==
    \/ \E root \in Window \cup Layer \cup {LockSurface} : GrabPopup(root)
    \/ DismissPopup \/ StartPick \/ EndPick

LockNext == Lock \/ NewLockSurface \/ Unlock

IpcNext == \E a \in IpcActions : IpcAction(a)

Next ==
    /\ ~seat.stopped
    /\ \/ \E ws \in Workspace : FocusWorkspace(ws)
       \/ KeyNext \/ ButtonNext \/ WindowNext \/ InhibitNext \/ LayerNext \/ PopupNext \/ LockNext
       \/ IpcNext \/ Refresh

Spec == Init /\ [][Next]_seat
=============================================================================
