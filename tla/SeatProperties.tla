--------------------------- MODULE SeatProperties ---------------------------
(***************************************************************************)
(* What the keyboard, the focus and the recent windows guarantee.          *)
(***************************************************************************)
EXTENDS Seat

(***************************************************************************)
(* Presses and releases come in pairs: a client that is told of a press is *)
(* told of the release, a press that the compositor takes has its release  *)
(* swallowed (suppressed_keys, suppressed_buttons), save those that a VT   *)
(* switch forgets; and a bind repeats only while its key is down.          *)
(***************************************************************************)
KeysPaired ==
    /\ seat.forwarded \cup seat.suppressed \cup seat.strays = seat.held
    /\ seat.forwarded \cap seat.suppressed = {}
    /\ seat.strays \cap (seat.forwarded \cup seat.suppressed) = {}
    /\ seat.swallowed \subseteq seat.buttons
    /\ seat.repeat # NoRepeat => seat.repeat.key \in seat.held

(***************************************************************************)
(* The recent windows are open only while a modifier is held: "the switcher*)
(* will close once all modifiers are released" (recent_windows.rs).        *)
(***************************************************************************)
OpenWhileHeld == seat.mru.open => Modifiers(seat) # {}

(***************************************************************************)
(* While it is open, the list of recent windows has only windows that are  *)
(* there, one of the visible ones is selected unless none is visible       *)
(* (WindowMru::verify_invariants), and a modifier is held.                 *)
(***************************************************************************)
SwitcherInStep ==
    /\ OpenWhileHeld
    /\ seat.mru.open =>
        /\ {t.win : t \in ToSet(seat.mru.thumbnails)} \subseteq seat.mapped
        /\ seat.mru.thumbnails # <<>>
        /\ IF Visible(seat.mru) = <<>> THEN seat.mru.current = NoWindow
           ELSE seat.mru.current \in ToSet(Visible(seat.mru))

(***************************************************************************)
(* The window with the keyboard is the most recent one, whether its stamp  *)
(* is applied or waits for the delay: the list, opened now, would begin    *)
(* with it and Alt-Tab would go to another window.                         *)
(***************************************************************************)
FocusedIsNewest ==
    seat.focus.kind = "layout" /\ seat.focus.surface \in seat.mapped
        => Recent(ApplyCommit(seat))[1] = seat.focus.surface

(***************************************************************************)
(* The interfaces of the compositor and the popups agree with the focus: a *)
(* locked session has no other interface open; once refreshed, its keyboard*)
(* is with the lock, one window at most takes itself to be focused, the one*)
(* that is, and a popup grab that has the keyboard does not outlive the    *)
(* focus of its root (the comment of XdgShellHandler::grab).               *)
(***************************************************************************)
FocusInCharge ==
    LET r == Refreshed(seat)
    IN  /\ seat.locked => ~seat.shot /\ ~seat.mru.open
        /\ seat.locked => r.focus.kind \in {"lock", "dialog"}
        /\ r.marked = {r.focus.surface} \cap r.mapped
        /\ r.grab.keyboard /\ r.grab.focused => r.grab.root = r.focus.surface
=============================================================================
