---------------------------- MODULE KeyboardFocus ----------------------------
(***************************************************************************)
(* Who has the keyboard (ymir.rs, update_keyboard_focus), and the order in *)
(* which windows were last used, which the recent windows are sorted by.   *)
(* The operators work on the record s of module Seat.                      *)
(***************************************************************************)
EXTENDS RecentWindows, FiniteSets

CONSTANTS
    Layer,          \* layer-shell surfaces
    LockSurface,    \* the lock surface of the output under the cursor
    Fullscreen,     \* windows that are rendered above the top layer
    WindowOrder     \* the order of windows in the layout

ASSUME OrderAssumption == WindowOrder \in Seq(Window) /\ Range(WindowOrder) = Window

Level == {"overlay", "top", "bottom", "background"}
Wish == {"none", "onDemand", "exclusive"}     \* keyboard_interactivity

Focus(kind, surface) == [kind |-> kind, surface |-> surface]
NoGrab == [root |-> NoWindow, keyboard |-> FALSE, ended |-> FALSE, focused |-> FALSE]
NoCommit == [win |-> NoWindow, stamp |-> 0]

(***************************************************************************)
(* Timestamps are only compared, so a new one is one more than all others, *)
(* and Ranked closes the gaps.                                             *)
(***************************************************************************)
Stamps(s) == {s.stamp[w] : w \in Window} \cup {s.pending.stamp}
NewStamp(s) == 1 + (CHOOSE n \in Stamps(s) : \A m \in Stamps(s) : m <= n)
Rank(s, n) == Cardinality({m \in Stamps(s) : 0 < m /\ m <= n})
Ranked(s) == [s EXCEPT !.stamp = [w \in Window |-> Rank(s, @[w])],
                       !.pending.stamp = Rank(s, @)]

BadApplyCommit(s) ==
    [s EXCEPT !.pending = NoCommit,
              !.stamp = IF s.pending.win \in s.mapped
                        THEN [@ EXCEPT ![s.pending.win] = NewStamp(s)] ELSE @]

\* mru_apply_keyboard_commit
ApplyCommit(s) ==
    [s EXCEPT !.pending = NoCommit,
              !.stamp = IF s.pending.win \in s.mapped
                        THEN [@ EXCEPT ![s.pending.win] = s.pending.stamp] ELSE @]

\* Windows by their timestamps, the newest first; windows of the same timestamp,
\* which is none, in the order of the layout.
Newer(s, v, w) ==
    \/ s.stamp[v] > s.stamp[w]
    \/ s.stamp[v] = s.stamp[w] /\ IndexIn(WindowOrder, v) < IndexIn(WindowOrder, w)
Recent(s) == [i \in 1..Cardinality(s.mapped) |->
    CHOOSE w \in s.mapped : Cardinality({v \in s.mapped : Newer(s, v, w)}) = i - 1]

-----------------------------------------------------------------------------
(* The focus *)

LayoutFocus(s) == s.top[s.active]
AboveTopLayer(s) == ~s.overview /\ LayoutFocus(s) \in Fullscreen

LayersOn(s, level) == {l \in Layer : s.layer[l].mapped /\ s.layer[l].level = level}
Exclusive(s, level) == {l \in LayersOn(s, level) : s.layer[l].wish = "exclusive"}
OnDemand(s, level) == {s.onDemand} \cap LayersOn(s, level)
Grabbing(s, level) == {l \in LayersOn(s, level) : l = s.grab.root /\ s.layer[l].wish # "none"}

(***************************************************************************)
(* What may have the focus, when nothing of the compositor itself does, in *)
(* order of preference: sets of which the first that is not empty counts.  *)
(***************************************************************************)
Candidates(s) ==
    LET Layers(ls) == {Focus("layer", l) : l \in ls}
        Grab(level) == <<Layers(Grabbing(s, level))>>
        Wants(level) == <<Layers(Exclusive(s, level)), Layers(OnDemand(s, level))>>
        layout == <<{Focus("layout", w) : w \in {LayoutFocus(s)} \ {NoWindow}}>>
    IN  Grab("overlay") \o Grab("top")
        \o (IF s.overview THEN <<>> ELSE Grab("bottom") \o Grab("background"))
        \o Wants("overlay")
        \o (IF AboveTopLayer(s)
            THEN layout \o Wants("top") \o Wants("bottom") \o Wants("background")
            ELSE Wants("top")
                 \o (IF s.overview THEN <<{Focus("overview", NoWindow)}>> ELSE <<>>)
                 \o <<Layers(OnDemand(s, "bottom")), Layers(OnDemand(s, "background"))>>
                 \o layout
                 \o <<Layers(Exclusive(s, "bottom")), Layers(Exclusive(s, "background"))>>)
        \o <<{Focus("layout", NoWindow)}>>

NewFocus(s) ==
    CASE s.dialog   -> Focus("dialog", NoWindow)
      [] s.locked /\ ~s.dialog -> Focus("lock", IF s.lockSurface THEN LockSurface ELSE NoWindow)
      [] s.shot /\ ~s.locked /\ ~s.dialog -> Focus("screenshot", NoWindow)
      [] s.mru.open /\ ~s.shot /\ ~s.locked /\ ~s.dialog -> Focus("mru", NoWindow)
      [] OTHER -> LET all == SelectSeq(Candidates(s), LAMBDA set : set # {})
                  IN  CHOOSE f \in all[1] : TRUE

\* The layer surface that was clicked keeps the focus while it asks for it.
CleanOnDemand(s) ==
    IF s.onDemand \in Layer /\ s.layer[s.onDemand].mapped /\ s.layer[s.onDemand].wish = "onDemand"
    THEN s ELSE [s EXCEPT !.onDemand = NoWindow]

\* A window that gets the focus is stamped now if it never was, else after a delay,
\* unless the focus goes to another window before.
StampFocused(s, f) ==
    IF f.kind # "layout" \/ f.surface \notin s.mapped THEN s
    ELSE IF s.stamp[f.surface] = 0 \/ ~s.config.debounce
         THEN [s EXCEPT !.stamp[f.surface] = NewStamp(s)]
         ELSE [s EXCEPT !.pending = [win |-> f.surface, stamp |-> NewStamp(s)]]

BadEndGrab(s, f) == s
EndGrab(s, f) == IF s.grab.keyboard /\ s.grab.root # f.surface
                 THEN [s EXCEPT !.grab = NoGrab, !.cancellable = FALSE] ELSE s

\* set_is_focused on the window that loses and the one that gets the focus.
Marked(s, f) == ((s.marked \ {s.focus.surface}) \cup {f.surface}) \cap s.mapped

UpdateKeyboardFocus(s) ==
    LET clean == CleanOnDemand(s)
        f == NewFocus(clean)
        stamped == StampFocused(clean, f)
    IN  IF f = clean.focus THEN clean
        ELSE [EndGrab(stamped, f) EXCEPT !.marked = Marked(clean, f), !.focus = f]
=============================================================================
