---------------------------- MODULE RecentWindows ----------------------------
(***************************************************************************)
(* The list of recent windows that Alt-Tab goes through (ui/mru.rs): which *)
(* thumbnails are visible under a scope and a filter, and which of them is *)
(* the current one.                                                        *)
(* An operator whose name starts with Bad is the next definition with a    *)
(* plausible mistake; nothing else uses it.                                *)
(***************************************************************************)
EXTENDS Naturals, Sequences, SequencesExt, Subsequence

CONSTANTS
    Window,
    App, AppOf,   \* application ids, and that of every window
    NoApp,        \* a window without one; no filter
    NoWindow

ASSUME NoWindowAssumption == NoWindow \notin Window
ASSUME AppsAssumption == AppOf \in [Window -> App \cup {NoApp}]

Scope == {"all", "workspace", "output"}
Filter == {"all", "appId"}
Direction == {"forward", "backward"}

(***************************************************************************)
(* A list: whether it is open, its thumbnails in order of use, the one     *)
(* that is selected, the scope and the application it is restricted to.  A *)
(* thumbnail remembers where its window was when the list was made.        *)
(***************************************************************************)
Thumbnail(w, onOutput, onWorkspace) == [win |-> w, onOutput |-> onOutput, onWorkspace |-> onWorkspace]

NewList(thumbnails) ==
    [open |-> TRUE, thumbnails |-> thumbnails, app |-> NoApp, scope |-> "all",
     current |-> IF thumbnails = <<>> THEN NoWindow ELSE thumbnails[1].win]

InScope(t, scope) ==
    \/ scope = "all"
    \/ scope = "output" /\ t.onOutput
    \/ scope = "workspace" /\ t.onWorkspace

Matches(t, scope, app) == InScope(t, scope) /\ app \in {NoApp, AppOf[t.win]}

\* The windows that are visible, in order, and their places in the whole list.
VisibleAt(m) == {i \in DOMAIN m.thumbnails : Matches(m.thumbnails[i], m.scope, m.app)}
Visible(m) ==
    LET seen == Keep(m.thumbnails, VisibleAt(m))
    IN  [i \in DOMAIN seen |-> seen[i].win]

FirstIn(ws) == IF ws = <<>> THEN NoWindow ELSE ws[1]
LastIn(ws) == IF ws = <<>> THEN NoWindow ELSE ws[Len(ws)]
IndexIn(ws, w) == CHOOSE i \in DOMAIN ws : ws[i] = w

\* The window after w, wrapping around.
After(ws, w) ==
    IF w \in ToSet(ws) /\ IndexIn(ws, w) < Len(ws) THEN ws[IndexIn(ws, w) + 1] ELSE ws[1]

Forward(m) == IF m.current = NoWindow THEN m
              ELSE [m EXCEPT !.current = After(Visible(m), @)]
Backward(m) == IF m.current = NoWindow THEN m
               ELSE [m EXCEPT !.current = After(Reverse(Visible(m)), @)]
Advance(m, dir) == IF dir = "forward" THEN Forward(m) ELSE Backward(m)

SetCurrent(m, w) == IF w \in ToSet(Visible(m)) THEN [m EXCEPT !.current = w] ELSE m
SelectFirst(m) == [m EXCEPT !.current = FirstIn(Visible(m))]
SelectLast(m) == [m EXCEPT !.current = LastIn(Visible(m))]

\* Where the current window is in the whole list; the first place if it is not
\* visible.
CurrentAt(m) ==
    LET at == {i \in VisibleAt(m) : m.thumbnails[i].win = m.current}
    IN  IF at = {} THEN 1 ELSE CHOOSE i \in at : TRUE

\* With what is visible changed: select the last thumbnail that is not right of
\* place i, or else the first one.
SelectNear(m, i) ==
    LET left == {k \in VisibleAt(m) : k <= i}
    IN  IF left = {} THEN SelectFirst(m)
        ELSE [m EXCEPT !.current = m.thumbnails[CHOOSE k \in left : \A j \in left : j <= k].win]

BadSetScope(m, scope) == [m EXCEPT !.scope = scope]

SetScope(m, scope) ==
    IF m.scope = scope THEN m ELSE SelectNear([m EXCEPT !.scope = scope], CurrentAt(m))

SetFilter(m, filter) ==
    CASE (m.app # NoApp) = (filter = "appId") -> m
      [] filter = "all" /\ m.current = NoWindow -> SelectFirst([m EXCEPT !.app = NoApp])
      [] filter = "all" /\ m.current # NoWindow -> SelectNear([m EXCEPT !.app = NoApp], CurrentAt(m))
      [] filter = "appId" /\ (m.current = NoWindow \/ AppOf[m.current] = NoApp) -> m
      [] OTHER -> SelectNear([m EXCEPT !.app = AppOf[m.current]], CurrentAt(m))

\* SCOPE_CYCLE
NextScope(scope) == CASE scope = "all" -> "workspace"
                      [] scope = "workspace" -> "output"
                      [] scope = "output" -> "all"

\* The window w is gone: select another one first, if there is one.
Drop(m, w) ==
    LET next == IF m.current = w THEN Forward(m) ELSE m
    IN  [next EXCEPT !.current = IF @ = w THEN NoWindow ELSE @,
                     !.thumbnails = Keep(@, {i \in DOMAIN @ : @[i].win # w})]
=============================================================================
