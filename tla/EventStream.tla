---------------------------- MODULE EventStream -----------------------------
(***************************************************************************)
(* The events with which IPC clients follow the state of the compositor:   *)
(* what a new client is sent, what each event does to a client's copy      *)
(* (ymir-ipc/src/state.rs), and the events the server finds after each     *)
(* refresh by comparing the layout with its own copy (ipc/server.rs).      *)
(*                                                                         *)
(* A view is what the server reads from the compositor:                    *)
(*   ws     the workspaces, in the order of Layout::workspaces,            *)
(*   win    the windows, in the order of Layout::with_windows,             *)
(*   open   whether the overview is open,                                  *)
(*   casts  the screencasts,                                               *)
(*   kb     names and index of the keyboard layouts.                       *)
(* A copy is what a client has built from events: the same, indexed by id, *)
(* and whether the last load of the configuration failed.                  *)
(***************************************************************************)
EXTENDS Integers, SequencesExt, FiniteSetsExt, Functions, TLC

CONSTANTS None

ById(records) == [id \in {r.id : r \in records} |-> CHOOSE r \in records : r.id = id]
Copy(v, failed) ==
    [ws |-> ById(ToSet(v.ws)), win |-> ById(ToSet(v.win)), open |-> v.open,
     casts |-> ById(v.casts), kb |-> v.kb, failed |-> failed, broken |-> FALSE]
NewCopy ==
    [ws |-> <<>>, win |-> <<>>, open |-> FALSE, casts |-> <<>>, kb |-> None,
     failed |-> FALSE, broken |-> FALSE]

-----------------------------------------------------------------------------
(* What an event does to a copy.  broken is that an expect() failed.       *)

Without(f, id) == Restrict(f, DOMAIN f \ {id})
Expecting(found, copy, result) == IF found THEN result ELSE [copy EXCEPT !.broken = TRUE]
Update(f, id, Change(_)) == [i \in DOMAIN f |-> IF i = id THEN Change(f[i]) ELSE f[i]]

ActivateWorkspace(ws, id, focused) ==
    [i \in DOMAIN ws |->
        [ws[i] EXCEPT !.active  = IF ws[i].output = ws[id].output THEN i = id ELSE @,
                      !.focused = IF focused THEN i = id ELSE @]]

OpenWindow(win, w) ==
    [i \in DOMAIN win \cup {w.id} |->
        IF i = w.id THEN w
        ELSE IF w.focused THEN [win[i] EXCEPT !.focused = FALSE] ELSE win[i]]

Relayout(win, changes) ==
    [i \in DOMAIN win |->
        IF \E c \in changes : c.id = i
        THEN [win[i] EXCEPT !.layout = (CHOOSE c \in changes : c.id = i).layout]
        ELSE win[i]]

Apply(copy, e) ==
    CASE e.kind = "WorkspacesChanged" -> [copy EXCEPT !.ws = ById(e.all)]
      [] e.kind = "WorkspaceUrgencyChanged" ->
            [copy EXCEPT !.ws = Update(@, e.id, LAMBDA r : [r EXCEPT !.urgent = e.urgent])]
      [] e.kind = "WorkspaceActivated" ->
            Expecting(e.id \in DOMAIN copy.ws, copy,
                      [copy EXCEPT !.ws = ActivateWorkspace(@, e.id, e.focused)])
      [] e.kind = "WorkspaceActiveWindowChanged" ->
            Expecting(e.id \in DOMAIN copy.ws, copy, [copy EXCEPT !.ws[e.id].window = e.window])
      [] e.kind = "WindowsChanged" -> [copy EXCEPT !.win = ById(e.all)]
      [] e.kind = "WindowOpenedOrChanged" -> [copy EXCEPT !.win = OpenWindow(@, e.window)]
      [] e.kind = "WindowClosed" ->
            Expecting(e.id \in DOMAIN copy.win, copy, [copy EXCEPT !.win = Without(@, e.id)])
      [] e.kind = "WindowFocusChanged" ->
            [copy EXCEPT !.win = [i \in DOMAIN @ |-> [@[i] EXCEPT !.focused = (i = e.id)]]]
      [] e.kind = "WindowFocusTimestampChanged" ->
            [copy EXCEPT !.win = Update(@, e.id, LAMBDA r : [r EXCEPT !.stamp = e.stamp])]
      [] e.kind = "WindowUrgencyChanged" ->
            [copy EXCEPT !.win = Update(@, e.id, LAMBDA r : [r EXCEPT !.urgent = e.urgent])]
      [] e.kind = "WindowLayoutsChanged" ->
            Expecting(\A c \in e.changes : c.id \in DOMAIN copy.win, copy,
                      [copy EXCEPT !.win = Relayout(@, e.changes)])
      [] e.kind = "KeyboardLayoutsChanged" -> [copy EXCEPT !.kb = e.kb]
      [] e.kind = "KeyboardLayoutSwitched" ->
            Expecting(copy.kb # None, copy, [copy EXCEPT !.kb.idx = e.idx])
      [] e.kind = "OverviewOpenedOrClosed" -> [copy EXCEPT !.open = e.open]
      [] e.kind = "ConfigLoaded" -> [copy EXCEPT !.failed = e.failed]
      [] e.kind = "CastsChanged" -> [copy EXCEPT !.casts = ById(e.all)]
      [] e.kind = "CastStartedOrChanged" ->
            [copy EXCEPT !.casts = (e.cast.id :> e.cast) @@ @]
      [] e.kind = "CastStopped" ->
            Expecting(e.id \in DOMAIN copy.casts, copy, [copy EXCEPT !.casts = Without(@, e.id)])

ApplyAll(copy, events) == FoldLeft(Apply, copy, events)

\* EventStreamState::replicate: what a new client is sent.
Replicate(copy) ==
    <<[kind |-> "WorkspacesChanged", all |-> Range(copy.ws)],
      [kind |-> "WindowsChanged", all |-> Range(copy.win)]>>
    \o (IF copy.kb = None THEN <<>> ELSE <<[kind |-> "KeyboardLayoutsChanged", kb |-> copy.kb]>>)
    \o <<[kind |-> "OverviewOpenedOrClosed", open |-> copy.open],
         [kind |-> "ConfigLoaded", failed |-> copy.failed],
         [kind |-> "CastsChanged", all |-> Range(copy.casts)]>>

-----------------------------------------------------------------------------
(* The events after a refresh.                                             *)

When(condition, event) == IF condition THEN <<event>> ELSE <<>>

\* Changes of a workspace that have an event of their own.
WorkspaceEvents(old, new) ==
    When(old.window # new.window,
         [kind |-> "WorkspaceActiveWindowChanged", id |-> new.id, window |-> new.window])
    \o When(old.urgent # new.urgent,
            [kind |-> "WorkspaceUrgencyChanged", id |-> new.id, urgent |-> new.urgent])
    \o When(new.focused /\ ~old.focused,
            [kind |-> "WorkspaceActivated", id |-> new.id, focused |-> TRUE])
    \o When(~(new.focused /\ ~old.focused) /\ new.active /\ ~old.active,
            [kind |-> "WorkspaceActivated", id |-> new.id, focused |-> FALSE])

RefreshWorkspaces(known, ws) ==
    IF /\ DOMAIN known = {w.id : w \in ToSet(ws)}
       /\ \A w \in ToSet(ws) :
            <<known[w.id].idx, known[w.id].name, known[w.id].output>> = <<w.idx, w.name, w.output>>
    THEN FlattenSeq([i \in DOMAIN ws |-> WorkspaceEvents(known[ws[i].id], ws[i])])
    ELSE <<[kind |-> "WorkspacesChanged", all |-> ToSet(ws)]>>

Reopened(known, w) ==
    w.id \notin DOMAIN known
    \/ LET old == known[w.id]
       IN  <<old.ws, old.floating, old.title>> # <<w.ws, w.floating, w.title>>

WindowEvents(known, w) ==
    IF Reopened(known, w) THEN <<[kind |-> "WindowOpenedOrChanged", window |-> w]>>
    ELSE When(w.focused /\ ~known[w.id].focused, [kind |-> "WindowFocusChanged", id |-> w.id])
         \o When(w.stamp # known[w.id].stamp,
                 [kind |-> "WindowFocusTimestampChanged", id |-> w.id, stamp |-> w.stamp])
         \o When(w.urgent # known[w.id].urgent,
                 [kind |-> "WindowUrgencyChanged", id |-> w.id, urgent |-> w.urgent])

RefreshWindows(known, win) ==
    LET all    == ToSet(win)
        closed == DOMAIN known \ {w.id : w \in all}
        moved  == {w \in all : ~Reopened(known, w) /\ w.layout # known[w.id].layout}
    IN  FlattenSeq([i \in DOMAIN win |-> WindowEvents(known, win[i])])
        \o When(moved # {}, [kind    |-> "WindowLayoutsChanged",
                             changes |-> {[id |-> w.id, layout |-> w.layout] : w \in moved}])
        \o SetToSeq({[kind |-> "WindowClosed", id |-> id] : id \in closed})
        \o When((\A w \in all : ~w.focused) /\ \E id \in DOMAIN known : known[id].focused,
                [kind |-> "WindowFocusChanged", id |-> None])

RefreshOverview(known, open) == When(known # open, [kind |-> "OverviewOpenedOrClosed", open |-> open])

RefreshCasts(known, casts) ==
    SetToSeq({[kind |-> "CastStartedOrChanged", cast |-> c] :
                 c \in {d \in casts : d.id \notin DOMAIN known \/ known[d.id] # d}})
    \o SetToSeq({[kind |-> "CastStopped", id |-> id] :
                    id \in DOMAIN known \ {c.id : c \in casts}})

RefreshKeyboard(known, kb) ==
    When(known # None /\ known.idx # kb.idx, [kind |-> "KeyboardLayoutSwitched", idx |-> kb.idx])

\* State::refresh, in its order.
Events(copy, v) ==
    RefreshCasts(copy.casts, v.casts) \o RefreshWorkspaces(copy.ws, v.ws)
    \o RefreshWindows(copy.win, v.win) \o RefreshOverview(copy.open, v.open)
    \o RefreshKeyboard(copy.kb, v.kb)
=============================================================================
