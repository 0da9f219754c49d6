------------------------------- MODULE Layout -------------------------------
(***************************************************************************)
(* The layout of the compositor as seen by outputs, workspaces and windows *)
(* (src/src/layout/mod.rs): which workspaces are on which monitor, which   *)
(* one is active, which windows are on it, and how all of that survives    *)
(* outputs coming and going, windows opening, closing and being dragged,   *)
(* configuration reloads and unfinished workspace switches.                *)
(*                                                                         *)
(* Every action is one call of a `Layout` method on the compositor's       *)
(* single thread; between two calls the environment (users, clients, udev, *)
(* IPC, the render clock) chooses which call comes next.                   *)
(***************************************************************************)
EXTENDS Monitor

CONSTANTS
  Configs,            \* what reloads may choose for empty_workspace_above_first
  Draggable,          \* the windows the user drags
  Swipes,             \* whether the user swipes between workspaces
  NameUnfocusedEdge   \* whether a client names, by id, the first or the last
                      \* workspace of a monitor that is not the focused one

ASSUME ConfigsType == Configs # {} /\ Configs \subseteq [Output -> BOOLEAN]
ASSUME EnvironmentType == /\ Draggable \subseteq Window
                          /\ Swipes \in BOOLEAN
                          /\ NameUnfocusedEdge \in BOOLEAN

VARIABLES
  monitors,      \* MonitorSet::Normal.monitors; <<>> is MonitorSet::NoOutputs
  primary,       \* primary_idx, from 1 (0 with no outputs)
  focused,       \* active_monitor_idx, from 1 (0 with no outputs)
  stranded,      \* MonitorSet::NoOutputs.workspaces
  lastActive,    \* last_active_workspace_id, by output
  overviewOpen,  \* overview_open
  config,        \* empty_workspace_above_first as configured for each output
  move,          \* interactive_move
  dnd,           \* whether a client drag-and-drop is over an output
  mapped,        \* the windows the compositor has added and not removed
  nextId         \* WORKSPACE_ID_COUNTER

vars == <<monitors, primary, focused, stranded, lastActive, overviewOpen, config,
          move, dnd, mapped, nextId>>

stillVars == <<primary, stranded, lastActive>>   \* only hotplug changes these
userVars == <<overviewOpen, config, move, dnd>>

NotMoving == [kind |-> "none", win |-> {}, output |-> NoOutput]
Starting(w) == [kind |-> "starting", win |-> {w}, output |-> NoOutput]
Moving(w, o) == [kind |-> "moving", win |-> {w}, output |-> o]

Connected == {monitors[k].output : k \in DOMAIN monitors}
MonitorOf(o) == CHOOSE k \in DOMAIN monitors : monitors[k].output = o

\* All workspaces as pairs <<monitor index, workspace index>>.
Places == UNION {{k} \X DOMAIN monitors[k].ws : k \in DOMAIN monitors}

WorkspaceAt(p) == monitors[p[1]].ws[p[2]]
AllWorkspaces == {WorkspaceAt(p) : p \in Places} \cup {stranded[i] : i \in DOMAIN stranded}
UsedNames == {w.name : w \in AllWorkspaces}

(***************************************************************************)
(* Outputs.  Connect and Disconnect work on a record L of the variables    *)
(* they change, so that a property can ask what a replug would lead to.    *)
(***************************************************************************)
Outputs == [monitors |-> monitors, primary |-> primary, focused |-> focused,
            stranded |-> stranded, lastActive |-> lastActive]

SetOutputs(L) == /\ monitors'   = L.monitors
                 /\ primary'    = L.primary
                 /\ focused'    = L.focused
                 /\ stranded'   = L.stranded
                 /\ lastActive' = L.lastActive

\* The index of the active workspace once those at the indices taken are gone.
BadActiveWithout(p, taken) == MinOf(p.active, Len(p.ws) - Cardinality(taken))

ActiveWithout(p, taken) ==
  LET above == Cardinality({i \in taken : i <= p.active})
      floor == IF p.eaf /\ p.active > 1 THEN 2 ELSE 1
  IN  MaxOf(p.active - above, floor)

\* The primary monitor when output o takes back the workspaces it lost.
WithoutThoseOf(p, o) ==
  LET taken == {i \in DOMAIN p.ws : p.ws[i].orig = o}
      p1    == [p EXCEPT !.ws     = Keep(@, DOMAIN p.ws \ taken),
                         !.active = ActiveWithout(p, taken),
                         !.sw     = IF taken = {} THEN @ ELSE NoSwitch]
      stopped == taken # {} /\ p.sw.kind # "none"
  IN  IF stopped \/ (p.eaf /\ Len(p1.ws) = 2) THEN CleanUpWorkspaces(p1) ELSE p1

Connect(L, o, eaf, id) ==
  LET p    == L.monitors[L.primary]
      back == Keep(p.ws, {i \in DOMAIN p.ws : p.ws[i].orig = o /\ HasWindowsOrName(p.ws[i])})
      last == [L.lastActive EXCEPT ![o] = NoId]
  IN  IF L.monitors = <<>>
      THEN [monitors   |-> <<NewMonitor(o, L.stranded, L.lastActive[o], eaf, id)>>,
            primary    |-> 1, focused |-> 1, stranded |-> <<>>, lastActive |-> last]
      ELSE [L EXCEPT
              !.monitors   = Append([@ EXCEPT ![L.primary] = WithoutThoseOf(p, o)],
                                    NewMonitor(o, back, L.lastActive[o], eaf, id)),
              !.lastActive = last]

\* primary_idx or active_monitor_idx i once monitor k is gone.
IndexWithout(i, k) == IF i >= k THEN MaxOf(i - 1, 1) ELSE i

Disconnect(L, k, id) ==
  LET m     == L.monitors[k]
      rest  == RemoveAt(L.monitors, k)
      lost  == IntoWorkspaces(m)
      last  == [L.lastActive EXCEPT ![m.output] = m.ws[m.active].id]
      p     == IndexWithout(L.primary, k)
  IN  IF rest = <<>>
      THEN [monitors |-> <<>>, primary |-> 0, focused |-> 0,
            stranded |-> lost, lastActive |-> last]
      ELSE [monitors   |-> [rest EXCEPT ![p] = AppendWorkspaces(@, lost, id)],
            primary    |-> p, focused |-> IndexWithout(L.focused, k),
            stranded   |-> <<>>, lastActive |-> last]

\* Ids that one call may use up; the code takes them one by one, and only
\* whether two ids are equal is ever observed.
IdsPerCall == 4
TakeIds == nextId' = nextId + IdsPerCall

AddOutput(o) ==
  /\ o \notin Connected
  /\ SetOutputs(Connect(Outputs, o, config[o], nextId))
  /\ TakeIds
  /\ UNCHANGED <<overviewOpen, config, move, dnd, mapped>>

RemoveOutput(o) ==
  /\ o \in Connected
  /\ SetOutputs(Disconnect(Outputs, MonitorOf(o), nextId))
  /\ TakeIds
  /\ UNCHANGED <<overviewOpen, config, move, dnd, mapped>>

FocusOutput(k) ==
  /\ focused' = k
  /\ UNCHANGED <<monitors, stillVars, userVars, mapped, nextId>>

SetMonitor(k, m) == monitors' = [monitors EXCEPT ![k] = m]

(***************************************************************************)
(* Windows opening, closing and being sent elsewhere                       *)
(***************************************************************************)
\* The rule, parent or output that places a new window chooses a monitor's
\* active workspace, a named workspace, or the workspace of another window.
IsTarget(p) == p[2] = monitors[p[1]].active \/ HasWindowsOrName(WorkspaceAt(p))

AddWindow(w, p, activate) ==
  /\ w \notin mapped /\ IsTarget(p)
  /\ SetMonitor(p[1], AddWindows(monitors[p[1]], p[2], {w}, activate, nextId))
  /\ focused' = IF activate THEN p[1] ELSE focused
  /\ mapped' = mapped \cup {w}
  /\ TakeIds
  /\ UNCHANGED <<stillVars, userVars>>

\* With no outputs; a workspace is made up when there is none.
StrandedOrNew ==
  IF stranded = <<>> THEN <<NewWorkspace(NoOutput, nextId)>> ELSE stranded

AddWindowStranded(w, i) ==
  /\ w \notin mapped /\ monitors = <<>>
  /\ i \in DOMAIN StrandedOrNew
  /\ stranded' = [StrandedOrNew EXCEPT ![i].wins = @ \cup {w}]
  /\ mapped' = mapped \cup {w}
  /\ TakeIds
  /\ UNCHANGED <<monitors, primary, focused, lastActive, userVars>>

\* dnd_scroll_gesture_end on every monitor: an edge scroll may land on any
\* workspace its speed projects to.
Landings ==
  {f \in [DOMAIN monitors -> UNION {DOMAIN monitors[k].ws : k \in DOMAIN monitors}] :
     \A k \in DOMAIN monitors :
       f[k] \in IF monitors[k].sw.kind = "dnd" THEN GestureEndTargets(monitors[k])
                                               ELSE {monitors[k].active}}

DndScrollsEnded(f) ==
  [k \in DOMAIN monitors |->
     IF monitors[k].sw.kind = "dnd" THEN GestureEnd(monitors[k], f[k]) ELSE monitors[k]]

DndScrollsBegun == [k \in DOMAIN monitors |-> DndScrollBegin(monitors[k], overviewOpen)]

\* remove_window for a window that is on a workspace, from the monitors ms.
WithoutWindow(ms, w) ==
  [k \in DOMAIN ms |->
     LET on == {i \in DOMAIN ms[k].ws : w \in ms[k].ws[i].wins}
         i  == Nth(on, 1)
     IN  IF on = {} THEN ms[k] ELSE CleanUpAfterClose(TakeWindows(ms[k], i, {w}), i)]

StrandedWithout(w) ==
  LET left == [i \in DOMAIN stranded |-> [stranded[i] EXCEPT !.wins = @ \ {w}]]
  IN  Keep(left, {i \in DOMAIN left : w \in stranded[i].wins => HasWindowsOrName(left[i])})

\* Closing the window that is about to be dragged ends the drag first; the
\* window that is being dragged is on no workspace.
RemoveWindow(w, f) ==
  /\ w \in mapped
  /\ mapped' = mapped \ {w}
  /\ move' = IF w \in move.win THEN NotMoving ELSE move
  /\ monitors' = IF w \notin move.win THEN WithoutWindow(monitors, w)
                 ELSE IF move.kind = "starting" THEN WithoutWindow(DndScrollsEnded(f), w)
                 ELSE DndScrollsEnded(f)
  /\ stranded' = StrandedWithout(w)
  /\ UNCHANGED <<primary, focused, lastActive, overviewOpen, config, dnd, nextId>>

\* move_to_workspace: only the window the view is on can take the view along.
MoveToWorkspace(w, p, idx, activate) ==
  LET k   == p[1]
      m   == monitors[k]
      new == MinOf(idx, Len(m.ws))
  IN  /\ w \in WorkspaceAt(p).wins
      /\ new # p[2]
      /\ activate => p[2] = m.active
      /\ SetMonitor(k, CleanUpIfIdle(
           AddWindows(TakeWindows(m, p[2], {w}), new, {w}, activate, nextId)))
      /\ TakeIds
      /\ UNCHANGED <<stillVars, focused, userVars, mapped>>

\* move_column_to_workspace, on the focused monitor.  There is no clean-up:
\* the workspace left behind is active or the switch away from it animates.
MoveColumnToWorkspace(wins, idx, activate) ==
  LET m   == monitors[focused]
      new == MinOf(idx, Len(m.ws))
  IN  /\ wins # {} /\ wins \subseteq m.ws[m.active].wins
      /\ new # m.active
      /\ SetMonitor(focused,
           AddWindows(TakeWindows(m, m.active, wins), new, wins, activate, nextId))
      /\ TakeIds
      /\ UNCHANGED <<stillVars, focused, userVars, mapped>>

MoveToOutput(w, p, k, idx, activate) ==
  LET from  == p[1]
      taken == [monitors EXCEPT ![from] = TakeWindows(@, p[2], {w})]
      added == [taken EXCEPT ![k] = AddWindows(@, idx, {w}, activate, nextId)]
  IN  /\ w \in WorkspaceAt(p).wins
      /\ <<k, idx>> # p
      /\ activate => from = focused /\ p[2] = monitors[from].active
      /\ monitors' = [added EXCEPT ![from] = CleanUpIfIdle(@)]
      /\ focused' = IF activate THEN k ELSE focused
      /\ TakeIds
      /\ UNCHANGED <<stillVars, userVars, mapped>>

MoveColumnToOutput(wins, k, idx, activate) ==
  LET m     == monitors[focused]
      taken == [monitors EXCEPT ![focused] = TakeWindows(@, m.active, wins)]
      to    == MinOf(idx, Len(monitors[k].ws))
  IN  /\ wins # {} /\ wins \subseteq m.ws[m.active].wins
      /\ monitors' = [taken EXCEPT ![k] = AddWindows(@, to, wins, activate, nextId)]
      /\ focused' = IF activate THEN k ELSE focused
      /\ TakeIds
      /\ UNCHANGED <<stillVars, userVars, mapped>>

(***************************************************************************)
(* Workspaces moving, being named, and following the configuration         *)
(***************************************************************************)
\* An operation of one monitor that concerns nothing else.
OnMonitor(k, m) == /\ SetMonitor(k, m)
                   /\ UNCHANGED <<stillVars, focused, userVars, mapped>>

MoveActiveWorkspaceDown ==
  OnMonitor(focused, MoveWorkspaceDown(monitors[focused], nextId)) /\ TakeIds
MoveActiveWorkspaceUp ==
  OnMonitor(focused, MoveWorkspaceUp(monitors[focused], nextId)) /\ TakeIds
MoveWorkspaceTo(p, idx) ==
  OnMonitor(p[1], MoveWorkspaceToIdx(monitors[p[1]], p[2], idx, nextId)) /\ TakeIds

BadOwned(w, o) == w

Owned(w, o) == [w EXCEPT !.orig = o]

\* move_workspace_to_output_by_id.  The view follows the focused workspace.
MoveWorkspaceToOutput(p, k) ==
  LET m        == monitors[p[1]]
      moved    == Owned(WorkspaceAt(p), monitors[k].output)
      activate == p[1] = focused /\ p[2] = m.active
      removed  == [monitors EXCEPT ![p[1]] = RemoveWorkspace(@, p[2], nextId)]
      inserted == [removed EXCEPT
                     ![k] = InsertWorkspace(@, moved, @.active + 1, activate, nextId + 2)]
  IN  /\ monitors' = IF p[1] = k THEN [monitors EXCEPT ![k].ws[p[2]] = moved]
                                 ELSE inserted
      /\ focused' = IF activate THEN k ELSE focused
      /\ TakeIds
      /\ UNCHANGED <<stillVars, userVars, mapped>>

\* The first workspace (if it must stay empty) or the last of an unfocused monitor.
UnfocusedEdge(p) ==
  /\ p[1] # focused
  /\ p[2] = Len(monitors[p[1]].ws) \/ (monitors[p[1]].eaf /\ p[2] = 1)

\* set_workspace_name puts back the empty workspaces at the ends of the
\* focused monitor, wherever the workspace is.
SetWorkspaceName(n, p) ==
  LET named == [monitors EXCEPT ![p[1]].ws[p[2]].name = n]
  IN  /\ n \notin UsedNames
      /\ UnfocusedEdge(p) => NameUnfocusedEdge
      /\ monitors' = IF p[1] = focused
                       THEN [named EXCEPT ![focused] = LET m == named[focused]
                                                           m1 == IF m.eaf /\ p[2] = 1
                                                                   THEN AddWorkspaceTop(m, nextId) ELSE m
                                                       IN  IF p[2] = Len(m.ws)
                                                             THEN AddWorkspaceBottom(m1, nextId + 1)
                                                             ELSE m1]
                       ELSE named
      /\ TakeIds
      /\ UNCHANGED <<stillVars, focused, userVars, mapped>>

SetStrandedName(n, i) ==
  /\ n \notin UsedNames
  /\ stranded' = [stranded EXCEPT ![i].name = n]
  /\ UNCHANGED <<monitors, primary, focused, lastActive, userVars, mapped, nextId>>

UnsetWorkspaceName(p) ==
  OnMonitor(p[1], UnnameWorkspace(monitors[p[1]], p[2])) /\ UNCHANGED nextId

UnsetStrandedName(i) ==
  /\ stranded' = IF stranded[i].wins = {} THEN RemoveAt(stranded, i)
                                          ELSE [stranded EXCEPT ![i].name = NoName]
  /\ UNCHANGED <<monitors, primary, focused, lastActive, userVars, mapped, nextId>>

\* ensure_named_workspace, for a workspace of the configuration that opens on
\* output o (NoOutput: on the focused one).
EnsureNamedWorkspace(n, o) ==
  LET k == IF o = NoOutput THEN focused
           ELSE IF o \in Connected THEN MonitorOf(o) ELSE primary
      Configured(orig) == [NewWorkspace(orig, nextId) EXCEPT !.name = n]
  IN  /\ n \notin UsedNames
      /\ IF monitors # <<>>
           THEN /\ SetMonitor(k, InsertWorkspace(monitors[k],
                     Configured(IF o = NoOutput THEN monitors[k].output ELSE o),
                     1, FALSE, nextId + 1))
                /\ UNCHANGED stranded
           ELSE /\ stranded' = <<Configured(o)>> \o stranded
                /\ UNCHANGED monitors
      /\ TakeIds
      /\ UNCHANGED <<primary, focused, lastActive, userVars, mapped>>

\* update_config on every monitor.
ReloadConfig(c) ==
  /\ config' = c
  /\ monitors' = [k \in DOMAIN monitors |->
                    UpdateConfig(monitors[k], c[monitors[k].output], nextId + k)]
  /\ nextId' = nextId + Len(monitors) + 1
  /\ UNCHANGED <<stillVars, focused, overviewOpen, move, dnd, mapped>>

(***************************************************************************)
(* Switching workspaces                                                    *)
(***************************************************************************)
SwitchTo(i) ==
  OnMonitor(focused, SwitchWorkspace(monitors[focused], i)) /\ UNCHANGED nextId

\* FocusWorkspace for a workspace of another output.
SwitchToOn(k, i) ==
  /\ SetMonitor(k, SwitchWorkspace(monitors[k], i))
  /\ focused' = k
  /\ UNCHANGED <<stillVars, userVars, mapped, nextId>>

SwitchUp(k) ==
  /\ \E i \in SwitchUpTargets(monitors[k]) : OnMonitor(k, ActivateWorkspace(monitors[k], i))
  /\ UNCHANGED nextId
SwitchDown(k) ==
  /\ \E i \in SwitchDownTargets(monitors[k]) : OnMonitor(k, ActivateWorkspace(monitors[k], i))
  /\ UNCHANGED nextId

\* switch_workspace_previous, which is also switch_workspace_auto_back_and_forth
\* to the active workspace.
SwitchPrevious ==
  /\ \E i \in PreviousIdx(monitors[focused]) :
       OnMonitor(focused, SwitchWorkspace(monitors[focused], i))
  /\ UNCHANGED nextId

\* activate_window: a swipe that already shows the window is left alone.
ActivateWindow(p, stay) ==
  LET m == monitors[p[1]]
  IN  /\ WorkspaceAt(p).wins # {}
      /\ stay => IsGesture(m.sw) /\ p[2] \in {m.sw.at, m.sw.at + 1}
      /\ ~stay => ~(IsGesture(m.sw) /\ p[2] = m.sw.at)
      /\ monitors' = IF stay THEN monitors
                     ELSE [monitors EXCEPT ![p[1]] = SwitchWorkspace(m, p[2])]
      /\ focused' = p[1]
      /\ UNCHANGED <<stillVars, userVars, mapped, nextId>>

\* Clicking a window in the overview: toggle_overview_to_workspace.
OpenFromOverview(p) ==
  /\ overviewOpen
  /\ WorkspaceAt(p).wins # {}
  /\ SetMonitor(p[1], ActivateWorkspace(monitors[p[1]], p[2]))
  /\ focused' = p[1]
  /\ overviewOpen' = FALSE
  /\ UNCHANGED <<stillVars, config, move, dnd, mapped, nextId>>

ToggleOverview ==
  /\ overviewOpen' = ~overviewOpen
  /\ UNCHANGED <<monitors, stillVars, focused, config, move, dnd, mapped, nextId>>

\* advance_animations, when the workspace switch of monitor k has run out.
AnimationDone(k) ==
  /\ monitors[k].sw.kind = "animation"
  /\ OnMonitor(k, Settle(monitors[k]))
  /\ UNCHANGED nextId

(***************************************************************************)
(* Swipes, edge scrolls and dragged windows                                *)
(***************************************************************************)
\* workspace_switch_gesture_begin on monitor k cancels the others' gestures.
SwipeBegin(k, f) ==
  /\ Swipes
  /\ f[k] = monitors[k].active
  /\ \A j \in DOMAIN monitors \ {k} :
       f[j] \in IF IsGesture(monitors[j].sw) THEN GestureEndTargets(monitors[j])
                                             ELSE {monitors[j].active}
  /\ monitors' = [j \in DOMAIN monitors |->
                    IF j = k THEN [monitors[k] EXCEPT !.sw = Swipe(monitors[k].active, ~overviewOpen)]
                    ELSE IF IsGesture(monitors[j].sw) THEN GestureEnd(monitors[j], f[j])
                    ELSE monitors[j]]
  /\ UNCHANGED <<stillVars, focused, userVars, mapped, nextId>>

\* The view follows the fingers, a little beyond the first workspace, or
\* scrolls while something is dragged along an edge of the output.
GestureUpdate(k, i) ==
  LET m == monitors[k]
      low == GestureMin(m.sw)
  IN  /\ IsGesture(m.sw)
      /\ i \in (IF m.sw.kind = "swipe" THEN low - 1 ELSE low)..GestureMax(m.sw, Len(m.ws))
      /\ OnMonitor(k, [m EXCEPT !.sw.at = i])
      /\ UNCHANGED nextId

SwipeEnd(k) ==
  /\ IsGesture(monitors[k].sw)
  /\ \E i \in GestureEndTargets(monitors[k]) : OnMonitor(k, GestureEnd(monitors[k], i))
  /\ UNCHANGED nextId

\* A client drag-and-drop begins, is held over a workspace, and ends.
DndBegin ==
  /\ Swipes /\ ~dnd
  /\ dnd' = TRUE
  /\ monitors' = DndScrollsBegun
  /\ UNCHANGED <<stillVars, focused, overviewOpen, config, move, mapped, nextId>>

DndHold(p, f) ==
  LET k == p[1]
      m == IF monitors[k].sw.kind = "dnd" THEN GestureEnd(monitors[k], f[k]) ELSE monitors[k]
  IN  /\ dnd
      /\ SetMonitor(k, ActivateWorkspace(m, p[2]))
      /\ focused' = k
      /\ overviewOpen' = FALSE
      /\ UNCHANGED <<stillVars, config, move, dnd, mapped, nextId>>

DndEnd(f) ==
  /\ dnd
  /\ dnd' = FALSE
  /\ monitors' = DndScrollsEnded(f)
  /\ UNCHANGED <<stillVars, focused, overviewOpen, config, move, mapped, nextId>>

InteractiveMoveBegin(w) ==
  /\ w \in Draggable
  /\ move = NotMoving
  /\ \E p \in Places : w \in WorkspaceAt(p).wins
  /\ move' = Starting(w)
  /\ monitors' = DndScrollsBegun
  /\ UNCHANGED <<stillVars, focused, overviewOpen, config, dnd, mapped, nextId>>

\* The pointer has moved far enough: the window leaves its workspace.
InteractiveMoveStart(w, o) ==
  /\ move = Starting(w)
  /\ o \in Connected
  /\ move' = Moving(w, o)
  /\ monitors' = WithoutWindow(monitors, w)
  /\ UNCHANGED <<stillVars, focused, overviewOpen, config, dnd, mapped, nextId>>

InteractiveMoveTo(w, o) ==
  /\ move.kind = "moving" /\ move.win = {w}
  /\ o \in Connected \ {move.output}
  /\ move' = Moving(w, o)
  /\ focused' = MonitorOf(o)
  /\ UNCHANGED <<monitors, stillVars, overviewOpen, config, dnd, mapped, nextId>>

\* The drag ends before it has moved the window off its workspace.
InteractiveMoveCancel(f) ==
  /\ move.kind = "starting"
  /\ move' = NotMoving
  /\ monitors' = DndScrollsEnded(f)
  /\ UNCHANGED <<stillVars, focused, overviewOpen, config, dnd, mapped, nextId>>

\* Where a dragged window is dropped: an existing workspace or, pointing
\* between two of them, a new one; blank workspaces at the ends are reused.
DropOnNew(m, j, id) ==
  IF (m.eaf /\ j = 1) \/ j >= Len(m.ws) THEN m ELSE AddWorkspaceAt(m, j, id)
DropIdx(m, j) ==
  IF m.eaf /\ j = 1 THEN 1 ELSE MinOf(j, Len(m.ws))

\* A drop into a column (add_tile_to_column) leaves the ends alone, and so does
\* AddWindows there: a workspace with a column is at neither end.
\* A monitor whose output went away during the drag is replaced by the top
\* workspace of the focused one.  In the overview the view stays where it is.
InteractiveMoveEnd(w, f, idx, isNew) ==
  LET ms == DndScrollsEnded(f)
      on == move.output \in Connected
      k  == IF on THEN MonitorOf(move.output) ELSE focused
      m  == IF on /\ isNew THEN DropOnNew(ms[k], idx, nextId) ELSE ms[k]
      i  == IF ~on THEN 1 ELSE IF isNew THEN DropIdx(ms[k], idx) ELSE idx
  IN  /\ move.kind = "moving" /\ move.win = {w}
      /\ move' = NotMoving
      /\ idx \in 1..Len(ms[k].ws) + (IF isNew THEN 1 ELSE 0)
      /\ monitors' = [ms EXCEPT ![k] = AddWindows(m, i, {w}, ~overviewOpen, nextId + 1)]
      /\ TakeIds
      /\ UNCHANGED <<stillVars, focused, overviewOpen, config, dnd, mapped>>

InteractiveMoveEndStranded(w) ==
  /\ move.kind = "moving" /\ move.win = {w}
  /\ monitors = <<>>
  /\ move' = NotMoving
  /\ stranded' = [StrandedOrNew EXCEPT ![1].wins = @ \cup {w}]
  /\ TakeIds
  /\ UNCHANGED <<monitors, primary, focused, lastActive, overviewOpen, config, dnd, mapped>>

-----------------------------------------------------------------------------
NoLastActive == [o \in Output |-> NoId]

Init ==
  /\ monitors = <<>> /\ primary = 0 /\ focused = 0
  /\ stranded = <<>> /\ lastActive = NoLastActive
  /\ overviewOpen = FALSE /\ config \in Configs
  /\ move = NotMoving /\ dnd = FALSE
  /\ mapped = {} /\ nextId = 1

HotplugNext == \E o \in Output : AddOutput(o) \/ RemoveOutput(o)

WindowNext ==
  \/ \E w \in Window, p \in Places, act \in BOOLEAN : AddWindow(w, p, act)
  \/ \E w \in Window, i \in DOMAIN StrandedOrNew : AddWindowStranded(w, i)
  \/ \E w \in Window, f \in Landings : RemoveWindow(w, f)
  \/ \E p \in Places, act \in BOOLEAN : \E w \in WorkspaceAt(p).wins :
       \/ \E i \in DOMAIN monitors[p[1]].ws : MoveToWorkspace(w, p, i, act)
       \/ \E q \in Places : MoveToOutput(w, p, q[1], q[2], act)
  \/ \E p \in Places, act \in BOOLEAN :
       /\ p = <<focused, monitors[focused].active>>
       /\ \E wins \in SUBSET WorkspaceAt(p).wins :
            \/ \E i \in DOMAIN monitors[focused].ws : MoveColumnToWorkspace(wins, i, act)
            \/ \E q \in Places : MoveColumnToOutput(wins, q[1], q[2], act)

WorkspaceNext ==
  \/ monitors # <<>> /\ (MoveActiveWorkspaceDown \/ MoveActiveWorkspaceUp)
  \/ \E p \in Places : \E i \in DOMAIN monitors[p[1]].ws : MoveWorkspaceTo(p, i)
  \/ \E p \in Places, k \in DOMAIN monitors : MoveWorkspaceToOutput(p, k)
  \/ \E n \in Name, p \in Places : SetWorkspaceName(n, p)
  \/ \E n \in Name, i \in DOMAIN stranded : SetStrandedName(n, i)
  \/ \E p \in Places : UnsetWorkspaceName(p)
  \/ \E i \in DOMAIN stranded : UnsetStrandedName(i)
  \/ \E n \in Name, o \in Output \cup {NoOutput} : EnsureNamedWorkspace(n, o)
  \/ \E c \in Configs : ReloadConfig(c)

SwitchNext ==
  \/ \E k \in DOMAIN monitors :
       FocusOutput(k) \/ SwitchUp(k) \/ SwitchDown(k) \/ AnimationDone(k)
  \/ \E p \in Places : \/ p[1] = focused /\ SwitchTo(p[2])
                       \/ SwitchToOn(p[1], p[2])
                       \/ \E stay \in BOOLEAN : ActivateWindow(p, stay)
  \/ monitors # <<>> /\ SwitchPrevious

OverviewNext == ToggleOverview \/ \E p \in Places : OpenFromOverview(p)

DragNext ==
  \/ \E k \in DOMAIN monitors :
       \/ \E f \in [DOMAIN monitors -> UNION {DOMAIN monitors[j].ws : j \in DOMAIN monitors}] :
            SwipeBegin(k, f)
       \/ \E i \in 0..Len(monitors[k].ws) : GestureUpdate(k, i)
       \/ SwipeEnd(k)
  \/ DndBegin
  \/ \E f \in Landings : DndEnd(f) \/ InteractiveMoveCancel(f)
  \/ \E p \in Places, f \in Landings : DndHold(p, f)
  \/ \E w \in Window, o \in Output :
       InteractiveMoveBegin(w) \/ InteractiveMoveStart(w, o) \/ InteractiveMoveTo(w, o)
  \/ \E w \in Window, f \in Landings, isNew \in BOOLEAN :
       \E i \in UNION {1..(Len(monitors[k].ws) + 1) : k \in DOMAIN monitors} :
          InteractiveMoveEnd(w, f, i, isNew)
  \/ \E w \in Window : InteractiveMoveEndStranded(w)

Next == HotplugNext \/ WindowNext \/ WorkspaceNext \/ SwitchNext \/ OverviewNext \/ DragNext

Spec == Init /\ [][Next]_vars
=============================================================================
