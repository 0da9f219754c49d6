------------------------------ MODULE Monitor ------------------------------
(***************************************************************************)
(* One output's stack of dynamic workspaces: the operations of             *)
(* `impl Monitor` (src/src/layout/monitor.rs) as operators on a record.    *)
(*                                                                         *)
(* A workspace is a record [id, orig, name, wins]: its unique id, the      *)
(* output it originated on, its name or NoName, and the windows on it (how *)
(* they are tiled is the business of other modules).  A monitor is a       *)
(* record                                                                  *)
(*    output    the connected output                                       *)
(*    eaf       options.layout.empty_workspace_above_first                 *)
(*    ws        the workspaces, top to bottom                              *)
(*    active    active_workspace_idx, counted from 1                       *)
(*    prev      previous_workspace_id, or NoId                             *)
(*    sw        workspace_switch                                           *)
(*    panicked  an assert!, an index or a clamp() of the code has failed   *)
(* Indices count from 1 where the code counts from 0.                      *)
(*                                                                         *)
(* An operator whose name starts with Bad is the next definition with a    *)
(* plausible mistake; the properties are tried against it.                 *)
(***************************************************************************)
EXTENDS Integers, FiniteSets, SequencesExt, Subsequence

CONSTANTS Output, Window, Name,   \* outputs, windows, workspace names
          NoOutput, NoName        \* no original output, unnamed

ASSUME NoValues == NoOutput \notin Output /\ NoName \notin Name

NoId == 0

(***************************************************************************)
(* Sequences                                                               *)
(***************************************************************************)
Swap(s, i, j) == [s EXCEPT ![i] = s[j], ![j] = s[i]]

MinOf(a, b) == IF a <= b THEN a ELSE b
MaxOf(a, b) == IF a >= b THEN a ELSE b

(***************************************************************************)
(* Workspaces                                                              *)
(***************************************************************************)
NewWorkspace(o, id) == [id |-> id, orig |-> o, name |-> NoName, wins |-> {}]

HasWindowsOrName(w) == w.wins # {} \/ w.name # NoName

IsBlank(w) == ~HasWindowsOrName(w)

(***************************************************************************)
(* The workspace switch: at rest, animating to the active workspace, a     *)
(* touchpad or touch swipe, or drag-and-drop edge scrolling.  `at` is      *)
(* floor(current_idx), the workspace at the top of the view, which is 0    *)
(* when the swipe has been rubber-banded above the first one.  The target  *)
(* of an animation is always the active workspace, so it is not stored.    *)
(***************************************************************************)
NoSwitch == [kind |-> "none", clamped |-> FALSE, center |-> 1, at |-> 1]
Animation == [NoSwitch EXCEPT !.kind = "animation"]
SwitchKind == {"none", "animation", "swipe", "dnd"}
IsGesture(sw) == sw.kind \in {"swipe", "dnd"}

Swipe(center, clamped) ==
  [kind |-> "swipe", clamped |-> clamped, center |-> center, at |-> center]
DndScroll(center) ==
  [kind |-> "dnd", clamped |-> FALSE, center |-> center, at |-> center]

\* WorkspaceSwitch::offset(1), when a workspace appears at or above the target.
OffsetFor(sw, i) ==
  IF IsGesture(sw) /\ i <= sw.at
    THEN [sw EXCEPT !.center = @ + 1, !.at = @ + 1]
    ELSE sw

\* WorkspaceSwitchGesture::min_max
GestureMin(sw) == IF sw.clamped THEN MaxOf(sw.center - 1, 1) ELSE 1
GestureMax(sw, count) == IF sw.clamped THEN MinOf(sw.center + 1, count) ELSE count

(***************************************************************************)
(* The types of an id, a workspace, a workspace switch and a monitor       *)
(***************************************************************************)
Id == Nat \ {0}

Workspace == [id : Id, orig : Output \cup {NoOutput}, name : Name \cup {NoName},
              wins : SUBSET Window]

Switch == [kind : SwitchKind, clamped : BOOLEAN, center : Nat, at : Nat]

Monitor == [output : Output, eaf : BOOLEAN, ws : Seq(Workspace), active : Nat,
            prev : Id \cup {NoId}, sw : Switch, panicked : BOOLEAN]

(***************************************************************************)
(* Operations of a monitor                                                 *)
(***************************************************************************)
AddWorkspaceAt(m, i, id) ==
  [m EXCEPT !.ws     = InsertAt(@, i, NewWorkspace(m.output, id)),
            !.active = IF i <= @ THEN @ + 1 ELSE @,
            !.sw     = OffsetFor(@, i)]

AddWorkspaceTop(m, id) == AddWorkspaceAt(m, 1, id)
AddWorkspaceBottom(m, id) == AddWorkspaceAt(m, Len(m.ws) + 1, id)

ActivateWorkspace(m, i) ==
  [m EXCEPT !.active = i,
            !.prev   = IF m.active # i THEN m.ws[m.active].id ELSE @,
            !.sw     = IF @.kind = "dnd" THEN [@ EXCEPT !.center = i, !.at = i]
                       ELSE IF m.active = i THEN @
                       ELSE Animation]

\* The loop of clean_up_workspaces removes every workspace that is blank, not
\* active, not the last one and not the empty one above the first.
CleanUpDropped(m) ==
  {i \in (IF m.eaf THEN 2 ELSE 1)..(Len(m.ws) - 1) : i # m.active /\ IsBlank(m.ws[i])}

CleanUpWorkspaces(m) ==
  LET dropped == CleanUpDropped(m)
      ws      == Keep(m.ws, (1..Len(m.ws)) \ dropped)
      active  == m.active - Cardinality({i \in dropped : i < m.active})
      two     == m.eaf /\ Len(ws) = 2
  IN [m EXCEPT !.ws       = IF two THEN <<ws[1]>> ELSE ws,
               !.active   = IF two THEN 1 ELSE active,
               !.panicked = \/ @
                            \/ m.sw.kind # "none"
                            \/ two /\ \E i \in 1..2 : HasWindowsOrName(ws[i])]

\* Most callers drop the workspace switch first, because of the assertion.
Settle(m) == CleanUpWorkspaces([m EXCEPT !.sw = NoSwitch])

CleanUpIfIdle(m) == IF m.sw.kind = "none" THEN CleanUpWorkspaces(m) ELSE m

\* Keep an empty workspace below the last one and, if configured, above the
\* first one, when workspace i has just been filled; ids are id and id + 1.
BadKeepEnds(m, i, id) ==
  IF i = Len(m.ws) THEN AddWorkspaceBottom(m, id) ELSE m

KeepEnds(m, i, id) ==
  LET m1 == IF i = Len(m.ws) THEN AddWorkspaceBottom(m, id) ELSE m
  IN  IF m1.eaf /\ i = 1 THEN AddWorkspaceTop(m1, id + 1) ELSE m1

\* Where workspace i ends up after KeepEnds.
AfterTop(m, i) == IF m.eaf /\ i = 1 THEN i + 1 ELSE i

\* add_tile (wins is a singleton) and add_column (the windows of a column).
AddWindows(m, i, wins, activate, id) ==
  LET filled == [m EXCEPT !.ws[i].wins = @ \cup wins,
                          !.ws[i].orig = IF m.ws[i].name = NoName THEN m.output ELSE @]
      ends   == KeepEnds(filled, i, id)
  IN  IF activate THEN ActivateWorkspace(ends, AfterTop(m, i)) ELSE ends

\* Workspace::remove_tile and remove_active_column, on workspace i of m.
TakeWindows(m, i, wins) == [m EXCEPT !.ws[i].wins = @ \ wins]

UnnameWorkspace(m, i) == CleanUpIfIdle([m EXCEPT !.ws[i].name = NoName])

\* remove_workspace_by_idx: the monitor without workspace i (the caller takes
\* m.ws[i] itself).
RemoveWorkspace(m, i, id) ==
  LET ends   == KeepEnds(m, i, id)
      at     == AfterTop(m, i)
      active == IF at <= ends.active /\ ends.active > 1
                  THEN ends.active - 1 ELSE ends.active
  IN  Settle([ends EXCEPT !.ws = RemoveAt(@, at), !.active = active])

InsertWorkspace(m, w, idx, activate, id) ==
  LET i0  == IF idx = Len(m.ws) + 1 THEN idx - 1 ELSE idx
      top == i0 = 1 /\ m.eaf
      m1  == IF top THEN AddWorkspaceTop(m, id) ELSE m
      i   == IF top THEN 2 ELSE i0
      m2  == [m1 EXCEPT !.ws     = InsertAt(@, i, w),
                        !.active = IF i <= @ THEN @ + 1 ELSE @]
      m3  == IF activate THEN ActivateWorkspace([m2 EXCEPT !.sw = NoSwitch], i) ELSE m2
  IN  Settle(m3)

AppendWorkspaces(m, added, id) ==
  LET n    == Len(m.ws)
      m1   == [m EXCEPT !.ws = SubSeq(@, 1, n - 1) \o added \o <<m.ws[n]>>]
      m2   == IF m1.eaf /\ HasWindowsOrName(m1.ws[1]) THEN AddWorkspaceTop(m1, id) ELSE m1
      m3   == IF m.active = n THEN [m2 EXCEPT !.active = Len(m2.ws)] ELSE m2
  IN  IF added = <<>> THEN m ELSE Settle(m3)

\* The workspace that a new monitor shows: the last one with the remembered id.
BadFirstActive(kept, id) == 1

FirstActive(kept, id) ==
  LET hits == {i \in 1..Len(kept) : kept[i].id = id}
  IN  IF hits = {} THEN 1 ELSE Nth(hits, Cardinality(hits))

\* Monitor::new, for the workspaces that come with the output.
NewMonitor(o, kept, activateId, eaf, id) ==
  LET body   == Append(kept, NewWorkspace(o, id))
      top    == eaf /\ kept # <<>>
      first  == FirstActive(kept, activateId)
  IN [output |-> o, eaf |-> eaf,
      ws       |-> IF top THEN InsertAt(body, 1, NewWorkspace(o, id + 1)) ELSE body,
      active   |-> IF top THEN first + 1 ELSE first,
      prev     |-> NoId,
      sw       |-> NoSwitch,
      panicked |-> \E i \in 1..Len(kept) : IsBlank(kept[i])]

\* into_workspaces
IntoWorkspaces(m) ==
  Keep(m.ws, {i \in 1..Len(m.ws) : HasWindowsOrName(m.ws[i])})

\* move_workspace_down and move_workspace_up share everything but the
\* direction: the active workspace changes places with its neighbour `to`.
SwapActive(m, to, id) ==
  LET from    == m.active
      swapped == [m EXCEPT !.ws = Swap(@, from, to)]
      bottom  == IF MaxOf(from, to) = Len(m.ws)
                   THEN AddWorkspaceBottom(swapped, id) ELSE swapped
      top     == m.eaf /\ MinOf(from, to) = 1
      ends    == IF top THEN AddWorkspaceTop(bottom, id + 1) ELSE bottom
  IN  IF from = to THEN m
      ELSE Settle([ends EXCEPT !.active = IF top THEN to + 1 ELSE to])

MoveWorkspaceDown(m, id) == SwapActive(m, MinOf(m.active + 1, Len(m.ws)), id)
MoveWorkspaceUp(m, id) == SwapActive(m, MaxOf(m.active - 1, 1), id)

\* The index of the active workspace once workspace old is at index new.
BadActiveAfterMove(m, old, new) ==
  IF m.active = old THEN new
  ELSE IF old < m.active /\ m.active < new THEN m.active - 1
  ELSE IF new <= m.active /\ m.active < old THEN m.active + 1
  ELSE m.active

ActiveAfterMove(m, old, new) ==
  IF m.active = old THEN new
  ELSE IF old < m.active /\ m.active <= new THEN m.active - 1
  ELSE IF new <= m.active /\ m.active < old THEN m.active + 1
  ELSE m.active

MoveWorkspaceToIdx(m, old, idx, id) ==
  LET new    == MinOf(idx, Len(m.ws))
      moved  == [m EXCEPT !.ws = InsertAt(RemoveAt(@, old), new, m.ws[old])]
      bottom == IF MaxOf(old, new) = Len(m.ws)
                  THEN AddWorkspaceBottom(moved, id) ELSE moved
      top    == m.eaf /\ MinOf(old, new) = 1
      ends   == IF top THEN AddWorkspaceTop(bottom, id + 1) ELSE bottom
      shift  == IF top THEN 1 ELSE 0
  IN  IF old > Len(m.ws) \/ old = new THEN m
      ELSE Settle([ends EXCEPT !.active = ActiveAfterMove(m, old, new) + shift])

\* update_config, of which only empty_workspace_above_first moves workspaces.
UpdateConfig(m, eaf, id) ==
  LET changed == m.eaf # eaf /\ Len(m.ws) > 1
      m1 == IF changed /\ eaf THEN AddWorkspaceTop(m, id)
            ELSE IF changed /\ m.sw.kind = "none" /\ m.active # 1
              THEN [m EXCEPT !.ws = RemoveAt(@, 1), !.active = @ - 1]
            ELSE m
  IN  [m1 EXCEPT !.eaf = eaf]

SwitchWorkspace(m, i) == ActivateWorkspace(m, MinOf(i, Len(m.ws)))

\* previous_workspace_idx: where the previous workspace is, if it is still here.
PreviousIdx(m) == {i \in 1..Len(m.ws) : m.ws[i].id = m.prev}

\* switch_workspace_up and _down go to a neighbour; during an edge scroll to
\* the neighbour of the apparent workspace, and the view may be between two.
SwitchUpTargets(m) ==
  IF m.sw.kind = "dnd" THEN {MaxOf(m.sw.at - 1, 1), m.sw.at}
                       ELSE {MaxOf(m.active - 1, 1)}
SwitchDownTargets(m) ==
  IF m.sw.kind = "dnd" THEN {MinOf(m.sw.at + 1, Len(m.ws))}
                       ELSE {MinOf(m.active + 1, Len(m.ws))}

\* The workspace left behind by a closed window (Layout::remove_window).
BadCleanUpAfterClose(m, i) ==
  LET gone == IsBlank(m.ws[i]) /\ i # m.active /\ i # Len(m.ws)
      m1   == IF gone THEN [m EXCEPT !.ws     = RemoveAt(@, i),
                                     !.active = IF i < @ THEN @ - 1 ELSE @]
                      ELSE m
  IN  IF m1.eaf /\ Len(m1.ws) = 2 THEN [m1 EXCEPT !.ws = <<m1.ws[1]>>, !.active = 1] ELSE m1

CleanUpAfterClose(m, i) ==
  LET gone == /\ IsBlank(m.ws[i]) /\ i # m.active /\ i # Len(m.ws)
              /\ m.sw.kind = "none"
      m1   == IF gone THEN [m EXCEPT !.ws     = RemoveAt(@, i),
                                     !.active = IF i < @ THEN @ - 1 ELSE @]
                      ELSE m
      two  == m1.eaf /\ Len(m1.ws) = 2 /\ m1.sw.kind = "none"
  IN  IF two THEN [m1 EXCEPT !.ws       = <<m1.ws[1]>>,
                             !.active   = 1,
                             !.panicked = @ \/ \E j \in 1..2 : HasWindowsOrName(m1.ws[j])]
             ELSE m1

\* dnd_scroll_gesture_begin
DndScrollBegin(m, overviewOpen) ==
  IF m.sw.kind # "dnd" /\ overviewOpen THEN [m EXCEPT !.sw = DndScroll(m.active)] ELSE m

\* workspace_switch_gesture_end, towards the workspace the swipe projects to.
\* f64::clamp panics when the lower bound is above the upper one.
GestureEndTargets(m) ==
  LET lo == GestureMin(m.sw)
      hi == GestureMax(m.sw, Len(m.ws))
  IN  IF lo <= hi THEN lo..hi ELSE {m.active}

GestureEnd(m, i) ==
  [m EXCEPT !.active   = i,
            !.prev     = IF m.active # i THEN m.ws[m.active].id ELSE @,
            !.sw       = Animation,
            !.panicked = @ \/ GestureMin(m.sw) > GestureMax(m.sw, Len(m.ws))]
=============================================================================
