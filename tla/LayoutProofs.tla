---------------------------- MODULE LayoutProofs ----------------------------
(***************************************************************************)
(* What is proved of the layout, for any outputs, windows, names and       *)
(* configurations and however many calls: every monitor is sound after     *)
(* every call, so that no index is out of range, no assertion fails and    *)
(* the blank workspaces are where they belong.                             *)
(* Its last part is what the calls do to the views of the outputs, which   *)
(* ContentsProofs completes.                                               *)
(*                                                                         *)
(* The theorems leave out one call, naming by its id the workspace at the  *)
(* end of a monitor that is not the focused one: it takes the blank        *)
(* workspace of that monitor away (mod.rs, Layout::set_workspace_name), as *)
(* the run layout_named_edge shows, so nothing of this holds with it.      *)
(***************************************************************************)
EXTENDS LayoutProperties, MonitorProofs

(***************************************************************************)
(* The inductive invariant                                                 *)
(***************************************************************************)
\* Every monitor is sound.
Stacks(ms) == ms \in Seq(Monitor) /\ \A k \in 1..Len(ms) : Sound(ms[k])

\* An index of one of count monitors, if there is any.
IndexFits(i, count) == IF count = 0 THEN i = 0 ELSE i \in 1..count

\* Workspaces without a monitor, of which there are none as long as there are monitors.
Parked(st, count) ==
  /\ st \in Seq(Workspace) /\ (count # 0 => st = <<>>)
  /\ \A i \in 1..Len(st) : HasWindowsOrName(st[i])

\* An interactive move: none, one below the threshold, or one that is under way.
MoveType == [kind : {"none", "starting", "moving"}, win : SUBSET Window,
             output : Output \cup {NoOutput}]

\* The state beside the stacks is of the types that TypeOK gives it.
RestOK ==
  /\ lastActive \in [Output -> Id \cup {NoId}]
  /\ overviewOpen \in BOOLEAN /\ config \in Configs /\ move \in MoveType
  /\ dnd \in BOOLEAN /\ mapped \subseteq Window /\ nextId \in Id

\* Between two calls every monitor is sound, the indices of the primary and of the
\* focused monitor are in range, and only named or filled workspaces are parked.
IInv ==
  /\ Stacks(monitors)
  /\ IndexFits(primary, Len(monitors)) /\ IndexFits(focused, Len(monitors))
  /\ Parked(stranded, Len(monitors))
  /\ RestOK

\* The invariant is what the properties need.
LEMMA IInvImplies ==
  ASSUME IInv
  PROVE  TypeOK /\ BlankWorkspaces /\ NoPanic
<1>1. monitors \in Seq(Monitor) /\ \A k \in 1..Len(monitors) : Sound(monitors[k])
  BY DEF IInv, Stacks
<1>2. DOMAIN monitors = 1..Len(monitors) /\ Len(monitors) \in Nat /\ (monitors = <<>> <=> Len(monitors) = 0)
  BY <1>1, EmptySeq
<1>3. stranded \in Seq(Workspace) /\ \A i \in 1..Len(stranded) : HasWindowsOrName(stranded[i])
  BY DEF IInv, Parked
<1>4. DOMAIN stranded = 1..Len(stranded)
  BY <1>3
<1>5. ASSUME NEW k \in DOMAIN monitors
      PROVE  /\ monitors[k].active \in DOMAIN monitors[k].ws /\ ~monitors[k].panicked
             /\ IsBlank(monitors[k].ws[Len(monitors[k].ws)])
             /\ monitors[k].eaf => IsBlank(monitors[k].ws[1]) /\ Len(monitors[k].ws) # 2
             /\ monitors[k].sw.kind = "none" => CleanUpDropped(monitors[k]) = {}
  <2>1. PICK m : m = monitors[k] /\ Sound(m)
    BY <1>1, <1>2
  <2>2. m.active \in 1..Len(m.ws) /\ m.ws \in Seq(Workspace) /\ ~m.panicked
    BY <2>1, MonitorFields DEF Sound, Nearly, Ready, Formed
  <2>3. DOMAIN m.ws = 1..Len(m.ws)
    BY <2>2
  <2>4. PICK l \in Nat : l = Len(m.ws)
    BY <2>2
  <2>5. IsBlank(m.ws[l]) /\ (m.eaf => IsBlank(m.ws[1]) /\ (l < 2 \/ l > 2))
    BY <2>1, <2>4 DEF Sound, Nearly, Ready, SpareEnds, Spare
  <2>6. m.eaf => l # 2
    <3>1. (l < 2 \/ l > 2) => l # 2
      OBVIOUS
    <3> QED BY <2>5, <3>1
  <2>7. m.sw.kind = "none" => CleanUpDropped(m) = {}
    BY <2>1, NothingToDrop
  <2> QED BY <2>1, <2>2, <2>3, <2>4, <2>5, <2>6, <2>7
<1>6. TypeOK
  <2>1. IF monitors = <<>> THEN primary = 0 /\ focused = 0
        ELSE primary \in DOMAIN monitors /\ focused \in DOMAIN monitors
    BY <1>2 DEF IInv, IndexFits
  <2>2. monitors # <<>> => stranded = <<>>
    BY <1>2 DEF IInv, Parked
  <2> QED BY <1>1, <1>3, <1>5, <2>1, <2>2 DEF TypeOK, IInv, RestOK, MoveType
<1>7. BlankWorkspaces
  BY <1>3, <1>4, <1>5 DEF BlankWorkspaces, BlankEnds, NoIdleBlank
<1> QED BY <1>5, <1>6, <1>7 DEF NoPanic

\* What the invariant says of the places where workspaces are.
LEMMA Around ==
  ASSUME IInv
  PROVE  /\ DOMAIN monitors = 1..Len(monitors) /\ Len(monitors) \in Nat
         /\ monitors = <<>> <=> Len(monitors) = 0
         /\ \A k \in 1..Len(monitors) :
              /\ Sound(monitors[k]) /\ Nearly(monitors[k]) /\ Ready(monitors[k])
              /\ DOMAIN monitors[k].ws = 1..Len(monitors[k].ws)
              /\ Len(monitors[k].ws) \in Nat
              /\ monitors[k].active \in 1..Len(monitors[k].ws)
              /\ monitors[k].output \in Output
         /\ monitors # <<>> => primary \in 1..Len(monitors) /\ focused \in 1..Len(monitors)
         /\ nextId \in Id
<1>1. monitors \in Seq(Monitor) /\ \A k \in 1..Len(monitors) : Sound(monitors[k])
  BY DEF IInv, Stacks
<1>2. DOMAIN monitors = 1..Len(monitors) /\ Len(monitors) \in Nat /\ (monitors = <<>> <=> Len(monitors) = 0)
  BY <1>1, EmptySeq
<1>3. ASSUME NEW k \in 1..Len(monitors)
      PROVE  /\ Sound(monitors[k]) /\ Nearly(monitors[k]) /\ Ready(monitors[k])
             /\ DOMAIN monitors[k].ws = 1..Len(monitors[k].ws)
             /\ Len(monitors[k].ws) \in Nat
             /\ monitors[k].active \in 1..Len(monitors[k].ws)
             /\ monitors[k].output \in Output
  <2>1. PICK m : m = monitors[k]
    OBVIOUS
  <2>2. Sound(m) /\ Nearly(m) /\ Ready(m) /\ m \in Monitor /\ m.active \in 1..Len(m.ws)
    BY <1>1, <2>1 DEF Sound, Nearly, Ready, Formed
  <2>3. m.ws \in Seq(Workspace) /\ m.output \in Output
    BY <2>2, MonitorFields
  <2> QED BY <2>1, <2>2, <2>3
<1> QED BY <1>2, <1>3 DEF IInv, IndexFits, RestOK

\* A place is that of a workspace of a monitor.
LEMMA PlaceThere ==
  ASSUME IInv, NEW p \in Places
  PROVE  /\ p[1] \in 1..Len(monitors) /\ p[2] \in 1..Len(monitors[p[1]].ws)
         /\ p = <<p[1], p[2]>> /\ WorkspaceAt(p) = monitors[p[1]].ws[p[2]]
         /\ WorkspaceAt(p) \in Workspace
<1>1. PICK k \in 1..Len(monitors) : p \in {k} \X DOMAIN monitors[k].ws
  BY Around DEF Places
<1>2. p[1] = k /\ p[2] \in 1..Len(monitors[k].ws) /\ p = <<p[1], p[2]>>
  BY <1>1, Around
<1>3. PICK m, i : m = monitors[k] /\ i = p[2]
  OBVIOUS
<1>4. m \in Monitor
  BY <1>1, <1>3, Around DEF Ready, Formed
<1>5. m.ws[i] \in Workspace
  BY <1>2, <1>3, <1>4, MonitorFields
<1> QED BY <1>2, <1>3, <1>5 DEF WorkspaceAt

\* ms with monitor n in the place of the k-th.
Exchanged(ms, k, n) == [ms EXCEPT ![k] = n]

\* Another sound monitor in the place of one.
LEMMA OneChanged ==
  ASSUME NEW ms, Stacks(ms), NEW k \in 1..Len(ms), NEW n, Sound(n),
         NEW ns, ns = Exchanged(ms, k, n)
  PROVE  /\ Stacks(ns) /\ Len(ns) = Len(ms) /\ ns[k] = n
         /\ \A j \in 1..Len(ms) : j # k => ns[j] = ms[j]
  BY DEF Exchanged, Stacks, Sound, Nearly, Ready, Formed

\* As many monitors as in ms.
Alike(ns, ms) == ns = [k \in DOMAIN ms |-> ns[k]]

\* Other sound monitors in the places of all of them.
LEMMA AllChanged ==
  ASSUME NEW ms, Stacks(ms), NEW ns, Alike(ns, ms),
         \A k \in 1..Len(ms) : Sound(ns[k])
  PROVE  Stacks(ns) /\ Len(ns) = Len(ms)
<1>1. ms \in Seq(Monitor) /\ DOMAIN ms = 1..Len(ms) /\ Len(ms) \in Nat
  BY DEF Stacks
<1>2. \A k \in 1..Len(ms) : ns[k] \in Monitor
  BY DEF Sound, Nearly, Ready, Formed
<1>3. ns \in [1..Len(ms) -> Monitor]
  BY <1>1, <1>2 DEF Alike
<1>4. ns \in Seq(Monitor) /\ Len(ns) = Len(ms)
  BY <1>1, <1>3
<1> QED BY <1>4 DEF Stacks

\* As long as no output comes or goes.
LEMMA SameMonitors ==
  ASSUME IInv, Stacks(monitors'), Len(monitors') = Len(monitors), UNCHANGED <<primary, stranded>>,
         IndexFits(focused', Len(monitors)), RestOK'
  PROVE  IInv'
  BY DEF IInv

\* A call that at most takes ids keeps the rest of the state in its types.
LEMMA RestKept ==
  ASSUME IInv, TakeIds, UNCHANGED <<stillVars, userVars, mapped>>
  PROVE  RestOK'
  BY DEF IInv, RestOK, TakeIds, IdsPerCall, stillVars, userVars, Id

-----------------------------------------------------------------------------
\* add_window, with outputs
LEMMA AddWindowKeeps ==
  ASSUME IInv, NEW w \in Window, NEW p \in Places, NEW act \in BOOLEAN, AddWindow(w, p, act)
  PROVE  IInv'
<1>1. PICK k, i, m : k = p[1] /\ i = p[2] /\ m = monitors[k]
  OBVIOUS
<1>2. k \in 1..Len(monitors) /\ i \in 1..Len(m.ws) /\ Sound(m) /\ Nearly(m) /\ nextId \in Id
  BY <1>1, PlaceThere, Around
<1>3. PICK n : n = AddWindows(m, i, {w}, act, nextId)
  OBVIOUS
<1>4. Sound(n)
  <2>1. {w} \in SUBSET Window /\ {w} # {}
    OBVIOUS
  <2>2. Nearly(n) /\ (IdleBut(m, i) => Idle(n))
    BY <1>2, <1>3, <2>1, WindowsAdded
  <2> QED BY <1>2, <2>2 DEF Sound, Idle, IdleBut
<1>5. Stacks(monitors') /\ Len(monitors') = Len(monitors)
  <2>1. monitors' = Exchanged(monitors, k, n) /\ Stacks(monitors)
    BY <1>1, <1>3 DEF AddWindow, SetMonitor, IInv, Exchanged
  <2> QED BY <1>2, <1>4, <2>1, OneChanged
<1>6. IndexFits(focused', Len(monitors))
  BY <1>1, <1>2 DEF AddWindow, IInv, IndexFits
<1>7. RestOK'
  BY DEF AddWindow, IInv, RestOK, TakeIds, IdsPerCall, stillVars, userVars, Id
<1> QED BY <1>5, <1>6, <1>7, SameMonitors DEF AddWindow, stillVars

\* With no outputs a window goes to a workspace that is left over, or to a new one.
LEMMA StrandedFilled ==
  ASSUME IInv, NEW w \in Window, NEW i \in DOMAIN StrandedOrNew,
         NEW sts, sts = [StrandedOrNew EXCEPT ![i].wins = @ \cup {w}]
  PROVE  Parked(sts, 0)
<1>1. PICK st, len : st = StrandedOrNew /\ len = Len(st)
  OBVIOUS
<1>2. st \in Seq(Workspace) /\ \A j \in 1..Len(st) : j # i => HasWindowsOrName(st[j])
  <2>1. CASE stranded = <<>>
    <3>1. PICK new : new = NewWorkspace(NoOutput, nextId)
      OBVIOUS
    <3>2. new \in Workspace
      BY <3>1 DEF NewWorkspace, Workspace, IInv, RestOK
    <3>3. st = <<new>>
      BY <1>1, <2>1, <3>1 DEF StrandedOrNew
    <3> QED BY <1>1, <3>2, <3>3
  <2>2. CASE stranded # <<>>
    BY <1>1, <2>2 DEF StrandedOrNew, IInv, Parked
  <2> QED BY <2>1, <2>2
<1>3. DOMAIN st = 1..len /\ len \in Nat
  BY <1>1, <1>2
<1>4. PICK new : new = [st[i] EXCEPT !.wins = st[i].wins \cup {w}]
  OBVIOUS
<1>5. new \in Workspace /\ HasWindowsOrName(new)
  <2>1. PICK old \in Workspace : old = st[i]
    BY <1>1, <1>2, <1>3
  <2>2. PICK wins : wins = old.wins \cup {w}
    OBVIOUS
  <2>3. wins \in SUBSET Window /\ wins # {}
    BY <2>2, WorkspaceFields
  <2>4. new = [old EXCEPT !.wins = wins]
    BY <1>4, <2>1, <2>2
  <2>5. new \in Workspace
    BY <2>3, <2>4, Zenon DEF Workspace
  <2>6. new.wins = wins
    BY <2>4 DEF Workspace
  <2> QED BY <2>3, <2>5, <2>6 DEF HasWindowsOrName
<1>6. sts = [st EXCEPT ![i] = new]
  <2>1. sts = [st EXCEPT ![i] = [st[i] EXCEPT !.wins = st[i].wins \cup {w}]]
    BY <1>1
  <2> QED BY <1>4, <2>1
<1>7. sts \in Seq(Workspace) /\ Len(sts) = len
      /\ sts[i] = new /\ \A j \in 1..len : j # i => sts[j] = st[j]
  <2>1. st \in Seq(Workspace) /\ Len(st) = len /\ i \in 1..len /\ new \in Workspace
    BY <1>1, <1>2, <1>3, <1>5
  <2>2. sts \in Seq(Workspace)
    <3>1. st \in Seq(Workspace) /\ i \in 1..Len(st) /\ new \in Workspace
      BY <2>1
    <3>2. [st EXCEPT ![i] = new] \in Seq(Workspace)
      BY <3>1, ExceptSeq, Zenon
    <3> QED BY <1>6, <3>2, Zenon
  <2>3. DOMAIN sts = DOMAIN st /\ DOMAIN st = 1..len
    BY <1>3, <1>6
  <2> QED BY <1>3, <1>6, <2>1, <2>2, <2>3
<1> QED BY <1>1, <1>2, <1>5, <1>7 DEF Parked

\* add_window, with no outputs
LEMMA AddWindowStrandedKeeps ==
  ASSUME IInv, NEW w \in Window, NEW i \in DOMAIN StrandedOrNew, AddWindowStranded(w, i)
  PROVE  IInv'
<1>1. Parked(stranded', 0)
  BY StrandedFilled DEF AddWindowStranded
<1>2. RestOK'
  BY DEF AddWindowStranded, IInv, RestOK, TakeIds, IdsPerCall, userVars, Id
<1>3. Len(monitors) = 0
  BY Around DEF AddWindowStranded
<1> QED BY <1>1, <1>2, <1>3 DEF AddWindowStranded, IInv

\* interactive_move_end, with no outputs
LEMMA DroppedStrandedKeeps ==
  ASSUME IInv, NEW w \in Window, InteractiveMoveEndStranded(w)
  PROVE  IInv'
<1>1. PICK one \in Nat : one = 1
  OBVIOUS
<1>2. one \in DOMAIN StrandedOrNew
  <2>1. stranded \in Seq(Workspace)
    BY DEF IInv, Parked
  <2>2. CASE stranded = <<>>
    BY <1>1, <2>2 DEF StrandedOrNew
  <2>3. CASE stranded # <<>>
    <3>1. Len(stranded) # 0 /\ Len(stranded) \in Nat
      BY <2>1, <2>3, EmptySeq
    <3> QED BY <1>1, <2>1, <2>3, <3>1 DEF StrandedOrNew
  <2> QED BY <2>2, <2>3
<1>3. Parked(stranded', 0)
  BY <1>1, <1>2, StrandedFilled DEF InteractiveMoveEndStranded
<1>4. RestOK'
  BY DEF InteractiveMoveEndStranded, IInv, RestOK, MoveType, NotMoving, TakeIds, IdsPerCall, Id
<1>5. Len(monitors) = 0
  BY Around DEF InteractiveMoveEndStranded
<1> QED BY <1>3, <1>4, <1>5 DEF InteractiveMoveEndStranded, IInv

\* The window of a workspace is not at an end, which is blank.
LEMMA FilledNotAtEnd ==
  ASSUME NEW m, Nearly(m), NEW i \in 1..Len(m.ws), HasWindowsOrName(m.ws[i])
  PROVE  ~AtEnd(m, i)
  BY DEF Nearly, Ready, SpareEnds, Spare, IsBlank, AtEnd

\* remove_window, for one monitor
WindowOff(m, w) ==
  LET on == {i \in DOMAIN m.ws : w \in m.ws[i].wins}
      i  == Nth(on, 1)
  IN  IF on = {} THEN m ELSE CleanUpAfterClose(TakeWindows(m, i, {w}), i)

\* remove_window on one monitor
LEMMA WindowRemoved ==
  ASSUME NEW m, Sound(m), NEW w, NEW n, n = WindowOff(m, w)
  PROVE  Sound(n) /\ SameOutput(m, n)
<1>0. Nearly(m) /\ m.ws \in Seq(Workspace) /\ Idle(m)
  BY MonitorFields DEF Sound, Nearly, Ready, Formed
<1>1. PICK len \in Nat : len = Len(m.ws)
  BY <1>0
<1>2. PICK on : on = {i \in DOMAIN m.ws : w \in m.ws[i].wins}
  OBVIOUS
<1>3. on \in SUBSET (1..len)
  BY <1>0, <1>1, <1>2
<1>4. CASE on = {}
  BY <1>2, <1>4 DEF WindowOff, SameOutput
<1>5. CASE on # {}
  <2>1. PICK i : i = Nth(on, 1)
    OBVIOUS
  <2>2. i \in on
    <3>1. IsFiniteSet(on) /\ Cardinality(on) \in 0..len
      BY <1>3, IndicesFinite
    <3>2. Cardinality(on) # 0
      BY <1>5, <3>1, FS_EmptySet
    <3>3. 1 \in 1..Cardinality(on)
      BY <3>1, <3>2
    <3> QED BY <1>3, <2>1, <3>3, NthIsThere
  <2>3. i \in 1..Len(m.ws) /\ HasWindowsOrName(m.ws[i])
    BY <1>1, <1>2, <1>3, <2>2 DEF HasWindowsOrName
  <2>4. PICK t : t = TakeWindows(m, i, {w})
    OBVIOUS
  <2>5. /\ Nearly(t) /\ SameOutput(m, t) /\ Len(t.ws) = Len(m.ws) /\ IdleBut(t, i)
    BY <1>0, <2>3, <2>4, WindowsTaken
  <2>6. ~AtEnd(t, i)
    BY <1>0, <2>3, <2>5, FilledNotAtEnd DEF AtEnd, SameOutput
  <2>7. n = CleanUpAfterClose(t, i)
    BY <1>2, <1>5, <2>1, <2>4 DEF WindowOff
  <2>8. Sound(n) /\ SameOutput(t, n)
    BY <2>3, <2>5, <2>6, <2>7, CleanedUpAfterClose
  <2> QED BY <2>5, <2>8 DEF SameOutput
<1> QED BY <1>4, <1>5

\* remove_window on every monitor
LEMMA WindowOffEach ==
  ASSUME NEW ms, Stacks(ms), NEW w, NEW ns, ns = WithoutWindow(ms, w)
  PROVE  Stacks(ns) /\ Len(ns) = Len(ms)
<1>1. DOMAIN ms = 1..Len(ms) /\ \A k \in 1..Len(ms) : Sound(ms[k])
  BY DEF Stacks
<1>2. ns = [k \in DOMAIN ms |-> WindowOff(ms[k], w)]
  BY Zenon DEF WithoutWindow, WindowOff
<1>3. \A k \in 1..Len(ms) : ns[k] = WindowOff(ms[k], w)
  BY <1>1, <1>2
<1>4. \A k \in 1..Len(ms) : Sound(ns[k])
  BY <1>1, <1>3, WindowRemoved
<1>5. Alike(ns, ms)
  BY <1>2 DEF Alike
<1> QED BY <1>4, <1>5, AllChanged

\* dnd_scroll_gesture_end and workspace_switch_gesture_end on every monitor
LEMMA ScrollsEnded ==
  ASSUME IInv, NEW f \in Landings
  PROVE  /\ Stacks(DndScrollsEnded(f)) /\ Len(DndScrollsEnded(f)) = Len(monitors)
         /\ \A k \in 1..Len(monitors) :
              DndScrollsEnded(f)[k].ws = monitors[k].ws /\ SameOutput(monitors[k], DndScrollsEnded(f)[k])
<1>1. DOMAIN monitors = 1..Len(monitors) /\ \A k \in 1..Len(monitors) : Sound(monitors[k])
  BY Around
<1>2. PICK ns : ns = DndScrollsEnded(f)
  OBVIOUS
<1>3. ASSUME NEW k \in 1..Len(monitors)
      PROVE  Sound(ns[k]) /\ ns[k].ws = monitors[k].ws /\ SameOutput(monitors[k], ns[k])
  <2>1. PICK m, n, i : m = monitors[k] /\ n = ns[k] /\ i = f[k]
    OBVIOUS
  <2>2. Sound(m)
    BY <1>1, <2>1
  <2>3. CASE m.sw.kind = "dnd"
    <3>1. i \in GestureEndTargets(m)
      BY <1>1, <2>1, <2>3 DEF Landings
    <3>2. n = GestureEnd(m, i)
      BY <1>1, <1>2, <2>1, <2>3 DEF DndScrollsEnded
    <3>3. IsGesture(m.sw)
      BY <2>3 DEF IsGesture
    <3> QED BY <2>1, <2>2, <3>1, <3>2, <3>3, GestureEnded
  <2>4. CASE m.sw.kind # "dnd"
    <3>1. n = m
      BY <1>1, <1>2, <2>1, <2>4 DEF DndScrollsEnded
    <3> QED BY <2>1, <2>2, <3>1 DEF SameOutput
  <2> QED BY <2>3, <2>4
<1>4. Alike(ns, monitors)
  BY <1>2 DEF DndScrollsEnded, Alike
<1>5. Stacks(monitors)
  BY DEF IInv
<1>6. Stacks(ns) /\ Len(ns) = Len(monitors)
  BY <1>3, <1>4, <1>5, AllChanged
<1> QED BY <1>2, <1>3, <1>6

\* dnd_scroll_gesture_begin on every monitor
LEMMA ScrollsBegun ==
  ASSUME IInv
  PROVE  Stacks(DndScrollsBegun) /\ Len(DndScrollsBegun) = Len(monitors)
<1>1. DOMAIN monitors = 1..Len(monitors) /\ \A k \in 1..Len(monitors) : Sound(monitors[k])
  BY Around
<1>2. PICK ns : ns = DndScrollsBegun
  OBVIOUS
<1>3. overviewOpen \in BOOLEAN /\ Stacks(monitors)
  BY DEF IInv, RestOK
<1>4. \A k \in 1..Len(monitors) : ns[k] = DndScrollBegin(monitors[k], overviewOpen)
  BY <1>1, <1>2 DEF DndScrollsBegun
<1>5. \A k \in 1..Len(monitors) : Sound(ns[k])
  BY <1>1, <1>3, <1>4, DndScrollBegun
<1>6. Alike(ns, monitors)
  BY <1>2 DEF DndScrollsBegun, Alike
<1>7. Stacks(ns) /\ Len(ns) = Len(monitors)
  BY <1>3, <1>5, <1>6, AllChanged
<1> QED BY <1>2, <1>7

\* The windows without a monitor: the workspaces that are blank now go.
LEMMA StrandedClosed ==
  ASSUME IInv, NEW w, NEW st, st = StrandedWithout(w)
  PROVE  Parked(st, Len(monitors))
<1>1. /\ stranded \in Seq(Workspace) /\ DOMAIN stranded = 1..Len(stranded) /\ Len(stranded) \in Nat
      /\ Len(monitors) # 0 => stranded = <<>>
      /\ \A i \in 1..Len(stranded) : HasWindowsOrName(stranded[i])
  BY DEF IInv, Parked
<1>2. PICK left : left = [i \in DOMAIN stranded |-> [stranded[i] EXCEPT !.wins = stranded[i].wins \ {w}]]
  OBVIOUS
<1>3. PICK K : K = {i \in DOMAIN left : w \in stranded[i].wins => HasWindowsOrName(left[i])}
  OBVIOUS
<1>4. st = Keep(left, K)
  BY <1>2, <1>3, Zenon DEF StrandedWithout
<1>5. ASSUME NEW i \in 1..Len(stranded)
      PROVE  left[i] \in Workspace /\ (w \notin stranded[i].wins => HasWindowsOrName(left[i]))
  <2>1. PICK old \in Workspace : old = stranded[i]
    BY <1>1
  <2>2. PICK wins : wins = old.wins \ {w}
    OBVIOUS
  <2>3. wins \in SUBSET Window /\ (w \notin old.wins => wins = old.wins)
    BY <2>2, WorkspaceFields
  <2>4. left[i] = [old EXCEPT !.wins = wins]
    BY <1>1, <1>2, <2>1, <2>2
  <2>5. left[i] \in Workspace
    BY <2>3, <2>4, Zenon DEF Workspace
  <2>6. left[i].wins = wins /\ left[i].name = old.name
    BY <2>4 DEF Workspace
  <2> QED BY <1>1, <2>1, <2>3, <2>5, <2>6 DEF HasWindowsOrName
<1>6. left \in Seq(Workspace) /\ Len(left) = Len(stranded)
  <2>1. left \in [1..Len(stranded) -> Workspace]
    BY <1>1, <1>2, <1>5
  <2> QED BY <1>1, <2>1
<1>7. K \in SUBSET (1..Len(left)) /\ \A k \in K : HasWindowsOrName(left[k])
  BY <1>1, <1>3, <1>5, <1>6
<1>8. st \in Seq(Workspace) /\ \A i \in 1..Len(st) : HasWindowsOrName(st[i])
  BY <1>4, <1>6, <1>7, NonBlankKept
<1>9. ASSUME Len(monitors) # 0 PROVE st = <<>>
  <2>1. Len(left) = 0
    BY <1>1, <1>6, <1>9
  <2>2. K = {}
    BY <1>7, <2>1
  <2>3. Cardinality(K) = 0
    BY <2>2, FS_EmptySet
  <2>4. Len(st) = 0
    BY <1>4, <1>6, <1>7, <2>3, Kept
  <2> QED BY <1>8, <2>4, EmptySeq
<1> QED BY <1>8, <1>9 DEF Parked

\* remove_window, which ends a drag of the window first
LEMMA RemoveWindowKeeps ==
  ASSUME IInv, NEW w \in Window, NEW f \in Landings, RemoveWindow(w, f)
  PROVE  IInv'
<1>1. PICK ended : ended = DndScrollsEnded(f)
  OBVIOUS
<1>2. Stacks(monitors) /\ Stacks(ended) /\ Len(ended) = Len(monitors)
  BY <1>1, ScrollsEnded DEF IInv
<1>3. monitors' \in {ended, WithoutWindow(ended, w), WithoutWindow(monitors, w)}
  BY <1>1 DEF RemoveWindow
<1>4. Stacks(monitors') /\ Len(monitors') = Len(monitors)
  BY <1>2, <1>3, WindowOffEach
<1>5. Parked(stranded', Len(monitors))
  BY StrandedClosed DEF RemoveWindow
<1>6. RestOK'
  BY DEF RemoveWindow, IInv, RestOK, MoveType, NotMoving
<1> QED BY <1>4, <1>5, <1>6 DEF RemoveWindow, IInv

\* move_to_workspace
LEMMA MoveToWorkspaceKeeps ==
  ASSUME IInv, NEW p \in Places, NEW w \in Window, NEW idx \in 1..Len(monitors[p[1]].ws),
         NEW act \in BOOLEAN, MoveToWorkspace(w, p, idx, act)
  PROVE  IInv'
<1>1. PICK k, i, m, to : k = p[1] /\ i = p[2] /\ m = monitors[k] /\ to = MinOf(idx, Len(m.ws))
  OBVIOUS
<1>2. k \in 1..Len(monitors) /\ i \in 1..Len(m.ws) /\ Nearly(m) /\ nextId \in Id /\ Stacks(monitors)
  BY <1>1, PlaceThere, Around DEF IInv
<1>3. to \in 1..Len(m.ws)
  BY <1>1, <1>2, Around DEF MinOf
<1>4. PICK t, a, n : /\ t = TakeWindows(m, i, {w}) /\ a = AddWindows(t, to, {w}, act, nextId)
                     /\ n = CleanUpIfIdle(a)
  OBVIOUS
<1>5. Nearly(t) /\ Len(t.ws) = Len(m.ws)
  BY <1>2, <1>4, WindowsTaken
<1>6. Nearly(a)
  <2>1. {w} \in SUBSET Window /\ {w} # {} /\ to \in 1..Len(t.ws)
    BY <1>3, <1>5
  <2> QED BY <1>2, <1>4, <1>5, <2>1, WindowsAdded
<1>7. Sound(n)
  BY <1>4, <1>6, CleanedUpIfIdle
<1>8. monitors' = Exchanged(monitors, k, n)
  BY <1>1, <1>4, Zenon DEF MoveToWorkspace, SetMonitor, Exchanged
<1>9. Stacks(monitors') /\ Len(monitors') = Len(monitors)
  BY <1>2, <1>7, <1>8, OneChanged
<1>10. IndexFits(focused', Len(monitors)) /\ RestOK'
  BY DEF MoveToWorkspace, IInv, RestOK, TakeIds, IdsPerCall, stillVars, userVars, Id
<1> QED BY <1>9, <1>10, SameMonitors DEF MoveToWorkspace, stillVars

\* Taking windows from the active workspace leaves a monitor sound.
LEMMA TakenFromActive ==
  ASSUME NEW m, Sound(m), NEW wins, NEW n, n = TakeWindows(m, m.active, wins)
  PROVE  Sound(n) /\ SameOutput(m, n) /\ Len(n.ws) = Len(m.ws)
<1>0. Nearly(m) /\ Idle(m) /\ m.active \in 1..Len(m.ws)
  BY DEF Sound, Nearly, Ready, Formed
<1>1. PICK i : i = m.active
  OBVIOUS
<1>2. /\ Nearly(n) /\ SameOutput(m, n) /\ Len(n.ws) = Len(m.ws) /\ n.active = m.active
      /\ IdleBut(n, i)
  BY <1>0, <1>1, WindowsTaken
<1>3. Idle(n)
  BY <1>1, <1>2 DEF Idle, IdleBut, Excused
<1> QED BY <1>2, <1>3 DEF Sound

\* Adding windows to a sound monitor leaves it sound.
LEMMA SoundlyAdded ==
  ASSUME NEW m, Sound(m), NEW i \in 1..Len(m.ws), NEW wins \in SUBSET Window, wins # {},
         NEW activate \in BOOLEAN, NEW id \in Id, NEW n, n = AddWindows(m, i, wins, activate, id)
  PROVE  Sound(n) /\ SameOutput(m, n)
<1>1. Nearly(m) /\ IdleBut(m, i)
  BY DEF Sound, Idle, IdleBut
<1>2. Nearly(n) /\ SameOutput(m, n) /\ Idle(n)
  BY <1>1, WindowsAdded
<1> QED BY <1>2 DEF Sound

\* The windows of a workspace are windows.
LEMMA WindowsThere ==
  ASSUME NEW m, Sound(m), NEW i \in 1..Len(m.ws), NEW wins, wins \subseteq m.ws[i].wins
  PROVE  wins \in SUBSET Window
<1>1. m.ws[i] \in Workspace
  BY MonitorFields DEF Sound, Nearly, Ready, Formed
<1>2. m.ws[i].wins \in SUBSET Window
  BY <1>1, WorkspaceFields
<1> QED BY <1>2

\* move_column_to_workspace
LEMMA MoveColumnToWorkspaceKeeps ==
  ASSUME IInv, monitors # <<>>, NEW wins, NEW idx \in 1..Len(monitors[focused].ws),
         NEW act \in BOOLEAN, MoveColumnToWorkspace(wins, idx, act)
  PROVE  IInv'
<1>1. PICK k, m, to : k = focused /\ m = monitors[k] /\ to = MinOf(idx, Len(m.ws))
  OBVIOUS
<1>2. k \in 1..Len(monitors) /\ Sound(m) /\ nextId \in Id /\ Stacks(monitors) /\ m.active \in 1..Len(m.ws)
  BY <1>1, Around DEF IInv
<1>3. to \in 1..Len(m.ws)
  BY <1>1, <1>2, Around DEF MinOf
<1>4. PICK t, n : t = TakeWindows(m, m.active, wins) /\ n = AddWindows(t, to, wins, act, nextId)
  OBVIOUS
<1>5. Sound(t) /\ Len(t.ws) = Len(m.ws)
  BY <1>2, <1>4, TakenFromActive
<1>6. wins # {} /\ wins \in SUBSET Window
  BY <1>1, <1>2, WindowsThere DEF MoveColumnToWorkspace
<1>7. Sound(n)
  BY <1>2, <1>3, <1>4, <1>5, <1>6, SoundlyAdded
<1>8. monitors' = Exchanged(monitors, k, n)
  BY <1>1, <1>4, Zenon DEF MoveColumnToWorkspace, SetMonitor, Exchanged
<1>9. Stacks(monitors') /\ Len(monitors') = Len(monitors)
  BY <1>2, <1>7, <1>8, OneChanged
<1>10. IndexFits(focused', Len(monitors)) /\ RestOK'
  BY DEF MoveColumnToWorkspace, IInv, RestOK, TakeIds, IdsPerCall, stillVars, userVars, Id
<1> QED BY <1>9, <1>10, SameMonitors DEF MoveColumnToWorkspace, stillVars

\* move_to_output
LEMMA MoveToOutputKeeps ==
  ASSUME IInv, NEW p \in Places, NEW w \in Window, NEW q \in Places, NEW act \in BOOLEAN,
         MoveToOutput(w, p, q[1], q[2], act)
  PROVE  IInv'
<1>1. PICK from, i, k, j, m : from = p[1] /\ i = p[2] /\ k = q[1] /\ j = q[2] /\ m = monitors[from]
  OBVIOUS
<1>2. /\ from \in 1..Len(monitors) /\ i \in 1..Len(m.ws) /\ Nearly(m)
      /\ k \in 1..Len(monitors) /\ j \in 1..Len(monitors[k].ws) /\ Sound(monitors[k])
      /\ nextId \in Id /\ Stacks(monitors) /\ DOMAIN monitors = 1..Len(monitors)
  BY <1>1, PlaceThere, Around DEF IInv
<1>3. PICK t : t = TakeWindows(m, i, {w})
  OBVIOUS
<1>4. Nearly(t) /\ Len(t.ws) = Len(m.ws)
  BY <1>2, <1>3, WindowsTaken
<1>5. PICK ts, as, ns : /\ ts = [monitors EXCEPT ![from] = t]
                        /\ as = [ts EXCEPT ![k] = AddWindows(ts[k], j, {w}, act, nextId)]
                        /\ ns = [as EXCEPT ![from] = CleanUpIfIdle(as[from])]
  OBVIOUS
<1>6. monitors' = ns
  BY <1>1, <1>3, <1>5, Zenon DEF MoveToOutput
<1>7. PICK x : x = AddWindows(ts[k], j, {w}, act, nextId)
  OBVIOUS
<1>8. DOMAIN ns = 1..Len(monitors)
  BY <1>2, <1>5
<1>9. {w} \in SUBSET Window /\ {w} # {}
  OBVIOUS
<1>10. \A h \in 1..Len(monitors) : Sound(ns[h])
  <2>1. PICK y : y = CleanUpIfIdle(as[from])
    OBVIOUS
  <2>2. Nearly(as[from]) /\ (k # from => Sound(as[k]))
    <3>1. CASE k = from
      <4>1. ts[k] = t /\ as[from] = x
        BY <1>2, <1>5, <1>7, <3>1
      <4>2. j \in 1..Len(t.ws)
        BY <1>1, <1>2, <1>4, <3>1
      <4>3. Nearly(x)
        BY <1>2, <1>4, <1>7, <1>9, <4>1, <4>2, WindowsAdded
      <4> QED BY <3>1, <4>1, <4>3
    <3>2. CASE k # from
      <4>1. ts[k] = monitors[k] /\ as[from] = t /\ as[k] = x
        BY <1>2, <1>5, <1>7, <3>2
      <4>2. Sound(x)
        BY <1>2, <1>7, <1>9, <4>1, SoundlyAdded
      <4> QED BY <1>4, <4>1, <4>2
    <3> QED BY <3>1, <3>2
  <2>3. Sound(y)
    BY <2>1, <2>2, CleanedUpIfIdle
  <2>4. ns[from] = y /\ (k # from => ns[k] = as[k])
        /\ \A h \in 1..Len(monitors) : h # from /\ h # k => ns[h] = monitors[h]
    BY <1>2, <1>5, <2>1
  <2> QED BY <2>2, <2>3, <2>4, Around
<1>11. Alike(ns, monitors)
  BY <1>2, <1>5 DEF Alike
<1>12. Stacks(monitors') /\ Len(monitors') = Len(monitors)
  BY <1>2, <1>6, <1>10, <1>11, AllChanged
<1>13. IndexFits(focused', Len(monitors)) /\ RestOK'
  <2>1. IndexFits(focused', Len(monitors))
    BY <1>1, <1>2 DEF MoveToOutput, IInv, IndexFits
  <2>2. RestOK'
    BY DEF MoveToOutput, IInv, RestOK, TakeIds, IdsPerCall, stillVars, userVars, Id
  <2> QED BY <2>1, <2>2
<1> QED BY <1>12, <1>13, SameMonitors DEF MoveToOutput, stillVars

\* move_column_to_output
LEMMA MoveColumnToOutputKeeps ==
  ASSUME IInv, monitors # <<>>, NEW wins, NEW q \in Places, NEW act \in BOOLEAN,
         MoveColumnToOutput(wins, q[1], q[2], act)
  PROVE  IInv'
<1>1. PICK from, k, j, m : from = focused /\ k = q[1] /\ j = q[2] /\ m = monitors[from]
  OBVIOUS
<1>2. /\ from \in 1..Len(monitors) /\ Sound(m) /\ m.active \in 1..Len(m.ws)
      /\ k \in 1..Len(monitors) /\ j \in 1..Len(monitors[k].ws)
      /\ nextId \in Id /\ Stacks(monitors)
  BY <1>1, PlaceThere, Around DEF IInv
<1>3. PICK t, to : t = TakeWindows(m, m.active, wins) /\ to = MinOf(j, Len(monitors[k].ws))
  OBVIOUS
<1>4. Sound(t) /\ Len(t.ws) = Len(m.ws)
  BY <1>2, <1>3, TakenFromActive
<1>5. PICK ts : ts = Exchanged(monitors, from, t)
  OBVIOUS
<1>6. /\ Stacks(ts) /\ Len(ts) = Len(monitors) /\ ts[from] = t
      /\ \A h \in 1..Len(monitors) : h # from => ts[h] = monitors[h]
  <2>1. Stacks(monitors) /\ from \in 1..Len(monitors) /\ Sound(t)
    BY <1>2, <1>4
  <2>2. Stacks(ts) /\ Len(ts) = Len(monitors)
    BY <1>5, <2>1, OneChanged
  <2>3. DOMAIN monitors = 1..Len(monitors)
    BY Around
  <2> QED BY <1>2, <1>5, <2>2, <2>3 DEF Exchanged
<1>7. Sound(ts[k]) /\ Len(ts[k].ws) = Len(monitors[k].ws)
  BY <1>1, <1>2, <1>4, <1>6 DEF Stacks
<1>8. to \in 1..Len(ts[k].ws)
  BY <1>2, <1>3, <1>7, Around DEF MinOf
<1>9. wins # {} /\ wins \in SUBSET Window
  BY <1>1, <1>2, WindowsThere DEF MoveColumnToOutput
<1>10. PICK n : n = AddWindows(ts[k], to, wins, act, nextId)
  OBVIOUS
<1>11. Sound(n)
  BY <1>2, <1>7, <1>8, <1>9, <1>10, SoundlyAdded
<1>12. monitors' = Exchanged(ts, k, n)
  BY <1>1, <1>3, <1>5, <1>10, Zenon DEF MoveColumnToOutput, Exchanged
<1>13. Stacks(monitors') /\ Len(monitors') = Len(monitors)
  <2>1. k \in 1..Len(ts)
    BY <1>2, <1>6
  <2>2. PICK ns : ns = Exchanged(ts, k, n)
    OBVIOUS
  <2>3. Stacks(ts) /\ Sound(n)
    BY <1>6, <1>11
  <2>4. Stacks(ns) /\ Len(ns) = Len(ts)
    BY <2>1, <2>2, <2>3, OneChanged
  <2> QED BY <1>6, <1>12, <2>2, <2>4
<1>14. IndexFits(focused', Len(monitors)) /\ RestOK'
  BY <1>1, <1>2 DEF MoveColumnToOutput, IInv, IndexFits, RestOK, TakeIds, IdsPerCall, stillVars, userVars, Id
<1> QED BY <1>13, <1>14, SameMonitors DEF MoveColumnToOutput, stillVars

-----------------------------------------------------------------------------
\* An operation of one monitor that leaves it sound.
LEMMA OnMonitorKeeps ==
  ASSUME IInv, NEW k \in 1..Len(monitors), NEW n, Sound(n), OnMonitor(k, n),
         TakeIds \/ UNCHANGED nextId
  PROVE  IInv'
<1>1. monitors' = Exchanged(monitors, k, n) /\ Stacks(monitors)
  BY DEF OnMonitor, SetMonitor, IInv, Exchanged
<1>2. Stacks(monitors') /\ Len(monitors') = Len(monitors)
  BY <1>1, OneChanged
<1>3. IndexFits(focused', Len(monitors)) /\ RestOK'
  BY DEF OnMonitor, IInv, RestOK, TakeIds, IdsPerCall, stillVars, userVars, Id
<1> QED BY <1>2, <1>3, SameMonitors DEF OnMonitor, stillVars

\* move_workspace_down and move_workspace_up
LEMMA MoveActiveWorkspaceKeeps ==
  ASSUME IInv, monitors # <<>>, MoveActiveWorkspaceDown \/ MoveActiveWorkspaceUp
  PROVE  IInv'
<1>1. PICK k, m, len : k = focused /\ m = monitors[k] /\ len = Len(m.ws)
  OBVIOUS
<1>2. k \in 1..Len(monitors) /\ Sound(m) /\ nextId \in Id /\ len \in Nat /\ m.active \in 1..len
  BY <1>1, Around
<1>3. PICK to : /\ to \in 1..len
                /\ OnMonitor(k, SwapActive(m, to, nextId)) /\ TakeIds
  <2>1. MinOf(m.active + 1, len) \in 1..len /\ MaxOf(m.active - 1, 1) \in 1..len
    BY <1>2 DEF MinOf, MaxOf
  <2>2. CASE MoveActiveWorkspaceDown
    BY <1>1, <2>1, <2>2 DEF MoveActiveWorkspaceDown, MoveWorkspaceDown
  <2>3. CASE MoveActiveWorkspaceUp
    BY <1>1, <2>1, <2>3 DEF MoveActiveWorkspaceUp, MoveWorkspaceUp
  <2> QED BY <2>2, <2>3
<1>4. PICK n : n = SwapActive(m, to, nextId)
  OBVIOUS
<1>5. Sound(n)
  BY <1>1, <1>2, <1>3, <1>4, ActiveSwapped
<1> QED BY <1>2, <1>3, <1>4, <1>5, OnMonitorKeeps

\* move_workspace_to_idx
LEMMA MoveWorkspaceToKeeps ==
  ASSUME IInv, NEW p \in Places, NEW idx \in 1..Len(monitors[p[1]].ws), MoveWorkspaceTo(p, idx)
  PROVE  IInv'
<1>1. PICK k, i, m : k = p[1] /\ i = p[2] /\ m = monitors[k]
  OBVIOUS
<1>2. k \in 1..Len(monitors) /\ i \in 1..Len(m.ws) /\ Sound(m) /\ nextId \in Id
  BY <1>1, PlaceThere, Around
<1>3. idx \in Id
  BY DEF Id
<1>4. PICK n : n = MoveWorkspaceToIdx(m, i, idx, nextId)
  OBVIOUS
<1>5. Sound(n)
  BY <1>2, <1>3, <1>4, WorkspaceMoved
<1>6. OnMonitor(k, n) /\ TakeIds
  BY <1>1, <1>4 DEF MoveWorkspaceTo
<1> QED BY <1>2, <1>5, <1>6, OnMonitorKeeps

\* unset_workspace_name
LEMMA UnsetWorkspaceNameKeeps ==
  ASSUME IInv, NEW p \in Places, UnsetWorkspaceName(p)
  PROVE  IInv'
<1>1. PICK k, i, m : k = p[1] /\ i = p[2] /\ m = monitors[k]
  OBVIOUS
<1>2. k \in 1..Len(monitors) /\ i \in 1..Len(m.ws) /\ Nearly(m) /\ Idle(m)
  BY <1>1, PlaceThere, Around DEF Sound
<1>4. PICK n : n = UnnameWorkspace(m, i)
  OBVIOUS
<1>5. Sound(n)
  BY <1>2, <1>4, Unnamed
<1>6. OnMonitor(k, n) /\ UNCHANGED nextId
  BY <1>1, <1>4 DEF UnsetWorkspaceName
<1> QED BY <1>2, <1>5, <1>6, OnMonitorKeeps

\* Another original output makes a workspace no less blank.
LEMMA OwnedFacts ==
  ASSUME NEW w \in Workspace, NEW o \in Output, NEW v, v = Owned(w, o)
  PROVE  v \in Workspace /\ v.orig = o /\ (HasWindowsOrName(v) <=> HasWindowsOrName(w))
<1>1. v = [w EXCEPT !.orig = o] /\ o \in Output \cup {NoOutput}
  BY DEF Owned
<1>2. v \in Workspace
  BY <1>1, Zenon DEF Workspace
<1>3. v.orig = o /\ v.wins = w.wins /\ v.name = w.name
  BY <1>1 DEF Workspace
<1> QED BY <1>2, <1>3 DEF HasWindowsOrName

\* move_workspace_to_output_by_id
LEMMA MoveWorkspaceToOutputKeeps ==
  ASSUME IInv, NEW p \in Places, NEW k \in 1..Len(monitors), MoveWorkspaceToOutput(p, k)
  PROVE  IInv'
<1>1. PICK from, i, m, w : from = p[1] /\ i = p[2] /\ m = monitors[from] /\ w = WorkspaceAt(p)
  OBVIOUS
<1>2. /\ from \in 1..Len(monitors) /\ i \in 1..Len(m.ws) /\ Sound(m) /\ Ready(m)
      /\ m.output \in Output /\ monitors[k].output \in Output
      /\ w = m.ws[i] /\ w \in Workspace /\ nextId \in Id /\ Stacks(monitors)
  BY <1>1, PlaceThere, Around DEF IInv
<1>3. PICK moved : moved = Owned(w, monitors[k].output)
  OBVIOUS
<1>4. moved \in Workspace /\ moved.orig = monitors[k].output /\ (HasWindowsOrName(moved) <=> HasWindowsOrName(w))
  BY <1>2, <1>3, OwnedFacts
<1>5. Stacks(monitors') /\ Len(monitors') = Len(monitors)
  <2>1. CASE from = k
    <3>1. PICK n : n = Rewritten(m, i, moved)
      OBVIOUS
    <3>2. AtEnd(m, i) => Spare(m, moved)
      <4>1. ASSUME AtEnd(m, i) PROVE IsBlank(w)
        BY <1>2, <4>1 DEF Ready, SpareEnds, Spare, AtEnd
      <4> QED BY <1>1, <1>4, <2>1, <4>1 DEF Spare, IsBlank
    <3>3. HasWindowsOrName(moved) \/ IsBlank(m.ws[i])
      BY <1>2, <1>4 DEF IsBlank
    <3>4. Sound(n)
      BY <1>2, <1>4, <3>1, <3>2, <3>3, Altered
    <3>5. monitors' = Exchanged(monitors, from, n)
      BY <1>1, <1>3, <2>1, <3>1 DEF MoveWorkspaceToOutput, Rewritten, Exchanged
    <3> QED BY <1>2, <3>4, <3>5, OneChanged
  <2>2. CASE from # k
    <3>0. PICK r : r = RemoveWorkspace(m, i, nextId)
      OBVIOUS
    <3>1. PICK rs : rs = Exchanged(monitors, from, r)
      OBVIOUS
    <3>2. Sound(r)
      BY <1>2, <3>0, WorkspaceRemoved
    <3>3. Stacks(rs) /\ Len(rs) = Len(monitors) /\ rs[k] = monitors[k]
      <4>1. Stacks(rs) /\ Len(rs) = Len(monitors)
        BY <1>2, <3>1, <3>2, OneChanged
      <4>2. DOMAIN monitors = 1..Len(monitors)
        BY Around
      <4> QED BY <2>2, <3>1, <4>1, <4>2 DEF Exchanged
    <3>4. PICK m2, j : m2 = monitors[k] /\ j = m2.active + 1
      OBVIOUS
    <3>5. Ready(m2) /\ j \in 1..(Len(m2.ws) + 1)
      BY <3>4, Around
    <3>6. PICK id2 \in Id : id2 = nextId + 2
      BY <1>2 DEF Id
    <3>7. PICK act \in BOOLEAN : act = (from = focused /\ i = m.active)
      OBVIOUS
    <3>8. PICK n : n = InsertWorkspace(m2, moved, j, act, id2)
      OBVIOUS
    <3>9. Sound(n)
      BY <1>4, <3>5, <3>8, WorkspaceInserted
    <3>10. monitors' = [rs EXCEPT ![k] = InsertWorkspace(rs[k], moved, rs[k].active + 1, act, nextId + 2)]
      BY <1>1, <1>3, <2>2, <3>0, <3>1, <3>7, Zenon DEF MoveWorkspaceToOutput, Exchanged
    <3>11. monitors' = Exchanged(rs, k, n)
      BY <3>3, <3>4, <3>6, <3>8, <3>10 DEF Exchanged
    <3>12. k \in 1..Len(rs) /\ Stacks(rs)
      BY <3>3
    <3>13. PICK ns : ns = Exchanged(rs, k, n)
      OBVIOUS
    <3>14. Stacks(ns) /\ Len(ns) = Len(rs)
      BY <3>9, <3>12, <3>13, OneChanged
    <3> QED BY <3>3, <3>11, <3>13, <3>14
  <2> QED BY <2>1, <2>2
<1>6. IndexFits(focused', Len(monitors)) /\ RestOK'
  <2>1. focused' = k \/ focused' = focused
    BY DEF MoveWorkspaceToOutput
  <2>2. IndexFits(focused', Len(monitors))
    BY <2>1 DEF IInv, IndexFits
  <2>3. RestOK'
    BY RestKept DEF MoveWorkspaceToOutput
  <2> QED BY <2>2, <2>3
<1> QED BY <1>5, <1>6, SameMonitors DEF MoveWorkspaceToOutput, stillVars

\* A workspace with a name is not blank.
LEMMA NamedFacts ==
  ASSUME NEW w \in Workspace, NEW n \in Name, NEW v, v = [w EXCEPT !.name = n]
  PROVE  v \in Workspace /\ HasWindowsOrName(v) /\ v.orig = w.orig
<1>1. n \in Name \cup {NoName} /\ n # NoName
  BY NoValues
<1>2. v \in Workspace
  BY <1>1, Zenon DEF Workspace
<1>3. v.name = n /\ v.orig = w.orig
  BY DEF Workspace
<1> QED BY <1>1, <1>2, <1>3 DEF HasWindowsOrName

\* set_workspace_name, where no client names an end of an unfocused monitor by id.
LEMMA SetWorkspaceNameKeeps ==
  ASSUME ~NameUnfocusedEdge, IInv, NEW n \in Name, NEW p \in Places, SetWorkspaceName(n, p)
  PROVE  IInv'
<1>1. PICK k, i, m, w : k = p[1] /\ i = p[2] /\ m = monitors[k] /\ w = [m.ws[i] EXCEPT !.name = n]
  OBVIOUS
<1>2. /\ k \in 1..Len(monitors) /\ i \in 1..Len(m.ws) /\ Sound(m) /\ m.ws[i] \in Workspace
      /\ nextId \in Id /\ Stacks(monitors) /\ DOMAIN monitors = 1..Len(monitors)
  BY <1>1, PlaceThere, Around DEF IInv
<1>3. w \in Workspace /\ HasWindowsOrName(w)
  BY <1>1, <1>2, NamedFacts
<1>4. PICK f : f = Rewritten(m, i, w)
  OBVIOUS
<1>5. PICK named : named = [monitors EXCEPT ![k] = f]
  OBVIOUS
<1>6. named = [monitors EXCEPT ![p[1]].ws[p[2]].name = n]
  BY <1>1, <1>2, <1>4, <1>5 DEF Rewritten
<1>7. named[k] = f
  BY <1>2, <1>5
<1>8. Stacks(monitors') /\ Len(monitors') = Len(monitors)
  <2>1. CASE k = focused
    <3>1. PICK x : x = NamedEnds(f, i, nextId)
      OBVIOUS
    <3>2. Sound(x)
      BY <1>2, <1>3, <1>4, <3>1, Named
    <3>3. monitors' = [named EXCEPT ![k] = NamedEnds(named[k], i, nextId)]
      BY <1>1, <1>6, <2>1, Zenon DEF SetWorkspaceName, NamedEnds
    <3>4. monitors' = Exchanged(monitors, k, x)
      BY <1>2, <1>5, <1>7, <3>1, <3>3 DEF Exchanged
    <3> QED BY <1>2, <3>2, <3>4, OneChanged
  <2>2. CASE k # focused
    <3>1. ~AtEnd(m, i)
      BY <1>1, <2>2 DEF SetWorkspaceName, UnfocusedEdge, AtEnd
    <3>2. Sound(f)
      BY <1>2, <1>3, <1>4, <3>1, Altered
    <3>3. monitors' = Exchanged(monitors, k, f)
      BY <1>1, <1>5, <1>6, <2>2 DEF SetWorkspaceName, Exchanged
    <3> QED BY <1>2, <3>2, <3>3, OneChanged
  <2> QED BY <2>1, <2>2
<1>9. IndexFits(focused', Len(monitors)) /\ RestOK'
  <2>1. IndexFits(focused', Len(monitors))
    BY DEF SetWorkspaceName, IInv
  <2>2. RestOK'
    BY RestKept DEF SetWorkspaceName
  <2> QED BY <2>1, <2>2
<1> QED BY <1>8, <1>9, SameMonitors DEF SetWorkspaceName, stillVars

\* set_workspace_name and unset_workspace_name, with no outputs
LEMMA StrandedNamedKeeps ==
  ASSUME IInv, NEW n \in Name, NEW i \in DOMAIN stranded, SetStrandedName(n, i)
  PROVE  IInv'
<1>1. /\ stranded \in Seq(Workspace) /\ DOMAIN stranded = 1..Len(stranded)
      /\ \A j \in 1..Len(stranded) : HasWindowsOrName(stranded[j])
      /\ Len(monitors) # 0 => stranded = <<>>
  BY DEF IInv, Parked
<1>2. PICK w : w = [stranded[i] EXCEPT !.name = n]
  OBVIOUS
<1>3. w \in Workspace /\ HasWindowsOrName(w)
  BY <1>1, <1>2, NamedFacts
<1>4. stranded' = [stranded EXCEPT ![i] = w]
  BY <1>2 DEF SetStrandedName
<1>5. /\ stranded' \in Seq(Workspace) /\ Len(stranded') = Len(stranded)
      /\ \A j \in 1..Len(stranded) : HasWindowsOrName(stranded'[j])
  BY <1>1, <1>3, <1>4
<1>6. Len(monitors) = 0
  BY <1>1
<1>7. Parked(stranded', Len(monitors))
  BY <1>5, <1>6 DEF Parked
<1>8. RestOK'
  BY DEF SetStrandedName, IInv, RestOK, userVars
<1> QED BY <1>7, <1>8 DEF SetStrandedName, IInv

\* unset_workspace_name, with no outputs
LEMMA StrandedUnnamedKeeps ==
  ASSUME IInv, NEW i \in DOMAIN stranded, UnsetStrandedName(i)
  PROVE  IInv'
<1>1. /\ stranded \in Seq(Workspace) /\ DOMAIN stranded = 1..Len(stranded)
      /\ \A j \in 1..Len(stranded) : HasWindowsOrName(stranded[j])
      /\ Len(monitors) # 0 => stranded = <<>>
  BY DEF IInv, Parked
<1>2. Len(monitors) = 0
  BY <1>1
<1>3. /\ stranded' \in Seq(Workspace)
      /\ \A j \in 1..Len(stranded') : HasWindowsOrName(stranded'[j])
  <2>1. CASE stranded[i].wins = {}
    <3>1. stranded' = RemoveAt(stranded, i)
      BY <2>1 DEF UnsetStrandedName
    <3>2. PICK s : s = stranded
      OBVIOUS
    <3>3. s \in Seq(Workspace) /\ i \in 1..Len(s)
      BY <1>1, <3>2
    <3>4. RemoveAt(s, i) \in Seq(Workspace) /\ WithRemoved(RemoveAt(s, i), s, i)
      BY <3>3, Removed, Zenon
    <3>5. PICK t : t = RemoveAt(s, i)
      OBVIOUS
    <3>6. \A j \in 1..(Len(s) - 1) : HasWindowsOrName(t[j])
      <4>1. SUFFICES ASSUME NEW j \in 1..(Len(s) - 1) PROVE HasWindowsOrName(t[j])
        OBVIOUS
      <4>2. j \in 1..Len(s) /\ j + 1 \in 1..Len(s)
        BY <3>3
      <4>3. t[j] = s[j] \/ t[j] = s[j + 1]
        BY <3>4, <3>5 DEF WithRemoved
      <4> QED BY <1>1, <3>2, <4>2, <4>3
    <3> QED BY <3>1, <3>2, <3>4, <3>5, <3>6 DEF WithRemoved
  <2>2. CASE stranded[i].wins # {}
    <3>1. PICK w : w = [stranded[i] EXCEPT !.name = NoName]
      OBVIOUS
    <3>2. w \in Workspace
      <4>1. stranded[i] \in Workspace /\ NoName \in Name \cup {NoName}
        BY <1>1
      <4> QED BY <3>1, <4>1, Zenon DEF Workspace
    <3>3. w.wins = stranded[i].wins
      BY <1>1, <3>1 DEF Workspace
    <3>4. HasWindowsOrName(w)
      BY <2>2, <3>3 DEF HasWindowsOrName
    <3>5. stranded' = [stranded EXCEPT ![i] = w]
      BY <2>2, <3>1 DEF UnsetStrandedName
    <3> QED BY <1>1, <3>2, <3>4, <3>5
  <2> QED BY <2>1, <2>2
<1>4. Parked(stranded', Len(monitors))
  BY <1>2, <1>3 DEF Parked
<1>5. RestOK'
  BY DEF UnsetStrandedName, IInv, RestOK, userVars
<1> QED BY <1>4, <1>5 DEF UnsetStrandedName, IInv

\* The monitor of a connected output is there.
LEMMA MonitorThere ==
  ASSUME IInv, NEW o \in Connected
  PROVE  MonitorOf(o) \in 1..Len(monitors) /\ monitors[MonitorOf(o)].output = o
<1>1. \E k \in DOMAIN monitors : monitors[k].output = o
  BY DEF Connected
<1> QED BY <1>1, Around DEF MonitorOf

\* ensure_named_workspace
LEMMA EnsureNamedWorkspaceKeeps ==
  ASSUME IInv, NEW n \in Name, NEW o \in Output \cup {NoOutput}, EnsureNamedWorkspace(n, o)
  PROVE  IInv'
<1>0. nextId \in Id /\ Stacks(monitors) /\ (monitors = <<>> <=> Len(monitors) = 0)
  BY Around DEF IInv
<1>1. ASSUME NEW orig \in Output \cup {NoOutput}, NEW w, w = [NewWorkspace(orig, nextId) EXCEPT !.name = n]
      PROVE  w \in Workspace /\ HasWindowsOrName(w)
  <2>1. PICK new : new = NewWorkspace(orig, nextId)
    OBVIOUS
  <2>2. new \in Workspace
    BY <1>0, <2>1 DEF NewWorkspace, Workspace
  <2> QED BY <1>1, <2>1, <2>2, NamedFacts
<1>2. RestOK'
  BY DEF EnsureNamedWorkspace, IInv, RestOK, TakeIds, IdsPerCall, userVars, Id
<1>3. CASE monitors # <<>>
  <2>1. PICK k : k = IF o = NoOutput THEN focused
                     ELSE IF o \in Connected THEN MonitorOf(o) ELSE primary
    OBVIOUS
  <2>2. k \in 1..Len(monitors)
    BY <1>3, <2>1, Around, MonitorThere
  <2>3. PICK m, orig : m = monitors[k] /\ orig = IF o = NoOutput THEN m.output ELSE o
    OBVIOUS
  <2>4. Ready(m) /\ m.output \in Output
    BY <2>2, <2>3, Around
  <2>5. PICK w : w = [NewWorkspace(orig, nextId) EXCEPT !.name = n]
    OBVIOUS
  <2>6. w \in Workspace
    <3>1. orig \in Output \cup {NoOutput}
      BY <2>3, <2>4
    <3> QED BY <1>1, <2>5, <3>1
  <2>7. PICK id1 \in Id : id1 = nextId + 1
    BY <1>0 DEF Id
  <2>8. PICK one \in Nat, no \in BOOLEAN : one = 1 /\ no = FALSE
    OBVIOUS
  <2>9. PICK x : x = InsertWorkspace(m, w, one, no, id1)
    OBVIOUS
  <2>10. one \in 1..(Len(m.ws) + 1)
    BY <2>2, <2>3, <2>8, Around
  <2>11. Sound(x)
    BY <2>4, <2>6, <2>9, <2>10, WorkspaceInserted
  <2>12. monitors' = [monitors EXCEPT ![k] = InsertWorkspace(m, w, 1, FALSE, nextId + 1)] /\ UNCHANGED stranded
    BY <1>3, <2>1, <2>3, <2>5, Zenon DEF EnsureNamedWorkspace, SetMonitor
  <2>13. monitors' = Exchanged(monitors, k, x)
    BY <2>7, <2>8, <2>9, <2>12 DEF Exchanged
  <2>14. Stacks(monitors') /\ Len(monitors') = Len(monitors)
    <3>1. Stacks(monitors) /\ k \in 1..Len(monitors) /\ Sound(x)
      BY <1>0, <2>2, <2>11
    <3> QED BY <2>13, <3>1, OneChanged
  <2>15. IndexFits(focused', Len(monitors))
    BY DEF EnsureNamedWorkspace, IInv
  <2> QED BY <1>2, <2>12, <2>14, <2>15, SameMonitors DEF EnsureNamedWorkspace
<1>4. CASE monitors = <<>>
  <2>1. PICK w : w = [NewWorkspace(o, nextId) EXCEPT !.name = n]
    OBVIOUS
  <2>2. w \in Workspace /\ HasWindowsOrName(w)
    BY <1>1, <2>1
  <2>3. stranded' = <<w>> \o stranded /\ UNCHANGED monitors
    BY <1>4, <2>1, Zenon DEF EnsureNamedWorkspace
  <2>4. stranded \in Seq(Workspace) /\ \A j \in 1..Len(stranded) : HasWindowsOrName(stranded[j])
    BY DEF IInv, Parked
  <2>5. /\ stranded' \in Seq(Workspace) /\ Len(stranded') = 1 + Len(stranded)
        /\ \A j \in 1..(1 + Len(stranded)) :
             stranded'[j] = IF j <= 1 THEN <<w>>[j] ELSE stranded[j - 1]
    <3>1. PICK s, t : s = <<w>> /\ t = stranded
      OBVIOUS
    <3>2. s \in Seq(Workspace) /\ t \in Seq(Workspace) /\ Len(s) = 1
      BY <2>2, <2>4, <3>1
    <3>3. /\ s \o t \in Seq(Workspace) /\ Len(s \o t) = Len(s) + Len(t)
          /\ \A j \in 1..(Len(s) + Len(t)) :
               (s \o t)[j] = IF j <= Len(s) THEN s[j] ELSE t[j - Len(s)]
      BY <3>2, ConcatProperties
    <3> QED BY <2>3, <3>1, <3>2, <3>3
  <2>6. \A j \in 1..(1 + Len(stranded)) : HasWindowsOrName(stranded'[j])
    <3>1. SUFFICES ASSUME NEW j \in 1..(1 + Len(stranded)) PROVE HasWindowsOrName(stranded'[j])
      OBVIOUS
    <3>2. CASE j <= 1
      <4>1. j = 1 /\ stranded'[1] = w
        BY <2>4, <2>5, <3>2
      <4> QED BY <2>2, <4>1
    <3>3. CASE ~(j <= 1)
      <4>1. j - 1 \in 1..Len(stranded) /\ stranded'[j] = stranded[j - 1]
        BY <2>4, <2>5, <3>3
      <4> QED BY <2>4, <4>1
    <3> QED BY <3>2, <3>3
  <2>7. Len(monitors) = 0
    BY <1>0, <1>4
  <2>8. Parked(stranded', Len(monitors))
    BY <2>5, <2>6, <2>7 DEF Parked
  <2> QED BY <1>2, <2>3, <2>8 DEF EnsureNamedWorkspace, IInv
<1> QED BY <1>3, <1>4

\* update_config
LEMMA ReloadConfigKeeps ==
  ASSUME IInv, NEW c \in Configs, ReloadConfig(c)
  PROVE  IInv'
<1>0. /\ nextId \in Id /\ Stacks(monitors) /\ DOMAIN monitors = 1..Len(monitors)
      /\ Len(monitors) \in Nat
  BY Around DEF IInv
<1>1. monitors' = [k \in DOMAIN monitors |->
                     UpdateConfig(monitors[k], c[monitors[k].output], nextId + k)]
  BY DEF ReloadConfig
<1>2. ASSUME NEW k \in 1..Len(monitors) PROVE Sound(monitors'[k])
  <2>1. PICK m, eaf, id : m = monitors[k] /\ eaf = c[m.output] /\ id = nextId + k
    OBVIOUS
  <2>2. Sound(m) /\ m.output \in Output
    BY <2>1, Around
  <2>3. eaf \in BOOLEAN
    <3>1. c \in [Output -> BOOLEAN]
      BY ConfigsType
    <3> QED BY <2>1, <2>2, <3>1
  <2>4. id \in Id
    BY <1>0, <2>1 DEF Id
  <2>5. PICK n : n = UpdateConfig(m, eaf, id)
    OBVIOUS
  <2>6. Sound(n)
    BY <2>2, <2>3, <2>4, <2>5, ConfigUpdated
  <2>7. monitors'[k] = n
    BY <1>0, <1>1, <2>1, <2>5
  <2> QED BY <2>6, <2>7
<1>3. Alike(monitors', monitors)
  BY <1>1 DEF Alike
<1>4. Stacks(monitors') /\ Len(monitors') = Len(monitors)
  BY <1>0, <1>2, <1>3, AllChanged
<1>5. IndexFits(focused', Len(monitors)) /\ RestOK'
  <2>1. nextId' \in Id
    BY <1>0 DEF ReloadConfig, Id
  <2> QED BY <2>1 DEF ReloadConfig, IInv, RestOK, stillVars
<1> QED BY <1>4, <1>5, SameMonitors DEF ReloadConfig, stillVars

-----------------------------------------------------------------------------
\* A switch of monitor k to workspace i, whatever the focus and the overview do.
LEMMA ActivatedSound ==
  ASSUME NEW m, Sound(m), NEW i \in 1..Len(m.ws), NEW n, n = ActivateWorkspace(m, i)
  PROVE  Sound(n) /\ SameOutput(m, n)
  BY SwitchedTo DEF Sound

\* focus_output, switch_workspace and its kin
LEMMA SwitchKeeps ==
  ASSUME IInv, SwitchNext
  PROVE  IInv'
<1>0. Stacks(monitors) /\ DOMAIN monitors = 1..Len(monitors)
  BY Around DEF IInv
<1>1. ASSUME NEW k \in 1..Len(monitors), NEW n, Sound(n), OnMonitor(k, n), UNCHANGED nextId
      PROVE  IInv'
  BY <1>1, OnMonitorKeeps
<1>2. ASSUME NEW k \in 1..Len(monitors), NEW i \in 1..Len(monitors[k].ws),
             OnMonitor(k, ActivateWorkspace(monitors[k], i)), UNCHANGED nextId
      PROVE  IInv'
  <2>1. PICK m, n : m = monitors[k] /\ n = ActivateWorkspace(m, i)
    OBVIOUS
  <2>2. Sound(m) /\ i \in 1..Len(m.ws)
    BY <1>2, <2>1, Around
  <2>3. Sound(n)
    BY <2>1, <2>2, ActivatedSound
  <2> QED BY <1>1, <1>2, <2>1, <2>3
<1>3. ASSUME NEW k \in 1..Len(monitors), FocusOutput(k)
      PROVE  IInv'
  <2>1. IndexFits(focused', Len(monitors)) /\ RestOK'
    BY <1>3 DEF FocusOutput, IInv, IndexFits, RestOK, stillVars, userVars
  <2> QED BY <1>0, <1>3, <2>1, SameMonitors DEF FocusOutput, stillVars
<1>4. ASSUME NEW k \in 1..Len(monitors), SwitchUp(k) PROVE IInv'
  <2>1. PICK i \in SwitchUpTargets(monitors[k]) : OnMonitor(k, ActivateWorkspace(monitors[k], i))
    BY <1>4 DEF SwitchUp
  <2>2. i \in 1..Len(monitors[k].ws)
    BY Around, TargetsThere
  <2> QED BY <1>2, <1>4, <2>1, <2>2 DEF SwitchUp
<1>5. ASSUME NEW k \in 1..Len(monitors), SwitchDown(k) PROVE IInv'
  <2>1. PICK i \in SwitchDownTargets(monitors[k]) : OnMonitor(k, ActivateWorkspace(monitors[k], i))
    BY <1>5 DEF SwitchDown
  <2>2. i \in 1..Len(monitors[k].ws)
    BY Around, TargetsThere
  <2> QED BY <1>2, <1>5, <2>1, <2>2 DEF SwitchDown
<1>6. ASSUME NEW k \in 1..Len(monitors), AnimationDone(k) PROVE IInv'
  <2>1. PICK m, n : m = monitors[k] /\ n = Settle(m)
    OBVIOUS
  <2>2. Ready(m)
    BY <2>1, Around
  <2>3. Sound(n)
    BY <2>1, <2>2, Settled
  <2> QED BY <1>1, <1>6, <2>1, <2>3 DEF AnimationDone
<1>7. ASSUME NEW k \in 1..Len(monitors), NEW i \in 1..Len(monitors[k].ws),
             monitors' = [monitors EXCEPT ![k] = SwitchWorkspace(monitors[k], i)],
             focused' \in {focused, k},
             UNCHANGED <<stillVars, userVars, mapped, nextId>>
      PROVE  IInv'
  <2>1. PICK m, n : m = monitors[k] /\ n = SwitchWorkspace(m, i)
    OBVIOUS
  <2>2. Sound(m) /\ i \in Id
    BY <2>1, Around DEF Id
  <2>3. Sound(n)
    BY <2>1, <2>2, SwitchedWorkspace
  <2>4. monitors' = Exchanged(monitors, k, n)
    BY <1>7, <2>1 DEF Exchanged
  <2>5. Stacks(monitors') /\ Len(monitors') = Len(monitors)
    BY <1>0, <2>3, <2>4, OneChanged
  <2>6. IndexFits(focused', Len(monitors)) /\ RestOK'
    BY <1>7 DEF IInv, IndexFits, RestOK, stillVars, userVars
  <2> QED BY <1>7, <2>5, <2>6, SameMonitors DEF stillVars
<1>8. ASSUME NEW p \in Places, p[1] = focused, SwitchTo(p[2]) PROVE IInv'
  <2>1. p[1] \in 1..Len(monitors) /\ p[2] \in 1..Len(monitors[p[1]].ws)
    BY PlaceThere
  <2> QED BY <1>7, <1>8, <2>1 DEF SwitchTo, OnMonitor, SetMonitor
<1>9. ASSUME NEW p \in Places, SwitchToOn(p[1], p[2]) PROVE IInv'
  <2>1. p[1] \in 1..Len(monitors) /\ p[2] \in 1..Len(monitors[p[1]].ws)
    BY PlaceThere
  <2> QED BY <1>7, <1>9, <2>1 DEF SwitchToOn, SetMonitor
<1>10. ASSUME NEW p \in Places, NEW stay \in BOOLEAN, ActivateWindow(p, stay) PROVE IInv'
  <2>1. p[1] \in 1..Len(monitors) /\ p[2] \in 1..Len(monitors[p[1]].ws)
    BY PlaceThere
  <2>2. CASE stay
    <3>1. IndexFits(focused', Len(monitors)) /\ RestOK'
      BY <1>10, <2>1 DEF ActivateWindow, IInv, IndexFits, RestOK, stillVars, userVars
    <3> QED BY <1>0, <1>10, <2>2, <3>1, SameMonitors DEF ActivateWindow, stillVars
  <2>3. CASE ~stay
    BY <1>7, <1>10, <2>1, <2>3 DEF ActivateWindow
  <2> QED BY <2>2, <2>3
<1>11. ASSUME monitors # <<>>, SwitchPrevious PROVE IInv'
  <2>1. PICK i \in PreviousIdx(monitors[focused]) :
          OnMonitor(focused, SwitchWorkspace(monitors[focused], i)) /\ UNCHANGED nextId
    BY <1>11 DEF SwitchPrevious
  <2>2. focused \in 1..Len(monitors) /\ i \in 1..Len(monitors[focused].ws)
    BY <1>11, Around DEF PreviousIdx
  <2> QED BY <1>7, <2>1, <2>2 DEF OnMonitor, SetMonitor
<1> QED BY <1>0, <1>3, <1>4, <1>5, <1>6, <1>8, <1>9, <1>10, <1>11 DEF SwitchNext

\* toggle_overview and toggle_overview_to_workspace
LEMMA OverviewKeeps ==
  ASSUME IInv, OverviewNext
  PROVE  IInv'
<1>0. Stacks(monitors)
  BY DEF IInv
<1>1. CASE ToggleOverview
  <2>1. IndexFits(focused', Len(monitors)) /\ RestOK'
    BY <1>1 DEF ToggleOverview, IInv, RestOK, stillVars
  <2> QED BY <1>0, <1>1, <2>1, SameMonitors DEF ToggleOverview, stillVars
<1>2. ASSUME NEW p \in Places, OpenFromOverview(p) PROVE IInv'
  <2>1. PICK k, i, m : k = p[1] /\ i = p[2] /\ m = monitors[k]
    OBVIOUS
  <2>2. k \in 1..Len(monitors) /\ i \in 1..Len(m.ws) /\ Sound(m)
    BY <2>1, PlaceThere, Around
  <2>3. PICK n : n = ActivateWorkspace(m, i)
    OBVIOUS
  <2>4. Sound(n)
    BY <2>2, <2>3, ActivatedSound
  <2>5. monitors' = Exchanged(monitors, k, n)
    BY <1>2, <2>1, <2>3 DEF OpenFromOverview, SetMonitor, Exchanged
  <2>6. Stacks(monitors') /\ Len(monitors') = Len(monitors)
    BY <1>0, <2>2, <2>4, <2>5, OneChanged
  <2>7. IndexFits(focused', Len(monitors)) /\ RestOK'
    <3>1. overviewOpen' \in BOOLEAN
      BY <1>2, Zenon DEF OpenFromOverview
    <3>2. IndexFits(focused', Len(monitors))
      BY <1>2, <2>1, <2>2 DEF OpenFromOverview, IndexFits
    <3> QED BY <1>2, <3>1, <3>2 DEF OpenFromOverview, IInv, RestOK, stillVars
  <2> QED BY <1>2, <2>6, <2>7, SameMonitors DEF OpenFromOverview, stillVars
<1> QED BY <1>1, <1>2 DEF OverviewNext

-----------------------------------------------------------------------------
\* A swipe begins at the active workspace.
LEMMA SwipeBegun ==
  ASSUME NEW m, Sound(m), NEW clamped \in BOOLEAN,
         NEW n, n = [m EXCEPT !.sw = Swipe(m.active, clamped)]
  PROVE  Sound(n) /\ SameOutput(m, n)
<1>0. Formed(m) /\ m.active \in 1..Len(m.ws) /\ m.active \in Nat /\ Len(m.ws) \in Nat
  BY MonitorFields DEF Sound, Nearly, Ready, Formed
<1>1. PICK sw : sw = Swipe(m.active, clamped)
  OBVIOUS
<1>2. sw \in Switch /\ sw.kind = "swipe" /\ sw.center = m.active /\ sw.at = m.active
  BY <1>0, <1>1 DEF Swipe, Switch, SwitchKind
<1>3. /\ SameOutput(m, n) /\ n.ws = m.ws /\ n.active = m.active /\ n.sw = sw
      /\ Ready(m) => Ready(n)
  BY <1>0, <1>1, <1>2, SwitchSet
<1>4. SwitchFits(n)
  BY <1>0, <1>2, <1>3 DEF SwitchFits, IsGesture
<1>5. Idle(n)
  BY <1>2, <1>3 DEF Idle
<1> QED BY <1>3, <1>4, <1>5 DEF Sound, Nearly, SameOutput

\* workspace_switch_gesture_begin
LEMMA SwipeBeginKeeps ==
  ASSUME IInv, NEW k \in 1..Len(monitors), NEW f, SwipeBegin(k, f)
  PROVE  IInv'
<1>0. Stacks(monitors) /\ DOMAIN monitors = 1..Len(monitors) /\ overviewOpen \in BOOLEAN
  BY Around DEF IInv, RestOK
<1>1. monitors' = [j \in DOMAIN monitors |->
                     IF j = k THEN [monitors[k] EXCEPT !.sw = Swipe(monitors[k].active, ~overviewOpen)]
                     ELSE IF IsGesture(monitors[j].sw) THEN GestureEnd(monitors[j], f[j])
                     ELSE monitors[j]]
  BY DEF SwipeBegin
<1>2. ASSUME NEW j \in 1..Len(monitors) PROVE Sound(monitors'[j])
  <2>1. PICK m : m = monitors[j]
    OBVIOUS
  <2>2. Sound(m)
    BY <2>1, Around
  <2>3. CASE j = k
    <3>1. PICK clamped \in BOOLEAN : clamped = ~overviewOpen
      OBVIOUS
    <3>2. PICK n : n = [m EXCEPT !.sw = Swipe(m.active, clamped)]
      OBVIOUS
    <3>3. Sound(n)
      BY <2>2, <3>2, SwipeBegun
    <3>4. monitors'[j] = n
      BY <1>0, <1>1, <2>1, <2>3, <3>1, <3>2
    <3> QED BY <3>3, <3>4
  <2>4. CASE j # k /\ IsGesture(m.sw)
    <3>1. PICK i : i = f[j]
      OBVIOUS
    <3>2. i \in GestureEndTargets(m)
      BY <1>0, <2>1, <2>4, <3>1 DEF SwipeBegin
    <3>3. PICK n : n = GestureEnd(m, i)
      OBVIOUS
    <3>4. Sound(n)
      BY <2>2, <2>4, <3>2, <3>3, GestureEnded
    <3>5. monitors'[j] = n
      BY <1>0, <1>1, <2>1, <2>4, <3>1, <3>3
    <3> QED BY <3>4, <3>5
  <2>5. CASE j # k /\ ~IsGesture(m.sw)
    <3>1. monitors'[j] = m
      BY <1>0, <1>1, <2>1, <2>5
    <3> QED BY <2>2, <3>1
  <2> QED BY <2>3, <2>4, <2>5
<1>3. Alike(monitors', monitors)
  BY <1>1 DEF Alike
<1>4. Stacks(monitors') /\ Len(monitors') = Len(monitors)
  BY <1>0, <1>2, <1>3, AllChanged
<1>5. IndexFits(focused', Len(monitors)) /\ RestOK'
  BY DEF SwipeBegin, IInv, RestOK, stillVars, userVars
<1> QED BY <1>4, <1>5, SameMonitors DEF SwipeBegin, stillVars

\* workspace_switch_gesture_update and workspace_switch_gesture_end
LEMMA GestureUpdateKeeps ==
  ASSUME IInv, NEW k \in 1..Len(monitors), NEW i \in Nat, GestureUpdate(k, i)
  PROVE  IInv'
<1>1. PICK m, n : m = monitors[k] /\ n = ViewAt(m, i)
  OBVIOUS
<1>2. Sound(m)
  BY <1>1, Around
<1>3. IsGesture(m.sw) /\ i \in Reach(m) /\ OnMonitor(k, n) /\ UNCHANGED nextId
  BY <1>1 DEF GestureUpdate, Reach, ViewAt
<1>4. Sound(n)
  BY <1>1, <1>2, <1>3, GestureMoved
<1> QED BY <1>3, <1>4, OnMonitorKeeps

\* workspace_switch_gesture_end
LEMMA SwipeEndKeeps ==
  ASSUME IInv, NEW k \in 1..Len(monitors), SwipeEnd(k)
  PROVE  IInv'
<1>1. PICK m : m = monitors[k]
  OBVIOUS
<1>2. Sound(m)
  BY <1>1, Around
<1>3. PICK i \in GestureEndTargets(m) : IsGesture(m.sw) /\ OnMonitor(k, GestureEnd(m, i)) /\ UNCHANGED nextId
  BY <1>1 DEF SwipeEnd
<1>4. PICK n : n = GestureEnd(m, i)
  OBVIOUS
<1>5. Sound(n)
  BY <1>2, <1>3, <1>4, GestureEnded
<1> QED BY <1>3, <1>4, <1>5, OnMonitorKeeps

\* dnd_begin, dnd_end and the drag of a window up to where it begins and is called off.
LEMMA ScrollKeeps ==
  ASSUME IInv,
         \/ DndBegin \/ \E w \in Window : InteractiveMoveBegin(w)
         \/ \E f \in Landings : DndEnd(f) \/ InteractiveMoveCancel(f)
  PROVE  IInv'
<1>1. monitors' = DndScrollsBegun \/ \E f \in Landings : monitors' = DndScrollsEnded(f)
  BY DEF DndBegin, InteractiveMoveBegin, DndEnd, InteractiveMoveCancel
<1>2. Stacks(monitors') /\ Len(monitors') = Len(monitors)
  BY <1>1, ScrollsBegun, ScrollsEnded
<1>3. CASE DndBegin
  <2>1. IndexFits(focused', Len(monitors)) /\ RestOK'
    BY <1>3 DEF DndBegin, IInv, RestOK, stillVars
  <2> QED BY <1>2, <1>3, <2>1, SameMonitors DEF DndBegin, stillVars
<1>4. ASSUME NEW w \in Window, InteractiveMoveBegin(w) PROVE IInv'
  <2>1. IndexFits(focused', Len(monitors)) /\ RestOK'
    BY <1>4 DEF InteractiveMoveBegin, IInv, RestOK, MoveType, Starting, stillVars
  <2> QED BY <1>2, <1>4, <2>1, SameMonitors DEF InteractiveMoveBegin, stillVars
<1>5. ASSUME NEW f \in Landings, DndEnd(f) PROVE IInv'
  <2>1. IndexFits(focused', Len(monitors)) /\ RestOK'
    BY <1>5 DEF DndEnd, IInv, RestOK, stillVars
  <2> QED BY <1>2, <1>5, <2>1, SameMonitors DEF DndEnd, stillVars
<1>6. ASSUME NEW f \in Landings, InteractiveMoveCancel(f) PROVE IInv'
  <2>1. IndexFits(focused', Len(monitors)) /\ RestOK'
    BY <1>6 DEF InteractiveMoveCancel, IInv, RestOK, MoveType, NotMoving, stillVars
  <2> QED BY <1>2, <1>6, <2>1, SameMonitors DEF InteractiveMoveCancel, stillVars
<1> QED BY <1>3, <1>4, <1>5, <1>6

\* dnd_hold
LEMMA DndHoldKeeps ==
  ASSUME IInv, NEW p \in Places, NEW f \in Landings, DndHold(p, f)
  PROVE  IInv'
<1>1. PICK k, i, ms, m : k = p[1] /\ i = p[2] /\ ms = DndScrollsEnded(f) /\ m = ms[k]
  OBVIOUS
<1>2. k \in 1..Len(monitors) /\ i \in 1..Len(monitors[k].ws) /\ Stacks(monitors) /\ DOMAIN monitors = 1..Len(monitors)
  BY <1>1, PlaceThere, Around DEF IInv
<1>3. Sound(m) /\ i \in 1..Len(m.ws)
  <2>1. Stacks(ms) /\ Len(ms) = Len(monitors) /\ ms[k].ws = monitors[k].ws
    BY <1>1, <1>2, ScrollsEnded
  <2> QED BY <1>1, <1>2, <2>1 DEF Stacks
<1>4. PICK n : n = ActivateWorkspace(m, i)
  OBVIOUS
<1>5. Sound(n)
  BY <1>3, <1>4, ActivatedSound
<1>6. m = IF monitors[k].sw.kind = "dnd" THEN GestureEnd(monitors[k], f[k]) ELSE monitors[k]
  BY <1>1, <1>2 DEF DndScrollsEnded
<1>7. monitors' = Exchanged(monitors, k, n)
  BY <1>1, <1>4, <1>6 DEF DndHold, SetMonitor, Exchanged
<1>8. Stacks(monitors') /\ Len(monitors') = Len(monitors)
  BY <1>2, <1>5, <1>7, OneChanged
<1>9. IndexFits(focused', Len(monitors)) /\ RestOK'
  <2>1. overviewOpen' \in BOOLEAN
    BY Zenon DEF DndHold
  <2>2. IndexFits(focused', Len(monitors))
    BY <1>1, <1>2 DEF DndHold, IndexFits
  <2> QED BY <2>1, <2>2 DEF DndHold, IInv, RestOK, stillVars
<1> QED BY <1>8, <1>9, SameMonitors DEF DndHold, stillVars

\* interactive_move_update, up to the drop
LEMMA InteractiveMoveKeeps ==
  ASSUME IInv, NEW w \in Window, NEW o \in Output,
         InteractiveMoveStart(w, o) \/ InteractiveMoveTo(w, o)
  PROVE  IInv'
<1>0. Stacks(monitors)
  BY DEF IInv
<1>1. CASE InteractiveMoveStart(w, o)
  <2>1. Stacks(monitors') /\ Len(monitors') = Len(monitors)
    BY <1>0, <1>1, WindowOffEach DEF InteractiveMoveStart
  <2>2. IndexFits(focused', Len(monitors)) /\ RestOK'
    BY <1>1 DEF InteractiveMoveStart, IInv, RestOK, MoveType, Moving, stillVars
  <2> QED BY <1>1, <2>1, <2>2, SameMonitors DEF InteractiveMoveStart, stillVars
<1>2. CASE InteractiveMoveTo(w, o)
  <2>1. focused' \in 1..Len(monitors)
    BY <1>2, MonitorThere DEF InteractiveMoveTo
  <2>2. IndexFits(focused', Len(monitors)) /\ RestOK'
    BY <1>2, <2>1 DEF InteractiveMoveTo, IInv, IndexFits, RestOK, MoveType, Moving, stillVars
  <2> QED BY <1>0, <1>2, <2>2, SameMonitors DEF InteractiveMoveTo, stillVars
<1> QED BY <1>1, <1>2

\* insert_position of a drop between workspaces j - 1 and j: unless it is at an
\* end, a new workspace is made there, which only the drop keeps from being idle.
LEMMA DroppedOn ==
  ASSUME NEW m, Sound(m), NEW j \in 1..(Len(m.ws) + 1), NEW id \in Id,
         NEW n, n = DropOnNew(m, j, id), NEW i, i = DropIdx(m, j)
  PROVE  Nearly(n) /\ SameOutput(m, n) /\ i \in 1..Len(n.ws) /\ IdleBut(n, i)
<1>0. /\ Formed(m) /\ Ready(m) /\ SpareEnds(m) /\ SwitchFits(m) /\ Idle(m)
      /\ m.eaf => Len(m.ws) < 2 \/ Len(m.ws) > 2
  BY DEF Sound, Nearly, Ready
<1>1. PICK len \in Nat : len = Len(m.ws)
  BY <1>0, MonitorFields DEF Formed
<1>2. m.active \in 1..len /\ j \in 1..(len + 1)
  BY <1>0, <1>1 DEF Formed
<1>3. CASE (m.eaf /\ j = 1) \/ j >= len
  <2>1. n = m
    BY <1>1, <1>3 DEF DropOnNew
  <2>2. i \in 1..len
    BY <1>1, <1>2 DEF DropIdx, MinOf
  <2> QED BY <1>0, <1>1, <2>1, <2>2 DEF Sound, Idle, IdleBut, SameOutput
<1>4. CASE ~((m.eaf /\ j = 1) \/ j >= len)
  <2>1. n = AddWorkspaceAt(m, j, id)
    BY <1>1, <1>4 DEF DropOnNew
  <2>2. i = j
    BY <1>1, <1>2, <1>4 DEF DropIdx, MinOf
  <2>3. /\ Formed(n) /\ SameOutput(m, n) /\ Len(n.ws) = Len(m.ws) + 1
        /\ \A k \in 1..(Len(m.ws) + 1) :
             n.ws[k] = IF k < j THEN m.ws[k]
                       ELSE IF k = j THEN NewWorkspace(m.output, id) ELSE m.ws[k - 1]
        /\ n.active = IF j <= m.active THEN m.active + 1 ELSE m.active
        /\ n.panicked = m.panicked
        /\ n.sw.kind = m.sw.kind /\ (SwitchFits(m) => SwitchFits(n))
    <3>1. Formed(m) /\ j \in 1..(Len(m.ws) + 1) /\ id \in Id
      BY <1>0
    <3> QED BY <2>1, <3>1, AddedAt
  <2>4. PICK l \in Nat : l = Len(n.ws) /\ l = len + 1
    BY <1>1, <2>3
  <2>5. j < len /\ (m.eaf => j > 1)
    BY <1>2, <1>4
  <2>6. n.ws[l] = m.ws[len]
    <3>1. l \in 1..(len + 1) /\ ~(l < j) /\ l # j /\ l - 1 = len
      BY <1>2, <2>4, <2>5
    <3> QED BY <1>1, <2>3, <3>1
  <2>7. m.eaf => n.ws[1] = m.ws[1]
    <3>1. ASSUME m.eaf PROVE 1 \in 1..(len + 1) /\ 1 < j
      BY <1>2, <2>5, <3>1
    <3> QED BY <1>1, <2>3, <3>1
  <2>8. SpareEnds(n)
    BY <1>0, <1>1, <2>3, <2>4, <2>6, <2>7, SpareAlike DEF SpareEnds, SameOutput
  <2>9. m.eaf => l > 2
    BY <1>2, <2>4, <2>5
  <2>10. Nearly(n)
    BY <1>0, <2>3, <2>4, <2>8, <2>9 DEF Nearly, Ready, SameOutput
  <2>11. ASSUME m.sw.kind = "none", NEW h \in 1..l, h # j PROVE Excused(n, h)
    <3>1. PICK k : k = IF h < j THEN h ELSE h - 1
      OBVIOUS
    <3>2. k \in 1..len /\ (h = k \/ h = k + 1)
      BY <1>2, <2>4, <2>5, <2>11, <3>1
    <3>3. n.ws[h] = m.ws[k]
      BY <1>1, <1>2, <2>3, <2>4, <2>11, <3>1
    <3>4. k = m.active \/ k = len \/ (m.eaf /\ k = 1) \/ HasWindowsOrName(m.ws[k])
      BY <1>0, <1>1, <2>11, <3>2 DEF Idle, Excused, AtEnd
    <3>5. k = m.active => h = n.active
      BY <1>2, <2>3, <2>11, <3>1
    <3>6. k = len => h = l
      BY <1>2, <2>4, <2>5, <2>11, <3>1
    <3>7. m.eaf /\ k = 1 => h = 1
      BY <1>2, <2>5, <2>11, <3>1
    <3> QED BY <2>3, <2>4, <3>3, <3>4, <3>5, <3>6, <3>7 DEF Excused, AtEnd, SameOutput
  <2>12. IdleBut(n, i)
    BY <2>2, <2>3, <2>4, <2>11 DEF IdleBut
  <2>13. i \in 1..Len(n.ws)
    BY <1>2, <2>2, <2>4, <2>5
  <2> QED BY <2>3, <2>10, <2>12, <2>13
<1> QED BY <1>3, <1>4

\* A window is dropped on workspace i of m, which is monitor k or, between two
\* workspaces, monitor k with a new one there.
DroppedAt(ms, k, m, i, id) ==
  /\ k \in 1..Len(ms)
  /\ m = ms[k] \/ \E j \in 1..(Len(ms[k].ws) + 1) : m = DropOnNew(ms[k], j, id)
  /\ Nearly(m) /\ SameOutput(ms[k], m) /\ i \in 1..Len(m.ws) /\ IdleBut(m, i)

\* The monitors ns are ms with window w dropped there.
Dropped(ms, w, ns) ==
  \E k, m, i : /\ DroppedAt(ms, k, m, i, nextId)
               /\ ns = [ms EXCEPT ![k] = AddWindows(m, i, {w}, ~overviewOpen, nextId + 1)]

\* interactive_move_end, with outputs, is a drop on such a workspace.
LEMMA WindowDropped ==
  ASSUME IInv, monitors # <<>>, NEW w \in Window, NEW f \in Landings, NEW idx \in Nat, NEW isNew \in BOOLEAN,
         InteractiveMoveEnd(w, f, idx, isNew), NEW ms, ms = DndScrollsEnded(f)
  PROVE  Dropped(ms, w, monitors')
<1>2. /\ Stacks(ms) /\ Len(ms) = Len(monitors) /\ nextId \in Id /\ overviewOpen \in BOOLEAN
  BY ScrollsEnded, Around DEF IInv, RestOK
<1>3. PICK on \in BOOLEAN : on <=> move.output \in Connected
  <2>1. CASE move.output \in Connected
    BY <2>1
  <2>2. CASE move.output \notin Connected
    BY <2>2
  <2> QED BY <2>1, <2>2
<1>4. PICK k : k = IF on THEN MonitorOf(move.output) ELSE focused
  OBVIOUS
<1>5. k \in 1..Len(ms)
  BY <1>2, <1>3, <1>4, MonitorThere, Around
<1>6. PICK m0 : m0 = ms[k]
  OBVIOUS
<1>7. Sound(m0) /\ Len(m0.ws) \in Nat /\ 1 \in 1..Len(m0.ws)
  <2>1. Sound(m0)
    BY <1>2, <1>5, <1>6 DEF Stacks
  <2>2. PICK len \in Nat : len = Len(m0.ws)
    BY <2>1, MonitorFields DEF Sound, Nearly, Ready, Formed
  <2>3. m0.active \in 1..len
    BY <2>1, <2>2 DEF Sound, Nearly, Ready, Formed
  <2>4. 1 \in 1..len
    BY <2>3
  <2> QED BY <2>1, <2>2, <2>4
<1>8. idx \in 1..(Len(m0.ws) + 1) /\ (~isNew => idx \in 1..Len(m0.ws))
  <2>1. idx \in 1..(Len(m0.ws) + (IF isNew THEN 1 ELSE 0))
    BY <1>3, <1>4, <1>6 DEF InteractiveMoveEnd
  <2>2. CASE isNew
    BY <2>1, <2>2
  <2>3. CASE ~isNew
    <3>1. idx \in 1..(Len(m0.ws) + 0)
      BY <2>1, <2>3
    <3> QED BY <1>7, <3>1
  <2> QED BY <2>2, <2>3
<1>9. PICK m, i : /\ m = IF on /\ isNew THEN DropOnNew(m0, idx, nextId) ELSE m0
                  /\ i = IF ~on THEN 1 ELSE IF isNew THEN DropIdx(m0, idx) ELSE idx
  OBVIOUS
<1>10. Nearly(m) /\ i \in 1..Len(m.ws) /\ IdleBut(m, i)
  <2>1. CASE on /\ isNew
    BY <1>2, <1>7, <1>8, <1>9, <2>1, DroppedOn
  <2>2. CASE ~(on /\ isNew)
    <3>1. m = m0 /\ i \in 1..Len(m0.ws)
      BY <1>7, <1>8, <1>9, <2>2
    <3> QED BY <1>7, <3>1 DEF Sound, Idle, IdleBut
  <2> QED BY <2>1, <2>2
<1>11. monitors' = [ms EXCEPT ![k] = AddWindows(m, i, {w}, ~overviewOpen, nextId + 1)]
  <2>1. on <=> move.output \in Connected
    BY <1>3
  <2>2. monitors' = LET k0 == IF move.output \in Connected THEN MonitorOf(move.output) ELSE focused
                        m1 == IF move.output \in Connected /\ isNew THEN DropOnNew(ms[k0], idx, nextId) ELSE ms[k0]
                        i1 == IF ~(move.output \in Connected) THEN 1 ELSE IF isNew THEN DropIdx(ms[k0], idx) ELSE idx
                    IN  [ms EXCEPT ![k0] = AddWindows(m1, i1, {w}, ~overviewOpen, nextId + 1)]
    BY Zenon DEF InteractiveMoveEnd
  <2>3. k = IF move.output \in Connected THEN MonitorOf(move.output) ELSE focused
    BY <1>4, <2>1
  <2>4. /\ m = IF move.output \in Connected /\ isNew THEN DropOnNew(ms[k], idx, nextId) ELSE ms[k]
        /\ i = IF ~(move.output \in Connected) THEN 1 ELSE IF isNew THEN DropIdx(ms[k], idx) ELSE idx
    BY <1>6, <1>9, <2>1
  <2> QED BY <2>2, <2>3, <2>4, Zenon
<1>12. DroppedAt(ms, k, m, i, nextId)
  <2>1. SameOutput(ms[k], m) /\ (m = ms[k] \/ \E j \in 1..(Len(ms[k].ws) + 1) : m = DropOnNew(ms[k], j, nextId))
    <3>1. CASE on /\ isNew
      <4>1. m = DropOnNew(m0, idx, nextId)
        BY <1>9, <3>1
      <4>2. SameOutput(m0, m)
        BY <1>2, <1>7, <1>8, <4>1, DroppedOn
      <4> QED BY <1>6, <1>8, <4>1, <4>2
    <3>2. CASE ~(on /\ isNew)
      <4>1. m = ms[k]
        BY <1>6, <1>9, <3>2
      <4> QED BY <4>1 DEF SameOutput
    <3> QED BY <3>1, <3>2
  <2> QED BY <1>5, <1>10, <2>1 DEF DroppedAt
<1> QED BY <1>11, <1>12 DEF Dropped

\* interactive_move_end, with outputs
LEMMA InteractiveMoveEndKeeps ==
  ASSUME IInv, monitors # <<>>, NEW w \in Window, NEW f \in Landings, NEW idx \in Nat, NEW isNew \in BOOLEAN,
         InteractiveMoveEnd(w, f, idx, isNew)
  PROVE  IInv'
<1>1. PICK ms : ms = DndScrollsEnded(f)
  OBVIOUS
<1>2. Stacks(ms) /\ Len(ms) = Len(monitors) /\ nextId \in Id
  BY <1>1, ScrollsEnded, Around
<1>3. PICK k, m, i : /\ DroppedAt(ms, k, m, i, nextId)
                     /\ monitors' = [ms EXCEPT ![k] = AddWindows(m, i, {w}, ~overviewOpen, nextId + 1)]
  <2>1. Dropped(ms, w, monitors')
    BY <1>1, WindowDropped
  <2> QED BY <2>1 DEF Dropped
<1>4. k \in 1..Len(ms) /\ Nearly(m) /\ i \in 1..Len(m.ws) /\ IdleBut(m, i)
  BY <1>3 DEF DroppedAt
<1>5. PICK id1 \in Id : id1 = nextId + 1
  BY <1>2 DEF Id
<1>6. PICK act \in BOOLEAN : act = ~overviewOpen
  OBVIOUS
<1>7. PICK n : n = AddWindows(m, i, {w}, act, id1)
  OBVIOUS
<1>8. Sound(n)
  <2>1. {w} \in SUBSET Window /\ {w} # {}
    OBVIOUS
  <2>2. Nearly(n) /\ (IdleBut(m, i) => Idle(n))
    BY <1>4, <1>7, <2>1, WindowsAdded
  <2> QED BY <1>4, <2>2 DEF Sound
<1>9. Stacks(monitors') /\ Len(monitors') = Len(monitors)
  <2>1. PICK ns : ns = Exchanged(ms, k, n)
    OBVIOUS
  <2>2. Stacks(ns) /\ Len(ns) = Len(ms)
    BY <1>2, <1>4, <1>8, <2>1, OneChanged
  <2>3. monitors' = ns
    BY <1>3, <1>5, <1>6, <1>7, <2>1 DEF Exchanged
  <2> QED BY <1>2, <2>2, <2>3
<1>10. IndexFits(focused', Len(monitors)) /\ RestOK'
  BY DEF InteractiveMoveEnd, IInv, RestOK, MoveType, NotMoving, TakeIds, IdsPerCall, stillVars, Id
<1> QED BY <1>9, <1>10, SameMonitors DEF InteractiveMoveEnd, stillVars

\* The primary monitor gives up the workspaces that belong to output o: never
\* the ones at its ends, which are its own.
LEMMA WithoutTaken ==
  ASSUME NEW m, Sound(m), NEW o, o # m.output, NEW n, n = WithoutThoseOf(m, o)
  PROVE  Sound(n) /\ SameOutput(m, n) /\ Without(m, o, n)
<1>0. /\ Formed(m) /\ m \in Monitor /\ m.ws \in Seq(Workspace) /\ ~m.panicked
      /\ SpareEnds(m) /\ m.eaf \in BOOLEAN /\ SwitchFits(m) /\ Idle(m)
      /\ m.eaf => Len(m.ws) < 2 \/ Len(m.ws) > 2
  BY MonitorFields DEF Sound, Nearly, Ready, Formed
<1>l. PICK len \in Nat : len = Len(m.ws)
  BY <1>0
<1>1. /\ m.active \in 1..len /\ len \in 1..len /\ 1 \in 1..len /\ DOMAIN m.ws = 1..len
  BY <1>0, <1>l DEF Formed
<1>2. PICK taken : taken = {i \in 1..len : m.ws[i].orig = o}
  OBVIOUS
<1>3. PICK K : K = (1..len) \ taken
  OBVIOUS
<1>4. /\ K \in SUBSET (1..len) /\ taken \in SUBSET (1..len)
      /\ len \in K /\ (m.eaf => 1 \in K)
  BY <1>0, <1>l, <1>1, <1>2, <1>3 DEF SpareEnds, Spare
<1>5. PICK ws, c : ws = Keep(m.ws, K) /\ c = Cardinality(K)
  OBVIOUS
<1>6. /\ ws \in Seq(Workspace) /\ Len(ws) = c /\ c \in 0..len
      /\ \A j \in 1..c : Nth(K, j) \in K /\ ws[j] = m.ws[Nth(K, j)] /\ RankIn(K, Nth(K, j)) = j
      /\ \A k \in K : RankIn(K, k) \in 1..c /\ ws[RankIn(K, k)] = m.ws[k]
  <2>1. PICK s : s = m.ws
    OBVIOUS
  <2>2. s \in Seq(Workspace) /\ K \in SUBSET (1..Len(s))
    BY <1>0, <1>l, <1>4, <2>1
  <2>3. /\ Keep(s, K) \in Seq(Workspace) /\ Len(Keep(s, K)) = Cardinality(K)
        /\ Cardinality(K) \in 0..Len(s)
        /\ \A j \in 1..Cardinality(K) :
             /\ Nth(K, j) \in K /\ Keep(s, K)[j] = s[Nth(K, j)] /\ RankIn(K, Nth(K, j)) = j
        /\ \A k \in K : /\ RankIn(K, k) \in 1..Cardinality(K)
                        /\ Nth(K, RankIn(K, k)) = k /\ Keep(s, K)[RankIn(K, k)] = s[k]
    BY <2>2, Kept, Zenon
  <2> QED BY <1>l, <1>5, <2>1, <2>3
<1>7. PICK r : r = RankIn(K, m.active)
  OBVIOUS
<1>8. r \in 0..c /\ r = m.active - Cardinality({i \in taken : i <= m.active})
  <2>1. m.active \in Int
    BY <1>1
  <2>2. r \in 0..c
    BY <1>4, <1>5, <1>7, <2>1, IndicesFinite
  <2>3. RankIn((1..len) \ taken, m.active) = m.active - Cardinality({i \in taken : i <= m.active})
    BY <1>1, <1>4, RankWithout
  <2> QED BY <1>3, <1>7, <2>2, <2>3
<1>9. RankIn(K, len) = c
  <2>1. \A x \in K : x <= len
    BY <1>4
  <2>2. {x \in K : x <= len} = K
    BY <2>1
  <2> QED BY <1>5, <2>2 DEF RankIn
<1>10. m.eaf => RankIn(K, 1) = 1
  <2>1. ASSUME 1 \in K PROVE {x \in K : x <= 1} = {1}
    <3>1. \A x \in K : x \in Int /\ x >= 1
      BY <1>4
    <3>2. \A x \in K : x <= 1 <=> x = 1
      BY <3>1
    <3> QED BY <2>1, <3>2
  <2> QED BY <1>4, <2>1, FS_Singleton DEF RankIn
<1>11. /\ c \in 1..c /\ ws[c] = m.ws[len]
       /\ m.eaf => ws[1] = m.ws[1]
       /\ m.eaf /\ m.active > 1 => c >= 2
       /\ m.active \in K => r >= 1 /\ (m.eaf /\ m.active > 1 => r >= 2)
  <2>1. c \in 1..c /\ ws[c] = m.ws[len]
    BY <1>4, <1>6, <1>9
  <2>2. m.eaf => ws[1] = m.ws[1]
    BY <1>4, <1>6, <1>10
  <2>3. ASSUME m.eaf, m.active > 1 PROVE c >= 2
    <3>1. 1 < len /\ 1 \in K
      BY <1>1, <1>4, <2>3
    <3>2. RankIn(K, 1) < RankIn(K, len)
      BY <1>1, <1>4, <3>1, RankGrows
    <3>3. 1 < c
      BY <1>9, <1>10, <2>3, <3>2
    <3> QED BY <1>6, <3>3
  <2>4. ASSUME m.active \in K PROVE r >= 1
    BY <1>6, <1>7, <2>4
  <2>5. ASSUME m.active \in K, m.eaf, m.active > 1 PROVE r >= 2
    <3>1. PICK act : act = m.active
      OBVIOUS
    <3>2. act \in K /\ 1 \in K /\ 1 < act /\ 1 \in 1..len
      BY <1>1, <1>4, <2>5, <3>1
    <3>3. RankIn(K, 1) < RankIn(K, act)
      BY <1>4, <3>2, RankGrows
    <3>4. 1 < r
      BY <1>7, <1>10, <2>5, <3>1, <3>3
    <3> QED BY <1>8, <3>4
  <2> QED BY <2>1, <2>2, <2>3, <2>4, <2>5
<1>12. PICK a : a = ActiveWithout(m, taken)
  OBVIOUS
<1>13. a \in 1..c /\ (m.active \in K => a = r)
  <2>1. a = MaxOf(r, IF m.eaf /\ m.active > 1 THEN 2 ELSE 1)
    BY <1>8, <1>12 DEF ActiveWithout
  <2>2. CASE m.eaf /\ m.active > 1
    BY <1>6, <1>8, <1>11, <2>1, <2>2 DEF MaxOf
  <2>3. CASE ~(m.eaf /\ m.active > 1)
    BY <1>6, <1>8, <1>11, <2>1, <2>3 DEF MaxOf
  <2> QED BY <2>2, <2>3
<1>14. Spare(m, ws[c]) /\ (m.eaf => Spare(m, ws[1]))
  BY <1>0, <1>l, <1>11 DEF SpareEnds
<1>15. PICK p : p = [m EXCEPT !.ws = ws, !.active = a, !.sw = IF taken = {} THEN m.sw ELSE NoSwitch]
  OBVIOUS
<1>16. n = IF (taken # {} /\ m.sw.kind # "none") \/ (m.eaf /\ Len(p.ws) = 2)
             THEN CleanUpWorkspaces(p) ELSE p
  <2>1. K = DOMAIN m.ws \ taken /\ taken = {i \in DOMAIN m.ws : m.ws[i].orig = o}
    BY <1>1, <1>2, <1>3
  <2> QED BY <1>5, <1>12, <1>15, <2>1, Zenon DEF WithoutThoseOf
<1>17. PICK sw : sw = IF taken = {} THEN m.sw ELSE NoSwitch
  OBVIOUS
<1>18. sw \in Switch /\ (taken # {} => sw.kind = "none") /\ (taken = {} => sw = m.sw)
  BY <1>0, <1>17, MonitorFields, SwitchesAtRest
<1>19. /\ p \in Monitor /\ SameOutput(m, p) /\ p.ws = ws /\ p.active = a
       /\ p.sw = sw /\ p.panicked = m.panicked
  <2>1. p = [m EXCEPT !.ws = ws, !.active = a, !.sw = sw] /\ a \in Nat
    BY <1>13, <1>15, <1>17
  <2>2. p \in Monitor
    BY <1>0, <1>6, <1>18, <2>1, Zenon DEF Monitor
  <2>3. SameOutput(m, p) /\ p.ws = ws /\ p.active = a /\ p.sw = sw /\ p.panicked = m.panicked
    BY <1>0, <2>1 DEF Monitor, SameOutput
  <2> QED BY <2>2, <2>3
<1>20. Ready(p)
  BY <1>0, <1>6, <1>13, <1>14, <1>19 DEF Ready, Formed, SpareEnds, Spare, SameOutput
<1>k. ASSUME NEW C \in SUBSET Full PROVE Only(ws, C) = Only(m.ws, NotOf(C, o))
  <2>1. PICK s : s = m.ws
    OBVIOUS
  <2>2. s \in Seq(Workspace) /\ IndicesTo(Len(s), K) /\ ws = Keep(s, K)
    BY <1>0, <1>l, <1>4, <1>5, <2>1 DEF IndicesTo
  <2>3. Only(ws, C) = Keep(s, WhereOf(s, K, C))
    BY <2>2, KeptTwice
  <2>4. WhereOf(s, K, C) = Where(s, NotOf(C, o))
    BY <1>l, <1>2, <1>3, <2>1 DEF WhereOf, Where, NotOf
  <2> QED BY <2>1, <2>3, <2>4 DEF Only
<1>s. m.ws[m.active].orig # o => p.ws[p.active] = m.ws[m.active]
  <2>1. m.ws[m.active].orig # o => m.active \in K
    BY <1>1, <1>2, <1>3
  <2> QED BY <1>6, <1>7, <1>13, <1>19, <2>1
<1>e. SameFull(p, n) /\ ShowsAs(p, n) => Without(m, o, n)
  BY <1>k, <1>s, <1>19 DEF SameFull, ShowsAs, Without
<1>i. n = p => SameFull(p, n) /\ ShowsAs(p, n)
  BY DEF SameFull, ShowsAs
<1>21. CASE taken = {}
  <2>1. K = 1..len /\ c = len
    <3>1. K = 1..len
      BY <1>3, <1>21
    <3> QED BY <1>5, <3>1, FS_Interval
  <2>2. \A k \in 1..len : RankIn(K, k) = k
    <3>1. SUFFICES ASSUME NEW k \in 1..len PROVE RankIn(K, k) = k
      OBVIOUS
    <3>2. taken \in SUBSET (1..len) /\ k \in Int
      BY <1>4
    <3>3. RankIn((1..len) \ taken, k) = k - Cardinality({i \in taken : i <= k})
      BY <3>2, RankWithout
    <3>4. {i \in taken : i <= k} = {}
      BY <1>21
    <3>5. Cardinality({i \in taken : i <= k}) = 0
      BY <3>4, FS_EmptySet
    <3> QED BY <1>3, <3>2, <3>3, <3>5
  <2>3. \A k \in 1..len : ws[k] = m.ws[k]
    BY <1>6, <2>1, <2>2
  <2>4. a = m.active
    BY <1>1, <1>7, <1>13, <2>1, <2>2
  <2>5. n = p
    <3>1. ~(m.eaf /\ Len(p.ws) = 2)
      <4>1. m.eaf => len < 2 \/ len > 2
        BY <1>0, <1>l
      <4>2. Len(p.ws) = len
        BY <1>6, <1>19, <2>1
      <4> QED BY <4>1, <4>2
    <3> QED BY <1>16, <1>21, <3>1
  <2>6. Len(n.ws) = len /\ Nearly(n)
    BY <1>0, <1>l, <1>6, <1>18, <1>19, <1>20, <1>21, <2>1, <2>5 DEF Nearly, SwitchFits, SameOutput
  <2>7. ASSUME n.sw.kind = "none", NEW j \in 1..len PROVE Excused(n, j)
    <3>1. Excused(m, j)
      BY <1>0, <1>l, <1>18, <1>19, <1>21, <2>5, <2>7 DEF Idle
    <3> QED BY <1>l, <1>19, <2>3, <2>4, <2>5, <2>6, <3>1 DEF Excused, AtEnd, SameOutput
  <2>8. Sound(n) /\ SameOutput(m, n)
    BY <1>19, <2>5, <2>6, <2>7 DEF Sound, Idle
  <2> QED BY <1>e, <1>i, <2>5, <2>8
<1>22. CASE taken # {} /\ (m.sw.kind # "none" \/ (m.eaf /\ Len(p.ws) = 2))
  <2>1. n = CleanUpWorkspaces(p) /\ p.sw.kind = "none"
    BY <1>16, <1>18, <1>19, <1>22
  <2>2. Sound(n) /\ SameOutput(p, n) /\ SameFull(p, n) /\ ShowsAs(p, n)
    BY <1>20, <2>1, CleanedUp
  <2>3. SameOutput(m, n)
    BY <1>19, <2>2 DEF SameOutput
  <2> QED BY <1>e, <2>2, <2>3
<1>23. CASE taken # {} /\ ~(m.sw.kind # "none" \/ (m.eaf /\ Len(p.ws) = 2))
  <2>1. n = p /\ m.sw.kind = "none" /\ p.sw.kind = "none"
    BY <1>16, <1>18, <1>19, <1>23
  <2>2. m.eaf => c < 2 \/ c > 2
    BY <1>6, <1>19, <1>23
  <2>3. ASSUME NEW j \in 1..c PROVE Excused(p, j)
    <3>1. PICK k \in K : k = Nth(K, j) /\ ws[j] = m.ws[k] /\ RankIn(K, k) = j
      BY <1>6
    <3>2. k = m.active \/ k = len \/ (m.eaf /\ k = 1) \/ HasWindowsOrName(m.ws[k])
      <4>1. k \in 1..Len(m.ws)
        BY <1>l, <1>4
      <4> QED BY <1>0, <1>l, <2>1, <4>1 DEF Idle, Excused, AtEnd
    <3>3. k = m.active => j = a
      BY <1>7, <1>13, <3>1
    <3>4. k = len => j = c
      BY <1>9, <3>1
    <3>5. m.eaf /\ k = 1 => j = 1
      BY <1>10, <3>1
    <3> QED BY <1>6, <1>19, <3>1, <3>2, <3>3, <3>4, <3>5 DEF Excused, AtEnd, SameOutput
  <2>4. Sound(n) /\ SameOutput(m, n)
    BY <1>6, <1>19, <1>20, <2>1, <2>2, <2>3 DEF Sound, Nearly, SwitchFits, IsGesture, Idle, SameOutput
  <2> QED BY <1>e, <1>i, <2>1, <2>4
<1> QED BY <1>21, <1>22, <1>23

-----------------------------------------------------------------------------
\* An output is connected.
LEMMA AddOutputKeeps ==
  ASSUME IInv, NEW o \in Output, AddOutput(o)
  PROVE  IInv'
<1>0. /\ nextId \in Id /\ monitors \in Seq(Monitor) /\ Stacks(monitors)
      /\ monitors = <<>> <=> Len(monitors) = 0
      /\ DOMAIN monitors = 1..Len(monitors) /\ Len(monitors) \in Nat
      /\ stranded \in Seq(Workspace)
      /\ \A j \in 1..Len(stranded) : HasWindowsOrName(stranded[j])
      /\ lastActive \in [Output -> Id \cup {NoId}]
  BY Around DEF IInv, Parked, Stacks, RestOK
<1>1. PICK eaf \in BOOLEAN : eaf = config[o]
  <2>1. config \in [Output -> BOOLEAN]
    BY ConfigsType DEF IInv, RestOK
  <2> QED BY <2>1
<1>2. PICK last, past : last = [lastActive EXCEPT ![o] = NoId] /\ past = lastActive[o]
  OBVIOUS
<1>3. last \in [Output -> Id \cup {NoId}]
  BY <1>0, <1>2
<1>4. PICK L : L = Connect(Outputs, o, eaf, nextId)
  OBVIOUS
<1>5. /\ monitors' = L.monitors /\ primary' = L.primary /\ focused' = L.focused
      /\ stranded' = L.stranded /\ lastActive' = L.lastActive
  BY <1>1, <1>4 DEF AddOutput, SetOutputs
<1>6. CASE monitors = <<>>
  <2>1. PICK n : n = NewMonitor(o, stranded, past, eaf, nextId)
    OBVIOUS
  <2>2. Sound(n)
    BY <1>0, <2>1, MonitorMade
  <2>3. L = [monitors |-> <<n>>, primary |-> 1, focused |-> 1, stranded |-> <<>>, lastActive |-> last]
    BY <1>2, <1>4, <1>6, <2>1 DEF Connect, Outputs
  <2>4. monitors' = <<n>> /\ primary' = 1 /\ focused' = 1 /\ stranded' = <<>> /\ lastActive' = last
    BY <1>5, <2>3
  <2>5. Stacks(monitors') /\ Len(monitors') = 1
    BY <2>2, <2>4 DEF Stacks, Sound, Nearly, Ready, Formed
  <2>6. Parked(stranded', Len(monitors'))
    BY <2>4 DEF Parked
  <2>7. RestOK'
    BY <1>3, <2>4 DEF AddOutput, IInv, RestOK, TakeIds, IdsPerCall, Id
  <2> QED BY <2>4, <2>5, <2>6, <2>7 DEF IInv, IndexFits
<1>7. CASE monitors # <<>>
  <2>1. PICK k, m : k = primary /\ m = monitors[k]
    OBVIOUS
  <2>2. /\ k \in 1..Len(monitors) /\ focused \in 1..Len(monitors) /\ Sound(m)
        /\ m.ws \in Seq(Workspace) /\ DOMAIN m.ws = 1..Len(m.ws) /\ stranded = <<>>
    <3>1. k \in 1..Len(monitors) /\ focused \in 1..Len(monitors) /\ Sound(m)
      BY <1>7, <2>1, Around
    <3>2. m \in Monitor
      BY <3>1 DEF Sound, Nearly, Ready, Formed
    <3>3. m.ws \in Seq(Workspace)
      BY <3>2, MonitorFields
    <3> QED BY <1>0, <1>7, <3>1, <3>3 DEF IInv, Parked
  <2>3. o # m.output
    BY <1>0, <2>1, <2>2 DEF AddOutput, Connected
  <2>4. PICK K : K = {i \in DOMAIN m.ws : m.ws[i].orig = o /\ HasWindowsOrName(m.ws[i])}
    OBVIOUS
  <2>5. PICK back : back = Keep(m.ws, K)
    OBVIOUS
  <2>6. back \in Seq(Workspace) /\ \A i \in 1..Len(back) : HasWindowsOrName(back[i])
    <3>1. PICK s : s = m.ws
      OBVIOUS
    <3>2. s \in Seq(Workspace) /\ K \in SUBSET (1..Len(s)) /\ \A i \in K : HasWindowsOrName(s[i])
      BY <2>2, <2>4, <3>1
    <3> QED BY <2>5, <3>1, <3>2, NonBlankKept
  <2>7. PICK r : r = WithoutThoseOf(m, o)
    OBVIOUS
  <2>8. PICK n : n = NewMonitor(o, back, past, eaf, nextId)
    OBVIOUS
  <2>9. Sound(r) /\ Sound(n)
    BY <1>0, <2>2, <2>3, <2>6, <2>7, <2>8, WithoutTaken, MonitorMade
  <2>10. PICK rs : rs = Exchanged(monitors, k, r)
    OBVIOUS
  <2>11. Stacks(rs) /\ Len(rs) = Len(monitors)
    <3>1. Stacks(monitors) /\ k \in 1..Len(monitors) /\ Sound(r)
      BY <1>0, <2>2, <2>9
    <3> QED BY <2>10, <3>1, OneChanged
  <2>12. L = [Outputs EXCEPT !.monitors = Append(rs, n), !.lastActive = last]
    <3>1. /\ Outputs.monitors = monitors /\ Outputs.primary = primary /\ Outputs.lastActive = lastActive
      BY DEF Outputs
    <3>2. L = [Outputs EXCEPT
                 !.monitors = Append([Outputs.monitors EXCEPT ![Outputs.primary] = WithoutThoseOf(m, o)], n),
                 !.lastActive = last]
      BY <1>2, <1>4, <1>7, <2>1, <2>4, <2>5, <2>8, <3>1 DEF Connect
    <3> QED BY <2>1, <2>7, <2>10, <3>1, <3>2 DEF Exchanged
  <2>13. /\ monitors' = Append(rs, n) /\ primary' = primary /\ focused' = focused
         /\ stranded' = stranded /\ lastActive' = last
    BY <1>5, <2>12 DEF Outputs
  <2>14. Stacks(monitors') /\ Len(monitors') = Len(monitors) + 1
    BY <1>0, <2>9, <2>11, <2>13 DEF Stacks, Sound, Nearly, Ready, Formed
  <2>15. IndexFits(primary', Len(monitors')) /\ IndexFits(focused', Len(monitors'))
    BY <1>0, <2>1, <2>2, <2>13, <2>14 DEF IndexFits
  <2>16. Parked(stranded', Len(monitors'))
    BY <2>2, <2>13 DEF Parked
  <2>17. RestOK'
    BY <1>3, <2>13 DEF AddOutput, IInv, RestOK, TakeIds, IdsPerCall, Id
  <2> QED BY <2>14, <2>15, <2>16, <2>17 DEF IInv
<1> QED BY <1>6, <1>7

\* An output is disconnected.
LEMMA RemoveOutputKeeps ==
  ASSUME IInv, NEW o \in Output, RemoveOutput(o)
  PROVE  IInv'
<1>0. /\ nextId \in Id /\ monitors \in Seq(Monitor) /\ Stacks(monitors)
      /\ monitors = <<>> <=> Len(monitors) = 0
      /\ lastActive \in [Output -> Id \cup {NoId}]
  BY Around DEF IInv, Stacks, RestOK
<1>1. PICK len \in Nat : len = Len(monitors)
  BY <1>0
<1>2. PICK k : k = MonitorOf(o)
  OBVIOUS
<1>3. PICK m : m = monitors[k]
  OBVIOUS
<1>4. k \in 1..len /\ Sound(m) /\ primary \in 1..len /\ focused \in 1..len
  BY <1>0, <1>1, <1>2, <1>3, MonitorThere, Around DEF RemoveOutput
<1>5. /\ m \in Monitor /\ m.ws \in Seq(Workspace) /\ m.active \in 1..Len(m.ws)
      /\ m.ws[m.active].id \in Id
  BY <1>4, MonitorFields DEF Sound, Nearly, Ready, Formed
<1>6. PICK rest : rest = RemoveAt(monitors, k)
  OBVIOUS
<1>7. rest \in Seq(Monitor) /\ Len(rest) = len - 1 /\ \A j \in 1..(len - 1) : Sound(rest[j])
  <2>1. PICK ms : ms = monitors
    OBVIOUS
  <2>2. ms \in Seq(Monitor) /\ k \in 1..Len(ms) /\ Len(ms) = len
    BY <1>0, <1>1, <1>4, <2>1
  <2>3. RemoveAt(ms, k) \in Seq(Monitor) /\ WithRemoved(RemoveAt(ms, k), ms, k)
    BY <2>2, Removed, Zenon
  <2>4. ASSUME NEW j \in 1..(len - 1) PROVE Sound(rest[j])
    <3>1. rest[j] = ms[j] \/ rest[j] = ms[j + 1]
      BY <1>6, <2>1, <2>2, <2>3 DEF WithRemoved
    <3>2. j \in 1..len /\ j + 1 \in 1..len
      BY <1>4
    <3> QED BY <1>1, <2>1, <3>1, <3>2, Around
  <2> QED BY <1>6, <2>1, <2>2, <2>3, <2>4 DEF WithRemoved
<1>8. PICK lost : lost = IntoWorkspaces(m)
  OBVIOUS
<1>9. lost \in Seq(Workspace) /\ \A i \in 1..Len(lost) : HasWindowsOrName(lost[i])
  <2>1. PICK s, K : s = m.ws /\ K = {i \in 1..Len(m.ws) : HasWindowsOrName(m.ws[i])}
    OBVIOUS
  <2>2. lost = Keep(s, K)
    BY <1>8, <2>1 DEF IntoWorkspaces
  <2>3. s \in Seq(Workspace) /\ K \in SUBSET (1..Len(s)) /\ \A i \in K : HasWindowsOrName(s[i])
    BY <1>5, <2>1
  <2> QED BY <2>2, <2>3, NonBlankKept
<1>10. PICK last : last = [lastActive EXCEPT ![m.output] = m.ws[m.active].id]
  OBVIOUS
<1>11. last \in [Output -> Id \cup {NoId}]
  BY <1>0, <1>5, <1>10
<1>12. PICK p, q : p = IndexWithout(primary, k) /\ q = IndexWithout(focused, k)
  OBVIOUS
<1>13. len > 1 => p \in 1..(len - 1) /\ q \in 1..(len - 1)
  <2>1. ASSUME NEW x \in 1..len, len > 1 PROVE IndexWithout(x, k) \in 1..(len - 1)
    BY <1>4, <2>1 DEF IndexWithout, MaxOf
  <2> QED BY <1>4, <1>12, <2>1
<1>14. PICK L : L = Disconnect(Outputs, k, nextId)
  OBVIOUS
<1>15. /\ monitors' = L.monitors /\ primary' = L.primary /\ focused' = L.focused
       /\ stranded' = L.stranded /\ lastActive' = L.lastActive
  BY <1>2, <1>14 DEF RemoveOutput, SetOutputs
<1>16. /\ Outputs.monitors = monitors /\ Outputs.primary = primary /\ Outputs.focused = focused
       /\ Outputs.lastActive = lastActive
  BY DEF Outputs
<1>17. rest = <<>> <=> len = 1
  BY <1>4, <1>7, EmptySeq
<1>18. CASE len = 1
  <2>1. L = [monitors |-> <<>>, primary |-> 0, focused |-> 0, stranded |-> lost, lastActive |-> last]
    BY <1>3, <1>6, <1>8, <1>10, <1>14, <1>16, <1>17, <1>18 DEF Disconnect
  <2>2. monitors' = <<>> /\ primary' = 0 /\ focused' = 0 /\ stranded' = lost /\ lastActive' = last
    BY <1>15, <2>1
  <2>3. Stacks(monitors') /\ Len(monitors') = 0
    BY <2>2 DEF Stacks
  <2>4. Parked(stranded', Len(monitors'))
    BY <1>9, <2>2, <2>3 DEF Parked
  <2>5. RestOK'
    BY <1>11, <2>2 DEF RemoveOutput, IInv, RestOK, TakeIds, IdsPerCall, Id
  <2> QED BY <2>2, <2>3, <2>4, <2>5 DEF IInv, IndexFits
<1>19. CASE len # 1
  <2>1. len > 1 /\ p \in 1..Len(rest) /\ q \in 1..Len(rest) /\ Len(rest) # 0 /\ Stacks(rest)
    BY <1>4, <1>7, <1>13, <1>19 DEF Stacks
  <2>2. PICK n : n = AppendWorkspaces(rest[p], lost, nextId)
    OBVIOUS
  <2>3. Sound(n)
    <3>1. Sound(rest[p])
      BY <1>7, <2>1
    <3> QED BY <1>0, <1>9, <2>2, <3>1, WorkspacesAppended
  <2>4. PICK ns : ns = Exchanged(rest, p, n)
    OBVIOUS
  <2>5. Stacks(ns) /\ Len(ns) = Len(rest)
    <3>1. Stacks(rest) /\ p \in 1..Len(rest) /\ Sound(n)
      BY <2>1, <2>3
    <3> QED BY <2>4, <3>1, OneChanged
  <2>6. L = [monitors |-> ns, primary |-> p, focused |-> q, stranded |-> <<>>, lastActive |-> last]
    <3>1. ns = [rest EXCEPT ![p] = AppendWorkspaces(rest[p], lost, nextId)]
      BY <2>2, <2>4 DEF Exchanged
    <3> QED BY <1>3, <1>6, <1>8, <1>10, <1>12, <1>14, <1>16, <1>17, <1>19, <3>1 DEF Disconnect
  <2>7. monitors' = ns /\ primary' = p /\ focused' = q /\ stranded' = <<>> /\ lastActive' = last
    BY <1>15, <2>6
  <2>8. Parked(stranded', Len(monitors'))
    BY <2>7 DEF Parked
  <2>9. RestOK'
    BY <1>11, <2>7 DEF RemoveOutput, IInv, RestOK, TakeIds, IdsPerCall, Id
  <2> QED BY <2>1, <2>5, <2>7, <2>8, <2>9 DEF IInv, IndexFits
<1> QED BY <1>18, <1>19

-----------------------------------------------------------------------------
\* The invariant holds at first.
LEMMA InitIInv ==
  ASSUME Init
  PROVE  IInv
<1>1. Stacks(monitors) /\ Len(monitors) = 0
  BY DEF Init, Stacks
<1>2. IndexFits(primary, Len(monitors)) /\ IndexFits(focused, Len(monitors))
  BY <1>1 DEF Init, IndexFits
<1>3. Parked(stranded, Len(monitors))
  BY DEF Init, Parked
<1>4. RestOK
  <2>1. lastActive \in [Output -> Id \cup {NoId}]
    BY DEF Init, NoLastActive
  <2>2. move \in MoveType
    BY DEF Init, MoveType, NotMoving
  <2>3. nextId \in Id
    BY DEF Init, Id
  <2>4. overviewOpen \in BOOLEAN
    BY Zenon DEF Init
  <2>5. dnd \in BOOLEAN
    BY Zenon DEF Init
  <2>6. config \in Configs /\ mapped = {}
    BY DEF Init
  <2> QED BY <2>1, <2>2, <2>3, <2>4, <2>5, <2>6 DEF RestOK
<1> QED BY <1>1, <1>2, <1>3, <1>4 DEF IInv

\* Every step keeps it.
LEMMA NextIInv ==
  ASSUME ~NameUnfocusedEdge, IInv, [Next]_vars
  PROVE  IInv'
<1>0. /\ DOMAIN monitors = 1..Len(monitors) /\ (monitors = <<>> <=> Len(monitors) = 0)
      /\ Stacks(monitors) /\ Len(monitors) \in Nat
      /\ \A k \in 1..Len(monitors) : DOMAIN monitors[k].ws = 1..Len(monitors[k].ws) /\ Len(monitors[k].ws) \in Nat
  BY Around DEF IInv
<1>1. CASE UNCHANGED vars
  <2>1. RestOK' /\ IndexFits(focused', Len(monitors))
    BY <1>1 DEF vars, IInv, RestOK
  <2> QED BY <1>0, <1>1, <2>1, SameMonitors DEF vars
<1>2. CASE HotplugNext
  BY <1>2, AddOutputKeeps, RemoveOutputKeeps DEF HotplugNext
<1>3. CASE WindowNext
  <2>1. ASSUME NEW p \in Places, NEW w \in WorkspaceAt(p).wins PROVE w \in Window
    <3>1. WorkspaceAt(p) \in Workspace
      BY PlaceThere
    <3>2. WorkspaceAt(p).wins \in SUBSET Window
      BY <3>1, WorkspaceFields
    <3> QED BY <3>2
  <2>2. ASSUME NEW p \in Places, p = <<focused, monitors[focused].active>>
        PROVE  monitors # <<>> /\ DOMAIN monitors[focused].ws = 1..Len(monitors[focused].ws)
    <3>1. focused \in 1..Len(monitors)
      BY <2>2, PlaceThere
    <3> QED BY <1>0, <3>1
  <2>3. CASE \E w \in Window, p \in Places, act \in BOOLEAN : AddWindow(w, p, act)
    BY <2>3, AddWindowKeeps
  <2>4. CASE \E w \in Window, i \in DOMAIN StrandedOrNew : AddWindowStranded(w, i)
    BY <2>4, AddWindowStrandedKeeps
  <2>5. CASE \E w \in Window, f \in Landings : RemoveWindow(w, f)
    BY <2>5, RemoveWindowKeeps
  <2>6. ASSUME NEW p \in Places, NEW act \in BOOLEAN, NEW w \in WorkspaceAt(p).wins,
               NEW i \in DOMAIN monitors[p[1]].ws, MoveToWorkspace(w, p, i, act)
        PROVE  IInv'
    <3>1. w \in Window /\ i \in 1..Len(monitors[p[1]].ws)
      BY <1>0, <2>1, PlaceThere
    <3> QED BY <2>6, <3>1, MoveToWorkspaceKeeps
  <2>7. ASSUME NEW p \in Places, NEW act \in BOOLEAN, NEW w \in WorkspaceAt(p).wins,
               NEW q \in Places, MoveToOutput(w, p, q[1], q[2], act)
        PROVE  IInv'
    BY <2>1, <2>7, MoveToOutputKeeps
  <2>8. ASSUME NEW p \in Places, NEW act \in BOOLEAN, p = <<focused, monitors[focused].active>>,
               NEW wins, NEW i \in DOMAIN monitors[focused].ws, MoveColumnToWorkspace(wins, i, act)
        PROVE  IInv'
    BY <2>2, <2>8, MoveColumnToWorkspaceKeeps
  <2>9. ASSUME NEW p \in Places, NEW act \in BOOLEAN, p = <<focused, monitors[focused].active>>,
               NEW wins, NEW q \in Places, MoveColumnToOutput(wins, q[1], q[2], act)
        PROVE  IInv'
    BY <2>2, <2>9, MoveColumnToOutputKeeps
  <2> QED BY <1>3, <2>3, <2>4, <2>5, <2>6, <2>7, <2>8, <2>9 DEF WindowNext
<1>4. CASE WorkspaceNext
  <2>1. CASE monitors # <<>> /\ (MoveActiveWorkspaceDown \/ MoveActiveWorkspaceUp)
    BY <2>1, MoveActiveWorkspaceKeeps
  <2>2. ASSUME NEW p \in Places, NEW i \in DOMAIN monitors[p[1]].ws, MoveWorkspaceTo(p, i) PROVE IInv'
    <3>1. i \in 1..Len(monitors[p[1]].ws)
      BY <1>0, PlaceThere
    <3> QED BY <2>2, <3>1, MoveWorkspaceToKeeps
  <2>3. ASSUME NEW p \in Places, NEW k \in DOMAIN monitors, MoveWorkspaceToOutput(p, k) PROVE IInv'
    BY <1>0, <2>3, MoveWorkspaceToOutputKeeps
  <2>4. ASSUME NEW n \in Name, NEW p \in Places, SetWorkspaceName(n, p) PROVE IInv'
    BY <2>4, SetWorkspaceNameKeeps
  <2>5. ASSUME NEW n \in Name, NEW i \in DOMAIN stranded, SetStrandedName(n, i) PROVE IInv'
    BY <2>5, StrandedNamedKeeps
  <2>6. ASSUME NEW p \in Places, UnsetWorkspaceName(p) PROVE IInv'
    BY <2>6, UnsetWorkspaceNameKeeps
  <2>7. ASSUME NEW i \in DOMAIN stranded, UnsetStrandedName(i) PROVE IInv'
    BY <2>7, StrandedUnnamedKeeps
  <2>8. ASSUME NEW n \in Name, NEW o \in Output \cup {NoOutput}, EnsureNamedWorkspace(n, o) PROVE IInv'
    BY <2>8, EnsureNamedWorkspaceKeeps
  <2>9. ASSUME NEW c \in Configs, ReloadConfig(c) PROVE IInv'
    BY <2>9, ReloadConfigKeeps
  <2> QED BY <1>4, <2>1, <2>2, <2>3, <2>4, <2>5, <2>6, <2>7, <2>8, <2>9 DEF WorkspaceNext
<1>5. CASE SwitchNext
  BY <1>5, SwitchKeeps
<1>6. CASE OverviewNext
  BY <1>6, OverviewKeeps
<1>7. CASE DragNext
  <2>1. ASSUME NEW k \in DOMAIN monitors, NEW f, SwipeBegin(k, f) PROVE IInv'
    BY <1>0, <2>1, SwipeBeginKeeps
  <2>2. ASSUME NEW k \in DOMAIN monitors, NEW i \in 0..Len(monitors[k].ws), GestureUpdate(k, i) PROVE IInv'
    <3>1. k \in 1..Len(monitors) /\ i \in Nat
      BY <1>0
    <3> QED BY <2>2, <3>1, GestureUpdateKeeps
  <2>3. ASSUME NEW k \in DOMAIN monitors, SwipeEnd(k) PROVE IInv'
    BY <1>0, <2>3, SwipeEndKeeps
  <2>4. ASSUME DndBegin \/ \E f \in Landings : DndEnd(f) \/ InteractiveMoveCancel(f) PROVE IInv'
    BY <2>4, ScrollKeeps
  <2>5. ASSUME NEW p \in Places, NEW f \in Landings, DndHold(p, f) PROVE IInv'
    BY <2>5, DndHoldKeeps
  <2>6. ASSUME NEW w \in Window, NEW o \in Output,
               InteractiveMoveBegin(w) \/ InteractiveMoveStart(w, o) \/ InteractiveMoveTo(w, o)
        PROVE  IInv'
    BY <2>6, ScrollKeeps, InteractiveMoveKeeps
  <2>7. ASSUME NEW w \in Window, NEW f \in Landings, NEW isNew \in BOOLEAN,
               NEW i \in UNION {1..(Len(monitors[k].ws) + 1) : k \in DOMAIN monitors},
               InteractiveMoveEnd(w, f, i, isNew)
        PROVE  IInv'
    <3>1. PICK k \in DOMAIN monitors : i \in 1..(Len(monitors[k].ws) + 1)
      OBVIOUS
    <3>2. i \in Nat
      BY <3>1
    <3>3. monitors # <<>>
      BY <3>1
    <3> QED BY <2>7, <3>2, <3>3, InteractiveMoveEndKeeps
  <2>8. ASSUME NEW w \in Window, InteractiveMoveEndStranded(w) PROVE IInv'
    BY <2>8, DroppedStrandedKeeps
  <2> QED BY <1>7, <2>1, <2>2, <2>3, <2>4, <2>5, <2>6, <2>7, <2>8 DEF DragNext
<1> QED BY <1>1, <1>2, <1>3, <1>4, <1>5, <1>6, <1>7 DEF Next

\* Every call of the layout leaves every monitor sound: the invariant that the
\* other theorems follow from.
THEOREM LayoutInvariant ==
  ASSUME ~NameUnfocusedEdge
  PROVE  Spec => []IInv
<1>1. Init => IInv
  BY InitIInv
<1>2. IInv /\ [Next]_vars => IInv'
  BY NextIInv
<1> QED BY <1>1, <1>2, PTL DEF Spec

\* Every index the code keeps is in range after every call: of the primary and of
\* the focused monitor, and of the active workspace of each monitor.
THEOREM LayoutTypes ==
  ASSUME ~NameUnfocusedEdge
  PROVE  Spec => []TypeOK
<1>1. IInv => TypeOK
  BY IInvImplies
<1> QED BY <1>1, LayoutInvariant, PTL

\* Every monitor ends in a blank workspace (and begins with one, if so configured)
\* and has no others with no switch in progress, but for the active one
\* (Monitor::verify_invariants).
THEOREM BlanksInPlace ==
  ASSUME ~NameUnfocusedEdge
  PROVE  Spec => []BlankWorkspaces
<1>1. IInv => BlankWorkspaces
  BY IInvImplies
<1> QED BY <1>1, LayoutInvariant, PTL

\* No call fails an assertion, indexes past the end of a list or crosses the bounds
\* of a clamp(), whatever calls came before it.
THEOREM LayoutNeverPanics ==
  ASSUME ~NameUnfocusedEdge
  PROVE  Spec => []NoPanic
<1>1. IInv => NoPanic
  BY IInvImplies
<1> QED BY <1>1, LayoutInvariant, PTL

-----------------------------------------------------------------------------
(***************************************************************************)
(* The views of the outputs, from one state to the next.                   *)
(***************************************************************************)
\* What ViewKeptBy asks of n, which is m after a call, as long as the workspace
\* that m shows is not on another monitor.
Keeps(m, n) ==
  IsGesture(m.sw) \/ IsBlank(m.ws[m.active]) \/ ShownId(m) \in {ShownId(n), n.prev}

\* Workspace id is on another of the monitors ns than the j-th.
Elsewhere(id, ns, j) ==
  \E q \in 1..Len(ns) : q # j /\ \E i \in 1..Len(ns[q].ws) : ns[q].ws[i].id = id

\* ns are the monitors ms after a call, and none of their views has slipped.
MonitorsKeep(ms, ns) ==
  /\ Len(ns) = Len(ms)
  /\ \A k \in 1..Len(ms) : /\ ns[k].output = ms[k].output
                           /\ Keeps(ms[k], ns[k]) \/ Elsewhere(ShownId(ms[k]), ns, k)

\* Monitors with the same output are not two.
OneEach(ms) ==
  \A j, k \in 1..Len(ms) : ms[j].output = ms[k].output => j = k

\* ViewKept, said of the monitors as they are and as they will be.
LEMMA ViewsThen ==
  ASSUME IInv, NEW ns, ns = monitors', Stacks(ns),
         \A k \in 1..Len(monitors), j \in 1..Len(ns) :
           monitors[k].output = ns[j].output =>
             Keeps(monitors[k], ns[j]) \/ Elsewhere(ShownId(monitors[k]), ns, j)
  PROVE  ViewKept
<1>1. DOMAIN monitors = 1..Len(monitors) /\ DOMAIN ns = 1..Len(ns)
  BY Around DEF Stacks
<1>2. \A q \in 1..Len(ns) : DOMAIN ns[q].ws = 1..Len(ns[q].ws)
  <2>1. SUFFICES ASSUME NEW q \in 1..Len(ns) PROVE DOMAIN ns[q].ws = 1..Len(ns[q].ws)
    OBVIOUS
  <2>2. ns[q] \in Monitor
    BY DEF Stacks
  <2>3. ns[q].ws \in Seq(Workspace)
    BY <2>2, MonitorFields
  <2> QED BY <2>3
<1>3. ASSUME NEW id, NEW j, Elsewhere(id, ns, j)
      PROVE  id \in IdsElsewhere(j)'
  <2>0. PICK q \in 1..Len(ns) : q # j /\ \E i \in 1..Len(ns[q].ws) : ns[q].ws[i].id = id
    BY <1>3 DEF Elsewhere
  <2>1. PICK i \in 1..Len(ns[q].ws) : ns[q].ws[i].id = id
    BY <2>0
  <2>2. PICK p : p = <<q, i>>
    OBVIOUS
  <2>3. p \in Places' /\ p[1] = q /\ p[2] = i
    BY <1>1, <1>2, <2>0, <2>1, <2>2 DEF Places
  <2>4. WorkspaceAt(p)'.id = id
    BY <2>1, <2>3 DEF WorkspaceAt
  <2> QED BY <2>0, <2>3, <2>4 DEF IdsElsewhere, WorkspaceAt
<1>4. ASSUME NEW k \in 1..Len(monitors), NEW j \in 1..Len(ns) PROVE ViewKeptBy(k, j)
  <2>1. PICK m, n : m = monitors[k] /\ n = ns[j]
    OBVIOUS
  <2>2. m.output = n.output => Keeps(m, n) \/ Elsewhere(ShownId(m), ns, j)
    BY <2>1
  <2>3. Elsewhere(ShownId(m), ns, j) => ShownId(m) \in IdsElsewhere(j)'
    BY <1>3
  <2>4. \/ m.output # n.output \/ IsBlank(Shown(m)) \/ IsGesture(m.sw)
        \/ Shown(m).id \in {Shown(n).id, n.prev}
        \/ Shown(m).id \in IdsElsewhere(j)'
    BY <2>2, <2>3 DEF Keeps, Shown, ShownId
  <2> QED BY <2>1, <2>4 DEF ViewKeptBy
<1> QED BY <1>1, <1>4 DEF ViewKept

\* A monitor keeps its view when the view stays, or leaves and is remembered.
LEMMA SeenKeeps ==
  ASSUME NEW m, Ready(m), NEW n, Seen(m, n)
  PROVE  n.output = m.output /\ Keeps(m, n)
<1>1. n.output = m.output
  BY DEF Seen, Stays, Leaves, Alongside
<1>2. CASE HasWindowsOrName(m.ws[m.active])
  BY <1>1, <1>2, FullIsInner DEF Keeps, Seen, Stays, Leaves
<1>3. CASE ~HasWindowsOrName(m.ws[m.active])
  BY <1>1, <1>3 DEF Keeps, IsBlank
<1> QED BY <1>1, <1>2, <1>3

\* A monitor that does not change.
LEMMA KeepsItself ==
  ASSUME NEW m
  PROVE  Keeps(m, m) /\ Seen(m, m) /\ Stays(m, m)
  BY DEF Keeps, Seen, Stays, Alongside

\* One monitor changes, and keeps its view.
LEMMA OneKeeps ==
  ASSUME NEW ms, Stacks(ms), NEW k \in 1..Len(ms), NEW n, n.output = ms[k].output, Keeps(ms[k], n),
         NEW ns, ns = Exchanged(ms, k, n)
  PROVE  MonitorsKeep(ms, ns)
<1>1. DOMAIN ms = 1..Len(ms) /\ Len(ms) \in Nat
  BY DEF Stacks
<1>2. Len(ns) = Len(ms) /\ ns[k] = n /\ \A j \in 1..Len(ms) : j # k => ns[j] = ms[j]
  BY <1>1 DEF Exchanged, Stacks
<1> QED BY <1>2, KeepsItself DEF MonitorsKeep

\* They all change, and keep their views.
LEMMA AllKeep ==
  ASSUME NEW ms, Stacks(ms), NEW ns, Stacks(ns), Alike(ns, ms),
         \A k \in 1..Len(ms) : ns[k].output = ms[k].output /\ Keeps(ms[k], ns[k])
  PROVE  MonitorsKeep(ms, ns)
<1>1. DOMAIN ms = 1..Len(ms) /\ Len(ms) \in Nat /\ DOMAIN ns = 1..Len(ns) /\ Len(ns) \in Nat
  BY DEF Stacks
<1>2. DOMAIN ns = DOMAIN ms
  BY DEF Alike
<1>3. Len(ns) = Len(ms)
  <2>1. PICK a \in Nat, b \in Nat : a = Len(ms) /\ b = Len(ns) /\ 1..a = 1..b
    BY <1>1, <1>2
  <2>2. a = b
    BY <2>1
  <2> QED BY <2>1, <2>2
<1> QED BY <1>3 DEF MonitorsKeep

\* A call about one monitor keeps the views when it keeps that monitor's.
LEMMA OneSeen ==
  ASSUME IInv, NEW k \in 1..Len(monitors), NEW n, Seen(monitors[k], n),
         monitors' = Exchanged(monitors, k, n)
  PROVE  MonitorsKeep(monitors, monitors')
<1>1. PICK m, ns : m = monitors[k] /\ ns = monitors'
  OBVIOUS
<1>2. n.output = m.output /\ Keeps(m, n)
  BY <1>1, Around, SeenKeeps
<1>3. Stacks(monitors)
  BY DEF IInv
<1>4. MonitorsKeep(monitors, ns)
  BY <1>1, <1>2, <1>3, OneKeeps
<1> QED BY <1>1, <1>4

\* A call that changes no monitor.
LEMMA NoneChanges ==
  ASSUME monitors' = monitors
  PROVE  MonitorsKeep(monitors, monitors')
  BY KeepsItself DEF MonitorsKeep

\* focus_output, switch_workspace and its kin
LEMMA SwitchViews ==
  ASSUME IInv, SwitchNext
  PROVE  MonitorsKeep(monitors, monitors')
<1>0. DOMAIN monitors = 1..Len(monitors)
  BY Around
<1>1. ASSUME NEW k \in 1..Len(monitors), NEW i \in 1..Len(monitors[k].ws),
             SetMonitor(k, ActivateWorkspace(monitors[k], i))
      PROVE  MonitorsKeep(monitors, monitors')
  <2>1. PICK m, n : m = monitors[k] /\ n = ActivateWorkspace(m, i)
    OBVIOUS
  <2>2. Formed(m) /\ i \in 1..Len(m.ws)
    BY <1>1, <2>1, Around DEF Ready
  <2>3. Seen(m, n)
    BY <2>1, <2>2, ActivatedSeen
  <2>4. monitors' = Exchanged(monitors, k, n)
    BY <1>1, <2>1 DEF SetMonitor, Exchanged
  <2> QED BY <2>1, <2>3, <2>4, OneSeen
<1>2. ASSUME NEW k \in 1..Len(monitors), NEW i \in 1..Len(monitors[k].ws),
             SetMonitor(k, SwitchWorkspace(monitors[k], i))
      PROVE  MonitorsKeep(monitors, monitors')
  <2>1. PICK to : to = MinOf(i, Len(monitors[k].ws))
    OBVIOUS
  <2>2. to \in 1..Len(monitors[k].ws)
    BY <2>1, Around DEF MinOf
  <2>3. SwitchWorkspace(monitors[k], i) = ActivateWorkspace(monitors[k], to)
    BY <2>1 DEF SwitchWorkspace
  <2> QED BY <1>1, <1>2, <2>2, <2>3
<1>3. ASSUME NEW k \in 1..Len(monitors), FocusOutput(k)
      PROVE  MonitorsKeep(monitors, monitors')
  BY <1>3, NoneChanges DEF FocusOutput
<1>4. ASSUME NEW k \in 1..Len(monitors), SwitchUp(k) PROVE MonitorsKeep(monitors, monitors')
  <2>1. PICK i \in SwitchUpTargets(monitors[k]) : OnMonitor(k, ActivateWorkspace(monitors[k], i))
    BY <1>4 DEF SwitchUp
  <2>2. i \in 1..Len(monitors[k].ws)
    BY Around, TargetsThere
  <2> QED BY <1>1, <2>1, <2>2 DEF OnMonitor
<1>5. ASSUME NEW k \in 1..Len(monitors), SwitchDown(k) PROVE MonitorsKeep(monitors, monitors')
  <2>1. PICK i \in SwitchDownTargets(monitors[k]) : OnMonitor(k, ActivateWorkspace(monitors[k], i))
    BY <1>5 DEF SwitchDown
  <2>2. i \in 1..Len(monitors[k].ws)
    BY Around, TargetsThere
  <2> QED BY <1>1, <2>1, <2>2 DEF OnMonitor
<1>6. ASSUME NEW k \in 1..Len(monitors), AnimationDone(k) PROVE MonitorsKeep(monitors, monitors')
  <2>1. PICK m, n : m = monitors[k] /\ n = Settle(m)
    OBVIOUS
  <2>2. Formed(m)
    BY <2>1, Around DEF Ready
  <2>3. Seen(m, n)
    BY <2>1, <2>2, SettledStays DEF Seen
  <2>4. monitors' = Exchanged(monitors, k, n)
    BY <1>6, <2>1 DEF AnimationDone, OnMonitor, SetMonitor, Exchanged
  <2> QED BY <2>1, <2>3, <2>4, OneSeen
<1>7. ASSUME NEW p \in Places, p[1] = focused, SwitchTo(p[2]) PROVE MonitorsKeep(monitors, monitors')
  BY <1>2, <1>7, PlaceThere DEF SwitchTo, OnMonitor
<1>8. ASSUME NEW p \in Places, SwitchToOn(p[1], p[2]) PROVE MonitorsKeep(monitors, monitors')
  BY <1>2, <1>8, PlaceThere DEF SwitchToOn
<1>9. ASSUME NEW p \in Places, NEW stay \in BOOLEAN, ActivateWindow(p, stay)
      PROVE  MonitorsKeep(monitors, monitors')
  <2>1. CASE stay
    BY <1>9, <2>1, NoneChanges DEF ActivateWindow
  <2>2. CASE ~stay
    BY <1>2, <1>9, <2>2, PlaceThere DEF ActivateWindow, SetMonitor
  <2> QED BY <2>1, <2>2
<1>10. ASSUME monitors # <<>>, SwitchPrevious PROVE MonitorsKeep(monitors, monitors')
  <2>1. PICK i \in PreviousIdx(monitors[focused]) :
          OnMonitor(focused, SwitchWorkspace(monitors[focused], i))
    BY <1>10 DEF SwitchPrevious
  <2>2. focused \in 1..Len(monitors) /\ i \in 1..Len(monitors[focused].ws)
    BY <1>10, Around DEF PreviousIdx
  <2> QED BY <1>2, <2>1, <2>2 DEF OnMonitor
<1> QED BY <1>0, <1>3, <1>4, <1>5, <1>6, <1>7, <1>8, <1>9, <1>10 DEF SwitchNext

\* toggle_overview and toggle_overview_to_workspace
LEMMA OverviewViews ==
  ASSUME IInv, OverviewNext
  PROVE  MonitorsKeep(monitors, monitors')
<1>1. CASE ToggleOverview
  BY <1>1, NoneChanges DEF ToggleOverview
<1>2. ASSUME NEW p \in Places, OpenFromOverview(p) PROVE MonitorsKeep(monitors, monitors')
  <2>1. PICK k, i, m : k = p[1] /\ i = p[2] /\ m = monitors[k]
    OBVIOUS
  <2>2. k \in 1..Len(monitors) /\ i \in 1..Len(m.ws) /\ Formed(m)
    BY <2>1, PlaceThere, Around DEF Ready
  <2>3. PICK n : n = ActivateWorkspace(m, i)
    OBVIOUS
  <2>4. Seen(m, n)
    BY <2>2, <2>3, ActivatedSeen
  <2>5. monitors' = Exchanged(monitors, k, n)
    BY <1>2, <2>1, <2>3 DEF OpenFromOverview, SetMonitor, Exchanged
  <2> QED BY <2>1, <2>2, <2>4, <2>5, OneSeen
<1> QED BY <1>1, <1>2 DEF OverviewNext

\* add_window, with outputs
LEMMA AddWindowViews ==
  ASSUME IInv, NEW w \in Window, NEW p \in Places, NEW act \in BOOLEAN, AddWindow(w, p, act)
  PROVE  MonitorsKeep(monitors, monitors')
<1>1. PICK k, i, m : k = p[1] /\ i = p[2] /\ m = monitors[k]
  OBVIOUS
<1>2. k \in 1..Len(monitors) /\ i \in 1..Len(m.ws) /\ Formed(m) /\ nextId \in Id
  BY <1>1, PlaceThere, Around DEF Ready
<1>3. PICK n : n = AddWindows(m, i, {w}, act, nextId)
  OBVIOUS
<1>4. {w} \in SUBSET Window
  OBVIOUS
<1>5. Seen(m, n)
  BY <1>2, <1>3, <1>4, WindowsAddedSeen
<1>6. monitors' = Exchanged(monitors, k, n)
  BY <1>1, <1>3 DEF AddWindow, SetMonitor, Exchanged
<1> QED BY <1>1, <1>2, <1>5, <1>6, OneSeen

\* remove_window on one monitor
LEMMA WindowOffStays ==
  ASSUME NEW m, Sound(m), NEW w, NEW n, n = WindowOff(m, w)
  PROVE  Stays(m, n)
<1>0. Nearly(m) /\ Formed(m) /\ m.ws \in Seq(Workspace)
  BY MonitorFields DEF Sound, Nearly, Ready, Formed
<1>1. PICK len \in Nat : len = Len(m.ws)
  BY <1>0
<1>2. PICK on : on = {i \in DOMAIN m.ws : w \in m.ws[i].wins}
  OBVIOUS
<1>3. on \in SUBSET (1..len)
  BY <1>0, <1>1, <1>2
<1>4. CASE on = {}
  BY <1>2, <1>4, KeepsItself DEF WindowOff
<1>5. CASE on # {}
  <2>1. PICK i : i = Nth(on, 1)
    OBVIOUS
  <2>2. i \in on
    <3>1. IsFiniteSet(on) /\ Cardinality(on) \in 0..len
      BY <1>3, IndicesFinite
    <3>2. Cardinality(on) # 0
      BY <1>5, <3>1, FS_EmptySet
    <3>3. 1 \in 1..Cardinality(on)
      BY <3>1, <3>2
    <3> QED BY <1>3, <2>1, <3>3, NthIsThere
  <2>3. i \in 1..Len(m.ws) /\ HasWindowsOrName(m.ws[i])
    BY <1>1, <1>2, <1>3, <2>2 DEF HasWindowsOrName
  <2>4. PICK t : t = TakeWindows(m, i, {w})
    OBVIOUS
  <2>5. Nearly(t) /\ SameOutput(m, t) /\ Len(t.ws) = Len(m.ws)
    BY <1>0, <2>3, <2>4, WindowsTaken
  <2>6. ~AtEnd(t, i) /\ Formed(t) /\ i \in 1..Len(t.ws)
    BY <1>0, <2>3, <2>5, FilledNotAtEnd DEF AtEnd, SameOutput, Nearly, Ready
  <2>7. n = CleanUpAfterClose(t, i)
    BY <1>2, <1>5, <2>1, <2>4 DEF WindowOff
  <2>8. Stays(t, n)
    BY <2>6, <2>7, CleanedAfterCloseStays
  <2>9. Stays(m, t)
    BY <1>0, <2>3, <2>4, TakenStays
  <2> QED BY <2>8, <2>9, StaysTwice
<1> QED BY <1>4, <1>5

\* An edge scroll that ends was a gesture.
LEMMA EndedAre ==
  ASSUME IInv, NEW f \in Landings, NEW ms, ms = DndScrollsEnded(f), NEW k \in 1..Len(monitors)
  PROVE  /\ ms[k].output = monitors[k].output /\ Sound(ms[k])
         /\ ms[k] = monitors[k] \/ IsGesture(monitors[k].sw)
<1>1. Stacks(ms) /\ Len(ms) = Len(monitors) /\ SameOutput(monitors[k], ms[k])
  BY ScrollsEnded
<1>2. ms[k] = monitors[k] \/ monitors[k].sw.kind = "dnd"
  BY Around DEF DndScrollsEnded
<1> QED BY <1>1, <1>2 DEF Stacks, SameOutput, IsGesture

\* What one monitor keeps after the edge scrolls have ended, it has kept.
LEMMA EndedKeeps ==
  ASSUME IInv, NEW f \in Landings, NEW ms, ms = DndScrollsEnded(f), NEW k \in 1..Len(monitors),
         NEW n, Seen(ms[k], n)
  PROVE  n.output = monitors[k].output /\ Keeps(monitors[k], n)
<1>1. PICK m, e : m = monitors[k] /\ e = ms[k]
  OBVIOUS
<1>2. e.output = m.output /\ Sound(e) /\ (e = m \/ IsGesture(m.sw))
  BY <1>1, EndedAre
<1>3. Ready(e)
  BY <1>2 DEF Sound, Nearly
<1>4. n.output = e.output /\ Keeps(e, n)
  BY <1>1, <1>3, SeenKeeps
<1>5. Keeps(m, n)
  BY <1>2, <1>4 DEF Keeps
<1> QED BY <1>1, <1>2, <1>4, <1>5

\* dnd_scroll_gesture_end on every monitor
LEMMA EndedViews ==
  ASSUME IInv, NEW f \in Landings, NEW ms, ms = DndScrollsEnded(f)
  PROVE  MonitorsKeep(monitors, ms)
<1>1. Stacks(ms) /\ Stacks(monitors)
  BY ScrollsEnded DEF IInv
<1>2. Alike(ms, monitors)
  BY DEF DndScrollsEnded, Alike
<1>3. \A k \in 1..Len(monitors) : ms[k].output = monitors[k].output /\ Keeps(monitors[k], ms[k])
  BY EndedKeeps, KeepsItself
<1> QED BY <1>1, <1>2, <1>3, AllKeep

\* remove_window on every monitor, after the end of the edge scrolls or not
LEMMA WindowOffViews ==
  ASSUME IInv, NEW w, NEW ms, ms = monitors \/ \E f \in Landings : ms = DndScrollsEnded(f),
         NEW ns, ns = WithoutWindow(ms, w)
  PROVE  MonitorsKeep(monitors, ns)
<1>1. Stacks(ms) /\ Stacks(monitors) /\ Len(ms) = Len(monitors) /\ DOMAIN ms = 1..Len(ms)
      /\ DOMAIN monitors = DOMAIN ms
  <2>1. Stacks(ms) /\ Stacks(monitors) /\ Len(ms) = Len(monitors)
    BY ScrollsEnded DEF IInv
  <2> QED BY <2>1 DEF Stacks
<1>2. Stacks(ns)
  BY <1>1, WindowOffEach
<1>3. ns = [k \in DOMAIN ms |-> WindowOff(ms[k], w)]
  BY Zenon DEF WithoutWindow, WindowOff
<1>4. Alike(ns, monitors)
  BY <1>1, <1>3 DEF Alike
<1>5. ASSUME NEW k \in 1..Len(monitors)
      PROVE  ns[k].output = monitors[k].output /\ Keeps(monitors[k], ns[k])
  <2>1. PICK e, n : e = ms[k] /\ n = ns[k]
    OBVIOUS
  <2>2. n = WindowOff(e, w) /\ Sound(e)
    BY <1>1, <1>3, <2>1 DEF Stacks
  <2>3. Seen(e, n)
    BY <2>2, WindowOffStays DEF Seen
  <2>4. CASE ms = monitors
    BY <2>1, <2>3, <2>4, Around, SeenKeeps
  <2>5. ASSUME NEW f \in Landings, ms = DndScrollsEnded(f)
        PROVE  n.output = monitors[k].output /\ Keeps(monitors[k], n)
    BY <2>1, <2>3, <2>5, EndedKeeps
  <2> QED BY <2>1, <2>4, <2>5
<1> QED BY <1>1, <1>2, <1>4, <1>5, AllKeep

\* remove_window
LEMMA RemoveWindowViews ==
  ASSUME IInv, NEW w \in Window, NEW f \in Landings, RemoveWindow(w, f)
  PROVE  MonitorsKeep(monitors, monitors')
<1>1. PICK ended, ns : ended = DndScrollsEnded(f) /\ ns = monitors'
  OBVIOUS
<1>2. ns = ended \/ ns = WithoutWindow(ended, w) \/ ns = WithoutWindow(monitors, w)
  BY <1>1 DEF RemoveWindow
<1>3. MonitorsKeep(monitors, ns)
  BY <1>1, <1>2, EndedViews, WindowOffViews
<1> QED BY <1>1, <1>3

\* interactive_move_update: the window leaves its workspace, or goes on.
LEMMA InteractiveMoveViews ==
  ASSUME IInv, NEW w \in Window, NEW o \in Output,
         InteractiveMoveStart(w, o) \/ InteractiveMoveTo(w, o)
  PROVE  MonitorsKeep(monitors, monitors')
<1>1. CASE InteractiveMoveStart(w, o)
  <2>1. PICK ns : ns = WithoutWindow(monitors, w)
    OBVIOUS
  <2>2. MonitorsKeep(monitors, ns)
    BY <2>1, WindowOffViews
  <2> QED BY <1>1, <2>1, <2>2 DEF InteractiveMoveStart
<1>2. CASE InteractiveMoveTo(w, o)
  BY <1>2, NoneChanges DEF InteractiveMoveTo
<1> QED BY <1>1, <1>2

\* dnd_begin, dnd_end and the drag of a window up to where it begins and is called off.
LEMMA ScrollViews ==
  ASSUME IInv,
         \/ DndBegin \/ \E w \in Window : InteractiveMoveBegin(w)
         \/ \E f \in Landings : DndEnd(f) \/ InteractiveMoveCancel(f)
  PROVE  MonitorsKeep(monitors, monitors')
<1>1. monitors' = DndScrollsBegun \/ \E f \in Landings : monitors' = DndScrollsEnded(f)
  BY DEF DndBegin, InteractiveMoveBegin, DndEnd, InteractiveMoveCancel
<1>2. PICK ns : ns = monitors'
  OBVIOUS
<1>3. CASE ns = DndScrollsBegun
  <2>1. Stacks(ns) /\ Stacks(monitors) /\ overviewOpen \in BOOLEAN
    BY <1>3, ScrollsBegun DEF IInv, RestOK
  <2>2. Alike(ns, monitors)
    BY <1>3 DEF DndScrollsBegun, Alike
  <2>3. ASSUME NEW k \in 1..Len(monitors)
        PROVE  ns[k].output = monitors[k].output /\ Keeps(monitors[k], ns[k])
    <3>1. PICK m, n : m = monitors[k] /\ n = ns[k]
      OBVIOUS
    <3>2. n = DndScrollBegin(m, overviewOpen) /\ Ready(m) /\ Formed(m)
      BY <1>3, <3>1, Around DEF DndScrollsBegun, Ready
    <3>3. Seen(m, n)
      BY <2>1, <3>2, ScrollBegunStays DEF Seen
    <3> QED BY <3>1, <3>2, <3>3, SeenKeeps
  <2> QED BY <1>2, <2>1, <2>2, <2>3, AllKeep
<1>4. ASSUME NEW f \in Landings, ns = DndScrollsEnded(f) PROVE MonitorsKeep(monitors, ns)
  BY <1>4, EndedViews
<1> QED BY <1>1, <1>2, <1>3, <1>4

\* Windows leave a workspace for another one of the same monitor.
LEMMA CarriedSeen ==
  ASSUME NEW m, Nearly(m), NEW i \in 1..Len(m.ws), NEW j \in 1..Len(m.ws),
         NEW wins \in SUBSET Window, wins # {}, NEW act \in BOOLEAN, NEW id \in Id,
         NEW t, t = TakeWindows(m, i, wins), NEW n, n = AddWindows(t, j, wins, act, id)
  PROVE  Seen(m, n) /\ Nearly(n)
<1>1. Nearly(t) /\ Len(t.ws) = Len(m.ws) /\ Formed(m)
  BY WindowsTaken DEF Nearly, Ready
<1>2. Formed(t) /\ j \in 1..Len(t.ws)
  BY <1>1 DEF Nearly, Ready
<1>3. Stays(m, t)
  BY <1>1, TakenStays
<1>4. Seen(t, n)
  BY <1>2, WindowsAddedSeen
<1>5. Nearly(n)
  BY <1>1, <1>2, WindowsAdded
<1> QED BY <1>3, <1>4, <1>5, StaysThenSeen

\* move_to_workspace
LEMMA MoveToWorkspaceViews ==
  ASSUME IInv, NEW p \in Places, NEW w \in Window, NEW idx \in 1..Len(monitors[p[1]].ws),
         NEW act \in BOOLEAN, MoveToWorkspace(w, p, idx, act)
  PROVE  MonitorsKeep(monitors, monitors')
<1>1. PICK k, i, m, to : k = p[1] /\ i = p[2] /\ m = monitors[k] /\ to = MinOf(idx, Len(m.ws))
  OBVIOUS
<1>2. k \in 1..Len(monitors) /\ i \in 1..Len(m.ws) /\ Nearly(m) /\ nextId \in Id
  BY <1>1, PlaceThere, Around
<1>3. to \in 1..Len(m.ws)
  BY <1>1, <1>2, Around DEF MinOf
<1>4. PICK t, a, n : /\ t = TakeWindows(m, i, {w}) /\ a = AddWindows(t, to, {w}, act, nextId)
                     /\ n = CleanUpIfIdle(a)
  OBVIOUS
<1>5. {w} \in SUBSET Window /\ {w} # {}
  OBVIOUS
<1>6. Seen(m, a) /\ Nearly(a)
  BY <1>2, <1>3, <1>4, <1>5, CarriedSeen
<1>7. Stays(a, n)
  BY <1>4, <1>6, CleanedIfIdleStays DEF Nearly, Ready
<1>8. Seen(m, n)
  BY <1>6, <1>7, SeenThenStays
<1>9. monitors' = Exchanged(monitors, k, n)
  BY <1>1, <1>4, Zenon DEF MoveToWorkspace, SetMonitor, Exchanged
<1> QED BY <1>1, <1>2, <1>8, <1>9, OneSeen

\* move_column_to_workspace
LEMMA MoveColumnToWorkspaceViews ==
  ASSUME IInv, monitors # <<>>, NEW wins, NEW idx \in 1..Len(monitors[focused].ws),
         NEW act \in BOOLEAN, MoveColumnToWorkspace(wins, idx, act)
  PROVE  MonitorsKeep(monitors, monitors')
<1>1. PICK k, m, to, i : k = focused /\ m = monitors[k] /\ to = MinOf(idx, Len(m.ws)) /\ i = m.active
  OBVIOUS
<1>2. /\ k \in 1..Len(monitors) /\ Sound(m) /\ Nearly(m) /\ nextId \in Id /\ i \in 1..Len(m.ws)
  BY <1>1, Around
<1>3. to \in 1..Len(m.ws)
  BY <1>1, <1>2, Around DEF MinOf
<1>4. PICK t, n : t = TakeWindows(m, i, wins) /\ n = AddWindows(t, to, wins, act, nextId)
  OBVIOUS
<1>5. wins # {} /\ wins \in SUBSET Window
  BY <1>1, <1>2, WindowsThere DEF MoveColumnToWorkspace
<1>6. Seen(m, n)
  BY <1>2, <1>3, <1>4, <1>5, CarriedSeen
<1>7. monitors' = Exchanged(monitors, k, n)
  BY <1>1, <1>4, Zenon DEF MoveColumnToWorkspace, SetMonitor, Exchanged
<1> QED BY <1>1, <1>2, <1>6, <1>7, OneSeen

\* Windows leave workspace i of monitor `from` for workspace j of monitor k, and
\* each monitor keeps its view.
LEMMA CarriedOver ==
  ASSUME IInv, NEW from \in 1..Len(monitors), NEW i \in 1..Len(monitors[from].ws),
         NEW k \in 1..Len(monitors), NEW j \in 1..Len(monitors[k].ws),
         NEW wins \in SUBSET Window, wins # {}, NEW act \in BOOLEAN,
         NEW t, t = TakeWindows(monitors[from], i, wins),
         NEW ts, ts = Exchanged(monitors, from, t),
         NEW x, x = AddWindows(ts[k], j, wins, act, nextId),
         NEW as, as = Exchanged(ts, k, x)
  PROVE  /\ DOMAIN as = 1..Len(monitors)
         /\ \A h \in 1..Len(monitors) :
              /\ Seen(monitors[h], as[h])
              /\ h # from /\ h # k => as[h] = monitors[h]
         /\ Nearly(as[from])
<1>1. /\ DOMAIN monitors = 1..Len(monitors) /\ nextId \in Id
      /\ \A h \in 1..Len(monitors) : Nearly(monitors[h]) /\ Formed(monitors[h])
  BY Around DEF Ready
<1>2. Nearly(t) /\ Stays(monitors[from], t)
  <2>1. PICK m : m = monitors[from]
    OBVIOUS
  <2>2. Nearly(m) /\ Formed(m) /\ i \in 1..Len(m.ws) /\ t = TakeWindows(m, i, wins)
    BY <1>1, <2>1
  <2>3. Nearly(t) /\ Stays(m, t)
    BY <2>2, WindowsTaken, TakenStays
  <2> QED BY <2>1, <2>3
<1>3. DOMAIN ts = 1..Len(monitors) /\ ts[from] = t
      /\ \A h \in 1..Len(monitors) : h # from => ts[h] = monitors[h]
  BY <1>1 DEF Exchanged
<1>4. DOMAIN as = 1..Len(monitors) /\ as[k] = x
      /\ \A h \in 1..Len(monitors) : h # k => as[h] = ts[h]
  BY <1>3 DEF Exchanged
<1>5. Seen(monitors[k], x) /\ Nearly(x)
  <2>1. PICK m : m = monitors[k]
    OBVIOUS
  <2>2. CASE k = from
    <3>1. Nearly(m) /\ i \in 1..Len(m.ws) /\ j \in 1..Len(m.ws) /\ t = TakeWindows(m, i, wins)
          /\ x = AddWindows(t, j, wins, act, nextId)
      BY <1>1, <1>3, <2>1, <2>2
    <3>2. Seen(m, x) /\ Nearly(x)
      BY <1>1, <3>1, CarriedSeen
    <3> QED BY <2>1, <3>2
  <2>3. CASE k # from
    <3>1. Nearly(m) /\ Formed(m) /\ j \in 1..Len(m.ws) /\ x = AddWindows(m, j, wins, act, nextId)
      BY <1>1, <1>3, <2>1, <2>3
    <3>2. Seen(m, x) /\ Nearly(x)
      BY <1>1, <3>1, WindowsAddedSeen, WindowsAdded
    <3> QED BY <2>1, <3>2
  <2> QED BY <2>2, <2>3
<1>6. ASSUME NEW h \in 1..Len(monitors)
      PROVE  Seen(monitors[h], as[h]) /\ (h # from /\ h # k => as[h] = monitors[h])
  <2>1. CASE h = k
    BY <1>4, <1>5, <2>1
  <2>2. CASE h # k /\ h = from
    BY <1>2, <1>3, <1>4, <2>2 DEF Seen
  <2>3. CASE h # k /\ h # from
    BY <1>3, <1>4, <2>3, KeepsItself
  <2> QED BY <2>1, <2>2, <2>3
<1>7. Nearly(as[from])
  BY <1>2, <1>3, <1>4, <1>5
<1> QED BY <1>4, <1>6, <1>7

\* move_to_output
LEMMA MoveToOutputViews ==
  ASSUME IInv, NEW p \in Places, NEW w \in Window, NEW q \in Places, NEW act \in BOOLEAN,
         MoveToOutput(w, p, q[1], q[2], act), Stacks(monitors')
  PROVE  MonitorsKeep(monitors, monitors')
<1>1. PICK from, i, k, j : from = p[1] /\ i = p[2] /\ k = q[1] /\ j = q[2]
  OBVIOUS
<1>2. /\ from \in 1..Len(monitors) /\ i \in 1..Len(monitors[from].ws)
      /\ k \in 1..Len(monitors) /\ j \in 1..Len(monitors[k].ws)
      /\ Stacks(monitors) /\ DOMAIN monitors = 1..Len(monitors)
  BY <1>1, PlaceThere, Around DEF IInv
<1>9. PICK wins : wins = {w} /\ wins \in SUBSET Window /\ wins # {}
  OBVIOUS
<1>3. PICK t : t = TakeWindows(monitors[from], i, wins)
  OBVIOUS
<1>4. PICK ts : ts = Exchanged(monitors, from, t)
  OBVIOUS
<1>5. PICK x : x = AddWindows(ts[k], j, wins, act, nextId)
  OBVIOUS
<1>6. PICK as : as = Exchanged(ts, k, x)
  OBVIOUS
<1>7. PICK y, ns : y = CleanUpIfIdle(as[from]) /\ ns = Exchanged(as, from, y)
  OBVIOUS
<1>8. monitors' = ns
  BY <1>1, <1>3, <1>4, <1>5, <1>6, <1>7, <1>9, Zenon DEF MoveToOutput, Exchanged
<1>h. wins # {} /\ wins \in SUBSET Window
  BY <1>9
<1>10. /\ DOMAIN as = 1..Len(monitors) /\ Nearly(as[from])
       /\ \A h \in 1..Len(monitors) : Seen(monitors[h], as[h])
  BY <1>2, <1>3, <1>4, <1>5, <1>6, <1>h, CarriedOver
<1>11. Stays(as[from], y)
  BY <1>7, <1>10, CleanedIfIdleStays DEF Nearly, Ready
<1>12. DOMAIN ns = 1..Len(monitors) /\ ns[from] = y
       /\ \A h \in 1..Len(monitors) : h # from => ns[h] = as[h]
  BY <1>2, <1>7, <1>10 DEF Exchanged
<1>13. ASSUME NEW h \in 1..Len(monitors) PROVE Seen(monitors[h], ns[h])
  <2>1. CASE h = from
    BY <1>10, <1>11, <1>12, <2>1, SeenThenStays
  <2>2. CASE h # from
    BY <1>10, <1>12, <2>2
  <2> QED BY <2>1, <2>2
<1>14. \A h \in 1..Len(monitors) : ns[h].output = monitors[h].output /\ Keeps(monitors[h], ns[h])
  BY <1>13, Around, SeenKeeps
<1>15. Alike(ns, monitors)
  <2>1. ns = [as EXCEPT ![from] = y]
    BY <1>7 DEF Exchanged
  <2>2. as = [h \in DOMAIN as |-> as[h]]
    BY <1>6, <1>4 DEF Exchanged
  <2> QED BY <1>2, <1>10, <1>12, <2>1 DEF Alike
<1> QED BY <1>2, <1>8, <1>14, <1>15, AllKeep

\* move_column_to_output
LEMMA MoveColumnToOutputViews ==
  ASSUME IInv, monitors # <<>>, NEW wins, NEW q \in Places, NEW act \in BOOLEAN,
         MoveColumnToOutput(wins, q[1], q[2], act), Stacks(monitors')
  PROVE  MonitorsKeep(monitors, monitors')
<1>1. PICK from, k, j, i : from = focused /\ k = q[1] /\ j = q[2] /\ i = monitors[from].active
  OBVIOUS
<1>2. /\ from \in 1..Len(monitors) /\ Sound(monitors[from]) /\ i \in 1..Len(monitors[from].ws)
      /\ k \in 1..Len(monitors) /\ j \in 1..Len(monitors[k].ws)
      /\ Stacks(monitors) /\ DOMAIN monitors = 1..Len(monitors)
  BY <1>1, PlaceThere, Around DEF IInv
<1>3. PICK t, to : t = TakeWindows(monitors[from], i, wins) /\ to = MinOf(j, Len(monitors[k].ws))
  OBVIOUS
<1>4. to \in 1..Len(monitors[k].ws)
  BY <1>2, <1>3, Around DEF MinOf
<1>5. PICK ts : ts = Exchanged(monitors, from, t)
  OBVIOUS
<1>6. PICK x : x = AddWindows(ts[k], to, wins, act, nextId)
  OBVIOUS
<1>7. PICK ns : ns = Exchanged(ts, k, x)
  OBVIOUS
<1>8. monitors' = ns
  BY <1>1, <1>3, <1>5, <1>6, <1>7, Zenon DEF MoveColumnToOutput, Exchanged
<1>9. wins # {} /\ wins \in SUBSET Window
  BY <1>1, <1>2, WindowsThere DEF MoveColumnToOutput
<1>10. DOMAIN ns = 1..Len(monitors) /\ \A h \in 1..Len(monitors) : Seen(monitors[h], ns[h])
  BY <1>2, <1>3, <1>4, <1>5, <1>6, <1>7, <1>9, CarriedOver
<1>11. \A h \in 1..Len(monitors) : ns[h].output = monitors[h].output /\ Keeps(monitors[h], ns[h])
  BY <1>10, Around, SeenKeeps
<1>12. Alike(ns, monitors)
  BY <1>2, <1>7, <1>10 DEF Alike, Exchanged
<1> QED BY <1>2, <1>8, <1>11, <1>12, AllKeep

\* An operation of one monitor that keeps its view.
LEMMA OnMonitorViews ==
  ASSUME IInv, NEW k \in 1..Len(monitors), NEW n, Seen(monitors[k], n), OnMonitor(k, n)
  PROVE  MonitorsKeep(monitors, monitors')
<1>1. monitors' = Exchanged(monitors, k, n)
  BY DEF OnMonitor, SetMonitor, Exchanged
<1> QED BY <1>1, OneSeen

\* move_workspace_down and move_workspace_up
LEMMA MoveActiveWorkspaceViews ==
  ASSUME IInv, monitors # <<>>, MoveActiveWorkspaceDown \/ MoveActiveWorkspaceUp
  PROVE  MonitorsKeep(monitors, monitors')
<1>1. PICK k, m, len : k = focused /\ m = monitors[k] /\ len = Len(m.ws)
  OBVIOUS
<1>2. k \in 1..Len(monitors) /\ Formed(m) /\ nextId \in Id /\ len \in Nat /\ m.active \in 1..len
  BY <1>1, Around DEF Ready
<1>3. PICK to : to \in 1..len /\ OnMonitor(k, SwapActive(m, to, nextId))
  <2>1. MinOf(m.active + 1, len) \in 1..len /\ MaxOf(m.active - 1, 1) \in 1..len
    BY <1>2 DEF MinOf, MaxOf
  <2>2. CASE MoveActiveWorkspaceDown
    BY <1>1, <2>1, <2>2 DEF MoveActiveWorkspaceDown, MoveWorkspaceDown
  <2>3. CASE MoveActiveWorkspaceUp
    BY <1>1, <2>1, <2>3 DEF MoveActiveWorkspaceUp, MoveWorkspaceUp
  <2> QED BY <2>2, <2>3
<1>4. PICK n : n = SwapActive(m, to, nextId)
  OBVIOUS
<1>5. Seen(m, n)
  BY <1>1, <1>2, <1>3, <1>4, ActiveSwappedStays DEF Seen
<1> QED BY <1>1, <1>2, <1>3, <1>4, <1>5, OnMonitorViews

\* move_workspace_to_idx
LEMMA MoveWorkspaceToViews ==
  ASSUME IInv, NEW p \in Places, NEW idx \in 1..Len(monitors[p[1]].ws), MoveWorkspaceTo(p, idx)
  PROVE  MonitorsKeep(monitors, monitors')
<1>1. PICK k, i, m : k = p[1] /\ i = p[2] /\ m = monitors[k]
  OBVIOUS
<1>2. k \in 1..Len(monitors) /\ i \in 1..Len(m.ws) /\ Formed(m) /\ nextId \in Id
  BY <1>1, PlaceThere, Around DEF Ready
<1>3. idx \in Id
  BY DEF Id
<1>4. PICK n : n = MoveWorkspaceToIdx(m, i, idx, nextId)
  OBVIOUS
<1>5. Seen(m, n)
  BY <1>2, <1>3, <1>4, WorkspaceMovedStays DEF Seen
<1>6. OnMonitor(k, n)
  BY <1>1, <1>4 DEF MoveWorkspaceTo
<1> QED BY <1>1, <1>2, <1>5, <1>6, OnMonitorViews

\* unset_workspace_name
LEMMA UnsetWorkspaceNameViews ==
  ASSUME IInv, NEW p \in Places, UnsetWorkspaceName(p)
  PROVE  MonitorsKeep(monitors, monitors')
<1>1. PICK k, i, m : k = p[1] /\ i = p[2] /\ m = monitors[k]
  OBVIOUS
<1>2. k \in 1..Len(monitors) /\ i \in 1..Len(m.ws) /\ Formed(m)
  BY <1>1, PlaceThere, Around DEF Ready
<1>3. PICK n : n = UnnameWorkspace(m, i)
  OBVIOUS
<1>4. Seen(m, n)
  BY <1>2, <1>3, UnnamedStays DEF Seen
<1>5. OnMonitor(k, n)
  BY <1>1, <1>3 DEF UnsetWorkspaceName
<1> QED BY <1>1, <1>2, <1>4, <1>5, OnMonitorViews

\* set_workspace_name
LEMMA SetWorkspaceNameViews ==
  ASSUME IInv, NEW n \in Name, NEW p \in Places, SetWorkspaceName(n, p)
  PROVE  MonitorsKeep(monitors, monitors')
<1>1. PICK k, i, m, w : k = p[1] /\ i = p[2] /\ m = monitors[k] /\ w = [m.ws[i] EXCEPT !.name = n]
  OBVIOUS
<1>2. /\ k \in 1..Len(monitors) /\ i \in 1..Len(m.ws) /\ Formed(m) /\ m.ws[i] \in Workspace
      /\ nextId \in Id /\ DOMAIN monitors = 1..Len(monitors)
  BY <1>1, PlaceThere, Around DEF Ready
<1>3. w \in Workspace /\ w.id = m.ws[i].id
  BY <1>1, <1>2, NamedFacts DEF Workspace
<1>4. PICK f : f = Rewritten(m, i, w)
  OBVIOUS
<1>5. PICK named : named = [monitors EXCEPT ![k] = f]
  OBVIOUS
<1>6. named = [monitors EXCEPT ![p[1]].ws[p[2]].name = n]
  BY <1>1, <1>2, <1>4, <1>5 DEF Rewritten
<1>7. named[k] = f
  BY <1>2, <1>5
<1>8. Formed(f) /\ Stays(m, f)
  BY <1>2, <1>3, <1>4, RewrittenFacts, RewrittenStays
<1>9. CASE k = focused
  <2>1. PICK x : x = NamedEnds(f, i, nextId)
    OBVIOUS
  <2>2. Stays(f, x)
    BY <1>2, <1>8, <2>1, NamedEndsStay
  <2>3. Seen(m, x)
    BY <1>8, <2>2, StaysTwice DEF Seen
  <2>4. monitors' = [named EXCEPT ![k] = NamedEnds(named[k], i, nextId)]
    BY <1>1, <1>6, <1>9, Zenon DEF SetWorkspaceName, NamedEnds
  <2>5. monitors' = Exchanged(monitors, k, x)
    BY <1>2, <1>5, <1>7, <2>1, <2>4 DEF Exchanged
  <2> QED BY <1>1, <1>2, <2>3, <2>5, OneSeen
<1>10. CASE k # focused
  <2>1. Seen(m, f)
    BY <1>8 DEF Seen
  <2>2. monitors' = Exchanged(monitors, k, f)
    BY <1>1, <1>5, <1>6, <1>10 DEF SetWorkspaceName, Exchanged
  <2> QED BY <1>1, <1>2, <2>1, <2>2, OneSeen
<1> QED BY <1>9, <1>10

\* ensure_named_workspace
LEMMA EnsureNamedWorkspaceViews ==
  ASSUME IInv, NEW n \in Name, NEW o \in Output \cup {NoOutput}, EnsureNamedWorkspace(n, o)
  PROVE  MonitorsKeep(monitors, monitors')
<1>0. nextId \in Id
  BY Around
<1>1. CASE monitors # <<>>
  <2>1. PICK k : k = IF o = NoOutput THEN focused
                     ELSE IF o \in Connected THEN MonitorOf(o) ELSE primary
    OBVIOUS
  <2>2. k \in 1..Len(monitors)
    BY <1>1, <2>1, Around, MonitorThere
  <2>3. PICK m, orig : m = monitors[k] /\ orig = IF o = NoOutput THEN m.output ELSE o
    OBVIOUS
  <2>4. Formed(m) /\ m.output \in Output
    BY <2>2, <2>3, Around DEF Ready
  <2>5. PICK new : new = NewWorkspace(orig, nextId)
    OBVIOUS
  <2>6. PICK w : w = [new EXCEPT !.name = n]
    OBVIOUS
  <2>7. w \in Workspace
    <3>1. orig \in Output \cup {NoOutput}
      BY <2>3, <2>4
    <3>2. new \in Workspace
      BY <1>0, <2>5, <3>1 DEF NewWorkspace, Workspace
    <3> QED BY <2>6, <3>2, NamedFacts
  <2>8. PICK id1 \in Id : id1 = nextId + 1
    BY <1>0 DEF Id
  <2>9. PICK one \in Nat, no \in BOOLEAN : one = 1 /\ no = FALSE
    OBVIOUS
  <2>10. PICK x : x = InsertWorkspace(m, w, one, no, id1)
    OBVIOUS
  <2>11. one \in 1..(Len(m.ws) + 1)
    BY <2>2, <2>3, <2>9, Around
  <2>12. Seen(m, x)
    BY <2>4, <2>7, <2>9, <2>10, <2>11, InsertedSeen DEF Seen
  <2>13. monitors' = [monitors EXCEPT ![k] = InsertWorkspace(m, w, 1, FALSE, nextId + 1)]
    BY <1>1, <2>1, <2>3, <2>5, <2>6, Zenon DEF EnsureNamedWorkspace, SetMonitor
  <2>14. monitors' = Exchanged(monitors, k, x)
    BY <2>8, <2>9, <2>10, <2>13 DEF Exchanged
  <2> QED BY <2>2, <2>3, <2>12, <2>14, OneSeen
<1>2. CASE monitors = <<>>
  BY <1>2, NoneChanges DEF EnsureNamedWorkspace
<1> QED BY <1>1, <1>2

\* update_config
LEMMA ReloadConfigViews ==
  ASSUME IInv, NEW c \in Configs, ReloadConfig(c), Stacks(monitors')
  PROVE  MonitorsKeep(monitors, monitors')
<1>1. /\ nextId \in Id /\ Stacks(monitors) /\ DOMAIN monitors = 1..Len(monitors)
      /\ Len(monitors) \in Nat
  BY Around DEF IInv
<1>2. PICK ns : ns = monitors'
  OBVIOUS
<1>3. ns = [k \in DOMAIN monitors |->
              UpdateConfig(monitors[k], c[monitors[k].output], nextId + k)]
  BY <1>2 DEF ReloadConfig
<1>4. ASSUME NEW k \in 1..Len(monitors)
      PROVE  ns[k].output = monitors[k].output /\ Keeps(monitors[k], ns[k])
  <2>1. PICK m, eaf, id : m = monitors[k] /\ eaf = c[m.output] /\ id = nextId + k
    OBVIOUS
  <2>2. Sound(m) /\ Formed(m) /\ m.output \in Output
    BY <2>1, Around DEF Ready
  <2>3. eaf \in BOOLEAN
    <3>1. c \in [Output -> BOOLEAN]
      BY ConfigsType
    <3> QED BY <2>1, <2>2, <3>1
  <2>4. id \in Id
    BY <1>1, <2>1 DEF Id
  <2>5. PICK n : n = UpdateConfig(m, eaf, id)
    OBVIOUS
  <2>6. ShownId(n) = ShownId(m) /\ n.output = m.output
    BY <2>2, <2>3, <2>4, <2>5, ConfigUpdatedShows, ConfigUpdated DEF SameOutput
  <2>7. ns[k] = n
    BY <1>1, <1>3, <2>1, <2>5
  <2> QED BY <2>1, <2>6, <2>7 DEF Keeps
<1>5. Alike(ns, monitors)
  BY <1>3 DEF Alike
<1>6. Stacks(ns)
  BY <1>2
<1> QED BY <1>1, <1>2, <1>4, <1>5, <1>6, AllKeep

\* workspace_switch_gesture_begin
LEMMA SwipeBeginViews ==
  ASSUME IInv, NEW k \in 1..Len(monitors), NEW f, SwipeBegin(k, f), Stacks(monitors')
  PROVE  MonitorsKeep(monitors, monitors')
<1>0. Stacks(monitors) /\ DOMAIN monitors = 1..Len(monitors) /\ overviewOpen \in BOOLEAN
  BY Around DEF IInv, RestOK
<1>1. PICK ns : ns = monitors'
  OBVIOUS
<1>2. ns = [j \in DOMAIN monitors |->
              IF j = k THEN [monitors[k] EXCEPT !.sw = Swipe(monitors[k].active, ~overviewOpen)]
              ELSE IF IsGesture(monitors[j].sw) THEN GestureEnd(monitors[j], f[j])
              ELSE monitors[j]]
  BY <1>1 DEF SwipeBegin
<1>3. ASSUME NEW j \in 1..Len(monitors)
      PROVE  ns[j].output = monitors[j].output /\ Keeps(monitors[j], ns[j])
  <2>1. PICK m : m = monitors[j]
    OBVIOUS
  <2>2. Sound(m) /\ Ready(m) /\ m \in Monitor /\ m.active \in Nat
    BY <2>1, Around DEF Ready, Formed
  <2>3. CASE j = k
    <3>1. PICK clamped \in BOOLEAN : clamped = ~overviewOpen
      OBVIOUS
    <3>2. PICK n : n = [m EXCEPT !.sw = Swipe(m.active, clamped)]
      OBVIOUS
    <3>3. n.output = m.output /\ Keeps(m, n)
      BY <2>2, <3>2 DEF Keeps, ShownId, Monitor
    <3>4. ns[j] = n
      BY <1>0, <1>2, <2>1, <2>3, <3>1, <3>2
    <3> QED BY <2>1, <3>3, <3>4
  <2>4. CASE j # k /\ IsGesture(m.sw)
    <3>1. PICK i : i = f[j]
      OBVIOUS
    <3>2. i \in GestureEndTargets(m)
      BY <1>0, <2>1, <2>4, <3>1 DEF SwipeBegin
    <3>3. PICK n : n = GestureEnd(m, i)
      OBVIOUS
    <3>4. SameOutput(m, n)
      BY <2>2, <2>4, <3>2, <3>3, GestureEnded
    <3>5. ns[j] = n
      BY <1>0, <1>2, <2>1, <2>4, <3>1, <3>3
    <3> QED BY <2>1, <2>4, <3>4, <3>5 DEF Keeps, SameOutput
  <2>5. CASE j # k /\ ~IsGesture(m.sw)
    <3>1. ns[j] = m
      BY <1>0, <1>2, <2>1, <2>5
    <3> QED BY <2>1, <3>1, KeepsItself
  <2> QED BY <2>3, <2>4, <2>5
<1>4. Alike(ns, monitors)
  BY <1>2 DEF Alike
<1>5. Stacks(ns)
  BY <1>1
<1> QED BY <1>0, <1>1, <1>3, <1>4, <1>5, AllKeep

\* workspace_switch_gesture_update and workspace_switch_gesture_end
LEMMA SwipeViews ==
  ASSUME IInv, NEW k \in 1..Len(monitors), SwipeEnd(k) \/ \E i \in Nat : GestureUpdate(k, i)
  PROVE  MonitorsKeep(monitors, monitors')
<1>1. PICK m : m = monitors[k]
  OBVIOUS
<1>2. Sound(m) /\ Stacks(monitors)
  BY <1>1, Around DEF IInv
<1>3. PICK n : IsGesture(m.sw) /\ SameOutput(m, n) /\ OnMonitor(k, n)
  <2>1. ASSUME NEW i \in Nat, GestureUpdate(k, i)
        PROVE  \E n : IsGesture(m.sw) /\ SameOutput(m, n) /\ OnMonitor(k, n)
    <3>1. PICK n : n = ViewAt(m, i)
      OBVIOUS
    <3>2. IsGesture(m.sw) /\ i \in Reach(m) /\ OnMonitor(k, n)
      BY <1>1, <2>1, <3>1 DEF GestureUpdate, Reach, ViewAt
    <3>3. SameOutput(m, n)
      BY <1>2, <3>1, <3>2, GestureMoved
    <3> QED BY <3>2, <3>3
  <2>2. ASSUME SwipeEnd(k)
        PROVE  \E n : IsGesture(m.sw) /\ SameOutput(m, n) /\ OnMonitor(k, n)
    <3>1. PICK i \in GestureEndTargets(m) : IsGesture(m.sw) /\ OnMonitor(k, GestureEnd(m, i))
      BY <1>1, <2>2 DEF SwipeEnd
    <3>2. PICK n : n = GestureEnd(m, i)
      OBVIOUS
    <3>3. SameOutput(m, n)
      BY <1>2, <3>1, <3>2, GestureEnded
    <3> QED BY <3>1, <3>2, <3>3
  <2> QED BY <2>1, <2>2
<1>4. n.output = m.output /\ Keeps(m, n)
  BY <1>3 DEF SameOutput, Keeps
<1>5. PICK ns : ns = Exchanged(monitors, k, n)
  OBVIOUS
<1>6. monitors' = ns
  BY <1>3, <1>5 DEF OnMonitor, SetMonitor, Exchanged
<1>7. MonitorsKeep(monitors, ns)
  BY <1>1, <1>2, <1>4, <1>5, OneKeeps
<1> QED BY <1>6, <1>7

\* dnd_hold
LEMMA DndHoldViews ==
  ASSUME IInv, NEW p \in Places, NEW f \in Landings, DndHold(p, f)
  PROVE  MonitorsKeep(monitors, monitors')
<1>1. PICK k, i, ms, m : k = p[1] /\ i = p[2] /\ ms = DndScrollsEnded(f) /\ m = ms[k]
  OBVIOUS
<1>2. k \in 1..Len(monitors) /\ i \in 1..Len(monitors[k].ws) /\ Stacks(monitors) /\ DOMAIN monitors = 1..Len(monitors)
  BY <1>1, PlaceThere, Around DEF IInv
<1>3. Formed(m) /\ i \in 1..Len(m.ws)
  <2>1. Stacks(ms) /\ Len(ms) = Len(monitors) /\ ms[k].ws = monitors[k].ws
    BY <1>1, <1>2, ScrollsEnded
  <2>2. Sound(m)
    BY <1>1, <1>2, <2>1 DEF Stacks
  <2> QED BY <1>1, <1>2, <2>1, <2>2 DEF Sound, Nearly, Ready
<1>4. PICK n : n = ActivateWorkspace(m, i)
  OBVIOUS
<1>5. Seen(ms[k], n)
  BY <1>1, <1>3, <1>4, ActivatedSeen
<1>6. n.output = monitors[k].output /\ Keeps(monitors[k], n)
  BY <1>1, <1>2, <1>5, EndedKeeps
<1>7. m = IF monitors[k].sw.kind = "dnd" THEN GestureEnd(monitors[k], f[k]) ELSE monitors[k]
  BY <1>1, <1>2 DEF DndScrollsEnded
<1>8. PICK ns : ns = Exchanged(monitors, k, n)
  OBVIOUS
<1>9. monitors' = ns
  BY <1>1, <1>4, <1>7, <1>8 DEF DndHold, SetMonitor, Exchanged
<1>10. MonitorsKeep(monitors, ns)
  BY <1>2, <1>6, <1>8, OneKeeps
<1> QED BY <1>9, <1>10

\* interactive_move_end, with outputs
LEMMA InteractiveMoveEndViews ==
  ASSUME IInv, monitors # <<>>, NEW w \in Window, NEW f \in Landings, NEW idx \in Nat, NEW isNew \in BOOLEAN,
         InteractiveMoveEnd(w, f, idx, isNew), Stacks(monitors')
  PROVE  MonitorsKeep(monitors, monitors')
<1>1. PICK ms : ms = DndScrollsEnded(f)
  OBVIOUS
<1>2. /\ Stacks(ms) /\ Len(ms) = Len(monitors) /\ nextId \in Id /\ Stacks(monitors)
      /\ DOMAIN ms = 1..Len(monitors) /\ DOMAIN monitors = 1..Len(monitors)
  <2>1. Stacks(ms) /\ Len(ms) = Len(monitors) /\ nextId \in Id /\ Stacks(monitors)
    BY <1>1, ScrollsEnded, Around DEF IInv
  <2> QED BY <1>1, <2>1, Around DEF Stacks
<1>3. PICK k, m, i : /\ DroppedAt(ms, k, m, i, nextId)
                     /\ monitors' = [ms EXCEPT ![k] = AddWindows(m, i, {w}, ~overviewOpen, nextId + 1)]
  <2>1. Dropped(ms, w, monitors')
    BY <1>1, WindowDropped
  <2> QED BY <2>1 DEF Dropped
<1>4. /\ k \in 1..Len(monitors) /\ Formed(m) /\ i \in 1..Len(m.ws)
      /\ m = ms[k] \/ \E j \in 1..(Len(ms[k].ws) + 1) : m = DropOnNew(ms[k], j, nextId)
  BY <1>2, <1>3 DEF DroppedAt, Nearly, Ready
<1>5. PICK id1 \in Id : id1 = nextId + 1
  BY <1>2 DEF Id
<1>6. PICK act \in BOOLEAN : act = ~overviewOpen
  OBVIOUS
<1>7. PICK n : n = AddWindows(m, i, {w}, act, id1)
  OBVIOUS
<1>8. Seen(m, n)
  <2>1. {w} \in SUBSET Window
    OBVIOUS
  <2> QED BY <1>4, <1>7, <2>1, WindowsAddedSeen
<1>9. PICK m0 : m0 = ms[k]
  OBVIOUS
<1>10. Stays(m0, m)
  <2>1. Formed(m0)
    BY <1>2, <1>4, <1>9 DEF Stacks, Sound, Nearly, Ready
  <2>2. CASE m = m0
    BY <2>2, KeepsItself
  <2>3. ASSUME NEW j \in 1..(Len(m0.ws) + 1), m = DropOnNew(m0, j, nextId) PROVE Stays(m0, m)
    <3>1. m = m0 \/ m = AddWorkspaceAt(m0, j, nextId)
      BY <2>3 DEF DropOnNew
    <3> QED BY <1>2, <2>1, <3>1, AddedAtStays, KeepsItself
  <2> QED BY <1>4, <1>9, <2>2, <2>3
<1>11. Seen(ms[k], n)
  BY <1>8, <1>9, <1>10, StaysThenSeen
<1>12. PICK ns : ns = Exchanged(ms, k, n)
  OBVIOUS
<1>13. monitors' = ns
  BY <1>3, <1>5, <1>6, <1>7, <1>12 DEF Exchanged
<1>14. DOMAIN ns = 1..Len(monitors) /\ ns[k] = n /\ \A h \in 1..Len(monitors) : h # k => ns[h] = ms[h]
  BY <1>2, <1>4, <1>12 DEF Exchanged
<1>15. ASSUME NEW h \in 1..Len(monitors)
       PROVE  ns[h].output = monitors[h].output /\ Keeps(monitors[h], ns[h])
  <2>1. Seen(ms[h], ns[h])
    <3>1. CASE h = k
      BY <1>11, <1>14, <3>1
    <3>2. CASE h # k
      BY <1>14, <3>2, KeepsItself
    <3> QED BY <3>1, <3>2
  <2>2. PICK x : x = ns[h]
    OBVIOUS
  <2>3. x.output = monitors[h].output /\ Keeps(monitors[h], x)
    BY <1>1, <2>1, <2>2, EndedKeeps
  <2> QED BY <2>2, <2>3
<1>16. Alike(ns, monitors)
  BY <1>2, <1>12, <1>14 DEF Alike, Exchanged
<1>17. Stacks(ns)
  BY <1>13
<1> QED BY <1>2, <1>13, <1>15, <1>16, <1>17, AllKeep

\* Connecting the first output, and disconnecting the last, leaves no view to keep.
LEMMA NoViews ==
  ASSUME monitors = <<>> \/ monitors' = <<>>
  PROVE  ViewKept
  BY DEF ViewKept
=============================================================================
