-------------------------- MODULE LayoutProperties --------------------------
(***************************************************************************)
(* What has to hold of the layout.  Several of these are the assertions    *)
(* that the test suite makes after every operation (verify_invariants in   *)
(* layout/mod.rs and layout/monitor.rs); the others are the promises of    *)
(* the comment that opens layout/mod.rs and of its clean-up code.          *)
(***************************************************************************)
EXTENDS Layout

(***************************************************************************)
(* The state is made of what the code declares: monitors have at least one *)
(* workspace and the indices of the primary and the focused monitor and of *)
(* every active workspace are in range.                                    *)
(***************************************************************************)
TypeOK ==
  /\ monitors \in Seq(Monitor)
  /\ \A k \in DOMAIN monitors : monitors[k].active \in DOMAIN monitors[k].ws
  /\ IF monitors = <<>> THEN primary = 0 /\ focused = 0
     ELSE primary \in DOMAIN monitors /\ focused \in DOMAIN monitors
  /\ stranded \in Seq(Workspace)
  /\ monitors # <<>> => stranded = <<>>
  /\ lastActive \in [Output -> Id \cup {NoId}]
  /\ overviewOpen \in BOOLEAN /\ config \in Configs
  /\ move \in [kind : {"none", "starting", "moving"}, win : SUBSET Window,
               output : Output \cup {NoOutput}]
  /\ dnd \in BOOLEAN /\ mapped \subseteq Window /\ nextId \in Id

(***************************************************************************)
(* No assert! of the layout fails, no slice index is out of range and no   *)
(* clamp() has its bounds crossed (monitor.rs:658, 682, 683, 2108;         *)
(* mod.rs:1231).                                                           *)
(***************************************************************************)
NoPanic == \A k \in DOMAIN monitors : ~monitors[k].panicked

(***************************************************************************)
(* "monitor must have an empty workspace in the end" that is unnamed, and  *)
(* so must the first one be with empty_workspace_above_first, when there   *)
(* are then never just two (monitor.rs:2184-2210).                         *)
(***************************************************************************)
BlankEnds ==
  \A k \in DOMAIN monitors :
    LET m == monitors[k]
    IN  /\ IsBlank(m.ws[Len(m.ws)])
        /\ m.eaf => IsBlank(m.ws[1]) /\ Len(m.ws) # 2

(***************************************************************************)
(* With no switch in progress, a workspace that is neither active, nor at  *)
(* an end, has windows or a name; with no outputs all of them have         *)
(* (monitor.rs:2215-2238, mod.rs:2554).                                    *)
(***************************************************************************)
NoIdleBlank ==
  /\ \A k \in DOMAIN monitors : monitors[k].sw.kind = "none" => CleanUpDropped(monitors[k]) = {}
  /\ \A i \in DOMAIN stranded : HasWindowsOrName(stranded[i])

(***************************************************************************)
(* The primary monitor keeps no workspace whose own monitor is connected,  *)
(* and the others have only their own (mod.rs:2617-2640, where for the     *)
(* others the code settles for at least one).                              *)
(***************************************************************************)
OwnMonitor ==
  \A p \in Places :
    LET orig == WorkspaceAt(p).orig
    IN  IF p[1] = primary THEN orig \in Connected => orig = monitors[p[1]].output
                          ELSE orig = monitors[p[1]].output

(***************************************************************************)
(* A window the compositor has mapped is on exactly one workspace or in    *)
(* the hands of the user, and no other window is anywhere.                 *)
(***************************************************************************)
Holders(w) ==
  {p \in Places : w \in WorkspaceAt(p).wins}
    \cup {<<0, i>> : i \in {j \in DOMAIN stranded : w \in stranded[j].wins}}
    \cup (IF move.kind = "moving" /\ w \in move.win THEN {<<-1, 0>>} ELSE {})

WindowsConserved ==
  \A w \in Window : Cardinality(Holders(w)) = IF w \in mapped THEN 1 ELSE 0

(***************************************************************************)
(* Workspace ids and names are unique, wherever the workspaces are         *)
(* ("workspace id must be unique", "workspace name must be unique").       *)
(***************************************************************************)
Spots == Places \cup {<<0, i>> : i \in DOMAIN stranded}
At(p) == IF p[1] = 0 THEN stranded[p[2]] ELSE WorkspaceAt(p)

UniqueWorkspaces ==
  \A p, q \in Spots :
    p # q => /\ At(p).id # At(q).id
             /\ At(p).name # NoName => At(p).name # At(q).name

(***************************************************************************)
(* Indices, owners, ids and names agree, wherever the workspaces are.      *)
(***************************************************************************)
WorkspacesInPlace == TypeOK /\ OwnMonitor /\ UniqueWorkspaces

(***************************************************************************)
(* Whatever is plugged, dragged, moved or closed, no workspace and no      *)
(* window is lost or doubled, and no index points elsewhere.               *)
(***************************************************************************)
NothingLost == WorkspacesInPlace /\ WindowsConserved

(***************************************************************************)
(* Blank workspaces are where they must be and nowhere else, with and      *)
(* without empty_workspace_above_first.                                    *)
(***************************************************************************)
BlankWorkspaces == BlankEnds /\ NoIdleBlank

(***************************************************************************)
(* Hotplug.  L1 and L2 are layouts as Outputs, Connect and Disconnect know *)
(* them.                                                                   *)
(***************************************************************************)
NonBlank(L) ==
  {w \in {L.stranded[i] : i \in DOMAIN L.stranded}
           \cup UNION {{L.monitors[k].ws[i] : i \in DOMAIN L.monitors[k].ws} : k \in DOMAIN L.monitors} :
     HasWindowsOrName(w)}

IndexIn(L, o) == CHOOSE k \in DOMAIN L.monitors : L.monitors[k].output = o

\* m2 has the workspaces of m1 that are not blank, in order, without those that
\* originated on the outputs gone, and still shows the one that m1 showed.
SameWorkspaces(m1, m2, gone) ==
  LET stay == {i \in DOMAIN m1.ws : HasWindowsOrName(m1.ws[i]) /\ m1.ws[i].orig \notin gone}
  IN  /\ IntoWorkspaces(m2) = Keep(m1.ws, stay)
      /\ m1.active \in stay => m2.ws[m2.active].id = m1.ws[m1.active].id

SameLayout(L1, L2) ==
  \A k \in DOMAIN L1.monitors :
    SameWorkspaces(L1.monitors[k], L2.monitors[IndexIn(L2, L1.monitors[k].output)], {})

Replugged(k) ==
  LET o == monitors[k].output
  IN  Connect(Disconnect(Outputs, k, nextId), o, config[o], nextId + IdsPerCall)

AllOwn(k) == \A i \in DOMAIN monitors[k].ws : monitors[k].ws[i].orig = monitors[k].output

(***************************************************************************)
(* Principle 1: "Disconnecting and reconnecting the same output must not   *)
(* change the layout" (mod.rs:16), when all its workspaces are its own,    *)
(* which those of a secondary output always are: every output has its      *)
(* workspaces back in order and shows what it showed.                      *)
(***************************************************************************)
ReplugKeepsLayout ==
  \A k \in DOMAIN monitors : AllOwn(k) => SameLayout(Outputs, Replugged(k))

(***************************************************************************)
(* Principle 1 in full, "both secondary outputs and the primary output"    *)
(* (mod.rs:17).                                                            *)
(***************************************************************************)
ReplugKeepsAnyLayout ==
  \A k \in DOMAIN monitors : SameLayout(Outputs, Replugged(k))

(***************************************************************************)
(* Principle 2: "Connecting an output must not change the layout for any   *)
(* workspaces that were never on that output" (mod.rs:18), and the         *)
(* workspaces that do move keep their contents.                            *)
(***************************************************************************)
ConnectKeepsOthers ==
  \A o \in Output \ Connected :
    LET L == Connect(Outputs, o, config[o], nextId)
    IN  /\ NonBlank(L) = NonBlank(Outputs)
        /\ \A k \in DOMAIN monitors : SameWorkspaces(monitors[k], L.monitors[k], {o})

(***************************************************************************)
(* Principles 1 and 2 of the layout, wherever outputs, windows and         *)
(* workspaces have been moved about and whatever is being dragged          *)
(* (mod.rs:16-18).                                                         *)
(***************************************************************************)
HotplugKeepsLayout == ReplugKeepsLayout /\ ConnectKeepsOthers

\* The workspace that m shows, and the ids of those on other monitors than the k-th.
Shown(m) == m.ws[m.active]
IdsElsewhere(k) == {WorkspaceAt(p).id : p \in {q \in Places : q[1] # k}}

ViewKeptBy(k, j) ==
  LET m == monitors[k]
      n == monitors'[j]
  IN  \/ m.output # n.output \/ IsBlank(Shown(m)) \/ IsGesture(m.sw)
      \/ Shown(m).id \in {Shown(n).id, n.prev}
      \/ Shown(m).id \in IdsElsewhere(j)'
ViewKept == \A k \in DOMAIN monitors, j \in DOMAIN monitors' : ViewKeptBy(k, j)

(***************************************************************************)
(* The view of an output never slips: it leaves a workspace with windows   *)
(* or a name only by a switch that remembers the workspace as the previous *)
(* one, or when the workspace itself goes to another output (the index     *)
(* adjustments of monitor.rs:415-440, 657-792, 1208-1389 and mod.rs:1205). *)
(* A gesture that is cut short may also stop at a workspace on the way.    *)
(***************************************************************************)
ViewNeverSlips == [][ViewKept]_vars
=============================================================================
