------------------------------ MODULE MCLayout ------------------------------
(***************************************************************************)
(* Instances of the layout for TLC.                                        *)
(***************************************************************************)
EXTENDS LayoutProperties, TLC

CONSTANTS
  Scenes,            \* "arrange", "hands"
  MaxEach, MaxAll,   \* bounds: workspaces of one monitor, of all monitors
  MaxHands           \* bound: workspaces of one monitor, while the user drags

VARIABLE scene       \* what goes on: arranging workspaces and windows, or dragging

Below == [o \in Output |-> FALSE]     \* empty_workspace_above_first off
Above == [o \in Output |-> TRUE]
OnlyBelow == {Below}
OnlyAbove == {Above}
BelowAndAbove == {Below, Above}

Symmetry == Permutations(Output) \cup Permutations(Window) \cup Permutations(Name)

Bounded == /\ \A k \in DOMAIN monitors : Len(monitors[k].ws) <= IF scene = "hands" THEN MaxHands ELSE MaxEach
           /\ Cardinality(Places) <= MaxAll

ArrangeNext == HotplugNext \/ WindowNext \/ WorkspaceNext \/ SwitchNext
\* Dragging, with the operations that its drops and edge scrolls run into.
HandsNext ==
  \/ HotplugNext \/ OverviewNext \/ DragNext
  \/ \E w \in Window, p \in Places : AddWindow(w, p, TRUE)
  \/ \E w \in Window, f \in Landings : RemoveWindow(w, f)
  \/ \E k \in DOMAIN monitors : AnimationDone(k)

MCInit == Init /\ scene \in Scenes /\ (scene = "hands" => config = Above)
MCNext == /\ UNCHANGED scene
          /\ CASE scene = "arrange" -> ArrangeNext
               [] scene = "hands" -> HandsNext
          /\ Bounded'
MCSpec == MCInit /\ [][MCNext]_<<vars, scene>>

(***************************************************************************)
(* Ids are only compared, so a state is seen with every remembered id      *)
(* replaced by the place of the workspace that has it.                     *)
(***************************************************************************)
PlaceIn(s, id) == {i \in DOMAIN s : s[i].id = id}
PlaceOf(id) ==
  <<[k \in DOMAIN monitors |-> PlaceIn(monitors[k].ws, id)], PlaceIn(stranded, id)>>

Content(w) == [w EXCEPT !.id = 0]
Contents(s) == [i \in DOMAIN s |-> Content(s[i])]

UpToIds ==
  <<[k \in DOMAIN monitors |->
       <<[monitors[k] EXCEPT !.ws = Contents(@), !.prev = 0], PlaceOf(monitors[k].prev)>>],
    [o \in Output |-> PlaceOf(lastActive[o])],
    Contents(stranded), primary, focused, overviewOpen, config, move, dnd, mapped, scene>>
=============================================================================
