----------------------------- MODULE MCFrameLoop ----------------------------
(***************************************************************************)
(* Instances of the redraw loop for TLC: outputs that come and go during a *)
(* lock, and alone one output that stays, with a client and a driver whose *)
(* vblanks are too early.  Locks are shown to settle and redraws to happen *)
(* in both, frame callbacks to come where there is a client.  Their states *)
(* are finite: nothing is bounded.                                         *)
(***************************************************************************)
EXTENDS FrameLoopProperties, TLC

CONSTANT Lone      \* the one output
VARIABLE alone     \* whether there is just one output

Alone == INSTANCE FrameLoopProperties
           WITH Output <- Lone, Visible <- Lone, EarlyVBlanks <- TRUE, Hotplug <- FALSE

MCInit ==
  \/ alone = FALSE /\ Init
  \/ alone = TRUE /\ Alone!Init
MCNext == UNCHANGED alone /\ (IF alone THEN Alone!Next ELSE Next)
MCVars == <<vars, alone>>

\* A step of whichever instance it is.
Either(A, B) == UNCHANGED alone /\ (IF alone THEN A ELSE B)

\* Fairness of FrameLoop, in both instances.
MCFairness ==
  /\ WF_MCVars(Either(Alone!RedrawNext, RedrawNext))
  /\ SF_MCVars(Either(Alone!LockDeadline, LockDeadline))
  /\ \A o \in Output : SF_MCVars(Either(o \in Lone /\ Alone!Timed(o), Timed(o)))

MCSpec == MCInit /\ [][MCNext]_MCVars /\ MCFairness

\* With rogue vblanks.
MCRogueSpec == Init /\ alone = FALSE /\ [][RogueNext /\ UNCHANGED alone]_MCVars

(***************************************************************************)
(* The promises of the loop: a lock settles and a redraw happens whatever  *)
(* the screens do, and a client on the screen that stays has its frame     *)
(* callbacks.                                                              *)
(***************************************************************************)
EveryLockSettles == LockSettles
EveryRedrawHappens == RedrawHappens
EveryFrameCallback == alone => Alone!FrameCallbacks
=============================================================================
