------------------------ MODULE FrameLoopProperties ------------------------
(***************************************************************************)
(* What the redraw loop, the frame callbacks and the session lock promise. *)
(***************************************************************************)
EXTENDS FrameLoop

(***************************************************************************)
(* Every variable has the type of the field it stands for.                 *)
(***************************************************************************)
TypeOK ==
  /\ connected \subseteq Output
  /\ out \in [Output -> OutputState]
  /\ timers \in [Output -> Nat]
  /\ flips \subseteq Output /\ throttled \subseteq Output
  /\ shown \in [Output -> Content]
  /\ animated \subseteq Output /\ wants \subseteq Output
  /\ onScreen \subseteq Output /\ sent \subseteq Output
  /\ lock \in LockState
  /\ lockTimers \in Nat
  /\ {monitorsActive, sessionActive, locker, redrawing, panicked} \subseteq BOOLEAN

(***************************************************************************)
(* The estimated vblank timer finds its output waiting for it: none of the *)
(* unreachable!()s of on_estimated_vblank_timer (tty.rs:1835-1837) is      *)
(* reached.                                                                *)
(***************************************************************************)
NoPanic == ~panicked

(***************************************************************************)
(* Exactly the outputs that wait for an estimated vblank have a timer, and *)
(* have one: no redraw state is left waiting for a timer that is gone, and *)
(* no timer is left that nobody can remove (tty.rs:1984-1998, 3006-3050,   *)
(* ymir.rs:4684-4695).                                                     *)
(***************************************************************************)
TimerIffEstimated ==
  \A o \in connected : timers[o] = IF out[o].redraw \in EstimatedStates THEN 1 ELSE 0

(***************************************************************************)
(* A vblank comes, at once or after the throttle's timer, only for an      *)
(* output that waits for one: queue_redraw (ymir.rs:640-660) never has an  *)
(* output drawn again before its frame is out, which on_vblank reports as  *)
(* unexpected (tty.rs:1741-1755).                                          *)
(***************************************************************************)
VBlanksAwaited ==
  /\ flips \cap throttled = {}
  /\ \A o \in flips \cup throttled : o \in connected /\ out[o].redraw \in VBlankStates

Active == monitorsActive /\ sessionActive
Pending(o) == out[o].redraw \in QueuedStates \cup {"vblankRedraw"}

(***************************************************************************)
(* A request to redraw is not lost, whatever the output is waiting for     *)
(* (queue_redraw, ymir.rs:640-660): while what changed is not redrawn, the *)
(* redraw state remembers it.                                              *)
(***************************************************************************)
NoLostRedraw == \A o \in connected : out[o].stale => Pending(o)

(***************************************************************************)
(* A screen that is powered but shows nothing, after it was plugged in,    *)
(* powered on or given back by another virtual terminal, is about to be    *)
(* drawn, unless that was tried and failed (ymir.rs:3092-3101, tty.rs:743).*)
(***************************************************************************)
DarkScreensRedrawn ==
  \A o \in connected : Active /\ shown[o] = "nothing" => Pending(o) \/ out[o].failed

(***************************************************************************)
(* An ongoing animation keeps its output drawing, through frames without   *)
(* damage and failures late in a render: only a render that fails early    *)
(* leaves the output idle (unfinished_animations_remain, tty.rs:1808,      *)
(* 1846).                                                                  *)
(***************************************************************************)
AnimationsKeepDrawing ==
  \A o \in animated : Active => out[o].redraw # "idle" \/ out[o].failed

(***************************************************************************)
(* When the lock is reported to its client, and until it is lifted, no     *)
(* screen shows the session (ymir.rs:4697-4733, 5889-5949): not one that   *)
(* failed to render, was plugged in, or powered off and on meanwhile.      *)
(***************************************************************************)
LockHides == lock = "locked" => \A o \in connected : shown[o] # "session"

(***************************************************************************)
(* The deadline for lock surfaces runs exactly while they are waited for,  *)
(* so continue_to_locking is never called in another state, which it       *)
(* reports as an error (ymir.rs:5999).                                     *)
(***************************************************************************)
DeadlineIffWaiting == lockTimers = IF lock = "waiting" THEN 1 ELSE 0

(***************************************************************************)
(* Timers and the states that wait for them go together.                   *)
(***************************************************************************)
TimersAwaited == TimerIffEstimated /\ DeadlineIffWaiting

(***************************************************************************)
(* Every request to lock is answered, even if its client creates no        *)
(* surface or dies, screens come and go for ever, and renders fail: a      *)
(* frame, the deadline or the removal of the last screen that was not      *)
(* locked answers it (ymir.rs:2999-3020, 4697-4733, 5934-5942).            *)
(***************************************************************************)
LockSettles == lock \in {"waiting", "locking"} ~> lock \in {"unlocked", "locked"}

(***************************************************************************)
(* What changed on an output is eventually redrawn, or the output goes.    *)
(***************************************************************************)
RedrawHappens ==
  \A o \in Output : (o \in connected /\ out[o].stale) ~> (o \notin connected \/ ~out[o].stale)

(***************************************************************************)
(* A client that waits for a frame callback gets one with the refresh      *)
(* cycle, without the help of the fallback timer, unless its screen is     *)
(* off or locked or fails to render (tty.rs:1816, 1820-1851,               *)
(* ymir.rs:4737-4748).                                                     *)
(***************************************************************************)
FrameCallbacks ==
  \A o \in Output : o \in wants ~> (o \notin wants \/ ~Active \/ IsLocked(lock) \/ out[o].failed)
=============================================================================
