-------------------------- MODULE FrameLoopProofs --------------------------
(***************************************************************************)
(* What is proved of the redraw loop and the session lock, for any set of  *)
(* outputs.                                                                *)
(***************************************************************************)
EXTENDS FrameLoopProperties, TLAPS

(***************************************************************************)
(* Requests to redraw                                                      *)
(***************************************************************************)
\* A request leads from redraw states to redraw states.
LEMMA QueueType == ASSUME NEW r \in RedrawState PROVE Queue(r) \in RedrawState
BY DEF Queue, RedrawState

\* Requests keep the type of the states of the outputs.
LEMMA QueuedType ==
  ASSUME NEW st \in [Output -> OutputState], NEW os
  PROVE  Queued(st, os) \in [Output -> OutputState]
<1>1. \A o \in Output : [st[o] EXCEPT !.redraw = Queue(@), !.stale = TRUE] \in OutputState
  BY QueueType DEF OutputState
<1> QED BY <1>1 DEF Queued

\* A request moves the redraw state of the outputs asked for, and no other state
\* that is not history.
LEMMA QueuedThere ==
  ASSUME NEW st \in [Output -> OutputState], NEW os, NEW o \in Output, o \in os
  PROVE  Queued(st, os)[o].redraw = Queue(st[o].redraw) /\ Queued(st, os)[o].stale = TRUE
<1>1. Queued(st, os)[o] = [st[o] EXCEPT !.redraw = Queue(@), !.stale = TRUE]
  BY DEF Queued
<1> QED BY <1>1 DEF OutputState

\* A request moves no other output.
LEMMA QueuedElsewhere ==
  ASSUME NEW st \in [Output -> OutputState], NEW os, NEW o \in Output, o \notin os
  PROVE  Queued(st, os)[o] = st[o]
BY DEF Queued

\* A request moves neither the lock render state nor unfinished_animations_remain.
LEMMA QueuedKeeps ==
  ASSUME NEW st \in [Output -> OutputState], NEW os, NEW o \in Output
  PROVE  /\ Queued(st, os)[o].remain = st[o].remain
         /\ Queued(st, os)[o].lockRender = st[o].lockRender
         /\ Queued(st, os)[o].failed = st[o].failed
<1>1. CASE o \in os
  <2>1. Queued(st, os)[o] = [st[o] EXCEPT !.redraw = Queue(@), !.stale = TRUE]
    BY <1>1 DEF Queued
  <2> QED BY <2>1 DEF OutputState
<1>2. CASE o \notin os
  BY <1>2, QueuedElsewhere
<1> QED BY <1>1, <1>2

\* The state of a new output has its type.
LEMMA NewOutputType == ASSUME NEW l PROVE NewOutput(l) \in OutputState
BY DEF NewOutput, OutputState, RedrawState

\* What a state of an output is after a step that at most asks for a redraw of it.
Asked(new, old) ==
  /\ new.remain = old.remain
  /\ new.lockRender = old.lockRender
  /\ new.failed = old.failed
  /\ \/ new.redraw = old.redraw /\ new.stale = old.stale
     \/ new.redraw = Queue(old.redraw) /\ new.stale = TRUE

\* queue_redraw at most asks.
LEMMA QueuedAsks ==
  ASSUME NEW st \in [Output -> OutputState], NEW os, NEW o \in Output
  PROVE  Asked(Queued(st, os)[o], st[o])
<1>1. CASE o \in os
  BY <1>1, QueuedThere, QueuedKeeps DEF Asked
<1>2. CASE o \notin os
  BY <1>2, QueuedElsewhere DEF Asked
<1> QED BY <1>1, <1>2

\* unlock() at most asks.
LEMMA UnlockedFacts ==
  ASSUME NEW st \in [Output -> OutputState]
  PROVE  /\ Unlocked(st) \in [Output -> OutputState]
         /\ \A o \in Output : Asked(Unlocked(st)[o], st[o])
<1>1. PICK u : u = [o \in Output |-> [st[o] EXCEPT !.lockSurface = "none"]]
  OBVIOUS
<1>2. Unlocked(st) = Queued(u, connected)
  BY <1>1 DEF Unlocked
<1>3. u \in [Output -> OutputState]
  BY <1>1 DEF OutputState
<1>4. ASSUME NEW o \in Output PROVE Asked(Queued(u, connected)[o], st[o])
  <2>1. /\ u[o].remain = st[o].remain /\ u[o].lockRender = st[o].lockRender
        /\ u[o].failed = st[o].failed
        /\ u[o].redraw = st[o].redraw /\ u[o].stale = st[o].stale
    BY <1>1 DEF OutputState
  <2>2. Asked(Queued(u, connected)[o], u[o])
    BY <1>3, QueuedAsks
  <2> QED BY <2>1, <2>2 DEF Asked
<1> QED BY <1>2, <1>3, <1>4, QueuedType

\* Continuing to lock.
LEMMA ContinueFacts ==
  ASSUME NEW st \in [Output -> OutputState], NEW on,
         MaybeContinueToLocking(st, on) \/ ContinueToLocking(st, on)
  PROVE  /\ lock' \in {lock, "locked", "locking"}
         /\ out' \in [Output -> OutputState]
         /\ \A o \in Output : Asked(out'[o], st[o])
<1>1. CASE lock' = lock /\ out' = st
  BY <1>1 DEF Asked
<1>2. CASE lock' \in {"locked", "locking"} /\ out' = Queued(st, on)
  BY <1>2, QueuedAsks, QueuedType
<1> QED BY <1>1, <1>2 DEF MaybeContinueToLocking, ContinueToLocking

(***************************************************************************)
(* Types                                                                   *)
(***************************************************************************)
\* Giving a field of the state of an output another value of its type.
LEMMA SetRedraw ==
  ASSUME out \in [Output -> OutputState], NEW o \in Output, NEW r \in RedrawState
  PROVE  /\ [out EXCEPT ![o].redraw = r] \in [Output -> OutputState]
         /\ [out EXCEPT ![o].redraw = r][o] = [out[o] EXCEPT !.redraw = r]
         /\ \A p \in Output \ {o} : [out EXCEPT ![o].redraw = r][p] = out[p]
BY DEF OutputState

\* A render leaves an output with the redraw state and the history it should.
LEMMA RenderedFacts ==
  ASSUME TypeOK, NEW o \in Output, NEW res
  PROVE  /\ Rendered(o, res) \in OutputState
         /\ Rendered(o, res).redraw = AfterRender(out[o].redraw, res)
         /\ Rendered(o, res).stale = FALSE
         /\ Rendered(o, res).remain = IF monitorsActive THEN o \in animated ELSE out[o].remain
         /\ Rendered(o, res).failed = (Active /\ res \in {"early", "late"})
         /\ Rendered(o, res).lockRender = IF ~RenderShows(res) THEN out[o].lockRender
                                         ELSE IF IsLocked(lock) THEN "locked" ELSE "unlocked"
<1>1. PICK r \in RedrawState : r = AfterRender(out[o].redraw, res)
  BY DEF AfterRender, RedrawState
<1>2. PICK m : m = IF monitorsActive THEN o \in animated ELSE out[o].remain
  OBVIOUS
<1>3. m \in BOOLEAN
  <2>1. out[o].remain \in BOOLEAN
    BY DEF TypeOK, OutputState
  <2>2. CASE monitorsActive
    <3>1. m = (o \in animated)
      BY <1>2, <2>2
    <3> QED BY <3>1
  <2>3. CASE ~monitorsActive
    BY <1>2, <2>1, <2>3
  <2> QED BY <2>2, <2>3
<1>4. PICK l \in {"unlocked", "locked"} :
        l = IF ~RenderShows(res) THEN out[o].lockRender
            ELSE IF IsLocked(lock) THEN "locked" ELSE "unlocked"
  <2>1. out[o].lockRender \in {"unlocked", "locked"}
    BY DEF TypeOK, OutputState
  <2> QED BY <2>1
<1>5. PICK f \in BOOLEAN : f = (monitorsActive /\ sessionActive /\ res \in {"early", "late"})
  OBVIOUS
<1>6. out[o] \in OutputState /\ out \in [Output -> OutputState]
  BY DEF TypeOK
<1>7. PICK s : s = [out[o] EXCEPT !.redraw = r, !.remain = m, !.lockRender = l, !.stale = FALSE,
                                   !.failed = f]
  OBVIOUS
<1>8. /\ s \in OutputState /\ s.redraw = r /\ s.stale = FALSE /\ s.lockRender = l
      /\ s.remain = m /\ s.failed = f
  BY <1>1, <1>4, <1>5, <1>6, <1>7, <1>3 DEF OutputState
<1>9. Rendered(o, res) = s
  BY <1>1, <1>2, <1>4, <1>5, <1>6, <1>7 DEF Rendered
<1>10. s.failed = (Active /\ res \in {"early", "late"})
  BY <1>5, <1>8 DEF Active
<1> QED BY <1>1, <1>2, <1>4, <1>8, <1>9, <1>10

\* The initial state has its type.
LEMMA TypeInit == Init => TypeOK
<1> SUFFICES ASSUME Init PROVE TypeOK
  OBVIOUS
<1>1. out \in [Output -> OutputState]
  BY NewOutputType DEF Init
<1>2. timers \in [Output -> Nat] /\ shown \in [Output -> Content]
  BY DEF Init, Content
<1>3. {monitorsActive, sessionActive, locker, redrawing, panicked} \subseteq BOOLEAN
  BY DEF Init
<1> QED BY <1>1, <1>2, <1>3 DEF Init, TypeOK, LockState

\* The variables of the clients keep their type.
LEMMA SendType ==
  ASSUME TypeOK, NEW o \in Output, NEW on \in SUBSET Output, NEW before \in SUBSET Output,
         SendFrameCallbacks(o, on, before)
  PROVE  /\ animated' \subseteq Output /\ wants' \subseteq Output
         /\ onScreen' \subseteq Output /\ sent' \subseteq Output
BY DEF SendFrameCallbacks, TypeOK

\* What on_vblank does to the states of the outputs and to the clients.
LEMMA PresentedType ==
  ASSUME TypeOK, NEW o \in Output, Presented(o)
  PROVE  /\ out' \in [Output -> OutputState]
         /\ out'[o].redraw \in {"idle", "queued"}
         /\ out'[o].stale = out[o].stale
         /\ out'[o].lockRender = out[o].lockRender
         /\ out'[o].remain = out[o].remain /\ out'[o].failed = out[o].failed
         /\ out[o].redraw # "vblank" \/ out[o].remain => out'[o].redraw = "queued"
         /\ \A p \in Output \ {o} : out'[p] = out[p]
         /\ animated' \subseteq Output /\ wants' \subseteq Output
         /\ onScreen' \subseteq Output /\ sent' \subseteq Output
<1>1. PICK r \in {"idle", "queued"} :
        r = IF out[o].redraw # "vblank" \/ out[o].remain THEN "queued" ELSE "idle"
  OBVIOUS
<1>2. out' = [out EXCEPT ![o].redraw = r]
  BY <1>1 DEF Presented
<1>3. out \in [Output -> OutputState] /\ r \in RedrawState
  BY DEF TypeOK, RedrawState
<1>4. out[o] \in OutputState
  BY <1>3
<1>5. /\ out' \in [Output -> OutputState]
      /\ out'[o] = [out[o] EXCEPT !.redraw = r]
      /\ \A p \in Output \ {o} : out'[p] = out[p]
  BY <1>2, <1>3, SetRedraw
<1>6. /\ out'[o].redraw = r /\ out'[o].stale = out[o].stale /\ out'[o].lockRender = out[o].lockRender
      /\ out'[o].remain = out[o].remain /\ out'[o].failed = out[o].failed
  BY <1>4, <1>5 DEF OutputState
<1>7. /\ animated' \subseteq Output /\ wants' \subseteq Output
      /\ onScreen' \subseteq Output /\ sent' \subseteq Output
  BY SendType DEF Presented, TypeOK, clients
<1> QED BY <1>1, <1>5, <1>6, <1>7

(***************************************************************************)
(* Steps that at most ask for redraws                                      *)
(***************************************************************************)
AsksOnly ==
  /\ UNCHANGED <<connected, timers, flips, throttled, panicked>>
  /\ out' \in [Output -> OutputState]
  /\ \A o \in Output : Asked(out'[o], out[o])

\* Continuing to lock takes the deadline with it.
LEMMA ContinueLock ==
  ASSUME lock \in LockState, DeadlineIffWaiting, NEW st, NEW on,
         MaybeContinueToLocking(st, on) \/ ContinueToLocking(st, on)
  PROVE  lock' \in LockState /\ lockTimers' \in Nat /\ DeadlineIffWaiting'
<1>1. \/ lock' = lock /\ lockTimers' = lockTimers
      \/ lock = "waiting" /\ lock' \in {"locked", "locking"} /\ lockTimers' = lockTimers - 1
  BY DEF MaybeContinueToLocking, ContinueToLocking
<1> QED BY <1>1 DEF DeadlineIffWaiting, LockState

\* Doing nothing to the outputs.
LEMMA SameAsks ==
  ASSUME TypeOK, UNCHANGED out
  PROVE  out' \in [Output -> OutputState] /\ \A o \in Output : Asked(out'[o], out[o])
BY DEF TypeOK, Asked

\* Only asking for redraws.
LEMMA QueuedOnly ==
  ASSUME TypeOK, NEW os, out' = Queued(out, os)
  PROVE  out' \in [Output -> OutputState] /\ \A o \in Output : Asked(out'[o], out[o])
<1>1. out \in [Output -> OutputState]
  BY DEF TypeOK
<1> QED BY <1>1, QueuedType, QueuedAsks

\* What setting the lock surface keeps of the state of an output.
Kept(new, old) == /\ new.remain = old.remain /\ new.lockRender = old.lockRender
                  /\ new.failed = old.failed
                  /\ new.redraw = old.redraw /\ new.stale = old.stale

\* Setting the lock surface of an output.
LEMMA SurfaceFacts ==
  ASSUME TypeOK, NEW o \in Output, NEW s \in {"none", "new", "mapped"}
  PROVE  /\ [out EXCEPT ![o].lockSurface = s] \in [Output -> OutputState]
         /\ \A q \in Output : Kept([out EXCEPT ![o].lockSurface = s][q], out[q])
<1>1. out \in [Output -> OutputState]
  BY DEF TypeOK
<1>2. PICK t : t = [out EXCEPT ![o].lockSurface = s]
  OBVIOUS
<1>3. t \in [Output -> OutputState]
  BY <1>1, <1>2 DEF OutputState
<1>4. ASSUME NEW q \in Output PROVE Kept(t[q], out[q])
  <2>1. CASE q = o
    BY <2>1, <1>1, <1>2 DEF OutputState, Kept
  <2>2. CASE q # o
    BY <2>2, <1>1, <1>2 DEF Kept
  <2> QED BY <2>1, <2>2
<1> QED BY <1>2, <1>3, <1>4

\* Steps of the lock keep the types and the deadline, and at most ask for redraws.
LEMMA LockSteps ==
  ASSUME TypeOK, DeadlineIffWaiting, LockNext
  PROVE TypeOK' /\ DeadlineIffWaiting' /\ AsksOnly
<1>1. CASE Lock
  <2>1. out' \in [Output -> OutputState] /\ \A q \in Output : Asked(out'[q], out[q])
    BY <1>1, SameAsks DEF Lock, lockVars, clients
  <2> QED BY <1>1, <2>1 DEF Lock, TypeOK, DeadlineIffWaiting, AsksOnly,
                           hardware, clients, power, lockVars, LockState, Content
<1>2. CASE LockDeadline
  <2>1. out' \in [Output -> OutputState] /\ \A q \in Output : Asked(out'[q], out[q])
    <3>1. CASE lock = "waiting"
      BY <1>2, <3>1, ContinueFacts DEF LockDeadline, TypeOK
    <3>2. CASE lock # "waiting"
      BY <1>2, <3>2, SameAsks DEF LockDeadline
    <3> QED BY <3>1, <3>2
  <2>2. lock' \in LockState /\ lockTimers' \in Nat /\ DeadlineIffWaiting'
    <3>1. lock = "waiting"
      BY <1>2 DEF LockDeadline, DeadlineIffWaiting
    <3> QED BY <1>2, <3>1, ContinueLock DEF LockDeadline, TypeOK
  <2> QED BY <1>2, <2>1, <2>2 DEF LockDeadline, TypeOK, AsksOnly, hardware, clients, power
<1>3. CASE Unlock
  <2>1. out' \in [Output -> OutputState] /\ \A q \in Output : Asked(out'[q], out[q])
    BY <1>3, UnlockedFacts DEF Unlock, TypeOK
  <2> QED BY <1>3, <2>1 DEF Unlock, TypeOK, DeadlineIffWaiting, AsksOnly,
                           hardware, clients, power, lockVars, LockState, Content
<1>4. ASSUME NEW m \in BOOLEAN, LockerDies(m) PROVE TypeOK' /\ DeadlineIffWaiting' /\ AsksOnly
  <2>1. out' \in [Output -> OutputState] /\ \A q \in Output : Asked(out'[q], out[q])
    BY <1>4 DEF LockerDies, TypeOK, OutputState, Asked
  <2> QED BY <1>4, <2>1 DEF LockerDies, TypeOK, DeadlineIffWaiting, AsksOnly,
                           hardware, clients, power, lockVars, LockState, Content
<1>5. ASSUME NEW o \in Output, NewLockSurface(o) PROVE TypeOK' /\ DeadlineIffWaiting' /\ AsksOnly
  <2>1. out' \in [Output -> OutputState] /\ \A q \in Output : Asked(out'[q], out[q])
    BY <1>5, SurfaceFacts DEF NewLockSurface, Kept, Asked
  <2> QED BY <1>5, <2>1 DEF NewLockSurface, TypeOK, DeadlineIffWaiting, AsksOnly,
                           hardware, clients, power, lockVars, LockState, Content
<1>6. ASSUME NEW o \in Output, CommitLockSurface(o) PROVE TypeOK' /\ DeadlineIffWaiting' /\ AsksOnly
  <2>1. out' \in [Output -> OutputState] /\ \A q \in Output : Asked(out'[q], out[q])
    <3>1. PICK st : st = [out EXCEPT ![o].lockSurface = "mapped"]
      OBVIOUS
    <3>2. st \in [Output -> OutputState] /\ \A q \in Output : Kept(st[q], out[q])
      BY <3>1, SurfaceFacts
    <3>3. out' \in [Output -> OutputState] /\ \A q \in Output : Asked(out'[q], st[q])
      <4>1. CASE lock = "waiting"
        <5>1. MaybeContinueToLocking(st, connected)
          BY <1>6, <4>1, <3>1 DEF CommitLockSurface
        <5> QED BY <5>1, <3>2, ContinueFacts
      <4>2. CASE lock # "waiting"
        <5>1. out' = Queued(st, {o})
          BY <1>6, <4>2, <3>1 DEF CommitLockSurface
        <5> QED BY <5>1, <3>2, QueuedType, QueuedAsks
      <4> QED BY <4>1, <4>2
    <3>4. ASSUME NEW q \in Output PROVE Asked(out'[q], out[q])
      BY <3>2, <3>3 DEF Asked, Kept
    <3> QED BY <3>3, <3>4
  <2>2. lock' \in LockState /\ lockTimers' \in Nat /\ DeadlineIffWaiting'
    <3>1. CASE lock = "waiting"
      BY <1>6, <3>1, ContinueLock DEF CommitLockSurface, TypeOK
    <3>2. CASE lock # "waiting"
      BY <1>6, <3>2 DEF CommitLockSurface, TypeOK, DeadlineIffWaiting
    <3> QED BY <3>1, <3>2
  <2> QED BY <1>6, <2>1, <2>2 DEF CommitLockSurface, TypeOK, AsksOnly, hardware, clients, power
<1> QED BY <1>1, <1>2, <1>3, <1>4, <1>5, <1>6 DEF LockNext

\* So do steps of clients.
LEMMA ClientSteps ==
  ASSUME TypeOK, DeadlineIffWaiting, ClientNext
  PROVE TypeOK' /\ DeadlineIffWaiting' /\ AsksOnly
<1>1. ASSUME NEW o \in Output, QueueRedraw(o) PROVE TypeOK' /\ DeadlineIffWaiting' /\ AsksOnly
  <2>1. out' \in [Output -> OutputState] /\ \A q \in Output : Asked(out'[q], out[q])
    BY <1>1, QueuedOnly DEF QueueRedraw
  <2> QED BY <1>1, <2>1 DEF QueueRedraw, TypeOK, DeadlineIffWaiting, AsksOnly,
                           hardware, clients, power, lockVars, LockState, Content
<1>2. ASSUME NEW o \in Output, Commit(o) PROVE TypeOK' /\ DeadlineIffWaiting' /\ AsksOnly
  <2>1. out' \in [Output -> OutputState] /\ \A q \in Output : Asked(out'[q], out[q])
    BY <1>2, QueuedOnly DEF Commit
  <2> QED BY <1>2, <2>1 DEF Commit, TypeOK, DeadlineIffWaiting, AsksOnly,
                           hardware, clients, power, lockVars, LockState, Content
<1>3. ASSUME NEW o \in Output, FallbackTimer(o) PROVE TypeOK' /\ DeadlineIffWaiting' /\ AsksOnly
  <2>1. out' \in [Output -> OutputState] /\ \A q \in Output : Asked(out'[q], out[q])
    BY <1>3, SameAsks DEF FallbackTimer, lockVars, clients
  <2> QED BY <1>3, <2>1 DEF FallbackTimer, TypeOK, DeadlineIffWaiting, AsksOnly,
                           hardware, clients, power, lockVars, LockState, Content
<1>4. ASSUME NEW o \in Output, StartAnimation(o) PROVE TypeOK' /\ DeadlineIffWaiting' /\ AsksOnly
  <2>1. out' \in [Output -> OutputState] /\ \A q \in Output : Asked(out'[q], out[q])
    BY <1>4, QueuedOnly DEF StartAnimation
  <2> QED BY <1>4, <2>1 DEF StartAnimation, TypeOK, DeadlineIffWaiting, AsksOnly,
                           hardware, clients, power, lockVars, LockState, Content
<1>5. ASSUME NEW o \in Output, AnimationEnds(o) PROVE TypeOK' /\ DeadlineIffWaiting' /\ AsksOnly
  <2>1. out' \in [Output -> OutputState] /\ \A q \in Output : Asked(out'[q], out[q])
    BY <1>5, SameAsks DEF AnimationEnds, lockVars, clients
  <2> QED BY <1>5, <2>1 DEF AnimationEnds, TypeOK, DeadlineIffWaiting, AsksOnly,
                           hardware, clients, power, lockVars, LockState, Content
<1> QED BY <1>1, <1>2, <1>3, <1>4, <1>5 DEF ClientNext

\* So do power, virtual terminals and the start of a redraw.
LEMMA PowerSteps ==
  ASSUME TypeOK, DeadlineIffWaiting,
         PowerOff \/ PowerOn \/ PauseSession \/ ActivateSession \/ StartRedrawing
           \/ UNCHANGED vars
  PROVE TypeOK' /\ DeadlineIffWaiting' /\ AsksOnly
<1>1. CASE PowerOff
  <2>1. out' \in [Output -> OutputState] /\ \A q \in Output : Asked(out'[q], out[q])
    BY <1>1, SameAsks DEF PowerOff, lockVars, clients
  <2> QED BY <1>1, <2>1 DEF PowerOff, TypeOK, DeadlineIffWaiting, AsksOnly,
                           hardware, clients, power, lockVars, LockState, Content
<1>2. CASE PowerOn
  <2>1. out' \in [Output -> OutputState] /\ \A q \in Output : Asked(out'[q], out[q])
    BY <1>2, QueuedOnly DEF PowerOn
  <2> QED BY <1>2, <2>1 DEF PowerOn, TypeOK, DeadlineIffWaiting, AsksOnly,
                           hardware, clients, power, lockVars, LockState, Content
<1>3. CASE PauseSession
  <2>1. out' \in [Output -> OutputState] /\ \A q \in Output : Asked(out'[q], out[q])
    BY <1>3, SameAsks DEF PauseSession, lockVars, clients
  <2> QED BY <1>3, <2>1 DEF PauseSession, TypeOK, DeadlineIffWaiting, AsksOnly,
                           hardware, clients, power, lockVars, LockState, Content
<1>4. CASE ActivateSession
  <2>1. out' \in [Output -> OutputState] /\ \A q \in Output : Asked(out'[q], out[q])
    BY <1>4, QueuedOnly DEF ActivateSession
  <2> QED BY <1>4, <2>1 DEF ActivateSession, TypeOK, DeadlineIffWaiting, AsksOnly,
                           hardware, clients, power, lockVars, LockState, Content
<1>5. CASE StartRedrawing
  <2>1. out' \in [Output -> OutputState] /\ \A q \in Output : Asked(out'[q], out[q])
    BY <1>5, SameAsks DEF StartRedrawing, lockVars, clients
  <2> QED BY <1>5, <2>1 DEF StartRedrawing, TypeOK, DeadlineIffWaiting, AsksOnly,
                           hardware, clients, power, lockVars, LockState, Content
<1>6. CASE UNCHANGED vars
  <2>1. out' \in [Output -> OutputState] /\ \A q \in Output : Asked(out'[q], out[q])
    BY <1>6, SameAsks DEF vars, lockVars, clients
  <2> QED BY <1>6, <2>1 DEF vars, TypeOK, DeadlineIffWaiting, AsksOnly,
                           hardware, clients, power, lockVars, LockState, Content
<1> QED BY <1>1, <1>2, <1>3, <1>4, <1>5, <1>6

(***************************************************************************)
(* The redraw states, the vblanks and the timers                           *)
(***************************************************************************)
\* The throttle's timer outlives its output, so outputs that come and go and
\* vblanks that come too early do not go together.
NoQuirks == ~(EarlyVBlanks /\ Hotplug)

LoopInv ==
  /\ TimerIffEstimated
  /\ VBlanksAwaited
  /\ throttled = {} \/ ~Hotplug
  /\ \A o \in Output \ connected : timers[o] = 0
  /\ NoLostRedraw
  /\ NoPanic

Inv == TypeOK /\ DeadlineIffWaiting /\ LoopInv

\* A request keeps an output waiting for what it waits for, and is remembered.
LEMMA AskedFacts ==
  ASSUME NEW s \in OutputState, NEW t, Asked(t, s)
  PROVE  /\ t.redraw \in EstimatedStates <=> s.redraw \in EstimatedStates
         /\ s.redraw \in VBlankStates => t.redraw \in VBlankStates
         /\ \/ t.stale = s.stale /\ t.redraw = s.redraw
            \/ t.redraw \in QueuedStates \cup {"vblankRedraw"}
<1>1. s.redraw \in RedrawState
  BY DEF OutputState
<1>2. /\ Queue(s.redraw) \in EstimatedStates <=> s.redraw \in EstimatedStates
      /\ s.redraw \in VBlankStates => Queue(s.redraw) \in VBlankStates
      /\ Queue(s.redraw) \in QueuedStates \cup {"vblankRedraw"}
  BY <1>1 DEF Queue, RedrawState, EstimatedStates, VBlankStates, QueuedStates
<1>3. CASE t.redraw = s.redraw /\ t.stale = s.stale
  BY <1>3
<1>4. CASE t.redraw = Queue(s.redraw) /\ t.stale = TRUE
  BY <1>2, <1>4
<1> QED BY <1>3, <1>4 DEF Asked

\* Asking for redraws keeps the invariant of the loop.
LEMMA AskingKeeps == ASSUME Inv, AsksOnly PROVE LoopInv'
<1>1. ASSUME NEW o \in Output
      PROVE  /\ out'[o].redraw \in EstimatedStates <=> out[o].redraw \in EstimatedStates
             /\ out[o].redraw \in VBlankStates => out'[o].redraw \in VBlankStates
             /\ \/ out'[o].stale = out[o].stale /\ out'[o].redraw = out[o].redraw
                \/ out'[o].redraw \in QueuedStates \cup {"vblankRedraw"}
  BY AskedFacts DEF Inv, TypeOK, AsksOnly
<1>2. UNCHANGED <<connected, timers, flips, throttled, panicked>> /\ connected \subseteq Output
  BY DEF AsksOnly, Inv, TypeOK
<1>3. TimerIffEstimated'
  BY <1>1, <1>2 DEF Inv, LoopInv, TimerIffEstimated
<1>4. VBlanksAwaited'
  BY <1>1, <1>2 DEF Inv, LoopInv, VBlanksAwaited
<1>5. NoLostRedraw'
  BY <1>1, <1>2 DEF Inv, LoopInv, NoLostRedraw, Pending
<1>6. NoPanic' /\ (throttled' = {} \/ ~Hotplug) /\ (\A o \in Output \ connected : timers[o] = 0)'
  BY <1>2 DEF Inv, LoopInv, NoPanic
<1> QED BY <1>3, <1>4, <1>5, <1>6 DEF LoopInv

\* An output that was not connected starts idle, and is asked to redraw.
LEMMA AddStep ==
  ASSUME Inv, NEW o \in Output, NEW moved \in SUBSET Output, AddOutput(o, moved)
  PROVE  Inv'
<1>1. PICK n \in OutputState : n = NewOutput(lock)
  BY NewOutputType
<1>2. PICK st : st = [out EXCEPT ![o] = n]
  OBVIOUS
<1>3. st \in [Output -> OutputState] /\ st[o] = n /\ \A q \in Output \ {o} : st[q] = out[q]
  BY <1>2 DEF Inv, TypeOK
<1>4. out' = Queued(st, moved \cup {o})
  BY <1>1, <1>2 DEF AddOutput
<1>5. out' \in [Output -> OutputState]
  BY <1>3, <1>4, QueuedType
<1>6. out'[o].redraw = "queued"
  <2>1. n.redraw = "idle" /\ Queue("idle") = "queued"
    BY <1>1 DEF NewOutput, Queue
  <2>2. o \in moved \cup {o}
    OBVIOUS
  <2>3. Queued(st, moved \cup {o})[o].redraw = Queue(st[o].redraw)
    BY <1>3, <2>2, QueuedThere
  <2> QED BY <1>3, <1>4, <2>1, <2>3
<1>7. ASSUME NEW q \in Output \ {o} PROVE Asked(out'[q], out[q])
  BY <1>3, <1>4, QueuedAsks
<1>8. /\ connected' = connected \cup {o} /\ o \notin connected
      /\ UNCHANGED <<timers, flips, throttled, panicked>>
  BY DEF AddOutput, hardware
<1>9. ASSUME NEW q \in Output \ {o}
      PROVE  /\ out'[q].redraw \in EstimatedStates <=> out[q].redraw \in EstimatedStates
             /\ out[q].redraw \in VBlankStates => out'[q].redraw \in VBlankStates
             /\ \/ out'[q].stale = out[q].stale /\ out'[q].redraw = out[q].redraw
                \/ out'[q].redraw \in QueuedStates \cup {"vblankRedraw"}
  BY <1>7, AskedFacts DEF Inv, TypeOK
<1>10. connected \subseteq Output /\ timers[o] = 0 /\ "queued" \notin EstimatedStates
  BY <1>8 DEF Inv, TypeOK, LoopInv, EstimatedStates
<1>11. TimerIffEstimated'
  BY <1>6, <1>8, <1>9, <1>10 DEF Inv, LoopInv, TimerIffEstimated
<1>12. VBlanksAwaited'
  BY <1>8, <1>9, <1>10 DEF Inv, LoopInv, VBlanksAwaited
<1>13. NoLostRedraw'
  BY <1>6, <1>8, <1>9, <1>10 DEF Inv, LoopInv, NoLostRedraw, Pending, QueuedStates
<1>14. NoPanic' /\ (throttled' = {} \/ ~Hotplug) /\ (\A q \in Output \ connected : timers[q] = 0)'
  BY <1>8 DEF Inv, LoopInv, NoPanic
<1>15. TypeOK' /\ DeadlineIffWaiting'
  BY <1>5, <1>8 DEF Inv, AddOutput, TypeOK, DeadlineIffWaiting, hardware, clients, power, lockVars
<1> QED BY <1>11, <1>12, <1>13, <1>14, <1>15 DEF Inv, LoopInv

\* An output that goes takes its timer and its frame with it.
LEMMA RemoveStep ==
  ASSUME Inv, NEW o \in Output, NEW moved \in SUBSET Output, RemoveOutput(o, moved)
  PROVE  Inv'
<1>1. PICK n \in OutputState : n = NewOutput("unlocked")
  BY NewOutputType
<1>2. PICK s0 : s0 = [out EXCEPT ![o] = n]
  OBVIOUS
<1>3. s0 \in [Output -> OutputState] /\ \A q \in Output \ {o} : s0[q] = out[q]
  BY <1>2 DEF Inv, TypeOK
<1>4. PICK st : st = Queued(s0, moved)
  OBVIOUS
<1>5. st \in [Output -> OutputState] /\ \A q \in Output \ {o} : Asked(st[q], out[q])
  BY <1>3, <1>4, QueuedType, QueuedAsks
<1>6. PICK on : on = connected \ {o}
  OBVIOUS
<1>7. \/ /\ lock = "locking" /\ lock' \in {"locked", "locking"}
         /\ out' = st /\ lockTimers' = lockTimers
      \/ lock # "locking" /\ MaybeContinueToLocking(st, on)
  BY <1>1, <1>2, <1>4, <1>6 DEF RemoveOutput, AfterRemoval
<1>8. /\ lock' \in LockState /\ lockTimers' \in Nat /\ DeadlineIffWaiting'
  <2>1. lock \in LockState /\ lockTimers \in Nat /\ DeadlineIffWaiting
    BY DEF Inv, TypeOK
  <2>2. CASE lock = "locking"
    BY <2>1, <2>2, <1>7 DEF DeadlineIffWaiting, LockState
  <2>3. CASE lock # "locking"
    BY <2>1, <2>3, <1>7, ContinueLock
  <2> QED BY <2>2, <2>3
<1>9. out' \in [Output -> OutputState] /\ \A q \in Output : Asked(out'[q], st[q])
  <2>1. CASE out' = st
    BY <2>1, <1>5 DEF Asked
  <2>2. CASE MaybeContinueToLocking(st, on)
    BY <2>2, <1>5, ContinueFacts
  <2> QED BY <2>1, <2>2, <1>7
<1>10. /\ connected' = connected \ {o}
       /\ timers' = [timers EXCEPT ![o] = 0] /\ flips' = flips \ {o}
       /\ throttled' = throttled /\ panicked' = panicked /\ Hotplug
  BY DEF RemoveOutput
<1>11. ASSUME NEW q \in Output \ {o}
      PROVE  /\ out'[q].redraw \in EstimatedStates <=> out[q].redraw \in EstimatedStates
             /\ out[q].redraw \in VBlankStates => out'[q].redraw \in VBlankStates
             /\ \/ out'[q].stale = out[q].stale /\ out'[q].redraw = out[q].redraw
                \/ out'[q].redraw \in QueuedStates \cup {"vblankRedraw"}
  <2>1. out[q] \in OutputState /\ st[q] \in OutputState
    BY <1>5 DEF Inv, TypeOK
  <2>2. Asked(st[q], out[q]) /\ Asked(out'[q], st[q])
    BY <1>5, <1>9
  <2>3. /\ st[q].redraw \in EstimatedStates <=> out[q].redraw \in EstimatedStates
        /\ out[q].redraw \in VBlankStates => st[q].redraw \in VBlankStates
        /\ \/ st[q].stale = out[q].stale /\ st[q].redraw = out[q].redraw
           \/ st[q].redraw \in QueuedStates \cup {"vblankRedraw"}
    BY <2>1, <2>2, AskedFacts
  <2>4. /\ out'[q].redraw \in EstimatedStates <=> st[q].redraw \in EstimatedStates
        /\ st[q].redraw \in VBlankStates => out'[q].redraw \in VBlankStates
        /\ \/ out'[q].stale = st[q].stale /\ out'[q].redraw = st[q].redraw
           \/ out'[q].redraw \in QueuedStates \cup {"vblankRedraw"}
    BY <2>1, <2>2, AskedFacts
  <2> QED BY <2>3, <2>4
<1>12. connected \subseteq Output /\ timers \in [Output -> Nat] /\ throttled = {}
  BY <1>10 DEF Inv, TypeOK, LoopInv
<1>13. TimerIffEstimated'
  BY <1>10, <1>11, <1>12 DEF Inv, LoopInv, TimerIffEstimated
<1>14. VBlanksAwaited'
  BY <1>10, <1>11, <1>12 DEF Inv, LoopInv, VBlanksAwaited
<1>15. NoLostRedraw'
  BY <1>10, <1>11, <1>12 DEF Inv, LoopInv, NoLostRedraw, Pending
<1>16. NoPanic' /\ throttled' = {} /\ (\A q \in Output \ connected : timers[q] = 0)'
  BY <1>10, <1>12 DEF Inv, LoopInv, NoPanic
<1>17. shown' \in [Output -> Content]
  BY DEF Inv, TypeOK, RemoveOutput, Content
<1>18. TypeOK'
  BY <1>8, <1>9, <1>10, <1>12, <1>17 DEF Inv, RemoveOutput, TypeOK, power
<1> QED BY <1>8, <1>13, <1>14, <1>15, <1>16, <1>18 DEF Inv, LoopInv
\* After a render there is a timer just if there is a redraw state that waits for it.
LEMMA TimersAfterRender ==
  ASSUME NEW o, NEW res \in RenderResult(o), NEW r \in QueuedStates,
         NEW n, n = IF r \in EstimatedStates THEN 1 ELSE 0
  PROVE  /\ AfterRender(r, res) \in {"vblank", "estimated", "idle"}
         /\ AfterRender(r, res) = "vblank" <=> res = "submitted"
         /\ TimersAfter(n, r, res) = IF AfterRender(r, res) \in EstimatedStates THEN 1 ELSE 0
BY DEF RenderResult, QueuedStates, EstimatedStates, AfterRender, TimersAfter

\* A redraw, whatever its result, leaves the timer and the vblank its output waits for.
LEMMA RedrawStep ==
  ASSUME Inv, NEW o \in Output, NEW res \in RenderResult(o), Redraw(o, res)
  PROVE  Inv'
<1>1. PICK n : n = Rendered(o, res)
  OBVIOUS
<1>2. PICK st : st = [out EXCEPT ![o] = n]
  OBVIOUS
<1>3. PICK r : r = out[o].redraw
  OBVIOUS
<1>4. /\ n \in OutputState /\ n.redraw = AfterRender(r, res) /\ n.stale = FALSE
  BY <1>1, <1>3, RenderedFacts DEF Inv
<1>5. /\ st \in [Output -> OutputState] /\ st[o] = n
      /\ \A q \in Output \ {o} : st[q] = out[q]
  BY <1>2, <1>4 DEF Inv, TypeOK
<1>6. /\ r \in QueuedStates /\ o \in connected
      /\ timers' = [timers EXCEPT ![o] = TimersAfter(@, r, res)]
      /\ flips' = IF res = "submitted" THEN flips \cup {o} ELSE flips
      /\ UNCHANGED <<connected, throttled, lockTimers, panicked, monitorsActive, sessionActive>>
  BY <1>3 DEF Redraw, power
<1>7. /\ timers \in [Output -> Nat] /\ connected \subseteq Output
      /\ timers[o] = IF r \in EstimatedStates THEN 1 ELSE 0
  BY <1>3, <1>6 DEF Inv, TypeOK, LoopInv, TimerIffEstimated
<1>8. PICK a : a = AfterRender(r, res)
  OBVIOUS
<1>9. /\ a \in {"vblank", "estimated", "idle"} /\ (a = "vblank" <=> res = "submitted")
      /\ timers'[o] = IF a \in EstimatedStates THEN 1 ELSE 0
      /\ \A q \in Output \ {o} : timers'[q] = timers[q]
      /\ timers' \in [Output -> Nat]
  <2>1. PICK k : k = TimersAfter(timers[o], r, res)
    OBVIOUS
  <2>2. /\ a \in {"vblank", "estimated", "idle"} /\ (a = "vblank" <=> res = "submitted")
        /\ k = IF a \in EstimatedStates THEN 1 ELSE 0
    BY <1>6, <1>7, <1>8, <2>1, TimersAfterRender
  <2>3. timers' = [timers EXCEPT ![o] = k]
    BY <1>6, <2>1
  <2> QED BY <1>7, <2>2, <2>3
<1>10. /\ out' \in [Output -> OutputState] /\ \A q \in Output : Asked(out'[q], st[q])
  <2>1. out' = Unlocked(st) \/ out' = st
    BY <1>1, <1>2 DEF Redraw
  <2>2. CASE out' = Unlocked(st)
    BY <2>2, <1>5, UnlockedFacts
  <2>3. CASE out' = st
    BY <2>3, <1>5 DEF Asked
  <2> QED BY <2>1, <2>2, <2>3
<1>11. ASSUME NEW q \in Output
       PROVE  /\ out'[q].redraw \in EstimatedStates <=> st[q].redraw \in EstimatedStates
              /\ st[q].redraw \in VBlankStates => out'[q].redraw \in VBlankStates
              /\ \/ out'[q].stale = st[q].stale /\ out'[q].redraw = st[q].redraw
                 \/ out'[q].redraw \in QueuedStates \cup {"vblankRedraw"}
  BY <1>5, <1>10, AskedFacts
<1>12. TimerIffEstimated'
  <2> SUFFICES ASSUME NEW q \in connected
               PROVE  timers'[q] = IF out'[q].redraw \in EstimatedStates THEN 1 ELSE 0
    BY <1>6 DEF TimerIffEstimated
  <2>1. out'[q].redraw \in EstimatedStates <=> st[q].redraw \in EstimatedStates
    BY <1>7, <1>11
  <2>2. CASE q = o
    BY <2>1, <2>2, <1>4, <1>5, <1>8, <1>9
  <2>3. CASE q # o
    BY <2>1, <2>3, <1>5, <1>7, <1>9 DEF Inv, LoopInv, TimerIffEstimated
  <2> QED BY <2>2, <2>3
<1>13. o \notin flips /\ o \notin throttled
  BY <1>3, <1>6 DEF Inv, LoopInv, VBlanksAwaited, QueuedStates, VBlankStates
<1>14. VBlanksAwaited'
  <2>1. flips' \cap throttled' = {}
    BY <1>6, <1>13 DEF Inv, LoopInv, VBlanksAwaited
  <2>2. ASSUME NEW q \in flips' \cup throttled'
        PROVE  q \in connected' /\ out'[q].redraw \in VBlankStates
    <3>1. CASE q = o
      <4>1. res = "submitted"
        BY <1>6, <1>13, <2>2, <3>1
      <4>2. st[o].redraw \in VBlankStates
        BY <4>1, <1>4, <1>5, <1>8, <1>9 DEF VBlankStates
      <4> QED BY <3>1, <4>2, <1>6, <1>11
    <3>2. CASE q # o
      <4>1. q \in flips \cup throttled
        BY <3>2, <2>2, <1>6
      <4>2. q \in connected /\ out[q].redraw \in VBlankStates
        BY <4>1 DEF Inv, LoopInv, VBlanksAwaited
      <4> QED BY <3>2, <4>2, <1>5, <1>6, <1>7, <1>11
    <3> QED BY <3>1, <3>2
  <2> QED BY <2>1, <2>2 DEF VBlanksAwaited
<1>15. NoLostRedraw'
  <2> SUFFICES ASSUME NEW q \in connected, out'[q].stale
               PROVE  out'[q].redraw \in QueuedStates \cup {"vblankRedraw"}
    BY <1>6 DEF NoLostRedraw, Pending
  <2>1. \/ out'[q].stale = st[q].stale /\ out'[q].redraw = st[q].redraw
        \/ out'[q].redraw \in QueuedStates \cup {"vblankRedraw"}
    BY <1>7, <1>11
  <2>2. CASE q = o
    BY <2>1, <2>2, <1>4, <1>5
  <2>3. CASE q # o
    BY <2>1, <2>3, <1>5, <1>7 DEF Inv, LoopInv, NoLostRedraw, Pending
  <2> QED BY <2>2, <2>3
<1>16. NoPanic' /\ (throttled' = {} \/ ~Hotplug) /\ (\A q \in Output \ connected : timers[q] = 0)'
  BY <1>6, <1>7, <1>9 DEF Inv, LoopInv, NoPanic
<1>17. /\ lock' \in LockState /\ DeadlineIffWaiting'
  BY <1>6 DEF Redraw, AfterRedraw, Inv, TypeOK, LockState, DeadlineIffWaiting
<1>18. /\ animated' \subseteq Output /\ wants' \subseteq Output
       /\ onScreen' \subseteq Output /\ sent' \subseteq Output
  <2>1. PICK on \in OnScreenAfter(o, res) :
          SendFrameCallbacks(o, on, IF res = "submitted" THEN sent \ {o} ELSE sent)
    BY DEF Redraw
  <2>2. on \subseteq Output
    BY DEF OnScreenAfter, Inv, TypeOK
  <2>3. (IF res = "submitted" THEN sent \ {o} ELSE sent) \subseteq Output
    BY DEF Inv, TypeOK
  <2> QED BY <2>1, <2>2, <2>3, SendType DEF Inv
<1>19. shown' \in [Output -> Content] /\ flips' \subseteq Output
  BY DEF Redraw, Inv, TypeOK, Content
<1>20. redrawing' \in BOOLEAN /\ locker' \in BOOLEAN
  BY DEF Redraw
<1>21. TypeOK'
  BY <1>6, <1>9, <1>10, <1>17, <1>18, <1>19, <1>20 DEF Inv, TypeOK
<1> QED BY <1>12, <1>14, <1>15, <1>16, <1>17, <1>21 DEF Inv, LoopInv
\* A frame that is out leaves its output idle or queued, and forgets no request.
LEMMA PresentedStep ==
  ASSUME Inv, NEW o \in Output, Presented(o), o \in flips \cup throttled,
         flips' = flips \ {o}, throttled' = throttled \ {o},
         UNCHANGED <<connected, timers, shown, power, lockVars, redrawing, panicked>>
  PROVE  Inv'
<1>1. /\ out' \in [Output -> OutputState]
      /\ out'[o].redraw \in {"idle", "queued"} /\ out'[o].stale = out[o].stale
      /\ out[o].redraw # "vblank" => out'[o].redraw = "queued"
      /\ \A q \in Output \ {o} : out'[q] = out[q]
      /\ animated' \subseteq Output /\ wants' \subseteq Output
      /\ onScreen' \subseteq Output /\ sent' \subseteq Output
  BY PresentedType DEF Inv
<1>2. out[o].redraw \in VBlankStates /\ connected \subseteq Output
  BY DEF Inv, LoopInv, VBlanksAwaited, TypeOK
<1>3. ASSUME NEW q \in connected
      PROVE  out'[q].redraw \in EstimatedStates <=> out[q].redraw \in EstimatedStates
  BY <1>1, <1>2 DEF EstimatedStates, VBlankStates
<1>4. TimerIffEstimated'
  BY <1>3 DEF Inv, LoopInv, TimerIffEstimated
<1>5. VBlanksAwaited'
  BY <1>1, <1>2 DEF Inv, LoopInv, VBlanksAwaited
<1>6. NoLostRedraw'
  <2> SUFFICES ASSUME NEW q \in connected, out'[q].stale
               PROVE  out'[q].redraw \in QueuedStates \cup {"vblankRedraw"}
    BY DEF NoLostRedraw, Pending
  <2>1. CASE q = o
    <3>1. out[o].redraw # "vblank"
      BY <2>1, <1>1, <1>2 DEF Inv, LoopInv, NoLostRedraw, Pending, QueuedStates
    <3> QED BY <2>1, <3>1, <1>1 DEF QueuedStates
  <2>2. CASE q # o
    BY <2>2, <1>1, <1>2 DEF Inv, LoopInv, NoLostRedraw, Pending
  <2> QED BY <2>1, <2>2
<1>7. NoPanic' /\ (throttled' = {} \/ ~Hotplug) /\ (\A q \in Output \ connected : timers[q] = 0)'
  BY DEF Inv, LoopInv, NoPanic
<1>8. TypeOK' /\ DeadlineIffWaiting'
  BY <1>1 DEF Inv, TypeOK, DeadlineIffWaiting, power, lockVars
<1> QED BY <1>4, <1>5, <1>6, <1>7, <1>8 DEF Inv, LoopInv

\* A vblank, early or not, comes for an output that waits for it.
LEMMA VBlankStep ==
  ASSUME NoQuirks, Inv, NEW o \in Output, VBlank(o) \/ ThrottleTimer(o)
  PROVE  Inv'
<1>1. CASE VBlank(o) /\ Presented(o) /\ UNCHANGED throttled
  <2>1. o \notin throttled /\ o \in flips
    BY <1>1 DEF VBlank, Inv, LoopInv, VBlanksAwaited
  <2> QED BY <1>1, <2>1, PresentedStep DEF VBlank
<1>2. CASE VBlank(o) /\ EarlyVBlanks /\ throttled' = throttled \cup {o} /\ UNCHANGED <<out, clients>>
  <2>1. /\ o \in flips /\ flips' = flips \ {o}
        /\ UNCHANGED <<connected, out, timers, panicked>>
    BY <1>2 DEF VBlank
  <2>2. TimerIffEstimated' /\ NoLostRedraw' /\ NoPanic'
    BY <2>1 DEF Inv, LoopInv, TimerIffEstimated, NoLostRedraw, NoPanic, Pending
  <2>3. VBlanksAwaited'
    BY <1>2, <2>1 DEF Inv, LoopInv, VBlanksAwaited
  <2>4. (throttled' = {} \/ ~Hotplug) /\ (\A q \in Output \ connected : timers[q] = 0)'
    BY <1>2, <2>1 DEF Inv, LoopInv, NoQuirks
  <2>5. TypeOK' /\ DeadlineIffWaiting'
    BY <1>2 DEF Inv, TypeOK, DeadlineIffWaiting, VBlank, clients, power, lockVars
  <2> QED BY <2>2, <2>3, <2>4, <2>5 DEF Inv, LoopInv
<1>3. CASE ThrottleTimer(o)
  <2>1. o \in throttled /\ o \in connected /\ o \notin flips
    BY <1>3 DEF ThrottleTimer, Inv, LoopInv, VBlanksAwaited
  <2>2. flips' = flips \ {o}
    BY <1>3, <2>1 DEF ThrottleTimer
  <2> QED BY <1>3, <2>1, <2>2, PresentedStep DEF ThrottleTimer
<1> QED BY <1>1, <1>2, <1>3 DEF VBlank

\* The estimated vblank timer finds its output waiting, and forgets no request.
LEMMA EstimatedStepKeeps ==
  ASSUME Inv, NEW o \in Output, EstimatedVBlank(o)
  PROVE  Inv'
<1>1. PICK left : left = EstimatedStep(out[o].redraw)
  OBVIOUS
<1>2. PICK new : new = IF left = "idle" /\ out[o].remain THEN "queued" ELSE left
  OBVIOUS
<1>3. /\ o \in connected /\ timers[o] > 0 /\ timers' = [timers EXCEPT ![o] = @ - 1]
      /\ panicked' = (panicked \/ out[o].redraw \notin EstimatedStates)
      /\ out' = [out EXCEPT ![o].redraw = new]
      /\ UNCHANGED <<connected, hardware, power, lockVars, redrawing>>
  BY <1>1, <1>2 DEF EstimatedVBlank
<1>4. out[o].redraw \in EstimatedStates /\ timers[o] = 1 /\ connected \subseteq Output
  BY <1>3 DEF Inv, TypeOK, LoopInv, TimerIffEstimated
<1>5. /\ new \in {"idle", "queued"}
      /\ out[o].redraw = "estimatedQueued" => new = "queued"
  BY <1>1, <1>2, <1>4 DEF EstimatedStep, EstimatedStates
<1>6. out \in [Output -> OutputState] /\ new \in RedrawState
  BY <1>5 DEF Inv, TypeOK, RedrawState
<1>7. /\ out' \in [Output -> OutputState]
      /\ out'[o] = [out[o] EXCEPT !.redraw = new]
      /\ \A q \in Output \ {o} : out'[q] = out[q]
  BY <1>3, <1>6, SetRedraw
<1>8. out'[o].redraw = new /\ out'[o].stale = out[o].stale
  BY <1>6, <1>7 DEF OutputState
<1>9. /\ timers' \in [Output -> Nat] /\ timers'[o] = 0
      /\ \A q \in Output \ {o} : timers'[q] = timers[q]
  BY <1>3, <1>4 DEF Inv, TypeOK
<1>10. TimerIffEstimated'
  BY <1>3, <1>4, <1>5, <1>7, <1>8, <1>9 DEF Inv, LoopInv, TimerIffEstimated, EstimatedStates
<1>11. VBlanksAwaited'
  <2>1. o \notin flips \cup throttled
    BY <1>4 DEF Inv, LoopInv, VBlanksAwaited, EstimatedStates, VBlankStates
  <2> QED BY <2>1, <1>3, <1>4, <1>7 DEF Inv, LoopInv, VBlanksAwaited, hardware
<1>12. NoLostRedraw'
  <2> SUFFICES ASSUME NEW q \in connected, out'[q].stale
               PROVE  out'[q].redraw \in QueuedStates \cup {"vblankRedraw"}
    BY <1>3 DEF NoLostRedraw, Pending
  <2>1. CASE q = o
    <3>1. out[o].redraw = "estimatedQueued"
      BY <2>1, <1>4, <1>8 DEF Inv, LoopInv, NoLostRedraw, Pending, QueuedStates, EstimatedStates
    <3> QED BY <2>1, <3>1, <1>5, <1>8 DEF QueuedStates
  <2>2. CASE q # o
    BY <2>2, <1>4, <1>7 DEF Inv, LoopInv, NoLostRedraw, Pending
  <2> QED BY <2>1, <2>2
<1>13. NoPanic' /\ (throttled' = {} \/ ~Hotplug) /\ (\A q \in Output \ connected : timers[q] = 0)'
  BY <1>3, <1>4, <1>9 DEF Inv, LoopInv, NoPanic, hardware
<1>14. /\ animated' \subseteq Output /\ wants' \subseteq Output
       /\ onScreen' \subseteq Output /\ sent' \subseteq Output
  <2>1. \/ UNCHANGED <<animated, wants, onScreen>> /\ sent' = sent \ {o}
        \/ SendFrameCallbacks(o, onScreen, sent \ {o})
    BY DEF EstimatedVBlank
  <2>2. onScreen \subseteq Output /\ sent \ {o} \subseteq Output
    BY DEF Inv, TypeOK
  <2>3. CASE UNCHANGED <<animated, wants, onScreen>> /\ sent' = sent \ {o}
    BY <2>2, <2>3 DEF Inv, TypeOK
  <2>4. CASE SendFrameCallbacks(o, onScreen, sent \ {o})
    BY <2>2, <2>4, SendType DEF Inv
  <2> QED BY <2>1, <2>3, <2>4
<1>15. TypeOK' /\ DeadlineIffWaiting'
  <2>1. panicked' \in BOOLEAN
    BY <1>3
  <2> QED BY <2>1, <1>3, <1>7, <1>9, <1>14
      DEF Inv, TypeOK, DeadlineIffWaiting, hardware, power, lockVars
<1> QED BY <1>10, <1>11, <1>12, <1>13, <1>15 DEF Inv, LoopInv

(***************************************************************************)
(* The invariant holds of every behaviour                                  *)
(***************************************************************************)
\* The invariant holds initially.
LEMMA InvInit == Init => Inv
<1> SUFFICES ASSUME Init PROVE Inv
  OBVIOUS
<1>1. TypeOK
  BY TypeInit
<1> QED BY <1>1 DEF Init, Inv, LoopInv, DeadlineIffWaiting, TimerIffEstimated, VBlanksAwaited,
           NoLostRedraw, NoPanic

\* Every step keeps the invariant.
LEMMA InvNext == ASSUME NoQuirks, Inv, [Next]_vars PROVE Inv'
<1>1. ASSUME AsksOnly, TypeOK', DeadlineIffWaiting' PROVE Inv'
  BY <1>1, AskingKeeps DEF Inv
<1>2. CASE LockNext
  BY <1>1, <1>2, LockSteps DEF Inv
<1>3. CASE ClientNext
  BY <1>1, <1>3, ClientSteps DEF Inv
<1>4. CASE PowerOff \/ PowerOn \/ PauseSession \/ ActivateSession \/ StartRedrawing \/ UNCHANGED vars
  BY <1>1, <1>4, PowerSteps DEF Inv
<1>5. CASE TimerNext
  BY <1>5, VBlankStep, EstimatedStepKeeps DEF TimerNext, Timed
<1>6. ASSUME NEW o \in Output, NEW moved \in SUBSET Output, AddOutput(o, moved) \/ RemoveOutput(o, moved)
      PROVE  Inv'
  BY <1>6, AddStep, RemoveStep
<1>7. ASSUME NEW o \in Output, NEW res \in RenderResult(o), Redraw(o, res) PROVE Inv'
  BY <1>7, RedrawStep
<1> QED BY <1>2, <1>3, <1>4, <1>5, <1>6, <1>7 DEF Next, OutputNext, RedrawNext

\* The invariant holds in every behaviour.
LEMMA Invariance == ASSUME NoQuirks PROVE Spec => []Inv
<1>1. Inv /\ [Next]_vars => Inv'
  BY InvNext
<1> QED BY <1>1, InvInit, PTL DEF Spec

(***************************************************************************)
(* Every variable keeps its type, however outputs, clients, vblanks and    *)
(* renders behave (OutputState, ymir.rs:454-494; LockState, 549-565).      *)
(***************************************************************************)
THEOREM TypeCorrect == ASSUME NoQuirks PROVE Spec => []TypeOK
<1>1. Inv => TypeOK
  BY DEF Inv
<1> QED BY <1>1, Invariance, PTL

(***************************************************************************)
(* An output has an estimated vblank timer just while it waits for one: no *)
(* timer is leaked or doubled by renders that succeed, fail or find no     *)
(* damage (tty.rs:1984-1998, 3006-3050); and the deadline of a lock runs   *)
(* just while its surfaces are waited for (ymir.rs:5889-6017).             *)
(***************************************************************************)
THEOREM TimersMatch == ASSUME NoQuirks PROVE Spec => []TimersAwaited
<1>1. Inv => TimersAwaited
  BY DEF Inv, LoopInv, TimersAwaited
<1> QED BY <1>1, Invariance, PTL

(***************************************************************************)
(* The estimated vblank timer never reaches an unreachable!()              *)
(* (tty.rs:1835-1837), as long as every vblank is that of a frame.         *)
(***************************************************************************)
THEOREM NeverPanics == ASSUME NoQuirks PROVE Spec => []NoPanic
<1>1. Inv => NoPanic
  BY DEF Inv, LoopInv
<1> QED BY <1>1, Invariance, PTL

(***************************************************************************)
(* A vblank comes only for an output that waits for one (ymir.rs:640-660,  *)
(* tty.rs:1738-1756).                                                      *)
(***************************************************************************)
THEOREM VBlanksExpected == ASSUME NoQuirks PROVE Spec => []VBlanksAwaited
<1>1. Inv => VBlanksAwaited
  BY DEF Inv, LoopInv
<1> QED BY <1>1, Invariance, PTL

(***************************************************************************)
(* A request to redraw is remembered until it is done (ymir.rs:640-660).   *)
(***************************************************************************)
THEOREM RequestsKept == ASSUME NoQuirks PROVE Spec => []NoLostRedraw
<1>1. Inv => NoLostRedraw
  BY DEF Inv, LoopInv
<1> QED BY <1>1, Invariance, PTL

(***************************************************************************)
(* The session lock hides the session                                      *)
(***************************************************************************)
LockInv ==
  /\ \A o \in Output : out[o].lockRender = "locked" => shown[o] # "session"
  /\ \A o \in Output \ connected : shown[o] = "nothing"
  /\ ~monitorsActive => \A o \in Output : shown[o] = "nothing"
  /\ lock = "locked" => AllLocked(out, connected)

\* Steps that draw nothing and lock only without screens.
DrawsNothing ==
  /\ connected' = connected
  /\ \A o \in Output : out'[o].lockRender = out[o].lockRender
  /\ shown' = shown \/ shown' = [o \in Output |-> "nothing"]
  /\ monitorsActive' = monitorsActive \/ monitorsActive' \/ shown' = [o \in Output |-> "nothing"]
  /\ lock' = "locked" => lock = "locked" \/ connected = {}

\* Such a step keeps the session hidden.
LEMMA DrawsNothingKeeps == ASSUME TypeOK, LockInv, DrawsNothing PROVE LockInv'
<1>1. connected \subseteq Output
  BY DEF TypeOK
<1>2. \A o \in Output : shown'[o] = shown[o] \/ shown'[o] = "nothing"
  BY DEF DrawsNothing
<1>3. (\A o \in Output : out[o].lockRender = "locked" => shown[o] # "session")'
  BY <1>2 DEF LockInv, DrawsNothing
<1>4. (\A o \in Output \ connected : shown[o] = "nothing")'
  BY <1>2 DEF LockInv, DrawsNothing
<1>5. (~monitorsActive => \A o \in Output : shown[o] = "nothing")'
  BY <1>2 DEF LockInv, DrawsNothing
<1>6. (lock = "locked" => AllLocked(out, connected))'
  BY <1>1 DEF LockInv, DrawsNothing, AllLocked
<1> QED BY <1>3, <1>4, <1>5, <1>6 DEF LockInv

\* Without rendering, only a lock without screens is confirmed.
LEMMA ContinueLocks ==
  ASSUME NEW st, NEW on, MaybeContinueToLocking(st, on) \/ ContinueToLocking(st, on)
  PROVE  lock' = "locked" => lock = "locked" \/ on = {}
BY DEF MaybeContinueToLocking, ContinueToLocking

\* Steps of the lock keep the session hidden.
LEMMA LockStepsDrawNothing == ASSUME TypeOK, AsksOnly, LockNext PROVE LockInv => LockInv'
<1> SUFFICES ASSUME LockInv PROVE LockInv'
  OBVIOUS
<1>1. connected' = connected /\ \A o \in Output : out'[o].lockRender = out[o].lockRender
  BY DEF AsksOnly, Asked
<1>2. shown' = shown /\ (monitorsActive' = monitorsActive \/ monitorsActive')
  BY DEF LockNext, Lock, LockDeadline, LockerDies, Unlock, NewLockSurface, CommitLockSurface,
         hardware, power
<1>3. lock' = "locked" => lock = "locked" \/ connected = {}
  <2>1. CASE Lock
    BY <2>1 DEF Lock
  <2>2. CASE LockDeadline
    BY <2>2, ContinueLocks DEF LockDeadline
  <2>3. CASE Unlock
    BY <2>3 DEF Unlock
  <2>4. ASSUME NEW m \in BOOLEAN, LockerDies(m) PROVE lock' = lock
    BY <2>4 DEF LockerDies
  <2>5. ASSUME NEW o \in Output, NewLockSurface(o) PROVE lock' = lock
    BY <2>5 DEF NewLockSurface, lockVars
  <2>6. ASSUME NEW o \in Output, CommitLockSurface(o)
        PROVE  lock' = "locked" => lock = "locked" \/ connected = {}
    BY <2>6, ContinueLocks DEF CommitLockSurface
  <2> QED BY <2>1, <2>2, <2>3, <2>4, <2>5, <2>6 DEF LockNext
<1> QED BY <1>1, <1>2, <1>3, DrawsNothingKeeps DEF DrawsNothing

\* So do steps of clients, power and virtual terminals.
LEMMA OtherStepsDrawNothing ==
  ASSUME TypeOK, AsksOnly,
         \/ ClientNext \/ PowerOff \/ PowerOn \/ PauseSession \/ ActivateSession
         \/ StartRedrawing \/ UNCHANGED vars
  PROVE  LockInv => LockInv'
<1> SUFFICES ASSUME LockInv PROVE LockInv'
  OBVIOUS
<1>1. connected' = connected /\ \A o \in Output : out'[o].lockRender = out[o].lockRender
  BY DEF AsksOnly, Asked
<1>2. lock' = lock
  BY DEF ClientNext, QueueRedraw, Commit, FallbackTimer, StartAnimation, AnimationEnds, PowerOff,
         PowerOn, PauseSession, ActivateSession, StartRedrawing, vars, lockVars
<1>3. /\ shown' = shown \/ shown' = [o \in Output |-> "nothing"]
      /\ monitorsActive' = monitorsActive \/ monitorsActive' \/ shown' = [o \in Output |-> "nothing"]
  <2>1. CASE ClientNext
    BY <2>1 DEF ClientNext, QueueRedraw, Commit, FallbackTimer, StartAnimation, AnimationEnds,
                hardware, power
  <2>2. CASE PowerOff
    BY <2>2 DEF PowerOff
  <2>3. CASE PowerOn \/ ActivateSession
    BY <2>3 DEF PowerOn, ActivateSession, hardware
  <2>4. CASE PauseSession
    BY <2>4 DEF PauseSession
  <2>5. CASE StartRedrawing \/ UNCHANGED vars
    BY <2>5 DEF StartRedrawing, vars, hardware, power
  <2> QED BY <2>1, <2>2, <2>3, <2>4, <2>5
<1> QED BY <1>1, <1>2, <1>3, DrawsNothingKeeps DEF DrawsNothing

\* So do vblanks and timers.
LEMMA TimersDrawNothing ==
  ASSUME TypeOK, TimerNext
  PROVE  LockInv => LockInv'
<1> SUFFICES ASSUME LockInv PROVE LockInv'
  OBVIOUS
<1>1. PICK o \in Output : VBlank(o) \/ ThrottleTimer(o) \/ EstimatedVBlank(o)
  BY DEF TimerNext, Timed
<1>2. UNCHANGED <<connected, shown, monitorsActive, lock>>
  BY <1>1 DEF VBlank, ThrottleTimer, EstimatedVBlank, hardware, power, lockVars
<1>3. \A q \in Output : out'[q].lockRender = out[q].lockRender
  <2>1. CASE Presented(o)
    BY <2>1, PresentedType
  <2>2. CASE out' = out
    BY <2>2
  <2>3. CASE EstimatedVBlank(o)
    <3>1. PICK r : out' = [out EXCEPT ![o].redraw = r]
      BY <2>3 DEF EstimatedVBlank
    <3>2. out \in [Output -> OutputState]
      BY DEF TypeOK
    <3> QED BY <3>1, <3>2 DEF OutputState
  <2> QED BY <1>1, <2>1, <2>2, <2>3 DEF VBlank, ThrottleTimer
<1> QED BY <1>2, <1>3, DrawsNothingKeeps DEF DrawsNothing
\* A screen plugged in shows nothing, and counts as locked just if the session is.
LEMMA AddHides ==
  ASSUME TypeOK, NEW o \in Output, NEW moved \in SUBSET Output, AddOutput(o, moved)
  PROVE  LockInv => LockInv'
<1> SUFFICES ASSUME LockInv PROVE LockInv'
  OBVIOUS
<1>1. PICK n \in OutputState : n = NewOutput(lock)
  BY NewOutputType
<1>2. PICK st : st = [out EXCEPT ![o] = n]
  OBVIOUS
<1>3. /\ st \in [Output -> OutputState] /\ st[o] = n
      /\ \A q \in Output \ {o} : st[q] = out[q]
  BY <1>2 DEF TypeOK
<1>4. out' = Queued(st, moved \cup {o})
  BY <1>1, <1>2 DEF AddOutput
<1>5. \A q \in Output : out'[q].lockRender = st[q].lockRender
  BY <1>3, <1>4, QueuedKeeps
<1>6. /\ connected' = connected \cup {o} /\ o \notin connected /\ connected \subseteq Output
      /\ shown' = shown /\ monitorsActive' = monitorsActive /\ lock' = lock
  BY DEF AddOutput, TypeOK, hardware, power, lockVars
<1>7. shown[o] = "nothing"
  BY <1>6 DEF LockInv
<1>8. (\A q \in Output : out[q].lockRender = "locked" => shown[q] # "session")'
  BY <1>3, <1>5, <1>6, <1>7 DEF LockInv
<1>9. lock = "locked" => n.lockRender = "locked"
  BY <1>1 DEF NewOutput, IsLocked
<1>10. (lock = "locked" => AllLocked(out, connected))'
  <2> SUFFICES ASSUME lock = "locked", NEW q \in connected \cup {o} PROVE out'[q].lockRender = "locked"
    BY <1>6 DEF AllLocked
  <2>1. CASE q = o
    BY <2>1, <1>3, <1>5, <1>9
  <2>2. CASE q # o
    BY <2>2, <1>3, <1>5, <1>6 DEF LockInv, AllLocked
  <2> QED BY <2>1, <2>2
<1> QED BY <1>6, <1>8, <1>10 DEF LockInv

\* With a screen gone, the lock may be complete.
LEMMA RemoveHides ==
  ASSUME TypeOK, NEW o \in Output, NEW moved \in SUBSET Output, RemoveOutput(o, moved)
  PROVE  LockInv => LockInv'
<1> SUFFICES ASSUME LockInv PROVE LockInv'
  OBVIOUS
<1>1. PICK n \in OutputState : n = NewOutput("unlocked")
  BY NewOutputType
<1>2. PICK s0 : s0 = [out EXCEPT ![o] = n]
  OBVIOUS
<1>3. s0 \in [Output -> OutputState] /\ \A q \in Output \ {o} : s0[q] = out[q]
  BY <1>2 DEF TypeOK
<1>4. PICK st : st = Queued(s0, moved)
  OBVIOUS
<1>5. st \in [Output -> OutputState] /\ \A q \in Output \ {o} : st[q].lockRender = out[q].lockRender
  BY <1>3, <1>4, QueuedType, QueuedKeeps
<1>6. PICK on : on = connected \ {o}
  OBVIOUS
<1>7. \/ /\ lock = "locking" /\ lock' = IF AllLocked(st, on) THEN "locked" ELSE "locking"
         /\ out' = st
      \/ lock # "locking" /\ MaybeContinueToLocking(st, on)
  BY <1>1, <1>2, <1>4, <1>6 DEF RemoveOutput, AfterRemoval
<1>8. ASSUME NEW q \in Output PROVE out'[q].lockRender = st[q].lockRender
  <2>1. CASE MaybeContinueToLocking(st, on)
    BY <2>1, <1>5, ContinueFacts DEF Asked
  <2> QED BY <2>1, <1>7
<1>9. /\ connected' = on /\ connected \subseteq Output /\ monitorsActive' = monitorsActive
      /\ shown' = [shown EXCEPT ![o] = "nothing"] /\ shown \in [Output -> Content]
  BY <1>6 DEF RemoveOutput, TypeOK, power
<1>10. /\ shown'[o] = "nothing" /\ \A q \in Output \ {o} : shown'[q] = shown[q]
  BY <1>9
<1>11. (\A q \in Output : out[q].lockRender = "locked" => shown[q] # "session")'
  BY <1>5, <1>8, <1>10 DEF LockInv
<1>12. (\A q \in Output \ connected : shown[q] = "nothing")'
  BY <1>6, <1>9, <1>10 DEF LockInv
<1>13. (~monitorsActive => \A q \in Output : shown[q] = "nothing")'
  BY <1>9, <1>10 DEF LockInv
<1>14. (lock = "locked" => AllLocked(out, connected))'
  <2> SUFFICES ASSUME lock' = "locked", NEW q \in on PROVE out'[q].lockRender = "locked"
    BY <1>9 DEF AllLocked
  <2>1. CASE lock = "locking"
    BY <2>1, <1>6, <1>7, <1>8, <1>9 DEF AllLocked
  <2>2. CASE lock # "locking"
    <3>1. lock = "locked"
      BY <2>2, <1>7, ContinueLocks
    <3> QED BY <3>1, <1>5, <1>6, <1>8, <1>9 DEF LockInv, AllLocked
  <2> QED BY <2>1, <2>2
<1> QED BY <1>11, <1>12, <1>13, <1>14 DEF LockInv

\* A redraw shows the session only while the session is not locked.
LEMMA RedrawHides ==
  ASSUME TypeOK, NEW o \in Output, NEW res \in RenderResult(o), Redraw(o, res)
  PROVE  LockInv => LockInv'
<1> SUFFICES ASSUME LockInv PROVE LockInv'
  OBVIOUS
<1>1. PICK n : n = Rendered(o, res)
  OBVIOUS
<1>2. PICK st : st = [out EXCEPT ![o] = n]
  OBVIOUS
<1>3. /\ n \in OutputState
      /\ n.lockRender = IF ~RenderShows(res) THEN out[o].lockRender
                        ELSE IF IsLocked(lock) THEN "locked" ELSE "unlocked"
  BY <1>1, RenderedFacts
<1>4. /\ st \in [Output -> OutputState] /\ st[o] = n
      /\ \A q \in Output \ {o} : st[q] = out[q]
  BY <1>2, <1>3 DEF TypeOK
<1>5. ASSUME NEW q \in Output PROVE out'[q].lockRender = st[q].lockRender
  <2>1. out' = Unlocked(st) \/ out' = st
    BY <1>1, <1>2 DEF Redraw
  <2>2. CASE out' = Unlocked(st)
    BY <2>2, <1>4, UnlockedFacts DEF Asked
  <2> QED BY <2>1, <2>2
<1>6. /\ connected' = connected /\ connected \subseteq Output
      /\ monitorsActive' = monitorsActive /\ o \in connected
      /\ lock' = AfterRedraw(st, o)
      /\ shown' = IF res = "submitted"
                    THEN [shown EXCEPT ![o] = IF IsLocked(lock) THEN "lock" ELSE "session"]
                    ELSE shown
      /\ shown \in [Output -> Content]
  BY <1>1, <1>2 DEF Redraw, TypeOK, power
<1>7. \A q \in Output \ {o} : shown'[q] = shown[q]
  BY <1>6
<1>8. res = "submitted" => shown'[o] = IF IsLocked(lock) THEN "lock" ELSE "session"
  BY <1>6
<1>9. res # "submitted" => shown' = shown
  BY <1>6
<1>10. n.lockRender = "locked" => shown'[o] # "session"
  <2>1. CASE res = "submitted"
    BY <2>1, <1>3, <1>8 DEF RenderShows
  <2>2. CASE res = "noDamage"
    <3>1. shown[o] = IF IsLocked(lock) THEN "lock" ELSE "session"
      BY <2>2 DEF RenderResult
    <3> QED BY <2>2, <3>1, <1>3, <1>9 DEF RenderShows
  <2>3. CASE res = "inactive"
    <3>1. shown[o] = "nothing"
      BY <2>3 DEF RenderResult, LockInv
    <3> QED BY <2>3, <3>1, <1>9
  <2>4. CASE res \notin {"submitted", "noDamage", "inactive"}
    BY <2>4, <1>3, <1>9 DEF RenderShows, LockInv
  <2> QED BY <2>1, <2>2, <2>3, <2>4
<1>11. (\A q \in Output : out[q].lockRender = "locked" => shown[q] # "session")'
  BY <1>4, <1>5, <1>7, <1>10 DEF LockInv
<1>12. (\A q \in Output \ connected : shown[q] = "nothing")'
  BY <1>6, <1>7 DEF LockInv
<1>13. (~monitorsActive => \A q \in Output : shown[q] = "nothing")'
  <2> SUFFICES ASSUME ~monitorsActive PROVE shown' = shown
    BY <1>6 DEF LockInv
  <2> QED BY <1>9 DEF RenderResult
<1>14. (lock = "locked" => AllLocked(out, connected))'
  <2> SUFFICES ASSUME lock' = "locked", NEW q \in connected PROVE st[q].lockRender = "locked"
    BY <1>5, <1>6 DEF AllLocked
  <2>1. CASE lock = "locking"
    BY <2>1, <1>6 DEF AfterRedraw, AllLocked
  <2>2. CASE lock # "locking"
    <3>1. lock = "locked"
      BY <2>2, <1>6 DEF AfterRedraw
    <3>2. out[q].lockRender = "locked"
      BY <3>1 DEF LockInv, AllLocked
    <3>3. CASE q = o
      BY <3>1, <3>2, <3>3, <1>3, <1>4 DEF IsLocked
    <3> QED BY <3>2, <3>3, <1>4, <1>6
  <2> QED BY <2>1, <2>2
<1> QED BY <1>11, <1>12, <1>13, <1>14 DEF LockInv

\* Every step keeps the session hidden.
LEMMA LockInvNext == ASSUME Inv, [Next]_vars PROVE LockInv => LockInv'
<1>1. TypeOK /\ DeadlineIffWaiting
  BY DEF Inv
<1>2. CASE LockNext
  BY <1>1, <1>2, LockSteps, LockStepsDrawNothing
<1>3. CASE ClientNext
  BY <1>1, <1>3, ClientSteps, OtherStepsDrawNothing
<1>4. CASE PowerOff \/ PowerOn \/ PauseSession \/ ActivateSession \/ StartRedrawing \/ UNCHANGED vars
  BY <1>1, <1>4, PowerSteps, OtherStepsDrawNothing
<1>5. CASE TimerNext
  BY <1>1, <1>5, TimersDrawNothing
<1>6. ASSUME NEW o \in Output, NEW moved \in SUBSET Output, AddOutput(o, moved) \/ RemoveOutput(o, moved)
      PROVE  LockInv => LockInv'
  BY <1>1, <1>6, AddHides, RemoveHides
<1>7. ASSUME NEW o \in Output, NEW res \in RenderResult(o), Redraw(o, res) PROVE LockInv => LockInv'
  BY <1>1, <1>7, RedrawHides
<1> QED BY <1>2, <1>3, <1>4, <1>5, <1>6, <1>7 DEF Next, OutputNext, RedrawNext

(***************************************************************************)
(* Once a lock is reported to its client, and until it is lifted, no       *)
(* screen shows the session, through hotplug, failed renders and power     *)
(* (ymir.rs:4697-4733, 5889-6017).                                         *)
(***************************************************************************)
THEOREM LockedIsHidden == ASSUME NoQuirks PROVE Spec => []LockHides
<1>1. Init => LockInv
  BY DEF Init, LockInv, AllLocked
<1>2. LockInv /\ Inv /\ [Next]_vars => LockInv'
  BY LockInvNext
<1>3. TypeOK /\ LockInv => LockHides
  BY DEF LockInv, LockHides, AllLocked, TypeOK
<1>4. Inv => TypeOK
  BY DEF Inv
<1> QED BY <1>1, <1>2, <1>3, <1>4, Invariance, PTL DEF Spec

(***************************************************************************)
(* Dark screens and animations                                             *)
(***************************************************************************)
\* The state s keeps an output drawing that is dark, or on which something moves.
Drawn(s, dark, moving) ==
  LET pending == s.redraw \in QueuedStates \cup {"vblankRedraw"}
  IN  /\ dark => pending \/ s.failed
      /\ moving => pending \/ s.remain \/ s.failed
      /\ moving => s.redraw # "idle" \/ s.failed

DrawInv ==
  /\ animated \subseteq connected
  /\ Active => \A o \in connected : Drawn(out[o], shown[o] = "nothing", o \in animated)

\* An output that is asked to redraw keeps drawing.
LEMMA AskedDraws ==
  ASSUME NEW s \in OutputState, NEW t, Asked(t, s), NEW d, NEW m, Drawn(s, d, m)
  PROVE  Drawn(t, d, m)
<1>1. CASE t.redraw = s.redraw
  BY <1>1 DEF Asked, Drawn
<1>2. CASE t.redraw = Queue(s.redraw)
  <2>1. t.redraw \in QueuedStates \cup {"vblankRedraw"} /\ t.redraw # "idle"
    BY <1>2 DEF Queue, OutputState, RedrawState, QueuedStates
  <2> QED BY <2>1 DEF Drawn
<1> QED BY <1>1, <1>2 DEF Asked

\* What is true of the steps that only ask for redraws: the outputs that light up,
\* go dark or begin to move are asked.
Wakes ==
  /\ animated' \subseteq connected'
  /\ Active' => \/ /\ Active /\ shown' = shown
                   /\ \A o \in animated' \ animated : out'[o].redraw = Queue(out[o].redraw)
                \/ \A o \in connected : out'[o].redraw = Queue(out[o].redraw)

\* Such steps keep outputs drawing.
LEMMA WakingDraws == ASSUME TypeOK, DrawInv, AsksOnly, Wakes PROVE DrawInv'
<1> SUFFICES ASSUME Active', NEW o \in connected
             PROVE  Drawn(out'[o], shown'[o] = "nothing", o \in animated')
  BY DEF DrawInv, Wakes, AsksOnly
<1>1. out[o] \in OutputState /\ Asked(out'[o], out[o])
  BY DEF TypeOK, AsksOnly
<1>2. CASE out'[o].redraw = Queue(out[o].redraw)
  <2>1. out'[o].redraw \in QueuedStates \cup {"vblankRedraw"} /\ out'[o].redraw # "idle"
    BY <1>1, <1>2 DEF Queue, OutputState, RedrawState, QueuedStates
  <2> QED BY <2>1 DEF Drawn
<1>3. CASE Active /\ shown' = shown /\ ~(o \in animated' /\ o \notin animated)
  <2>1. Drawn(out[o], shown[o] = "nothing", o \in animated)
    BY <1>3 DEF DrawInv
  <2>2. Drawn(out'[o], shown[o] = "nothing", o \in animated)
    BY <1>1, <2>1, AskedDraws
  <2> QED BY <1>3, <2>2 DEF Drawn
<1> QED BY <1>2, <1>3 DEF Wakes

\* queue_redraw asks the outputs it is called for.
LEMMA QueuedWakes ==
  ASSUME TypeOK, NEW os \in SUBSET Output, out' = Queued(out, os)
  PROVE  \A o \in os : out'[o].redraw = Queue(out[o].redraw)
BY QueuedThere DEF TypeOK

\* Steps of the lock, of clients and of power keep outputs drawing.
LEMMA AskingDraws ==
  ASSUME TypeOK, DrawInv, AsksOnly,
         \/ LockNext \/ ClientNext \/ PowerOff \/ PowerOn \/ PauseSession \/ ActivateSession
         \/ StartRedrawing \/ UNCHANGED vars
  PROVE  DrawInv'
<1>1. connected' = connected /\ animated \subseteq connected /\ connected \subseteq Output
  BY DEF AsksOnly, DrawInv, TypeOK
<1>2. CASE UNCHANGED <<animated, shown, monitorsActive, sessionActive>>
  BY <1>1, <1>2, WakingDraws DEF Wakes, Active
<1>3. CASE LockNext
  <2>1. CASE Unlock
    <3>1. UNCHANGED <<animated, shown, sessionActive>> /\ lock = "locked"
      BY <2>1 DEF Unlock, clients, hardware
    <3>2. ASSUME NEW o \in connected PROVE out'[o].redraw = Queue(out[o].redraw)
      <4>1. PICK u : u = [q \in Output |-> [out[q] EXCEPT !.lockSurface = "none"]]
        OBVIOUS
      <4>2. out' = Queued(u, connected)
        BY <2>1, <4>1 DEF Unlock, Unlocked
      <4>3. u \in [Output -> OutputState] /\ u[o].redraw = out[o].redraw
        BY <1>1, <4>1 DEF TypeOK, OutputState
      <4>4. Queued(u, connected)[o].redraw = Queue(u[o].redraw)
        BY <1>1, <4>3, QueuedThere
      <4> QED BY <4>2, <4>3, <4>4
    <3> QED BY <1>1, <3>1, <3>2, WakingDraws DEF Wakes
  <2>2. CASE ~Unlock
    BY <1>2, <1>3, <2>2 DEF LockNext, Lock, LockDeadline, LockerDies, NewLockSurface,
                             CommitLockSurface, clients, hardware, power
  <2> QED BY <2>1, <2>2
<1>4. ASSUME NEW o \in Output,
             QueueRedraw(o) \/ Commit(o) \/ FallbackTimer(o) \/ AnimationEnds(o)
      PROVE  DrawInv'
  <2>1. UNCHANGED <<shown, monitorsActive, sessionActive>> /\ animated' \subseteq animated
    BY <1>4 DEF QueueRedraw, Commit, FallbackTimer, AnimationEnds, clients, hardware, power
  <2> QED BY <1>1, <2>1, WakingDraws DEF Wakes, Active
<1>5. ASSUME NEW o \in Output, StartAnimation(o) PROVE DrawInv'
  <2>1. /\ UNCHANGED <<shown, monitorsActive, sessionActive>>
        /\ animated' = animated \cup {o} /\ o \in connected
        /\ out' = Queued(out, {o})
    BY <1>5 DEF StartAnimation, hardware, power
  <2>2. out'[o].redraw = Queue(out[o].redraw)
    BY <2>1, QueuedWakes
  <2> QED BY <1>1, <2>1, <2>2, WakingDraws DEF Wakes, Active
<1>6. CASE PowerOff \/ PauseSession
  <2>1. ~Active' /\ animated' = animated
    BY <1>6 DEF PowerOff, PauseSession, clients, Active
  <2> QED BY <1>1, <2>1, WakingDraws DEF Wakes
<1>7. CASE PowerOn \/ ActivateSession
  <2>1. animated' = animated /\ out' = Queued(out, connected)
    BY <1>7 DEF PowerOn, ActivateSession, clients
  <2>2. \A o \in connected : out'[o].redraw = Queue(out[o].redraw)
    BY <1>1, <2>1, QueuedWakes
  <2> QED BY <1>1, <2>1, <2>2, WakingDraws DEF Wakes
<1>8. CASE StartRedrawing \/ UNCHANGED vars
  BY <1>2, <1>8 DEF StartRedrawing, vars, clients, hardware, power
<1> QED BY <1>3, <1>4, <1>5, <1>6, <1>7, <1>8 DEF ClientNext

\* A step that moves the state of one output that stays.
LEMMA OneDraws ==
  ASSUME TypeOK, DrawInv, NEW o \in Output,
         UNCHANGED <<connected, animated, shown, monitorsActive, sessionActive>>,
         \A q \in Output \ {o} : out'[q] = out[q],
         Drawn(out[o], shown[o] = "nothing", o \in animated)
            => Drawn(out'[o], shown[o] = "nothing", o \in animated)
  PROVE  DrawInv'
<1>1. connected \subseteq Output
  BY DEF TypeOK
<1> SUFFICES ASSUME Active, NEW q \in connected
             PROVE  Drawn(out'[q], shown[q] = "nothing", q \in animated)
  BY DEF DrawInv, Active
<1>2. Drawn(out[q], shown[q] = "nothing", q \in animated)
  BY DEF DrawInv
<1>3. CASE q = o
  BY <1>2, <1>3
<1>4. CASE q # o
  BY <1>1, <1>2, <1>4
<1> QED BY <1>3, <1>4

\* A vblank leaves an output idle only if nothing is to be drawn.
LEMMA PresentedDraws ==
  ASSUME TypeOK, DrawInv, NEW o \in Output, Presented(o),
         UNCHANGED <<connected, shown, monitorsActive, sessionActive>>
  PROVE  DrawInv'
<1>1. animated' = animated
  BY DEF Presented, SendFrameCallbacks, clients
<1>2. ASSUME NEW d, NEW m, Drawn(out[o], d, m) PROVE Drawn(out'[o], d, m)
  <2>1. /\ out'[o].remain = out[o].remain /\ out'[o].failed = out[o].failed
        /\ out'[o].redraw \in {"idle", "queued"}
        /\ out[o].redraw # "vblank" \/ out[o].remain => out'[o].redraw = "queued"
    BY PresentedType
  <2>2. CASE out'[o].redraw = "queued"
    BY <2>2 DEF Drawn, QueuedStates
  <2>3. CASE out'[o].redraw = "idle"
    <3>1. out[o].redraw = "vblank" /\ ~out[o].remain
      BY <2>1, <2>3
    <3> QED BY <1>2, <2>1, <3>1 DEF Drawn, QueuedStates
  <2> QED BY <2>1, <2>2, <2>3
<1>3. \A q \in Output \ {o} : out'[q] = out[q]
  BY PresentedType
<1> QED BY <1>1, <1>2, <1>3, OneDraws

\* So do the estimated vblank timer and all other timers.
LEMMA TimersDraw == ASSUME Inv, DrawInv, TimerNext PROVE DrawInv'
<1>0. TypeOK
  BY DEF Inv
<1>1. PICK o \in Output : VBlank(o) \/ ThrottleTimer(o) \/ EstimatedVBlank(o)
  BY DEF TimerNext, Timed
<1>2. UNCHANGED <<connected, shown, monitorsActive, sessionActive>>
  BY <1>1 DEF VBlank, ThrottleTimer, EstimatedVBlank, hardware, power
<1>3. CASE Presented(o)
  BY <1>0, <1>2, <1>3, PresentedDraws
<1>4. CASE UNCHANGED <<out, clients>>
  BY <1>2, <1>4 DEF DrawInv, Active, clients
<1>5. CASE EstimatedVBlank(o)
  <2>1. PICK left : left = EstimatedStep(out[o].redraw)
    OBVIOUS
  <2>2. PICK new : new = IF left = "idle" /\ out[o].remain THEN "queued" ELSE left
    OBVIOUS
  <2>3. o \in connected /\ timers[o] > 0 /\ out' = [out EXCEPT ![o].redraw = new]
    BY <1>5, <2>1, <2>2 DEF EstimatedVBlank
  <2>4. out[o].redraw \in EstimatedStates /\ out \in [Output -> OutputState]
    BY <2>3 DEF Inv, TypeOK, LoopInv, TimerIffEstimated
  <2>5. new \in RedrawState
    BY <2>1, <2>2 DEF EstimatedStep, RedrawState
  <2>6. /\ out'[o] = [out[o] EXCEPT !.redraw = new]
        /\ \A q \in Output \ {o} : out'[q] = out[q]
    BY <2>3, <2>4, <2>5, SetRedraw
  <2>7. /\ out'[o].remain = out[o].remain /\ out'[o].failed = out[o].failed
        /\ out'[o].redraw = new
    BY <2>4, <2>6 DEF OutputState
  <2>8. ASSUME NEW d, NEW m, Drawn(out[o], d, m) PROVE Drawn(out'[o], d, m)
    <3>1. CASE new = "queued"
      BY <2>7, <3>1 DEF Drawn, QueuedStates
    <3>2. CASE new # "queued"
      <4>1. out[o].redraw = "estimated" /\ ~out[o].remain
        BY <2>1, <2>2, <2>4, <3>2 DEF EstimatedStep, EstimatedStates
      <4> QED BY <2>7, <2>8, <4>1 DEF Drawn, QueuedStates
    <3> QED BY <3>1, <3>2
  <2>9. animated' = animated
    BY <1>5 DEF EstimatedVBlank, SendFrameCallbacks
  <2> QED BY <1>0, <1>2, <2>6, <2>8, <2>9, OneDraws
<1> QED BY <1>1, <1>3, <1>4, <1>5 DEF VBlank, ThrottleTimer

\* A new output is asked to draw.
LEMMA AddDraws ==
  ASSUME TypeOK, DrawInv, NEW o \in Output, NEW moved \in SUBSET Output, AddOutput(o, moved)
  PROVE  DrawInv'
<1>1. PICK n \in OutputState : n = NewOutput(lock)
  BY NewOutputType
<1>2. PICK st : st = [out EXCEPT ![o] = n]
  OBVIOUS
<1>3. st \in [Output -> OutputState] /\ st[o] = n /\ \A q \in Output \ {o} : st[q] = out[q]
  BY <1>2 DEF TypeOK
<1>4. out' = Queued(st, moved \cup {o})
  BY <1>1, <1>2 DEF AddOutput
<1>5. /\ UNCHANGED <<animated, shown, monitorsActive, sessionActive>>
      /\ connected' = connected \cup {o} /\ o \notin connected /\ connected \subseteq Output
  BY DEF AddOutput, TypeOK, clients, hardware, power
<1> SUFFICES ASSUME Active, NEW q \in connected \cup {o}
             PROVE  Drawn(out'[q], shown[q] = "nothing", q \in animated)
  BY <1>5 DEF DrawInv, Active
<1>6. CASE q = o
  <2>1. out'[o].redraw = Queue(n.redraw)
    BY <1>3, <1>4, QueuedThere
  <2>2. out'[o].redraw = "queued"
    BY <1>1, <2>1 DEF NewOutput, Queue
  <2> QED BY <1>6, <2>2 DEF Drawn, QueuedStates
<1>7. CASE q # o
  <2>1. Drawn(out[q], shown[q] = "nothing", q \in animated)
    BY <1>7 DEF DrawInv
  <2>2. Asked(out'[q], out[q]) /\ out[q] \in OutputState
    BY <1>3, <1>4, <1>5, <1>7, QueuedAsks DEF TypeOK
  <2> QED BY <2>1, <2>2, AskedDraws
<1> QED BY <1>6, <1>7

\* The outputs that stay are at most asked to.
LEMMA RemoveDraws ==
  ASSUME TypeOK, DrawInv, NEW o \in Output, NEW moved \in SUBSET Output, RemoveOutput(o, moved)
  PROVE  DrawInv'
<1>1. PICK n \in OutputState : n = NewOutput("unlocked")
  BY NewOutputType
<1>2. PICK s0 : s0 = [out EXCEPT ![o] = n]
  OBVIOUS
<1>3. s0 \in [Output -> OutputState] /\ \A q \in Output \ {o} : s0[q] = out[q]
  BY <1>2 DEF TypeOK
<1>4. PICK st : st = Queued(s0, moved)
  OBVIOUS
<1>5. st \in [Output -> OutputState] /\ \A q \in Output \ {o} : Asked(st[q], out[q])
  BY <1>3, <1>4, QueuedType, QueuedAsks
<1>6. out' = st \/ MaybeContinueToLocking(st, connected \ {o})
  BY <1>1, <1>2, <1>4 DEF RemoveOutput
<1>7. \A q \in Output : Asked(out'[q], st[q])
  <2>1. CASE out' = st
    BY <2>1 DEF Asked
  <2>2. CASE MaybeContinueToLocking(st, connected \ {o})
    BY <2>2, <1>5, ContinueFacts
  <2> QED BY <2>1, <2>2, <1>6
<1>8. /\ connected' = connected \ {o} /\ connected \subseteq Output
      /\ shown' = [shown EXCEPT ![o] = "nothing"] /\ shown \in [Output -> Content]
      /\ animated' = animated \ {o} /\ UNCHANGED <<monitorsActive, sessionActive>>
  BY DEF RemoveOutput, TypeOK, power
<1> SUFFICES ASSUME Active, NEW q \in connected \ {o}
             PROVE  Drawn(out'[q], shown'[q] = "nothing", q \in animated')
  BY <1>8 DEF DrawInv, Active
<1>9. Drawn(out[q], shown[q] = "nothing", q \in animated)
  BY DEF DrawInv
<1>10. out[q] \in OutputState /\ st[q] \in OutputState
  BY <1>5, <1>8 DEF TypeOK
<1>11. Asked(st[q], out[q]) /\ Asked(out'[q], st[q])
  BY <1>5, <1>7, <1>8
<1>12. Drawn(out'[q], shown[q] = "nothing", q \in animated)
  <2>1. Drawn(st[q], shown[q] = "nothing", q \in animated)
    BY <1>9, <1>10, <1>11, AskedDraws
  <2> QED BY <2>1, <1>10, <1>11, AskedDraws
<1>13. shown'[q] = shown[q] /\ (q \in animated' <=> q \in animated)
  BY <1>8
<1> QED BY <1>12, <1>13 DEF Drawn

\* A render lights the screen and remembers the animations, or it fails.
LEMMA RedrawDraws ==
  ASSUME TypeOK, DrawInv, NEW o \in Output, NEW res \in RenderResult(o), Redraw(o, res)
  PROVE  DrawInv'
<1>1. PICK n : n = Rendered(o, res)
  OBVIOUS
<1>2. PICK st : st = [out EXCEPT ![o] = n]
  OBVIOUS
<1>3. /\ n \in OutputState
      /\ n.redraw = AfterRender(out[o].redraw, res)
      /\ n.remain = IF monitorsActive THEN o \in animated ELSE out[o].remain
      /\ n.failed = (Active /\ res \in {"early", "late"})
  BY <1>1, RenderedFacts
<1>4. /\ st \in [Output -> OutputState] /\ st[o] = n
      /\ \A q \in Output \ {o} : st[q] = out[q]
  BY <1>2, <1>3 DEF TypeOK
<1>5. \A q \in Output : Asked(out'[q], st[q])
  <2>1. out' = Unlocked(st) \/ out' = st
    BY <1>1, <1>2 DEF Redraw
  <2>2. CASE out' = Unlocked(st)
    BY <2>2, <1>4, UnlockedFacts
  <2>3. CASE out' = st
    BY <2>3 DEF Asked
  <2> QED BY <2>1, <2>2, <2>3
<1>6. /\ UNCHANGED <<connected, monitorsActive, sessionActive, animated>>
      /\ connected \subseteq Output /\ shown \in [Output -> Content]
      /\ shown' = IF res = "submitted"
                    THEN [shown EXCEPT ![o] = IF IsLocked(lock) THEN "lock" ELSE "session"]
                    ELSE shown
  BY <1>1, <1>2 DEF Redraw, TypeOK, power, SendFrameCallbacks
<1>7. /\ \A q \in Output \ {o} : shown'[q] = shown[q]
      /\ res = "submitted" => shown'[o] # "nothing"
      /\ res # "submitted" => shown'[o] = shown[o]
  BY <1>6
<1> SUFFICES ASSUME Active, NEW q \in connected
             PROVE  Drawn(st[q], shown'[q] = "nothing", q \in animated)
  <2>1. connected \subseteq Output
    BY <1>6
  <2> QED BY <1>4, <1>5, <1>6, <2>1, AskedDraws DEF DrawInv, Active
<1>8. CASE q = o
  <2>1. res \in {"submitted", "early", "late", "noDamage"}
    BY DEF RenderResult, Active
  <2>2. n.remain = (o \in animated) /\ n.failed = (res \in {"early", "late"})
    BY <1>3 DEF Active
  <2>3. CASE res = "submitted"
    BY <1>3, <1>4, <1>7, <1>8, <2>2, <2>3 DEF Drawn, AfterRender
  <2>4. CASE res = "noDamage"
    <3>1. shown[o] # "nothing"
      BY <2>4 DEF RenderResult
    <3> QED BY <1>3, <1>4, <1>7, <1>8, <2>2, <2>4, <3>1 DEF Drawn, AfterRender
  <2>5. CASE res \in {"early", "late"}
    BY <1>4, <1>8, <2>2, <2>5 DEF Drawn
  <2> QED BY <2>1, <2>3, <2>4, <2>5
<1>9. CASE q # o
  BY <1>4, <1>6, <1>7, <1>9 DEF DrawInv
<1> QED BY <1>8, <1>9

\* Every step keeps outputs drawing.
LEMMA DrawInvNext == ASSUME Inv, DrawInv, [Next]_vars PROVE DrawInv'
<1>1. TypeOK /\ DeadlineIffWaiting
  BY DEF Inv
<1>2. CASE LockNext
  BY <1>1, <1>2, LockSteps, AskingDraws
<1>3. CASE ClientNext
  BY <1>1, <1>3, ClientSteps, AskingDraws
<1>4. CASE PowerOff \/ PowerOn \/ PauseSession \/ ActivateSession \/ StartRedrawing \/ UNCHANGED vars
  BY <1>1, <1>4, PowerSteps, AskingDraws
<1>5. CASE TimerNext
  BY <1>5, TimersDraw
<1>6. ASSUME NEW o \in Output, NEW moved \in SUBSET Output, AddOutput(o, moved) \/ RemoveOutput(o, moved)
      PROVE  DrawInv'
  BY <1>1, <1>6, AddDraws, RemoveDraws
<1>7. ASSUME NEW o \in Output, NEW res \in RenderResult(o), Redraw(o, res) PROVE DrawInv'
  BY <1>1, <1>7, RedrawDraws
<1> QED BY <1>2, <1>3, <1>4, <1>5, <1>6, <1>7 DEF Next, OutputNext, RedrawNext

\* Outputs are kept drawing in every behaviour.
LEMMA DrawInvariance == ASSUME NoQuirks PROVE Spec => []DrawInv
<1>1. Init => DrawInv
  BY DEF Init, DrawInv
<1>2. Inv /\ DrawInv /\ [Next]_vars => DrawInv'
  BY DrawInvNext
<1> QED BY <1>1, <1>2, Invariance, PTL DEF Spec

(***************************************************************************)
(* A powered screen that shows nothing, after it was plugged in, powered   *)
(* on or given back by another virtual terminal, is about to be drawn, or  *)
(* that failed (ymir.rs:3092-3101, tty.rs:743).                            *)
(***************************************************************************)
THEOREM DarkScreensDrawn == ASSUME NoQuirks PROVE Spec => []DarkScreensRedrawn
<1>1. DrawInv => DarkScreensRedrawn
  BY DEF DrawInv, Drawn, DarkScreensRedrawn, Pending
<1> QED BY <1>1, DrawInvariance, PTL

(***************************************************************************)
(* An ongoing animation is never stopped by a frame without damage, nor by *)
(* a vblank: its output goes idle only by a render that fails early        *)
(* (tty.rs:1808, 1846).                                                    *)
(***************************************************************************)
THEOREM AnimationsDrawn == ASSUME NoQuirks PROVE Spec => []AnimationsKeepDrawing
<1>1. DrawInv => AnimationsKeepDrawing
  BY DEF DrawInv, Drawn, AnimationsKeepDrawing
<1> QED BY <1>1, DrawInvariance, PTL
=============================================================================
