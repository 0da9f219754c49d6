----------------------------- MODULE FrameLoop -----------------------------
(***************************************************************************)
(* When the compositor draws (src/src/ymir.rs, src/src/backend/tty.rs):    *)
(* the redraw state of each output, the vblanks and timers that move it,   *)
(* the frame callbacks of the clients, and the session lock, which is      *)
(* reported to its client only when every output shows a locked frame.     *)
(*                                                                         *)
(* The event loop alternates between dispatching events, in any order, and *)
(* redrawing the outputs for which a redraw is queued, until none is.      *)
(* An output that is plugged in again is a new one, with a new state.      *)
(*                                                                         *)
(* An operator whose name starts with Bad is the next definition with a    *)
(* plausible mistake; the properties are tried against it.                 *)
(***************************************************************************)
EXTENDS Integers, FiniteSets

CONSTANTS
  Output,
  Visible,        \* the outputs on which a client shows a window
  EarlyVBlanks,   \* whether the driver delivers vblanks too early
  Hotplug         \* whether outputs come and go

ASSUME VisibleType == Visible \subseteq Output
ASSUME QuirksType == {EarlyVBlanks, Hotplug} \subseteq BOOLEAN

VARIABLES
  connected,       \* the keys of output_state
  out,             \* output_state
  timers,          \* the estimated vblank timers on the event loop
  flips,           \* outputs with a submitted frame whose vblank is to come
  throttled,       \* outputs with a timer of VBlankThrottle
  shown,           \* what the last frame submitted to each output shows
  animated,        \* outputs with an ongoing animation
  wants,           \* outputs whose client waits for a frame callback
  onScreen,        \* outputs whose client's window was in the last frame rendered
  sent,            \* outputs whose client has had one in this refresh cycle
  monitorsActive,  \* monitors_active
  sessionActive,   \* whether the DRM devices are active
  lock,            \* lock_state
  locker,          \* whether the client that locks is alive
  lockTimers,      \* the lock deadline timers on the event loop
  redrawing,       \* whether redraw_queued_outputs is running
  panicked         \* an unreachable!() was reached

hardware == <<flips, throttled, shown>>
clients == <<animated, wants, onScreen, sent>>
power == <<monitorsActive, sessionActive>>
lockVars == <<lock, locker, lockTimers>>
vars == <<connected, out, timers, hardware, clients, power, lockVars, redrawing, panicked>>

\* RedrawState; "vblankRedraw" is WaitingForVBlank with a redraw needed and
\* "estimatedQueued" is WaitingForEstimatedVBlankAndQueued.
RedrawState == {"idle", "queued", "vblank", "vblankRedraw", "estimated", "estimatedQueued"}
LockState == {"unlocked", "waiting", "locking", "locked"}
Content == {"nothing", "session", "lock"}

OutputState == [redraw : RedrawState,
                remain : BOOLEAN,                       \* unfinished_animations_remain
                lockRender : {"unlocked", "locked"},    \* lock_render_state
                lockSurface : {"none", "new", "mapped"},
                stale : BOOLEAN,    \* (history) changed since it was last redrawn
                failed : BOOLEAN]   \* (history) the last redraw failed on an active output

EstimatedStates == {"estimated", "estimatedQueued"}
QueuedStates == {"queued", "estimatedQueued"}
VBlankStates == {"vblank", "vblankRedraw"}

IsLocked(l) == l \in {"locking", "locked"}

BadQueue(r) == CASE r = "estimated" -> "estimatedQueued"
                 [] r \in {"idle", "vblank", "vblankRedraw"} -> "queued"
                 [] OTHER -> r

\* RedrawState::queue_redraw
Queue(r) == CASE r = "idle" -> "queued"
              [] r = "estimated" -> "estimatedQueued"
              [] r = "vblank" -> "vblankRedraw"
              [] OTHER -> r

\* queue_redraw for the outputs in os.
Queued(st, os) == [o \in Output |-> IF o \in os THEN [st[o] EXCEPT !.redraw = Queue(@), !.stale = TRUE] ELSE st[o]]

NewOutput(l) == [redraw |-> "idle", remain |-> FALSE,
                 lockRender |-> IF IsLocked(l) THEN "locked" ELSE "unlocked",
                 lockSurface |-> "none", stale |-> FALSE, failed |-> FALSE]

Init ==
  /\ connected = {} /\ out = [o \in Output |-> NewOutput("unlocked")]
  /\ timers = [o \in Output |-> 0]
  /\ flips = {} /\ throttled = {} /\ shown = [o \in Output |-> "nothing"]
  /\ animated = {} /\ wants = {} /\ onScreen = {} /\ sent = {}
  /\ monitorsActive = TRUE /\ sessionActive = TRUE
  /\ lock = "unlocked" /\ locker = FALSE /\ lockTimers = 0
  /\ redrawing = FALSE /\ panicked = FALSE

(***************************************************************************)
(* The session lock                                                        *)
(***************************************************************************)
AllLocked(st, on) == \A o \in on : st[o].lockRender = "locked"

\* unlock(), on the output states st.
Unlocked(st) ==
  Queued([o \in Output |-> [st[o] EXCEPT !.lockSurface = "none"]], connected)

\* continue_to_locking removes the deadline timer and has all outputs redrawn.
ContinueToLocking(st, on) ==
  IF lock # "waiting" THEN lock' = lock /\ lockTimers' = lockTimers /\ out' = st
  ELSE /\ lock' = IF on = {} THEN "locked" ELSE "locking"
       /\ lockTimers' = lockTimers - 1
       /\ out' = Queued(st, on)

\* maybe_continue_to_locking
MaybeContinueToLocking(st, on) ==
  IF \A o \in on : st[o].lockSurface = "mapped"
    THEN ContinueToLocking(st, on)
    ELSE lock' = lock /\ lockTimers' = lockTimers /\ out' = st

\* lock(), for a client that may lock: refused while another one locks or has
\* locked and lives.  A dead client's lock is taken over.
Lock ==
  /\ ~redrawing
  /\ \/ lock = "unlocked"
     \/ lock = "locked" /\ ~locker
  /\ lock' = IF lock = "unlocked" /\ connected # {} THEN "waiting" ELSE "locked"
  /\ lockTimers' = IF lock' = "waiting" THEN lockTimers + 1 ELSE lockTimers
  /\ locker' = TRUE
  /\ UNCHANGED <<connected, out, timers, hardware, clients, power, redrawing, panicked>>

LockDeadline ==
  /\ ~redrawing
  /\ lockTimers > 0
  /\ IF lock = "waiting" THEN ContinueToLocking(out, connected)
     ELSE /\ lockTimers' = lockTimers - 1
          /\ UNCHANGED <<lock, out>>
  /\ UNCHANGED <<connected, timers, hardware, clients, power, locker, redrawing, panicked>>

\* new_lock_surface
NewLockSurface(o) ==
  /\ ~redrawing
  /\ locker /\ lock # "unlocked" /\ o \in connected
  /\ out' = [out EXCEPT ![o].lockSurface = "new"]
  /\ UNCHANGED <<connected, timers, hardware, clients, power, lockVars, redrawing, panicked>>

\* The commit of a lock surface.
CommitLockSurface(o) ==
  LET st == [out EXCEPT ![o].lockSurface = "mapped"]
  IN  /\ ~redrawing
      /\ locker /\ o \in connected /\ out[o].lockSurface # "none"
      /\ IF lock = "waiting" THEN MaybeContinueToLocking(st, connected)
         ELSE /\ out' = Queued(st, {o})
              /\ UNCHANGED <<lock, lockTimers>>
      /\ UNCHANGED <<connected, timers, hardware, clients, power, locker, redrawing, panicked>>

\* The client dies; its surfaces may or may not count as mapped afterwards.
LockerDies(mapped) ==
  /\ ~redrawing
  /\ locker
  /\ locker' = FALSE
  /\ out' = [o \in Output |->
               IF out[o].lockSurface = "mapped" /\ ~mapped THEN [out[o] EXCEPT !.lockSurface = "new"]
               ELSE out[o]]
  /\ UNCHANGED <<connected, timers, hardware, clients, power, lock, lockTimers,
                 redrawing, panicked>>

\* SessionLockHandler::unlock, which only a live client that has been told
\* "locked" can ask for.
Unlock ==
  /\ ~redrawing
  /\ lock = "locked" /\ locker
  /\ lock' = "unlocked" /\ locker' = FALSE
  /\ out' = Unlocked(out)
  /\ monitorsActive' = TRUE
  /\ UNCHANGED <<connected, timers, hardware, clients, sessionActive, lockTimers,
                 redrawing, panicked>>

(***************************************************************************)
(* Frame callbacks: a window in the last frame gets at most one in a        *)
(* refresh cycle of its output.                                            *)
(***************************************************************************)
BadSendFrameCallbacks(o, on, before) ==
  /\ wants' = IF o \in on \ sent THEN wants \ {o} ELSE wants
  /\ sent' = IF o \in on THEN before \cup {o} ELSE before
  /\ onScreen' = on /\ animated' = animated

\* send_frame_callbacks, when the windows on the outputs in on are on screen and
\* those in before have had a callback in this cycle.
SendFrameCallbacks(o, on, before) ==
  /\ wants' = IF o \in on \ before THEN wants \ {o} ELSE wants
  /\ sent' = IF o \in on THEN before \cup {o} ELSE before
  /\ onScreen' = on /\ animated' = animated

(***************************************************************************)
(* Redrawing an output                                                     *)
(***************************************************************************)
\* What backend.render can come to.  "early" fails before there is a frame
\* and "late" while it is rendered or queued; there is no damage only if the
\* output shows what it should already.
RenderResult(o) ==
  IF ~monitorsActive THEN {"inactive"}
  ELSE IF ~sessionActive THEN {"early"}
  ELSE {"submitted", "early", "late"}
         \cup (IF shown[o] = (IF IsLocked(lock) THEN "lock" ELSE "session") THEN {"noDamage"} ELSE {})

\* The redraw state after a render.
AfterRender(r, res) ==
  CASE res = "submitted" -> "vblank"
    [] res \in {"noDamage", "late"} -> "estimated"
    [] OTHER -> IF r = "estimatedQueued" THEN "estimated" ELSE "idle"

\* Submitting a frame removes the timer that the redraw state has a token of;
\* with nothing submitted, queue_estimated_vblank_timer keeps it or adds one.
BadTimersAfter(n, r, res) ==
  CASE res \in {"noDamage", "late"} -> n + 1
    [] res = "submitted" /\ r = "estimatedQueued" -> n - 1
    [] OTHER -> n

TimersAfter(n, r, res) ==
  CASE res \in {"noDamage", "late"} /\ r = "queued" -> n + 1
    [] res = "submitted" /\ r = "estimatedQueued" -> n - 1
    [] OTHER -> n

\* update_primary_scanout_output, when the frame is rendered: the windows that may
\* be on screen after it.
OnScreenAfter(o, res) ==
  LET rendered == IF IsLocked(lock) \/ o \notin Visible THEN onScreen \ {o} ELSE onScreen \cup {o}
  IN  CASE res \in {"submitted", "noDamage"} -> {rendered}
        [] res = "late" -> {rendered, onScreen}
        [] OTHER -> {onScreen}

\* Whether lock_render_state follows the lock state after this result.
BadRenderShows(res) == TRUE

RenderShows(res) == res \in {"submitted", "noDamage", "inactive"}

\* How a redraw of output o, which has left the states st, moves the lock.
AfterRedraw(st, o) ==
  IF lock # "locking" THEN lock
  ELSE IF st[o].lockRender = "unlocked" THEN "unlocked"
  ELSE IF AllLocked(st, connected) THEN "locked"
  ELSE "locking"

\* The state of output o after it is rendered.
Rendered(o, res) ==
  [out[o] EXCEPT
     !.redraw     = AfterRender(@, res),
     !.remain     = IF monitorsActive THEN o \in animated ELSE @,
     !.lockRender = IF ~RenderShows(res) THEN @ ELSE IF IsLocked(lock) THEN "locked" ELSE "unlocked",
     !.stale      = FALSE,
     !.failed     = monitorsActive /\ sessionActive /\ res \in {"early", "late"}]

Redraw(o, res) ==
  LET st == [out EXCEPT ![o] = Rendered(o, res)]
      failed == lock = "locking" /\ AfterRedraw(st, o) = "unlocked"
  IN  /\ redrawing
      /\ o \in connected /\ out[o].redraw \in QueuedStates
      /\ res \in RenderResult(o)
      /\ out' = IF failed THEN Unlocked(st) ELSE st
      /\ lock' = AfterRedraw(st, o)
      /\ locker' = (locker /\ ~failed)
      /\ flips' = IF res = "submitted" THEN flips \cup {o} ELSE flips
      /\ shown' = IF res = "submitted"
                    THEN [shown EXCEPT ![o] = IF IsLocked(lock) THEN "lock" ELSE "session"]
                    ELSE shown
      /\ \E on \in OnScreenAfter(o, res) :
           SendFrameCallbacks(o, on, IF res = "submitted" THEN sent \ {o} ELSE sent)
      /\ redrawing' = \E p \in connected : out'[p].redraw \in QueuedStates
      /\ timers' = [timers EXCEPT ![o] = TimersAfter(@, out[o].redraw, res)]
      /\ UNCHANGED <<connected, throttled, power, lockTimers, panicked>>

\* refresh_and_flush_clients, once the events at hand are dispatched.
StartRedrawing ==
  /\ ~redrawing
  /\ \E o \in connected : out[o].redraw \in QueuedStates
  /\ redrawing' = TRUE
  /\ UNCHANGED <<connected, out, timers, hardware, clients, power, lockVars, panicked>>

(***************************************************************************)
(* VBlanks and timers                                                      *)
(***************************************************************************)
\* on_vblank once it is not throttled.  A redraw state with the token of a timer
\* is overwritten, and the timer stays on the event loop.
BadPresented(o) ==
  LET again == out[o].redraw # "vblank"
  IN  /\ out' = [out EXCEPT ![o].redraw = IF again THEN "queued" ELSE "idle"]
      /\ IF again THEN UNCHANGED clients ELSE SendFrameCallbacks(o, onScreen, sent)

Presented(o) ==
  LET again == out[o].redraw # "vblank" \/ out[o].remain
  IN  /\ out' = [out EXCEPT ![o].redraw = IF again THEN "queued" ELSE "idle"]
      /\ IF again THEN UNCHANGED clients ELSE SendFrameCallbacks(o, onScreen, sent)

VBlank(o) ==
  /\ ~redrawing
  /\ o \in flips
  /\ flips' = flips \ {o}
  /\ \/ Presented(o) /\ UNCHANGED throttled
     \/ EarlyVBlanks /\ throttled' = throttled \cup {o} /\ UNCHANGED <<out, clients>>
  /\ UNCHANGED <<connected, timers, shown, power, lockVars, redrawing, panicked>>

\* The timer of VBlankThrottle outlives its output.
ThrottleTimer(o) ==
  /\ ~redrawing
  /\ o \in throttled
  /\ throttled' = throttled \ {o}
  /\ IF o \in connected THEN Presented(o) ELSE UNCHANGED <<out, clients>>
  /\ UNCHANGED <<connected, timers, flips, shown, power, lockVars, redrawing, panicked>>

\* A vblank without a frame, as some kernels send.
RogueVBlank(o) ==
  /\ ~redrawing
  /\ o \in connected
  /\ Presented(o)
  /\ UNCHANGED <<connected, timers, hardware, power, lockVars, redrawing, panicked>>

BadEstimatedStep(r) == "idle"

\* What on_estimated_vblank_timer makes of the redraw state.
EstimatedStep(r) == IF r = "estimatedQueued" THEN "queued" ELSE "idle"

\* on_estimated_vblank_timer.  A frame may be submitted again from here on, so a
\* new cycle of frame callbacks begins.
EstimatedVBlank(o) ==
  LET left  == EstimatedStep(out[o].redraw)
      again == left = "idle" /\ out[o].remain
  IN  /\ ~redrawing
      /\ o \in connected /\ timers[o] > 0
      /\ timers' = [timers EXCEPT ![o] = @ - 1]
      /\ panicked' = (panicked \/ out[o].redraw \notin EstimatedStates)
      /\ out' = [out EXCEPT ![o].redraw = IF again THEN "queued" ELSE left]
      /\ IF again \/ left = "queued"
           THEN sent' = sent \ {o} /\ UNCHANGED <<animated, wants, onScreen>>
           ELSE SendFrameCallbacks(o, onScreen, sent \ {o})
      /\ UNCHANGED <<connected, hardware, power, lockVars, redrawing>>

(***************************************************************************)
(* Everything else that has outputs redrawn                                *)
(***************************************************************************)
\* Input, a client or a request changes something on output o.
QueueRedraw(o) ==
  /\ ~redrawing
  /\ o \in connected
  /\ out' = Queued(out, {o})
  /\ UNCHANGED <<connected, timers, hardware, clients, power, lockVars, redrawing, panicked>>

\* A client commits and asks for a frame callback.
Commit(o) ==
  /\ ~redrawing
  /\ o \in (connected \cap Visible) \ wants
  /\ wants' = wants \cup {o}
  /\ out' = Queued(out, {o})
  /\ UNCHANGED <<connected, timers, hardware, animated, onScreen, sent, power, lockVars, redrawing,
                 panicked>>

\* The timer that fires every second, for clients without a callback for that long.
FallbackTimer(o) ==
  /\ ~redrawing
  /\ o \in wants
  /\ wants' = wants \ {o}
  /\ UNCHANGED <<connected, out, timers, hardware, animated, onScreen, sent, power, lockVars, redrawing,
                 panicked>>

StartAnimation(o) ==
  /\ ~redrawing
  /\ o \in (connected \cap Visible) \ animated
  /\ animated' = animated \cup {o}
  /\ out' = Queued(out, {o})
  /\ UNCHANGED <<connected, timers, hardware, wants, onScreen, sent, power, lockVars, redrawing,
                 panicked>>

\* advance_animations, when those of output o have run out.
AnimationEnds(o) ==
  /\ ~redrawing
  /\ o \in animated
  /\ animated' = animated \ {o}
  /\ UNCHANGED <<connected, out, timers, hardware, wants, onScreen, sent, power, lockVars, redrawing,
                 panicked>>

(***************************************************************************)
(* Outputs, power and virtual terminals                                    *)
(***************************************************************************)
\* add_output; the outputs in moved change their position (reposition_outputs).
AddOutput(o, moved) ==
  /\ ~redrawing
  /\ Hotplug \/ connected = {}
  /\ o \notin connected /\ moved \subseteq connected
  /\ connected' = connected \cup {o}
  /\ out' = Queued([out EXCEPT ![o] = NewOutput(lock)], moved \cup {o})
  /\ UNCHANGED <<timers, hardware, clients, power, lockVars, redrawing, panicked>>

BadAfterRemoval(st, on) == lock

\* How the removal of an output, which leaves the states st of those in on, moves a
\* lock that waits for frames.
AfterRemoval(st, on) == IF AllLocked(st, on) THEN "locked" ELSE "locking"

\* remove_output: the timers and the vblank of a removed output come to nothing.
RemoveOutput(o, moved) ==
  LET on == connected \ {o}
      st == Queued([out EXCEPT ![o] = NewOutput("unlocked")], moved)
  IN  /\ ~redrawing /\ Hotplug
      /\ o \in connected /\ moved \subseteq on
      /\ connected' = on
      /\ IF lock = "locking"
           THEN /\ lock' = AfterRemoval(st, on)
                /\ out' = st /\ lockTimers' = lockTimers
           ELSE MaybeContinueToLocking(st, on)
      /\ timers' = [timers EXCEPT ![o] = 0]
      /\ flips' = flips \ {o}
      /\ shown' = [shown EXCEPT ![o] = "nothing"]
      /\ animated' = animated \ {o} /\ wants' = wants \ {o}
      /\ onScreen' = onScreen \ {o} /\ sent' = sent \ {o}
      /\ UNCHANGED <<throttled, power, locker, redrawing, panicked>>

\* deactivate_monitors clears the framebuffers.
PowerOff ==
  /\ ~redrawing
  /\ monitorsActive
  /\ monitorsActive' = FALSE
  /\ shown' = [o \in Output |-> "nothing"]
  /\ UNCHANGED <<connected, out, timers, flips, throttled, clients, sessionActive, lockVars,
                 redrawing, panicked>>

BadPowerOn ==
  /\ ~redrawing
  /\ ~monitorsActive
  /\ monitorsActive' = TRUE
  /\ UNCHANGED <<connected, out, timers, hardware, clients, sessionActive, lockVars, redrawing,
                 panicked>>

\* activate_monitors
PowerOn ==
  /\ ~redrawing
  /\ ~monitorsActive
  /\ monitorsActive' = TRUE
  /\ out' = Queued(out, connected)
  /\ UNCHANGED <<connected, timers, hardware, clients, sessionActive, lockVars, redrawing, panicked>>

\* on_session_event: the user switches to another virtual terminal, which has the
\* screens then, and back, where the state of the surfaces is reset.
PauseSession ==
  /\ ~redrawing
  /\ sessionActive
  /\ sessionActive' = FALSE
  /\ shown' = [o \in Output |-> "nothing"]
  /\ UNCHANGED <<connected, out, timers, flips, throttled, clients, monitorsActive, lockVars, redrawing,
                 panicked>>

ActivateSession ==
  /\ ~redrawing
  /\ ~sessionActive
  /\ sessionActive' = TRUE /\ monitorsActive' = TRUE
  /\ out' = Queued(out, connected)
  /\ UNCHANGED <<connected, timers, hardware, clients, lockVars, redrawing, panicked>>

LockNext ==
  \/ Lock \/ LockDeadline \/ Unlock
  \/ \E mapped \in BOOLEAN : LockerDies(mapped)
  \/ \E o \in Output : NewLockSurface(o) \/ CommitLockSurface(o)

\* A vblank of output o, or a timer in the place of one.
Timed(o) == VBlank(o) \/ ThrottleTimer(o) \/ EstimatedVBlank(o)

TimerNext == \E o \in Output : Timed(o)

ClientNext ==
  \E o \in Output : \/ QueueRedraw(o) \/ Commit(o) \/ FallbackTimer(o)
                    \/ StartAnimation(o) \/ AnimationEnds(o)

OutputNext ==
  \/ \E o \in Output, moved \in SUBSET Output : AddOutput(o, moved) \/ RemoveOutput(o, moved)
  \/ PowerOff \/ PowerOn \/ PauseSession \/ ActivateSession

RedrawNext ==
  \/ StartRedrawing
  \/ \E o \in Output : \E res \in RenderResult(o) : Redraw(o, res)

Next == LockNext \/ TimerNext \/ ClientNext \/ OutputNext \/ RedrawNext

\* With a kernel that sends rogue vblanks.
RogueNext == Next \/ \E o \in Output : RogueVBlank(o)

\* The event loop turns and draws what is queued; vblanks come and timers run out,
\* and each turn of the loop dispatches those that are due, hence strong fairness.
\* Nothing is assumed of clients, users, hotplug or the results of renders.
Fairness ==
  /\ WF_vars(RedrawNext) /\ SF_vars(LockDeadline)
  /\ \A o \in Output : SF_vars(Timed(o))

Spec == Init /\ [][Next]_vars
FairSpec == Spec /\ Fairness
RogueSpec == Init /\ [][RogueNext]_vars
=============================================================================
