---------------------------- MODULE Transaction ----------------------------
(***************************************************************************)
(* Transactions between clients (src/src/utils/transaction.rs) and what    *)
(* the compositor does with them: a change of the layout resizes several   *)
(* windows, and the commits with which their clients answer are held back  *)
(* until all have answered and rendered, or 300 ms have passed.            *)
(*                                                                         *)
(* A transaction is reference-counted.  References are held by windows     *)
(* (for their next configure, and for each configure that was sent and not *)
(* yet answered) and by commits whose buffer is not rendered yet; dropping *)
(* the last one completes the transaction.  Everything runs on the event   *)
(* loop of one thread; each action is one callback or one request.         *)
(*                                                                         *)
(* An operator whose name starts with Bad is the next definition with a    *)
(* plausible mistake; the properties are tried against it.                 *)
(***************************************************************************)
EXTENDS Integers, FiniteSets, SequencesExt

CONSTANTS
  Window, Client, Tx,    \* Tx: identities of transactions, each used once
  NoTx,
  ClientOf,              \* the client of each window
  DisableTransactions    \* debug.disable_transactions of the configuration

ASSUME NoTxType == NoTx \notin Tx
ASSUME ClientOfType == ClientOf \in [Window -> Client]
ASSUME DisableType == DisableTransactions \in BOOLEAN

VARIABLES
  mapped,      \* the windows that are mapped
  next,        \* Mapped::transaction_for_next_configure
  sent,        \* serial of the last configure sent to each window
  acked,       \* serial that the window has acknowledged last
  pending,     \* Mapped::pending_transactions
  queue,       \* the commits of each surface that are not applied yet
  created,     \* the transactions that have been made
  completed,   \* Inner::completed
  notify,      \* Inner::notifications, by the window that asked for one
  timer,       \* Deadline, and what became of the timer
  cleared,     \* the blocker_cleared channel
  closing      \* transactions that a close animation waits for

vars == <<mapped, next, sent, acked, pending, queue, created, completed, notify,
          timer, cleared, closing>>

Commit == [on : Tx \cup {NoTx},       \* the transaction blocker added to it
           dmabuf : BOOLEAN,          \* whether its buffer is being rendered
           holds : Tx \cup {NoTx}]    \* transaction_for_dmabuf

TimerState == {"none", "armed", "pinged", "fired", "removed"}

Init ==
  /\ mapped = Window
  /\ next = [w \in Window |-> NoTx]
  /\ sent = [w \in Window |-> 0]
  /\ acked = [w \in Window |-> 0]
  /\ pending = [w \in Window |-> <<>>]
  /\ queue = [w \in Window |-> <<>>]
  /\ created = {} /\ completed = {} /\ closing = {} /\ cleared = {}
  /\ notify = [t \in Tx |-> {}]
  /\ timer = [t \in Tx |-> "none"]

(***************************************************************************)
(* References and completion                                               *)
(***************************************************************************)
\* Whether there is a reference to t, with these values of the three holders.
Held(t, nx, pd, q) ==
  \E w \in Window : \/ nx[w] = t
                    \/ \E p \in ToSet(pd[w]) : p.tx = t
                    \/ \E c \in ToSet(q[w]) : c.holds = t

\* The transactions whose last reference is gone.
BadDropped(made, nx, pd, q) == {t \in made : ~Held(t, nx, pd, [w \in Window |-> <<>>])}
Dropped(made, nx, pd, q) == {t \in made : ~Held(t, nx, pd, q)}

\* register_deadline_timer
BadRegistered(t) == timer

Registered(t) == [timer EXCEPT ![t] = IF @ = "none" THEN "armed" ELSE @]

BadComplete(dropped, fired, nt, tm) ==
  /\ completed' = completed \cup dropped \cup fired
  /\ cleared' = cleared \cup {ClientOf[w] : w \in UNION {nt[t] : t \in dropped}}
  /\ notify' = [t \in Tx |-> IF t \in dropped \cup fired THEN {} ELSE nt[t]]
  /\ timer' = [t \in Tx |-> IF t \in fired THEN "fired"
                            ELSE IF t \in dropped /\ tm[t] = "armed" THEN "pinged"
                            ELSE tm[t]]

\* Drop and the timer complete transactions: every client that asked is notified
\* once.  A drop also removes the timer, by a ping.
Complete(dropped, fired, nt, tm) ==
  /\ completed' = completed \cup dropped \cup fired
  /\ cleared' = cleared \cup {ClientOf[w] : w \in UNION {nt[t] : t \in dropped \cup fired}}
  /\ notify' = [t \in Tx |-> IF t \in dropped \cup fired THEN {} ELSE nt[t]]
  /\ timer' = [t \in Tx |-> IF t \in fired THEN "fired"
                            ELSE IF t \in dropped /\ tm[t] = "armed" THEN "pinged"
                            ELSE tm[t]]

(***************************************************************************)
(* The commits of a surface are applied in order, each once it is ready:   *)
(* its buffer is rendered and its transaction released.  This happens when *)
(* a client commits and when blocker_cleared is called for it.             *)
(***************************************************************************)
Ready(c, done) == ~c.dmabuf /\ (c.on = NoTx \/ c.on \in done)

FirstBlocked(s, done) ==
  CHOOSE i \in DOMAIN s : /\ ~Ready(s[i], done)
                          /\ \A j \in DOMAIN s : ~Ready(s[j], done) => i <= j

Unapplied(s, done) ==
  IF \A i \in DOMAIN s : Ready(s[i], done) THEN <<>>
  ELSE SubSeq(s, FirstBlocked(s, done), Len(s))

BlockerCleared(q, done, clients) ==
  [w \in Window |-> IF ClientOf[w] \in clients THEN Unapplied(q[w], done) ELSE q[w]]

(***************************************************************************)
(* Actions                                                                 *)
(***************************************************************************)
\* A change of the layout requests sizes of the windows in ws with clones of a
\* new transaction (each clone replaces the window's previous one), and drops
\* its own clone in the end.
Request(t, ws) ==
  LET nx == [w \in Window |-> IF w \in ws THEN t ELSE next[w]]
  IN  /\ t \in Tx \ created
      /\ ws # {} /\ ws \subseteq mapped
      /\ next' = nx
      /\ created' = created \cup {t}
      /\ Complete(Dropped(created \cup {t}, nx, pending, queue), {}, notify, timer)
      /\ UNCHANGED <<mapped, sent, acked, pending, queue, closing>>

\* A window is closed or unmapped.  Its neighbours in ws are resized, its close
\* animation waits for them, and the deadline is set unless nobody is.
Close(w, t, ws) ==
  LET nx == [v \in Window |-> IF v = w THEN NoTx ELSE IF v \in ws THEN t ELSE next[v]]
      pd == [pending EXCEPT ![w] = <<>>]
  IN  /\ w \in mapped
      /\ t \in Tx \ created
      /\ ws \subseteq mapped \ {w}
      /\ mapped' = mapped \ {w}
      /\ next' = nx /\ pending' = pd
      /\ created' = created \cup {t}
      /\ closing' = closing \cup {t}
      /\ Complete(Dropped(created \cup {t}, nx, pd, queue), {}, notify,
                  IF ws = {} THEN timer ELSE Registered(t))
      /\ UNCHANGED <<sent, acked, queue>>

\* send_pending_configure.  With nothing to send the transaction is dropped.
SendConfigure(w) ==
  /\ w \in mapped
  /\ sent' = [sent EXCEPT ![w] = @ + 1]
  /\ pending' = IF next[w] = NoTx THEN pending
                ELSE [pending EXCEPT ![w] = Append(@, [serial |-> sent[w] + 1, tx |-> next[w]])]
  /\ next' = [next EXCEPT ![w] = NoTx]
  /\ UNCHANGED <<mapped, acked, queue, created, completed, notify, timer, cleared, closing>>

NothingToSend(w) ==
  LET nx == [next EXCEPT ![w] = NoTx]
  IN  /\ w \in mapped
      /\ next[w] # NoTx
      /\ next' = nx
      /\ Complete(Dropped(created, nx, pending, queue), {}, notify, timer)
      /\ UNCHANGED <<mapped, sent, acked, pending, queue, created, closing>>

\* take_pending_transaction drops all but the last of the transactions that a
\* commit for this serial answers.
Answered(s, serial) == {i \in DOMAIN s : \A j \in 1..i : s[j].serial <= serial}
Unanswered(s, serial) == SubSeq(s, Cardinality(Answered(s, serial)) + 1, Len(s))
TakeTx(s, serial) ==
  IF Answered(s, serial) = {} THEN NoTx ELSE s[Cardinality(Answered(s, serial))].tx

\* The pre-commit hook of a mapped toplevel.
PreCommit(w, serial, dmabuf) ==
  LET t      == TakeTx(pending[w], serial)
      pd     == [pending EXCEPT ![w] = Unanswered(@, serial)]
      joins  == t # NoTx /\ t \notin completed /\ ~DisableTransactions
      waits  == joins /\ Held(t, next, pd, queue)
      c      == [on     |-> IF waits THEN t ELSE NoTx,
                 dmabuf |-> dmabuf,
                 holds  |-> IF joins /\ dmabuf THEN t ELSE NoTx]
      q      == [queue EXCEPT ![w] = Append(@, c)]
      nt     == IF waits THEN [notify EXCEPT ![t] = @ \cup {w}] ELSE notify
      tm     == IF joins THEN Registered(t) ELSE timer
      gone   == Dropped(created, next, pd, q)
  IN  /\ w \in mapped
      /\ serial \in acked[w]..sent[w]
      /\ acked' = [acked EXCEPT ![w] = serial]
      /\ pending' = pd
      /\ Complete(gone, {}, nt, tm)
      /\ queue' = BlockerCleared(q, completed \cup gone, {ClientOf[w]})
      /\ UNCHANGED <<mapped, next, sent, created, closing>>

\* The callback of a dmabuf source: the buffer of the i-th commit is rendered.
DmabufReady(w, i) ==
  LET q    == [queue EXCEPT ![w][i].dmabuf = FALSE, ![w][i].holds = NoTx]
      gone == Dropped(created, next, pending, q)
  IN  /\ i \in DOMAIN queue[w]
      /\ queue[w][i].dmabuf
      /\ Complete(gone, {}, notify, timer)
      /\ queue' = BlockerCleared(q, completed \cup gone, {ClientOf[w]})
      /\ UNCHANGED <<mapped, next, sent, acked, pending, created, closing>>

\* The deadline timer.  It may also run while its removal is under way.
DeadlineReached(t) ==
  /\ timer[t] \in {"armed", "pinged"}
  /\ Complete({}, {t}, notify, timer)
  /\ UNCHANGED <<mapped, next, sent, acked, pending, queue, created, closing>>

RemoveTimer(t) ==
  /\ timer[t] = "pinged"
  /\ timer' = [timer EXCEPT ![t] = "removed"]
  /\ UNCHANGED <<mapped, next, sent, acked, pending, queue, created, completed, notify,
                 cleared, closing>>

\* State::notify_blocker_cleared, once in every turn of the event loop.
NotifyBlockerCleared ==
  /\ cleared # {}
  /\ queue' = BlockerCleared(queue, completed, cleared)
  /\ cleared' = {}
  /\ UNCHANGED <<mapped, next, sent, acked, pending, created, completed, notify, timer, closing>>

\* A close animation polls its blocker in every frame and starts once released.
StartCloseAnimation(t) ==
  /\ t \in closing \cap completed
  /\ closing' = closing \ {t}
  /\ UNCHANGED <<mapped, next, sent, acked, pending, queue, created, completed, notify,
                 timer, cleared>>

Next ==
  \/ \E t \in Tx, ws \in SUBSET Window :
       \/ Request(t, ws)
       \/ \E w \in Window : Close(w, t, ws)
  \/ \E w \in Window :
       \/ SendConfigure(w) \/ NothingToSend(w)
       \/ \E serial \in acked[w]..sent[w], dmabuf \in BOOLEAN : PreCommit(w, serial, dmabuf)
       \/ \E i \in DOMAIN queue[w] : DmabufReady(w, i)
  \/ \E t \in Tx : DeadlineReached(t) \/ RemoveTimer(t) \/ StartCloseAnimation(t)
  \/ NotifyBlockerCleared

\* Timers run out, buffers are rendered (those of a surface in some order, hence
\* the first one too) and the event loop keeps turning; of the clients nothing
\* is assumed.
Fairness ==
  /\ \A t \in Tx : WF_vars(DeadlineReached(t)) /\ WF_vars(StartCloseAnimation(t))
  /\ \A w \in Window : WF_vars(DmabufReady(w, 1))
  /\ WF_vars(NotifyBlockerCleared)

Spec == Init /\ [][Next]_vars
FairSpec == Spec /\ Fairness
=============================================================================
