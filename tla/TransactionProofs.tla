------------------------- MODULE TransactionProofs -------------------------
(***************************************************************************)
(* What is proved of transactions, for any windows, clients and            *)
(* transactions.                                                           *)
(***************************************************************************)
EXTENDS TransactionProperties, IndexLemmas, SequenceTheorems

(***************************************************************************)
(* Unapplied keeps the commits from the first one that is not ready on.    *)
(***************************************************************************)
LEMMA FirstBlockedIsLeast ==
  ASSUME NEW s \in Seq(Commit), NEW done, NEW k \in DOMAIN s, ~Ready(s[k], done)
  PROVE  /\ FirstBlocked(s, done) \in DOMAIN s
         /\ ~Ready(s[FirstBlocked(s, done)], done)
         /\ \A j \in DOMAIN s : ~Ready(s[j], done) => FirstBlocked(s, done) <= j
<1> DEFINE B == {i \in DOMAIN s : ~Ready(s[i], done)}
<1>1. B \in SUBSET Nat /\ B # {}
  OBVIOUS
<1>2. \E i \in B : \A j \in B : i <= j
  <2> HIDE DEF B
  <2> QED BY <1>1, LeastNat
<1>3. \E i \in DOMAIN s : /\ ~Ready(s[i], done)
                          /\ \A j \in DOMAIN s : ~Ready(s[j], done) => i <= j
  BY <1>2
<1> QED BY <1>3 DEF FirstBlocked

\* A suffix of a sequence.
LEMMA SuffixFacts ==
  ASSUME NEW S, NEW s \in Seq(S), NEW m \in 1..Len(s)
  PROVE  /\ SubSeq(s, m, Len(s)) \in Seq(S)
         /\ Len(SubSeq(s, m, Len(s))) = Len(s) - m + 1
         /\ \A i \in 1..Len(SubSeq(s, m, Len(s))) : SubSeq(s, m, Len(s))[i] = s[m + i - 1]
<1>1. SubSeq(s, m, Len(s)) \in Seq(S)
  BY SubSeqProperties
<1>2. Len(SubSeq(s, m, Len(s))) = Len(s) - m + 1
  OBVIOUS
<1>3. \A i \in 1..Len(s) - m + 1 : SubSeq(s, m, Len(s))[i] = s[m + i - 1]
  OBVIOUS
<1> QED BY <1>1, <1>2, <1>3

\* What is left of a queue: some of its commits, all that are not ready, and a
\* first one that is not ready.
LEMMA UnappliedFacts ==
  ASSUME NEW s \in Seq(Commit), NEW done
  PROVE  /\ Unapplied(s, done) \in Seq(Commit)
         /\ ToSet(Unapplied(s, done)) \subseteq ToSet(s)
         /\ \A c \in ToSet(s) : ~Ready(c, done) => c \in ToSet(Unapplied(s, done))
         /\ Unapplied(s, done) # <<>> => ~Ready(Unapplied(s, done)[1], done)
<1>1. CASE \A i \in DOMAIN s : Ready(s[i], done)
  <2>1. Unapplied(s, done) = <<>>
    BY <1>1 DEF Unapplied
  <2>2. ToSet(<<>>) = {}
    BY DEF ToSet
  <2>3. \A c \in ToSet(s) : Ready(c, done)
    BY <1>1 DEF ToSet
  <2> QED BY <2>1, <2>2, <2>3
<1>2. CASE ~ \A i \in DOMAIN s : Ready(s[i], done)
  <2>1. PICK f \in 1..Len(s) :
          /\ f = FirstBlocked(s, done)
          /\ ~Ready(s[f], done)
          /\ \A j \in DOMAIN s : ~Ready(s[j], done) => f <= j
    BY <1>2, FirstBlockedIsLeast
  <2>2. PICK u : u = SubSeq(s, f, Len(s))
    OBVIOUS
  <2>3. Unapplied(s, done) = u
    BY <1>2, <2>1, <2>2 DEF Unapplied
  <2>4. /\ u \in Seq(Commit)
        /\ Len(u) = Len(s) - f + 1
        /\ \A i \in 1..Len(u) : u[i] = s[f + i - 1]
    BY <2>2, SuffixFacts
  <2>5. DOMAIN u = 1..Len(u) /\ DOMAIN s = 1..Len(s) /\ Len(s) \in Nat
    BY <2>4
  <2>6. \A i \in DOMAIN u : f + i - 1 \in DOMAIN s
    BY <2>4, <2>5
  <2>7. ToSet(u) \subseteq ToSet(s)
    BY <2>4, <2>5, <2>6 DEF ToSet
  <2>8. ASSUME NEW j \in DOMAIN s, ~Ready(s[j], done)
        PROVE  s[j] \in ToSet(u)
    <3>1. j - f + 1 \in DOMAIN u /\ u[j - f + 1] = s[j]
      BY <2>1, <2>4, <2>8
    <3> QED BY <3>1 DEF ToSet
  <2>9. \A c \in ToSet(s) : ~Ready(c, done) => c \in ToSet(u)
    BY <2>8 DEF ToSet
  <2>10. ~Ready(u[1], done)
    BY <2>1, <2>4
  <2> QED BY <2>3, <2>4, <2>7, <2>9, <2>10
<1> QED BY <1>1, <1>2

\* BlockerCleared does this to the queue of every window of the clients.
LEMMA BlockerClearedFacts ==
  ASSUME NEW q \in [Window -> Seq(Commit)], NEW done, NEW clients,
         NEW b, b = BlockerCleared(q, done, clients)
  PROVE  /\ b \in [Window -> Seq(Commit)]
         /\ \A w \in Window :
              /\ ToSet(b[w]) \subseteq ToSet(q[w])
              /\ \A c \in ToSet(q[w]) : ~Ready(c, done) => c \in ToSet(b[w])
              /\ ClientOf[w] \in clients /\ b[w] # <<>> => ~Ready(b[w][1], done)
              /\ ClientOf[w] \notin clients => b[w] = q[w]
<1>1. b = [w \in Window |-> IF ClientOf[w] \in clients THEN Unapplied(q[w], done) ELSE q[w]]
  BY DEF BlockerCleared
<1>2. ASSUME NEW w \in Window
      PROVE  /\ b[w] \in Seq(Commit)
             /\ ToSet(b[w]) \subseteq ToSet(q[w])
             /\ \A c \in ToSet(q[w]) : ~Ready(c, done) => c \in ToSet(b[w])
             /\ ClientOf[w] \in clients /\ b[w] # <<>> => ~Ready(b[w][1], done)
             /\ ClientOf[w] \notin clients => b[w] = q[w]
  <2>1. q[w] \in Seq(Commit)
    OBVIOUS
  <2>2. CASE ClientOf[w] \in clients
    <3>1. b[w] = Unapplied(q[w], done)
      BY <1>1, <2>2
    <3> QED BY <2>1, <2>2, <3>1, UnappliedFacts
  <2>3. CASE ClientOf[w] \notin clients
    <3>1. b[w] = q[w]
      BY <1>1, <2>3
    <3> QED BY <2>1, <2>3, <3>1
  <2> QED BY <2>2, <2>3
<1>3. b \in [Window -> Seq(Commit)]
  BY <1>1, <1>2
<1> QED BY <1>2, <1>3

(***************************************************************************)
(* take_pending_transaction takes a prefix of the pending transactions.    *)
(***************************************************************************)
Pending == [serial : Nat, tx : Tx]

\* The transactions that a commit answers are the first n of the pending ones.
LEMMA AnsweredCount ==
  ASSUME NEW s \in Seq(Pending), NEW serial \in Nat
  PROVE  \E n \in 0..Len(s) : Answered(s, serial) = 1..n /\ Cardinality(Answered(s, serial)) = n
<1> DEFINE New == {i \in DOMAIN s : ~(s[i].serial <= serial)}
<1>1. PICK n \in 0..Len(s) : Answered(s, serial) = 1..n
  <2>1. CASE New = {}
    <3>1. Answered(s, serial) = 1..Len(s)
      BY <2>1 DEF Answered
    <3> QED BY <3>1
  <2>2. CASE New # {}
    <3>1. New \in SUBSET Nat
      OBVIOUS
    <3>2. \E x \in New : \A y \in New : x <= y
      <4> HIDE DEF New
      <4> QED BY <2>2, <3>1, LeastNat
    <3>3. PICK x \in New : \A y \in New : x <= y
      BY <3>2
    <3>4. x \in 1..Len(s) /\ ~(s[x].serial <= serial)
      OBVIOUS
    <3>5. ASSUME NEW i \in DOMAIN s, i < x
          PROVE  \A j \in 1..i : s[j].serial <= serial
      BY <3>3, <3>4, <3>5
    <3>6. ASSUME NEW i \in DOMAIN s, i >= x
          PROVE  ~ \A j \in 1..i : s[j].serial <= serial
      BY <3>4, <3>6
    <3>7. Answered(s, serial) = 1..(x - 1)
      BY <3>4, <3>5, <3>6 DEF Answered
    <3> QED BY <3>4, <3>7
  <2> QED BY <2>1, <2>2
<1>2. Cardinality(1..n) = n
  BY FS_Interval
<1> QED BY <1>1, <1>2

\* take_pending_transaction returns one of the pending transactions and leaves
\* some of them.
LEMMA TakeFacts ==
  ASSUME NEW s \in Seq(Pending), NEW serial \in Nat
  PROVE  /\ Unanswered(s, serial) \in Seq(Pending)
         /\ ToSet(Unanswered(s, serial)) \subseteq ToSet(s)
         /\ TakeTx(s, serial) # NoTx => \E p \in ToSet(s) : p.tx = TakeTx(s, serial)
<1>1. PICK n \in 0..Len(s) : Answered(s, serial) = 1..n /\ Cardinality(Answered(s, serial)) = n
  BY AnsweredCount
<1>2. PICK u : u = Unanswered(s, serial)
  OBVIOUS
<1>3. u = SubSeq(s, n + 1, Len(s))
  BY <1>1, <1>2 DEF Unanswered
<1>4. TakeTx(s, serial) # NoTx => \E p \in ToSet(s) : p.tx = TakeTx(s, serial)
  <2>1. CASE n = 0
    BY <1>1, <2>1 DEF TakeTx
  <2>2. CASE n # 0
    <3>1. TakeTx(s, serial) = s[n].tx
      BY <1>1, <2>2 DEF TakeTx
    <3>2. s[n] \in ToSet(s)
      BY <2>2 DEF ToSet
    <3> QED BY <3>1, <3>2
  <2> QED BY <2>1, <2>2
<1>5. u \in Seq(Pending) /\ ToSet(u) \subseteq ToSet(s)
  <2>1. CASE n = Len(s)
    <3>1. u = <<>>
      BY <1>3, <2>1, SubSeqEmpty
    <3>2. ToSet(<<>>) = {}
      BY DEF ToSet
    <3> QED BY <3>1, <3>2
  <2>2. CASE n # Len(s)
    <3>1. n + 1 \in 1..Len(s)
      BY <2>2
    <3>2. /\ u \in Seq(Pending)
          /\ \A i \in 1..Len(u) : u[i] = s[n + 1 + i - 1]
          /\ Len(u) = Len(s) - (n + 1) + 1
      BY <1>3, <3>1, SuffixFacts
    <3>3. \A i \in DOMAIN u : u[i] = s[n + i] /\ n + i \in DOMAIN s
      BY <3>2
    <3> QED BY <3>2, <3>3 DEF ToSet
  <2> QED BY <2>1, <2>2
<1> QED BY <1>2, <1>4, <1>5

\* What Append does to the set of elements.
LEMMA AppendFacts ==
  ASSUME NEW S, NEW s \in Seq(S), NEW e \in S
  PROVE  /\ Append(s, e) \in Seq(S)
         /\ ToSet(Append(s, e)) = ToSet(s) \cup {e}
<1>1. PICK u : u = Append(s, e)
  OBVIOUS
<1>2. /\ u \in Seq(S) /\ DOMAIN u = 1..Len(s) + 1 /\ DOMAIN s = 1..Len(s)
      /\ u[Len(s) + 1] = e /\ \A i \in 1..Len(s) : u[i] = s[i]
  BY <1>1
<1>3. ToSet(u) \subseteq ToSet(s) \cup {e}
  BY <1>2 DEF ToSet
<1>4. ToSet(s) \subseteq ToSet(u)
  BY <1>2 DEF ToSet
<1>5. e \in ToSet(u)
  BY <1>2 DEF ToSet
<1> QED BY <1>1, <1>2, <1>3, <1>4, <1>5

(***************************************************************************)
(* A reference that a commit holds outlives BlockerCleared: the commit is  *)
(* still being rendered.                                                   *)
(***************************************************************************)
LEMMA HeldAfterwards ==
  ASSUME NEW q \in [Window -> Seq(Commit)], NEW b, NEW done, NEW clients, NEW nx, NEW pd,
         NEW t \in Tx,
         b = BlockerCleared(q, done, clients),
         \A w \in Window : \A c \in ToSet(q[w]) : c.holds # NoTx => c.dmabuf
  PROVE  Held(t, nx, pd, b) <=> Held(t, nx, pd, q)
<1>1. t # NoTx
  BY NoTxType
<1>2. \A w \in Window :
        /\ ToSet(b[w]) \subseteq ToSet(q[w])
        /\ \A c \in ToSet(q[w]) : ~Ready(c, done) => c \in ToSet(b[w])
  BY BlockerClearedFacts
<1>3. ASSUME NEW w \in Window
      PROVE  (\E c \in ToSet(b[w]) : c.holds = t) <=> (\E c \in ToSet(q[w]) : c.holds = t)
  <2>1. ToSet(b[w]) \subseteq ToSet(q[w])
    BY <1>2
  <2>2. \A c \in ToSet(q[w]) : c.holds = t => c \in ToSet(b[w])
    <3>1. \A c \in ToSet(q[w]) : c.holds = t => ~Ready(c, done)
      BY <1>1 DEF Ready
    <3>2. \A c \in ToSet(q[w]) : ~Ready(c, done) => c \in ToSet(b[w])
      BY <1>2
    <3> QED BY <3>1, <3>2
  <2> QED BY <2>1, <2>2
<1> QED BY <1>3 DEF Held

(***************************************************************************)
(* Six of the actions change references, complete the transactions         *)
(* concerned, and look at the queues of some clients.  What such a step    *)
(* owes the invariant: q, nt and tm are the queues, notifications and      *)
(* timers before transactions complete, D are dropped, F reach the         *)
(* deadline, and the queues of the clients S are looked at.                *)
(***************************************************************************)
Owed(q, nt, tm, D, F, S) ==
  /\ \A w \in Window : \A c \in ToSet(q[w]) :
       /\ c.holds # NoTx => c.dmabuf
       /\ {c.on, c.holds} \subseteq created' \cup {NoTx}
       /\ c.on # NoTx /\ c.on \notin completed => w \in nt[c.on]
  /\ \A w \in Window : /\ next'[w] \in created' \cup {NoTx}
                       /\ \A p \in ToSet(pending'[w]) : p.tx \in created'
  /\ \A t \in Tx : /\ tm[t] # "none" => t \in created'
                   /\ tm[t] \in {"pinged", "fired", "removed"} => t \in completed \cup F
  /\ F \subseteq created'
  /\ \A t \in completed \cup D :
       Held(t, next', pending', q) => t \in F \/ tm[t] = "fired"
  /\ \A t \in created' : Held(t, next', pending', q) \/ t \in completed \cup D \cup F
  /\ \A t \in created' \ (completed \cup D \cup F) :
       (t \in closing' \/ \E w \in Window : \E c \in ToSet(q[w]) : c.on = t) => tm[t] = "armed"
  /\ \A w \in Window :
       q[w] # <<>> /\ Ready(q[w][1], completed) /\ ClientOf[w] \notin S => ClientOf[w] \in cleared

\* A step that pays what it owes preserves the invariant.
LEMMA CompletionStep ==
  ASSUME NEW q \in [Window -> Seq(Commit)],
         NEW nt \in [Tx -> SUBSET Window], NEW tm \in [Tx -> TimerState],
         NEW D \in SUBSET Tx, NEW F \in SUBSET Tx, NEW S \in SUBSET Client,
         TypeOK', Complete(D, F, nt, tm),
         queue' = BlockerCleared(q, completed', S),
         Owed(q, nt, tm, D, F, S)
  PROVE  Inv'
<1>1. completed' = completed \cup D \cup F
  BY DEF Complete
<1>0. \A w \in Window :
        /\ ToSet(queue'[w]) \subseteq ToSet(q[w])
        /\ \A c \in ToSet(q[w]) : ~Ready(c, completed') => c \in ToSet(queue'[w])
  BY BlockerClearedFacts
<1>2. \A w \in Window : \A c \in ToSet(queue'[w]) : c \in ToSet(q[w])
  BY <1>0
<1>3. \A t \in Tx : Held(t, next', pending', queue') <=> Held(t, next', pending', q)
  <2>1. \A w \in Window : \A c \in ToSet(q[w]) : c.holds # NoTx => c.dmabuf
    BY DEF Owed
  <2> QED BY <2>1, HeldAfterwards
<1>4. \A t \in Tx : /\ t \in F => timer'[t] = "fired"
                    /\ t \notin F /\ t \in D /\ tm[t] = "armed" => timer'[t] = "pinged"
                    /\ t \notin F /\ ~(t \in D /\ tm[t] = "armed") => timer'[t] = tm[t]
  BY DEF Complete
<1>5. \A t \in Tx : t \notin D \cup F => notify'[t] = nt[t]
  BY DEF Complete
<1>6. HoldersRender'
  BY <1>2 DEF HoldersRender, Owed
<1>7. Subscribed'
  <2> SUFFICES ASSUME NEW w \in Window, NEW c \in ToSet(queue'[w]),
                      c.on # NoTx, c.on \notin completed'
               PROVE  w \in notify'[c.on]
    BY DEF Subscribed
  <2>1. c \in ToSet(q[w]) /\ c.on \notin completed
    BY <1>1, <1>2
  <2>2. w \in nt[c.on] /\ c.on \in created'
    BY <2>1 DEF Owed
  <2>3. c.on \in Tx \ (D \cup F)
    BY <1>1, <2>2 DEF TypeOK
  <2> QED BY <1>5, <2>2, <2>3
<1>8. TimersStopped'
  BY <1>1, <1>4 DEF TimersStopped, Owed
<1>9. OnlyCreated'
  <2>1. \A w \in Window : /\ next'[w] \in created' \cup {NoTx}
                          /\ \A p \in ToSet(pending'[w]) : p.tx \in created'
    BY DEF Owed
  <2>2. \A w \in Window : \A c \in ToSet(queue'[w]) : {c.on, c.holds} \subseteq created' \cup {NoTx}
    BY <1>2 DEF Owed
  <2>3. \A t \in Tx : timer'[t] # "none" => t \in created'
    BY <1>4 DEF Owed
  <2> QED BY <2>1, <2>2, <2>3 DEF OnlyCreated
<1>10. CompletesOnTime'
  <2> SUFFICES ASSUME NEW t \in completed', Held(t, next', pending', queue')
               PROVE  timer'[t] = "fired"
    BY DEF CompletesOnTime, HeldNow
  <2>1. t \in Tx /\ Held(t, next', pending', q)
    BY <1>3 DEF TypeOK
  <2>2. t \in F \/ tm[t] = "fired"
    BY <1>1, <2>1 DEF Owed
  <2> QED BY <1>4, <2>1, <2>2
<1>11. DroppedIsCompleted'
  <2> SUFFICES ASSUME NEW t \in created' PROVE Held(t, next', pending', queue') \/ t \in completed'
    BY DEF DroppedIsCompleted, HeldNow
  <2>1. t \in Tx
    BY DEF TypeOK
  <2>2. Held(t, next', pending', q) \/ t \in completed \cup D \cup F
    BY DEF Owed
  <2> QED BY <1>1, <1>3, <2>1, <2>2
<1>12. NoLostWakeup'
  <2> SUFFICES ASSUME NEW w \in Window, queue'[w] # <<>>, Ready(queue'[w][1], completed')
               PROVE  ClientOf[w] \in cleared'
    BY DEF NoLostWakeup
  <2>0. ClientOf[w] \in S => ~Ready(queue'[w][1], completed')
    BY BlockerClearedFacts
  <2>6. ClientOf[w] \notin S => queue'[w] = q[w]
    BY BlockerClearedFacts
  <2>1. ClientOf[w] \notin S /\ queue'[w] = q[w]
    BY <2>0, <2>6
  <2>2. cleared \subseteq cleared'
    BY DEF Complete
  <2>3. CASE Ready(q[w][1], completed)
    BY <2>1, <2>2, <2>3 DEF Owed
  <2>4. CASE ~Ready(q[w][1], completed)
    <3>1. PICK c : c = q[w][1]
      OBVIOUS
    <3>2. c.on # NoTx /\ c.on \notin completed /\ c.on \in D \cup F
      BY <1>1, <2>1, <2>4, <3>1 DEF Ready
    <3>3. c \in ToSet(q[w])
      BY <2>1, <3>1 DEF ToSet
    <3>4. w \in nt[c.on]
      BY <3>2, <3>3 DEF Owed
    <3>5. w \in UNION {nt[t] : t \in D \cup F}
      BY <3>2, <3>4
    <3> QED BY <3>5 DEF Complete
  <2> QED BY <2>3, <2>4
<1>13. WaitersHaveDeadline'
  <2> SUFFICES ASSUME NEW t \in created' \ completed',
                      t \in closing' \/ \E w \in Window : \E c \in ToSet(queue'[w]) : c.on = t
               PROVE  timer'[t] = "armed"
    BY DEF WaitersHaveDeadline
  <2>1. t \in Tx /\ t \notin completed \cup D \cup F
    BY <1>1 DEF TypeOK
  <2>2. t \in closing' \/ \E w \in Window : \E c \in ToSet(q[w]) : c.on = t
    BY <1>2
  <2>3. tm[t] = "armed"
    BY <2>1, <2>2 DEF Owed
  <2> QED BY <1>4, <2>1, <2>3
<1> QED BY <1>6, <1>7, <1>8, <1>9, <1>10, <1>11, <1>12, <1>13 DEF Inv

\* The types of what Complete changes.
LEMMA CompleteTypes ==
  ASSUME NEW nt \in [Tx -> SUBSET Window], NEW tm \in [Tx -> TimerState],
         NEW D \in SUBSET created', NEW F \in SUBSET created',
         TypeOK, created \subseteq created', created' \subseteq Tx, Complete(D, F, nt, tm)
  PROVE  /\ completed' \subseteq created'
         /\ notify' \in [Tx -> SUBSET Window]
         /\ timer' \in [Tx -> TimerState]
         /\ cleared' \subseteq Client
<1>1. completed' \subseteq created'
  BY DEF Complete, TypeOK
<1>2. notify' \in [Tx -> SUBSET Window]
  BY DEF Complete
<1>3. timer' \in [Tx -> TimerState]
  BY DEF Complete, TimerState
<1>4. cleared' \subseteq Client
  <2>1. \A w \in Window : ClientOf[w] \in Client
    BY ClientOfType
  <2>2. UNION {nt[t] : t \in D \cup F} \subseteq Window
    OBVIOUS
  <2>3. cleared' = cleared \cup {ClientOf[w] : w \in UNION {nt[t] : t \in D \cup F}}
    BY DEF Complete
  <2>4. cleared \subseteq Client
    BY DEF TypeOK
  <2> QED BY <2>1, <2>2, <2>3, <2>4
<1> QED BY <1>1, <1>2, <1>3, <1>4

\* Nothing happens to the queues when no client is looked at.
LEMMA NothingCleared ==
  ASSUME NEW q \in [Window -> Seq(Commit)], NEW done
  PROVE  BlockerCleared(q, done, {}) = q
BY DEF BlockerCleared

\* What the invariant says of the queues, in the form in which a step owes it.
LEMMA QueuesOwed ==
  ASSUME Inv
  PROVE  /\ \A w \in Window : \A c \in ToSet(queue[w]) :
              /\ c.holds # NoTx => c.dmabuf
              /\ {c.on, c.holds} \subseteq created \cup {NoTx}
              /\ c.on # NoTx /\ c.on \notin completed => w \in notify[c.on]
         /\ \A w \in Window :
              queue[w] # <<>> /\ Ready(queue[w][1], completed) => ClientOf[w] \in cleared
BY DEF Inv, HoldersRender, OnlyCreated, Subscribed, NoLostWakeup

\* A request of sizes: the new transaction replaces older references.
LEMMA RequestStep ==
  ASSUME Inv, NEW t \in Tx, NEW ws \in SUBSET Window, Request(t, ws)
  PROVE  Inv'
<1> DEFINE D == Dropped(created', next', pending', queue)
<1>1. /\ t \notin created /\ created' = created \cup {t} /\ ws \subseteq mapped
      /\ \A w \in Window : next'[w] = IF w \in ws THEN t ELSE next[w]
      /\ next' \in [Window -> Tx \cup {NoTx}]
      /\ pending' = pending /\ queue' = queue /\ closing' = closing
      /\ mapped' = mapped /\ sent' = sent /\ acked' = acked
      /\ Complete(D, {}, notify, timer)
  BY DEF Request, Inv, TypeOK
<1>2. D \subseteq created' /\ \A u \in created' : u \in D <=> ~Held(u, next', pending', queue)
  BY DEF Dropped
<1>3. TypeOK'
  <2>1. /\ completed' \subseteq created' /\ notify' \in [Tx -> SUBSET Window]
        /\ timer' \in [Tx -> TimerState] /\ cleared' \subseteq Client
    <3> HIDE DEF D
    <3> QED BY <1>1, <1>2, CompleteTypes DEF Inv, TypeOK
  <2> HIDE DEF D
  <2> QED BY <1>1, <2>1 DEF Inv, TypeOK
<1>4. \A u \in Tx \ {t} : Held(u, next', pending', queue) => HeldNow(u)
  BY <1>1 DEF Held, HeldNow
<1>5. Owed(queue, notify, timer, D, {}, {})
  <2> HIDE DEF D
  <2>1. \A w \in Window : /\ next'[w] \in created' \cup {NoTx}
                          /\ \A p \in ToSet(pending'[w]) : p.tx \in created'
    BY <1>1 DEF Inv, OnlyCreated
  <2>2. \A u \in Tx : /\ timer[u] # "none" => u \in created'
                      /\ timer[u] \in {"pinged", "fired", "removed"} => u \in completed
    BY <1>1 DEF Inv, OnlyCreated, TimersStopped
  <2>3. \A u \in completed \cup D : Held(u, next', pending', queue) => timer[u] = "fired"
    BY <1>1, <1>2, <1>4 DEF Inv, TypeOK, CompletesOnTime
  <2>4. \A u \in created' \ (completed \cup D) :
          (u \in closing' \/ \E w \in Window : \E c \in ToSet(queue[w]) : c.on = u)
            => timer[u] = "armed"
    <3>1. \A w \in Window : \A c \in ToSet(queue[w]) : c.on # t
      BY <1>1, QueuesOwed, NoTxType
    <3>2. t \notin closing'
      BY <1>1 DEF Inv, TypeOK
    <3> QED BY <1>1, <3>1, <3>2 DEF Inv, WaitersHaveDeadline
  <2> QED BY <1>1, <1>2, <2>1, <2>2, <2>3, <2>4, QueuesOwed DEF Owed
<1>6. queue' = BlockerCleared(queue, completed', {})
  BY <1>1, NothingCleared DEF Inv, TypeOK
<1>7. /\ queue \in [Window -> Seq(Commit)] /\ notify \in [Tx -> SUBSET Window]
      /\ timer \in [Tx -> TimerState] /\ D \in SUBSET Tx
  BY <1>2, <1>3 DEF Inv, TypeOK
<1> HIDE DEF D
<1>8. {} \in SUBSET Tx /\ {} \in SUBSET Client
  OBVIOUS
<1> QED BY <1>1, <1>3, <1>5, <1>6, <1>7, <1>8, CompletionStep

\* A close or an unmap: references of the window go, its transaction may be
\* waited for at once and then has its deadline set.
LEMMA CloseStep ==
  ASSUME Inv, NEW t \in Tx, NEW w0 \in Window, NEW ws \in SUBSET Window, Close(w0, t, ws)
  PROVE  Inv'
<1> DEFINE D == Dropped(created', next', pending', queue)
<1>0. PICK tm : tm = IF ws = {} THEN timer ELSE Registered(t)
  OBVIOUS
<1>1. /\ t \notin created /\ created' = created \cup {t} /\ ws \subseteq mapped
      /\ \A w \in Window : next'[w] = IF w = w0 THEN NoTx ELSE IF w \in ws THEN t ELSE next[w]
      /\ next' \in [Window -> Tx \cup {NoTx}]
      /\ pending' = [pending EXCEPT ![w0] = <<>>]
      /\ queue' = queue /\ closing' = closing \cup {t}
      /\ mapped' = mapped \ {w0} /\ sent' = sent /\ acked' = acked
      /\ Complete(D, {}, notify, tm)
  BY <1>0 DEF Close, Inv, TypeOK
<1>2. D \subseteq created' /\ \A u \in created' : u \in D <=> ~Held(u, next', pending', queue)
  BY DEF Dropped
<1>3. /\ tm \in [Tx -> TimerState]
      /\ \A u \in Tx \ {t} : tm[u] = timer[u]
      /\ ws # {} => tm[t] = "armed"
      /\ tm[t] \in {"none", "armed"}
  <2>1. timer[t] = "none" /\ timer \in [Tx -> TimerState]
    BY <1>1 DEF Inv, OnlyCreated, TypeOK
  <2> QED BY <1>0, <2>1 DEF Registered, TimerState
<1>4. pending' \in [Window -> Seq(Pending)]
  <2>1. pending \in [Window -> Seq(Pending)]
    BY DEF Inv, TypeOK, Pending
  <2>2. <<>> \in Seq(Pending)
    OBVIOUS
  <2> QED BY <1>1, <2>1, <2>2
<1>5. TypeOK'
  <2>1. /\ completed' \subseteq created' /\ notify' \in [Tx -> SUBSET Window]
        /\ timer' \in [Tx -> TimerState] /\ cleared' \subseteq Client
    <3> HIDE DEF D
    <3> QED BY <1>1, <1>2, <1>3, CompleteTypes DEF Inv, TypeOK
  <2> HIDE DEF D
  <2> QED BY <1>1, <1>4, <2>1 DEF Inv, TypeOK, Pending
<1>6. \A w \in Window : ToSet(pending'[w]) \subseteq ToSet(pending[w])
  <2>1. ToSet(<<>>) = {}
    BY DEF ToSet
  <2> QED BY <1>1, <2>1 DEF Inv, TypeOK
<1>7. \A u \in Tx \ {t} : Held(u, next', pending', queue) => HeldNow(u)
  BY <1>1, <1>6, NoTxType DEF Held, HeldNow
<1>8. Owed(queue, notify, tm, D, {}, {})
  <2> HIDE DEF D
  <2>1. \A w \in Window : /\ next'[w] \in created' \cup {NoTx}
                          /\ \A p \in ToSet(pending'[w]) : p.tx \in created'
    BY <1>1, <1>6 DEF Inv, OnlyCreated
  <2>2. \A u \in Tx : /\ tm[u] # "none" => u \in created'
                      /\ tm[u] \in {"pinged", "fired", "removed"} => u \in completed
    BY <1>1, <1>3 DEF Inv, OnlyCreated, TimersStopped
  <2>3. \A u \in completed \cup D : Held(u, next', pending', queue) => tm[u] = "fired"
    BY <1>1, <1>2, <1>3, <1>7 DEF Inv, TypeOK, CompletesOnTime
  <2>4. \A u \in created' \ (completed \cup D) :
          (u \in closing' \/ \E w \in Window : \E c \in ToSet(queue[w]) : c.on = u)
            => tm[u] = "armed"
    <3> SUFFICES ASSUME NEW u \in created' \ (completed \cup D),
                        u \in closing' \/ \E w \in Window : \E c \in ToSet(queue[w]) : c.on = u
                 PROVE  tm[u] = "armed"
      OBVIOUS
    <3>1. \A w \in Window : \A c \in ToSet(queue[w]) : c.on # t /\ c.holds # t
      BY <1>1, QueuesOwed, NoTxType
    <3>2. \A w \in Window : \A p \in ToSet(pending'[w]) : p.tx # t
      BY <1>1, <1>6 DEF Inv, OnlyCreated
    <3>3. \A w \in Window : next[w] # t
      BY <1>1, NoTxType DEF Inv, OnlyCreated
    <3>4. ws = {} => ~Held(t, next', pending', queue)
      BY <1>1, <3>1, <3>2, <3>3, NoTxType DEF Held
    <3>5. t \notin D => tm[t] = "armed"
      BY <1>1, <1>2, <1>3, <3>4
    <3>6. \A v \in created \ completed :
            (v \in closing \/ \E w \in Window : \E c \in ToSet(queue[w]) : c.on = v)
              => timer[v] = "armed"
      BY DEF Inv, WaitersHaveDeadline
    <3>7. created \subseteq Tx
      BY DEF Inv, TypeOK
    <3>8. CASE u = t
      BY <3>5, <3>8
    <3>9. CASE u # t
      <4>1. u \in created \ completed /\ u \in Tx
        BY <1>1, <3>7, <3>9
      <4>2. timer[u] = "armed"
        BY <1>1, <3>6, <3>9, <4>1
      <4> QED BY <1>3, <3>9, <4>1, <4>2
    <3> QED BY <3>8, <3>9
  <2>5. \A w \in Window : \A c \in ToSet(queue[w]) :
          /\ c.holds # NoTx => c.dmabuf
          /\ {c.on, c.holds} \subseteq created' \cup {NoTx}
          /\ c.on # NoTx /\ c.on \notin completed => w \in notify[c.on]
    BY <1>1, QueuesOwed
  <2>6. \A u \in created' : Held(u, next', pending', queue) \/ u \in completed \cup D
    BY <1>2
  <2>7. \A w \in Window :
          queue[w] # <<>> /\ Ready(queue[w][1], completed) => ClientOf[w] \in cleared
    BY QueuesOwed
  <2> QED BY <2>1, <2>2, <2>3, <2>4, <2>5, <2>6, <2>7 DEF Owed
<1>9. queue' = BlockerCleared(queue, completed', {})
  BY <1>1, NothingCleared DEF Inv, TypeOK
<1>10. /\ queue \in [Window -> Seq(Commit)] /\ notify \in [Tx -> SUBSET Window]
       /\ D \in SUBSET Tx /\ {} \in SUBSET Tx /\ {} \in SUBSET Client
  BY <1>2, <1>5 DEF Inv, TypeOK
<1> HIDE DEF D
<1> QED BY <1>1, <1>3, <1>5, <1>8, <1>9, <1>10, CompletionStep

\* With nothing to send the reference of the window goes.
LEMMA NothingToSendStep ==
  ASSUME Inv, NEW w0 \in Window, NothingToSend(w0)
  PROVE  Inv'
<1> DEFINE D == Dropped(created, next', pending, queue)
<1>1. /\ \A w \in Window : next'[w] = IF w = w0 THEN NoTx ELSE next[w]
      /\ next' \in [Window -> Tx \cup {NoTx}]
      /\ created' = created /\ pending' = pending /\ queue' = queue /\ closing' = closing
      /\ mapped' = mapped /\ sent' = sent /\ acked' = acked
      /\ Complete(D, {}, notify, timer)
  BY DEF NothingToSend, Inv, TypeOK
<1>2. D \subseteq created /\ \A u \in created : u \in D <=> ~Held(u, next', pending, queue)
  BY DEF Dropped
<1>3. TypeOK'
  <2>1. /\ completed' \subseteq created' /\ notify' \in [Tx -> SUBSET Window]
        /\ timer' \in [Tx -> TimerState] /\ cleared' \subseteq Client
    <3>1. /\ created' \subseteq Tx /\ created \subseteq created'
          /\ D \in SUBSET created' /\ {} \in SUBSET created' /\ TypeOK
          /\ notify \in [Tx -> SUBSET Window] /\ timer \in [Tx -> TimerState]
      BY <1>1, <1>2 DEF Inv, TypeOK
    <3> HIDE DEF D
    <3> QED BY <1>1, <3>1, CompleteTypes
  <2> HIDE DEF D
  <2> QED BY <1>1, <2>1 DEF Inv, TypeOK
<1>4. \A u \in Tx : Held(u, next', pending', queue) => HeldNow(u)
  BY <1>1, NoTxType DEF Held, HeldNow
<1>5. Owed(queue, notify, timer, D, {}, {})
  <2> HIDE DEF D
  <2>1. \A w \in Window : /\ next'[w] \in created' \cup {NoTx}
                          /\ \A p \in ToSet(pending'[w]) : p.tx \in created'
    BY <1>1 DEF Inv, OnlyCreated
  <2>2. \A u \in Tx : /\ timer[u] # "none" => u \in created'
                      /\ timer[u] \in {"pinged", "fired", "removed"} => u \in completed
    BY <1>1 DEF Inv, OnlyCreated, TimersStopped
  <2>3. \A u \in completed \cup D : Held(u, next', pending', queue) => timer[u] = "fired"
    BY <1>1, <1>2, <1>4 DEF Inv, TypeOK, CompletesOnTime
  <2>4. \A u \in created' \ (completed \cup D) :
          (u \in closing' \/ \E w \in Window : \E c \in ToSet(queue[w]) : c.on = u)
            => timer[u] = "armed"
    BY <1>1 DEF Inv, WaitersHaveDeadline
  <2> QED BY <1>1, <1>2, <2>1, <2>2, <2>3, <2>4, QueuesOwed DEF Owed
<1>6. queue' = BlockerCleared(queue, completed', {})
  BY <1>1, NothingCleared DEF Inv, TypeOK
<1>7. /\ queue \in [Window -> Seq(Commit)] /\ notify \in [Tx -> SUBSET Window]
      /\ timer \in [Tx -> TimerState] /\ D \in SUBSET Tx
      /\ {} \in SUBSET Tx /\ {} \in SUBSET Client
  BY <1>2, <1>3 DEF Inv, TypeOK
<1> HIDE DEF D
<1> QED BY <1>1, <1>3, <1>5, <1>6, <1>7, CompletionStep

\* The deadline completes the transaction while references remain.
LEMMA DeadlineReachedStep ==
  ASSUME Inv, NEW t \in Tx, DeadlineReached(t)
  PROVE  Inv'
<1>1. /\ timer[t] \in {"armed", "pinged"}
      /\ next' = next /\ created' = created /\ pending' = pending /\ queue' = queue
      /\ closing' = closing /\ mapped' = mapped /\ sent' = sent /\ acked' = acked
      /\ Complete({}, {t}, notify, timer)
  BY DEF DeadlineReached
<1>2. t \in created
  BY <1>1 DEF Inv, OnlyCreated
<1>3. TypeOK'
  <2>1. /\ completed' \subseteq created' /\ notify' \in [Tx -> SUBSET Window]
        /\ timer' \in [Tx -> TimerState] /\ cleared' \subseteq Client
    <3>1. /\ created' \subseteq Tx /\ created \subseteq created'
          /\ {t} \in SUBSET created' /\ {} \in SUBSET created' /\ TypeOK
          /\ notify \in [Tx -> SUBSET Window] /\ timer \in [Tx -> TimerState]
      BY <1>1, <1>2 DEF Inv, TypeOK
    <3> QED BY <1>1, <3>1, CompleteTypes
  <2> QED BY <1>1, <2>1 DEF Inv, TypeOK
<1>4. Owed(queue, notify, timer, {}, {t}, {})
  <2>1. \A w \in Window : /\ next'[w] \in created' \cup {NoTx}
                          /\ \A p \in ToSet(pending'[w]) : p.tx \in created'
    BY <1>1 DEF Inv, OnlyCreated
  <2>2. \A u \in Tx : /\ timer[u] # "none" => u \in created'
                      /\ timer[u] \in {"pinged", "fired", "removed"} => u \in completed
    BY <1>1 DEF Inv, OnlyCreated, TimersStopped
  <2>3. \A u \in completed : Held(u, next', pending', queue) => timer[u] = "fired"
    BY <1>1 DEF Inv, TypeOK, CompletesOnTime, HeldNow
  <2>4. \A u \in created' : Held(u, next', pending', queue) \/ u \in completed
    BY <1>1 DEF Inv, DroppedIsCompleted, HeldNow
  <2>5. \A u \in created' \ completed :
          (u \in closing' \/ \E w \in Window : \E c \in ToSet(queue[w]) : c.on = u)
            => timer[u] = "armed"
    BY <1>1 DEF Inv, WaitersHaveDeadline
  <2> QED BY <1>1, <1>2, <2>1, <2>2, <2>3, <2>4, <2>5, QueuesOwed DEF Owed
<1>5. queue' = BlockerCleared(queue, completed', {})
  BY <1>1, NothingCleared DEF Inv, TypeOK
<1>6. /\ queue \in [Window -> Seq(Commit)] /\ notify \in [Tx -> SUBSET Window]
      /\ timer \in [Tx -> TimerState] /\ {t} \in SUBSET Tx
      /\ {} \in SUBSET Tx /\ {} \in SUBSET Client
  BY DEF Inv, TypeOK
<1> QED BY <1>1, <1>3, <1>4, <1>5, <1>6, CompletionStep

\* A rendered buffer: its commit drops its reference and may be applied.
LEMMA DmabufReadyStep ==
  ASSUME Inv, NEW w0 \in Window, NEW i \in DOMAIN queue[w0], DmabufReady(w0, i)
  PROVE  Inv'
<1>1. PICK q : q = [queue EXCEPT ![w0][i].dmabuf = FALSE, ![w0][i].holds = NoTx]
  OBVIOUS
<1>2. PICK D : D = Dropped(created, next, pending, q)
  OBVIOUS
<1>3. /\ next' = next /\ created' = created /\ pending' = pending /\ closing' = closing
      /\ mapped' = mapped /\ sent' = sent /\ acked' = acked
      /\ Complete(D, {}, notify, timer)
      /\ queue' = BlockerCleared(q, completed \cup D, {ClientOf[w0]})
  BY <1>1, <1>2 DEF DmabufReady
<1>4. D \subseteq created /\ \A u \in created : u \in D <=> ~Held(u, next', pending', q)
  BY <1>2, <1>3 DEF Dropped
<1>5. queue \in [Window -> Seq(Commit)] /\ created \subseteq Tx
  BY DEF Inv, TypeOK
<1>6. /\ q \in [Window -> Seq(Commit)]
      /\ \A w \in Window \ {w0} : q[w] = queue[w]
      /\ \A w \in Window : \A c \in ToSet(q[w]) : \E d \in ToSet(queue[w]) :
           /\ c.on = d.on
           /\ c.holds # NoTx => c = d
  <2>1. PICK e : e = [queue[w0][i] EXCEPT !.dmabuf = FALSE, !.holds = NoTx]
    OBVIOUS
  <2>2. queue[w0] \in Seq(Commit) /\ queue[w0][i] \in Commit
    BY <1>5
  <2>3. e \in Commit /\ e.on = queue[w0][i].on /\ e.holds = NoTx
    BY <2>1, <2>2 DEF Commit
  <2>4. q = [queue EXCEPT ![w0] = [queue[w0] EXCEPT ![i] = e]]
    BY <1>1, <1>5, <2>1, <2>2
  <2>5. PICK s : s = [queue[w0] EXCEPT ![i] = e]
    OBVIOUS
  <2>6. s \in Seq(Commit) /\ \A j \in DOMAIN s : s[j] = IF j = i THEN e ELSE queue[w0][j]
    BY <2>2, <2>3, <2>5
  <2>7. DOMAIN s = DOMAIN queue[w0]
    BY <2>5
  <2>8. q[w0] = s /\ \A w \in Window \ {w0} : q[w] = queue[w]
    BY <1>5, <2>4, <2>5
  <2>9. q \in [Window -> Seq(Commit)]
    BY <1>5, <2>4, <2>5, <2>6
  <2>10. ASSUME NEW w \in Window, NEW c \in ToSet(q[w])
         PROVE  \E d \in ToSet(queue[w]) : c.on = d.on /\ (c.holds # NoTx => c = d)
    <3>1. CASE w # w0
      BY <2>8, <3>1
    <3>2. CASE w = w0
      <4>1. PICK j \in DOMAIN s : c = s[j]
        BY <2>8, <3>2 DEF ToSet
      <4>2. queue[w0][j] \in ToSet(queue[w0])
        BY <2>7 DEF ToSet
      <4> QED BY <2>3, <2>6, <3>2, <4>1, <4>2
    <3> QED BY <3>1, <3>2
  <2> QED BY <2>8, <2>9, <2>10
<1>7. completed' = completed \cup D
  BY <1>3 DEF Complete
<1>8. queue' \in [Window -> Seq(Commit)]
  BY <1>3, <1>6, BlockerClearedFacts
<1>9. TypeOK'
  <2>1. /\ completed' \subseteq created' /\ notify' \in [Tx -> SUBSET Window]
        /\ timer' \in [Tx -> TimerState] /\ cleared' \subseteq Client
    <3>1. /\ created' \subseteq Tx /\ created \subseteq created'
          /\ D \in SUBSET created' /\ {} \in SUBSET created' /\ TypeOK
          /\ notify \in [Tx -> SUBSET Window] /\ timer \in [Tx -> TimerState]
      BY <1>3, <1>4 DEF Inv, TypeOK
    <3> QED BY <1>3, <3>1, CompleteTypes
  <2> QED BY <1>3, <1>8, <2>1 DEF Inv, TypeOK
<1>10. \A u \in Tx : Held(u, next', pending', q) => HeldNow(u)
  BY <1>3, <1>6, NoTxType DEF Held, HeldNow
<1>11. Owed(q, notify, timer, D, {}, {ClientOf[w0]})
  <2>1. \A w \in Window : /\ next'[w] \in created' \cup {NoTx}
                          /\ \A p \in ToSet(pending'[w]) : p.tx \in created'
    BY <1>3 DEF Inv, OnlyCreated
  <2>2. \A u \in Tx : /\ timer[u] # "none" => u \in created'
                      /\ timer[u] \in {"pinged", "fired", "removed"} => u \in completed
    BY <1>3 DEF Inv, OnlyCreated, TimersStopped
  <2>3. \A u \in completed \cup D : Held(u, next', pending', q) => timer[u] = "fired"
    BY <1>4, <1>10 DEF Inv, TypeOK, CompletesOnTime
  <2>4. \A u \in created' \ (completed \cup D) :
          (u \in closing' \/ \E w \in Window : \E c \in ToSet(q[w]) : c.on = u)
            => timer[u] = "armed"
    <3>1. \A v \in created \ completed :
            (v \in closing \/ \E w \in Window : \E c \in ToSet(queue[w]) : c.on = v)
              => timer[v] = "armed"
      BY DEF Inv, WaitersHaveDeadline
    <3> QED BY <1>3, <1>6, <3>1
  <2>5. \A w \in Window : \A c \in ToSet(q[w]) :
          /\ c.holds # NoTx => c.dmabuf
          /\ {c.on, c.holds} \subseteq created' \cup {NoTx}
          /\ c.on # NoTx /\ c.on \notin completed => w \in notify[c.on]
    BY <1>3, <1>6, QueuesOwed
  <2>6. \A u \in created' : Held(u, next', pending', q) \/ u \in completed \cup D
    BY <1>3, <1>4
  <2>7. \A w \in Window :
          q[w] # <<>> /\ Ready(q[w][1], completed) /\ ClientOf[w] \notin {ClientOf[w0]}
            => ClientOf[w] \in cleared
    BY <1>6, QueuesOwed
  <2> QED BY <2>1, <2>2, <2>3, <2>4, <2>5, <2>6, <2>7 DEF Owed
<1>12. /\ notify \in [Tx -> SUBSET Window] /\ timer \in [Tx -> TimerState]
       /\ D \in SUBSET Tx /\ {} \in SUBSET Tx /\ {ClientOf[w0]} \in SUBSET Client
  BY <1>4, ClientOfType DEF Inv, TypeOK
<1>13. queue' = BlockerCleared(q, completed', {ClientOf[w0]})
  BY <1>3, <1>7
<1> QED BY <1>3, <1>6, <1>9, <1>11, <1>12, <1>13, CompletionStep

\* A commit: references of the configures that it answers go, or move to its
\* buffer, and it joins a transaction that others still hold.
LEMMA PreCommitStep ==
  ASSUME Inv, NEW w0 \in Window, NEW serial \in acked[w0]..sent[w0], NEW dmabuf \in BOOLEAN,
         PreCommit(w0, serial, dmabuf)
  PROVE  Inv'
<1>1. PICK t, pd : /\ t = TakeTx(pending[w0], serial)
                   /\ pd = [pending EXCEPT ![w0] = Unanswered(@, serial)]
  OBVIOUS
<1> DEFINE joins == t # NoTx /\ t \notin completed /\ ~DisableTransactions
           waits == joins /\ Held(t, next, pd, queue)
<1>2. PICK c0 : c0 = [on     |-> IF waits THEN t ELSE NoTx,
                      dmabuf |-> dmabuf,
                      holds  |-> IF joins /\ dmabuf THEN t ELSE NoTx]
  OBVIOUS
<1>3. PICK q : q = [queue EXCEPT ![w0] = Append(@, c0)]
  OBVIOUS
<1>4. PICK nt : nt = IF waits THEN [notify EXCEPT ![t] = @ \cup {w0}] ELSE notify
  OBVIOUS
<1>5. PICK tm : tm = IF joins THEN Registered(t) ELSE timer
  OBVIOUS
<1>6. PICK D : D = Dropped(created, next, pd, q)
  OBVIOUS
<1>7. /\ next' = next /\ created' = created /\ pending' = pd /\ closing' = closing
      /\ mapped' = mapped /\ sent' = sent /\ acked' = [acked EXCEPT ![w0] = serial]
      /\ Complete(D, {}, nt, tm)
      /\ queue' = BlockerCleared(q, completed \cup D, {ClientOf[w0]})
  BY <1>1, <1>2, <1>3, <1>4, <1>5, <1>6 DEF PreCommit
<1>8. D \subseteq created /\ \A u \in created : u \in D <=> ~Held(u, next', pending', q)
  BY <1>6, <1>7 DEF Dropped
<1>9. /\ queue \in [Window -> Seq(Commit)] /\ pending \in [Window -> Seq(Pending)]
      /\ created \subseteq Tx /\ serial \in Nat
      /\ notify \in [Tx -> SUBSET Window] /\ timer \in [Tx -> TimerState]
      /\ acked \in [Window -> Nat] /\ completed \subseteq created
  <2>1. acked[w0] \in Nat /\ sent[w0] \in Nat
    BY DEF Inv, TypeOK
  <2>2. serial \in Nat
    BY <2>1
  <2> QED BY <2>2 DEF Inv, TypeOK, Pending
<1>10. /\ pd \in [Window -> Seq(Pending)]
       /\ \A w \in Window : ToSet(pd[w]) \subseteq ToSet(pending[w])
       /\ t # NoTx => \E p \in ToSet(pending[w0]) : p.tx = t
  <2>1. /\ Unanswered(pending[w0], serial) \in Seq(Pending)
        /\ ToSet(Unanswered(pending[w0], serial)) \subseteq ToSet(pending[w0])
        /\ t # NoTx => \E p \in ToSet(pending[w0]) : p.tx = t
    BY <1>1, <1>9, TakeFacts
  <2> QED BY <1>1, <1>9, <2>1
<1>11. t # NoTx => t \in created
  BY <1>10 DEF Inv, OnlyCreated
<1>12. c0 \in Commit /\ c0.dmabuf = dmabuf
  <2>1. (IF waits THEN t ELSE NoTx) \in Tx \cup {NoTx}
    BY <1>9, <1>11
  <2>2. (IF joins /\ dmabuf THEN t ELSE NoTx) \in Tx \cup {NoTx}
    BY <1>9, <1>11
  <2> HIDE DEF joins, waits
  <2> QED BY <1>2, <2>1, <2>2 DEF Commit
<1>13. /\ c0.on # NoTx => c0.on = t /\ waits
       /\ c0.holds # NoTx => c0.holds = t /\ joins /\ dmabuf
  BY <1>2
<1>14. /\ q \in [Window -> Seq(Commit)]
       /\ \A w \in Window \ {w0} : q[w] = queue[w]
       /\ ToSet(q[w0]) = ToSet(queue[w0]) \cup {c0}
  BY <1>3, <1>9, <1>12, AppendFacts
<1> HIDE DEF joins, waits
<1>15. \A w \in Window : \A c \in ToSet(q[w]) : c \in ToSet(queue[w]) \/ (w = w0 /\ c = c0)
  BY <1>14
<1>16. waits => joins
  BY DEF waits
<1>17. joins => t \in created \ completed
  BY <1>11 DEF joins
<1>18. /\ nt \in [Tx -> SUBSET Window]
       /\ \A u \in Tx : notify[u] \subseteq nt[u]
       /\ waits => w0 \in nt[t]
  BY <1>4, <1>9, <1>16, <1>17
<1>19. /\ tm \in [Tx -> TimerState]
       /\ \A u \in Tx : tm[u] = timer[u] \/ (joins /\ u = t /\ tm[u] = "armed")
       /\ joins => tm[t] = "armed"
  <2>1. CASE joins
    <3>1. t \in Tx /\ t \notin completed
      BY <1>9, <1>17, <2>1
    <3>2. timer[t] \in {"none", "armed"}
      BY <1>9, <3>1 DEF Inv, TimersStopped, TimerState
    <3> QED BY <1>5, <1>9, <2>1, <3>1, <3>2 DEF Registered, TimerState
  <2>2. CASE ~joins
    BY <1>5, <1>9, <2>2
  <2> QED BY <2>1, <2>2
<1>20. completed' = completed \cup D
  BY <1>7 DEF Complete
<1>21. queue' \in [Window -> Seq(Commit)]
  BY <1>7, <1>14, BlockerClearedFacts
<1>22. TypeOK'
  <2>1. /\ completed' \subseteq created' /\ notify' \in [Tx -> SUBSET Window]
        /\ timer' \in [Tx -> TimerState] /\ cleared' \subseteq Client
    <3>1. /\ created' \subseteq Tx /\ created \subseteq created'
          /\ D \in SUBSET created' /\ {} \in SUBSET created' /\ TypeOK
      BY <1>7, <1>8, <1>9 DEF Inv
    <3> QED BY <1>7, <1>18, <1>19, <3>1, CompleteTypes
  <2>2. acked' \in [Window -> Nat]
    BY <1>7, <1>9
  <2> QED BY <1>7, <1>10, <1>21, <2>1, <2>2 DEF Inv, TypeOK, Pending
<1>23. \A u \in Tx : Held(u, next', pending', q) => HeldNow(u) \/ (u = t /\ joins)
  BY <1>7, <1>10, <1>13, <1>15, NoTxType DEF Held, HeldNow
<1>24. Owed(q, nt, tm, D, {}, {ClientOf[w0]})
  <2>1. \A w \in Window : /\ next'[w] \in created' \cup {NoTx}
                          /\ \A p \in ToSet(pending'[w]) : p.tx \in created'
    BY <1>7, <1>10 DEF Inv, OnlyCreated
  <2>2. \A u \in Tx : /\ tm[u] # "none" => u \in created'
                      /\ tm[u] \in {"pinged", "fired", "removed"} => u \in completed
    BY <1>7, <1>17, <1>19 DEF Inv, OnlyCreated, TimersStopped
  <2>3. \A u \in completed \cup D : Held(u, next', pending', q) => tm[u] = "fired"
    <3>1. \A u \in completed : HeldNow(u) => timer[u] = "fired"
      BY DEF Inv, CompletesOnTime
    <3> QED BY <1>8, <1>9, <1>17, <1>19, <1>23, <3>1
  <2>4. \A u \in created' \ (completed \cup D) :
          (u \in closing' \/ \E w \in Window : \E c \in ToSet(q[w]) : c.on = u)
            => tm[u] = "armed"
    <3>1. \A v \in created \ completed :
            (v \in closing \/ \E w \in Window : \E c \in ToSet(queue[w]) : c.on = v)
              => timer[v] = "armed"
      BY DEF Inv, WaitersHaveDeadline
    <3> SUFFICES ASSUME NEW u \in created' \ (completed \cup D),
                        u \in closing' \/ \E w \in Window : \E c \in ToSet(q[w]) : c.on = u
                 PROVE  tm[u] = "armed"
      OBVIOUS
    <3>2. u \in Tx /\ u # NoTx
      BY <1>7, <1>9, NoTxType
    <3>3. CASE u \in closing \/ \E w \in Window : \E c \in ToSet(queue[w]) : c.on = u
      BY <1>7, <1>19, <3>1, <3>2, <3>3
    <3>4. CASE c0.on = u
      BY <1>13, <1>16, <1>19, <3>2, <3>4
    <3> QED BY <1>7, <1>15, <3>3, <3>4
  <2>5. ASSUME NEW w \in Window, NEW c \in ToSet(q[w])
        PROVE  /\ c.holds # NoTx => c.dmabuf
               /\ {c.on, c.holds} \subseteq created' \cup {NoTx}
               /\ c.on # NoTx /\ c.on \notin completed => w \in nt[c.on]
    <3>1. CASE c \in ToSet(queue[w])
      BY <1>7, <1>9, <1>18, <3>1, QueuesOwed
    <3>2. CASE w = w0 /\ c = c0
      BY <1>7, <1>11, <1>12, <1>13, <1>16, <1>17, <1>18, <3>2
    <3> QED BY <1>15, <3>1, <3>2
  <2>6. \A u \in created' : Held(u, next', pending', q) \/ u \in completed \cup D
    BY <1>7, <1>8
  <2>7. \A w \in Window :
          q[w] # <<>> /\ Ready(q[w][1], completed) /\ ClientOf[w] \notin {ClientOf[w0]}
            => ClientOf[w] \in cleared
    BY <1>14, QueuesOwed
  <2> QED BY <2>1, <2>2, <2>3, <2>4, <2>5, <2>6, <2>7 DEF Owed
<1>25. D \in SUBSET Tx /\ {} \in SUBSET Tx /\ {ClientOf[w0]} \in SUBSET Client
  BY <1>8, <1>9, ClientOfType
<1>26. queue' = BlockerCleared(q, completed', {ClientOf[w0]})
  BY <1>7, <1>20
<1> QED BY <1>7, <1>14, <1>18, <1>19, <1>22, <1>24, <1>25, <1>26, CompletionStep

\* A reference moves from the window to the configure.
LEMMA SendConfigureStep ==
  ASSUME Inv, NEW w0 \in Window, SendConfigure(w0)
  PROVE  Inv'
<1>1. /\ sent' = [sent EXCEPT ![w0] = @ + 1]
      /\ pending' = IF next[w0] = NoTx THEN pending
                    ELSE [pending EXCEPT ![w0] = Append(@, [serial |-> sent[w0] + 1, tx |-> next[w0]])]
      /\ next' = [next EXCEPT ![w0] = NoTx]
      /\ UNCHANGED <<mapped, acked, queue, created, completed, notify, timer, cleared, closing>>
  BY DEF SendConfigure
<1>2. /\ next \in [Window -> Tx \cup {NoTx}] /\ sent \in [Window -> Nat]
      /\ pending \in [Window -> Seq(Pending)]
  BY DEF Inv, TypeOK, Pending
<1>3. next' \in [Window -> Tx \cup {NoTx}] /\ sent' \in [Window -> Nat]
  BY <1>1, <1>2
<1>4. /\ pending' \in [Window -> Seq(Pending)]
      /\ \A w \in Window \ {w0} : pending'[w] = pending[w]
      /\ \A p \in ToSet(pending[w0]) : p \in ToSet(pending'[w0])
      /\ \A p \in ToSet(pending'[w0]) :
           p \notin ToSet(pending[w0]) => p.tx = next[w0] /\ next[w0] # NoTx
      /\ next[w0] # NoTx => \E p \in ToSet(pending'[w0]) : p.tx = next[w0]
  <2>1. CASE next[w0] = NoTx
    <3>1. pending' = pending
      BY <1>1, <2>1
    <3> QED BY <1>2, <2>1, <3>1
  <2>2. CASE next[w0] # NoTx
    <3>1. PICK e : e = [serial |-> sent[w0] + 1, tx |-> next[w0]]
      OBVIOUS
    <3>2. e \in Pending /\ e.tx = next[w0]
      BY <1>2, <2>2, <3>1 DEF Pending
    <3>3. pending' = [pending EXCEPT ![w0] = Append(pending[w0], e)]
      BY <1>1, <1>2, <2>2, <3>1
    <3>4. /\ Append(pending[w0], e) \in Seq(Pending)
          /\ ToSet(Append(pending[w0], e)) = ToSet(pending[w0]) \cup {e}
      BY <1>2, <3>2, AppendFacts
    <3>5. /\ pending' \in [Window -> Seq(Pending)]
          /\ \A w \in Window \ {w0} : pending'[w] = pending[w]
          /\ ToSet(pending'[w0]) = ToSet(pending[w0]) \cup {e}
      BY <1>2, <3>3, <3>4
    <3>6. next[w0] # NoTx
      BY <2>2
    <3>7. \A p \in ToSet(pending'[w0]) : p \in ToSet(pending[w0]) \/ p = e
      BY <3>5
    <3>8. e \in ToSet(pending'[w0]) /\ \A p \in ToSet(pending[w0]) : p \in ToSet(pending'[w0])
      BY <3>5
    <3> QED BY <3>2, <3>5, <3>6, <3>7, <3>8
  <2> QED BY <2>1, <2>2
<1>5. TypeOK'
  BY <1>1, <1>3, <1>4 DEF Inv, TypeOK, Pending
<1>6. \A t \in Tx : Held(t, next', pending', queue') <=> HeldNow(t)
  <2> SUFFICES ASSUME NEW t \in Tx PROVE Held(t, next', pending', queue') <=> HeldNow(t)
    OBVIOUS
  <2>1. ASSUME NEW w \in Window
        PROVE  (next'[w] = t \/ \E p \in ToSet(pending'[w]) : p.tx = t)
                 <=> (next[w] = t \/ \E p \in ToSet(pending[w]) : p.tx = t)
    <3>1. CASE w # w0
      BY <1>1, <1>2, <1>4, <3>1
    <3>2. CASE w = w0
      BY <1>1, <1>2, <1>4, <3>2, NoTxType
    <3> QED BY <3>1, <3>2
  <2> QED BY <1>1, <2>1 DEF Held, HeldNow
<1>7. OnlyCreated'
  <2>1. \A w \in Window : \A p \in ToSet(pending'[w]) : p.tx \in created
    BY <1>4 DEF Inv, OnlyCreated
  <2>2. \A w \in Window : next'[w] \in created \cup {NoTx}
    BY <1>1, <1>2 DEF Inv, OnlyCreated
  <2> QED BY <1>1, <2>1, <2>2 DEF Inv, OnlyCreated
<1>8. HoldersRender' /\ Subscribed' /\ TimersStopped' /\ NoLostWakeup' /\ WaitersHaveDeadline'
  BY <1>1 DEF Inv, HoldersRender, Subscribed, TimersStopped, NoLostWakeup, WaitersHaveDeadline, Ready
<1>9. CompletesOnTime' /\ DroppedIsCompleted'
  BY <1>1, <1>6 DEF Inv, TypeOK, CompletesOnTime, DroppedIsCompleted, HeldNow
<1> QED BY <1>5, <1>7, <1>8, <1>9 DEF Inv

\* The ping removes the timer of a completed transaction.
LEMMA RemoveTimerStep ==
  ASSUME Inv, NEW t \in Tx, RemoveTimer(t)
  PROVE  Inv'
<1>1. /\ timer[t] = "pinged" /\ timer' = [timer EXCEPT ![t] = "removed"]
      /\ UNCHANGED <<mapped, next, sent, acked, pending, queue, created, completed, notify,
                     cleared, closing>>
  BY DEF RemoveTimer
<1>2. timer' \in [Tx -> TimerState]
  BY <1>1 DEF Inv, TypeOK, TimerState
<1>3. t \in completed /\ t \in created
  BY <1>1 DEF Inv, TimersStopped, TypeOK
<1>4. \A u \in Tx \ {t} : timer'[u] = timer[u]
  BY <1>1 DEF Inv, TypeOK
<1>5. TypeOK'
  BY <1>1, <1>2 DEF Inv, TypeOK
<1>6. OnlyCreated' /\ TimersStopped'
  BY <1>1, <1>3, <1>4 DEF Inv, OnlyCreated, TimersStopped
<1>7. HoldersRender' /\ Subscribed' /\ DroppedIsCompleted' /\ NoLostWakeup'
  BY <1>1 DEF Inv, HoldersRender, Subscribed, DroppedIsCompleted, HeldNow, Held, NoLostWakeup, Ready
<1>8. CompletesOnTime'
  BY <1>1, <1>4 DEF Inv, TypeOK, CompletesOnTime, HeldNow, Held
<1>9. WaitersHaveDeadline'
  BY <1>1, <1>3, <1>4 DEF Inv, TypeOK, WaitersHaveDeadline
<1> QED BY <1>5, <1>6, <1>7, <1>8, <1>9 DEF Inv

\* The clients of the channel are looked at, and the channel is emptied.
LEMMA NotifyBlockerClearedStep ==
  ASSUME Inv, NotifyBlockerCleared
  PROVE  Inv'
<1>1. /\ queue' = BlockerCleared(queue, completed, cleared) /\ cleared' = {}
      /\ UNCHANGED <<mapped, next, sent, acked, pending, created, completed, notify, timer, closing>>
  BY DEF NotifyBlockerCleared
<1>2. queue \in [Window -> Seq(Commit)]
  BY DEF Inv, TypeOK
<1>3. queue' \in [Window -> Seq(Commit)]
  BY <1>1, <1>2, BlockerClearedFacts
<1>4. \A w \in Window : ToSet(queue'[w]) \subseteq ToSet(queue[w])
  BY <1>1, <1>2, BlockerClearedFacts
<1>5. TypeOK'
  BY <1>1, <1>3 DEF Inv, TypeOK
<1>6. \A t \in Tx : Held(t, next', pending', queue') <=> HeldNow(t)
  <2>1. \A w \in Window : \A c \in ToSet(queue[w]) : c.holds # NoTx => c.dmabuf
    BY QueuesOwed
  <2>2. \A t \in Tx : Held(t, next, pending, queue') <=> Held(t, next, pending, queue)
    BY <1>1, <1>2, <2>1, HeldAfterwards
  <2> QED BY <1>1, <2>2 DEF HeldNow
<1>7. OnlyCreated' /\ HoldersRender' /\ Subscribed' /\ TimersStopped'
  BY <1>1, <1>4 DEF Inv, OnlyCreated, HoldersRender, Subscribed, TimersStopped
<1>8. CompletesOnTime' /\ DroppedIsCompleted'
  BY <1>1, <1>6 DEF Inv, TypeOK, CompletesOnTime, DroppedIsCompleted, HeldNow
<1>9. WaitersHaveDeadline'
  BY <1>1, <1>4 DEF Inv, WaitersHaveDeadline
<1>10. NoLostWakeup'
  <2> SUFFICES ASSUME NEW w \in Window, queue'[w] # <<>>, Ready(queue'[w][1], completed')
               PROVE  FALSE
    BY DEF NoLostWakeup
  <2>1. ClientOf[w] \in cleared => ~Ready(queue'[w][1], completed)
    BY <1>1, <1>2, BlockerClearedFacts
  <2>2. ClientOf[w] \notin cleared => queue'[w] = queue[w]
    BY <1>1, <1>2, BlockerClearedFacts
  <2> QED BY <1>1, <2>1, <2>2, QueuesOwed
<1> QED BY <1>5, <1>7, <1>8, <1>9, <1>10 DEF Inv

\* A close animation stops waiting.
LEMMA StartCloseAnimationStep ==
  ASSUME Inv, NEW t \in Tx, StartCloseAnimation(t)
  PROVE  Inv'
<1>1. /\ closing' \subseteq closing
      /\ UNCHANGED <<mapped, next, sent, acked, pending, queue, created, completed, notify,
                     timer, cleared>>
  BY DEF StartCloseAnimation
<1>2. TypeOK'
  BY <1>1 DEF Inv, TypeOK
<1>3. /\ OnlyCreated' /\ HoldersRender' /\ Subscribed' /\ TimersStopped'
      /\ DroppedIsCompleted' /\ CompletesOnTime' /\ NoLostWakeup'
  BY <1>1 DEF Inv, OnlyCreated, HoldersRender, Subscribed, TimersStopped, DroppedIsCompleted,
              CompletesOnTime, HeldNow, Held, NoLostWakeup, Ready
<1>4. WaitersHaveDeadline'
  BY <1>1 DEF Inv, WaitersHaveDeadline
<1> QED BY <1>2, <1>3, <1>4 DEF Inv

(***************************************************************************)
(* The invariant holds initially and every step preserves it.              *)
(***************************************************************************)
LEMMA InitInv == Init => Inv
<1> SUFFICES ASSUME Init PROVE Inv
  OBVIOUS
<1>1. ToSet(<<>>) = {}
  BY DEF ToSet
<1>2. \A w \in Window : /\ next[w] = NoTx /\ pending[w] = <<>> /\ queue[w] = <<>>
                        /\ ToSet(pending[w]) = {} /\ ToSet(queue[w]) = {}
  BY <1>1 DEF Init
<1>3. TypeOK
  <2>1. <<>> \in Seq([serial : Nat, tx : Tx]) /\ <<>> \in Seq(Commit)
    OBVIOUS
  <2> QED BY <2>1 DEF Init, TypeOK, TimerState
<1>4. created = {} /\ completed = {} /\ \A t \in Tx : timer[t] = "none"
  BY DEF Init
<1> QED BY <1>2, <1>3, <1>4
        DEF Inv, OnlyCreated, HoldersRender, Subscribed, TimersStopped, DroppedIsCompleted,
            CompletesOnTime, NoLostWakeup, WaitersHaveDeadline

\* Every step preserves the invariant: one case for each action.
LEMMA NextInv == Inv /\ [Next]_vars => Inv'
<1> SUFFICES ASSUME Inv, [Next]_vars PROVE Inv'
  OBVIOUS
<1>1. ASSUME NEW t \in Tx, NEW ws \in SUBSET Window, Request(t, ws) PROVE Inv'
  BY <1>1, RequestStep
<1>2. ASSUME NEW t \in Tx, NEW ws \in SUBSET Window, NEW w \in Window, Close(w, t, ws) PROVE Inv'
  BY <1>2, CloseStep
<1>3. ASSUME NEW w \in Window, SendConfigure(w) PROVE Inv'
  BY <1>3, SendConfigureStep
<1>4. ASSUME NEW w \in Window, NothingToSend(w) PROVE Inv'
  BY <1>4, NothingToSendStep
<1>5. ASSUME NEW w \in Window, NEW serial \in acked[w]..sent[w], NEW dmabuf \in BOOLEAN,
             PreCommit(w, serial, dmabuf)
      PROVE  Inv'
  BY <1>5, PreCommitStep
<1>6. ASSUME NEW w \in Window, NEW i \in DOMAIN queue[w], DmabufReady(w, i) PROVE Inv'
  BY <1>6, DmabufReadyStep
<1>7. ASSUME NEW t \in Tx, DeadlineReached(t) PROVE Inv'
  BY <1>7, DeadlineReachedStep
<1>8. ASSUME NEW t \in Tx, RemoveTimer(t) PROVE Inv'
  BY <1>8, RemoveTimerStep
<1>9. ASSUME NEW t \in Tx, StartCloseAnimation(t) PROVE Inv'
  BY <1>9, StartCloseAnimationStep
<1>10. CASE NotifyBlockerCleared
  BY <1>10, NotifyBlockerClearedStep
<1>11. CASE UNCHANGED vars
  BY <1>11 DEF vars, Inv, TypeOK, OnlyCreated, HoldersRender, Subscribed, TimersStopped,
               DroppedIsCompleted, CompletesOnTime, HeldNow, Held, NoLostWakeup, Ready,
               WaitersHaveDeadline
<1> QED BY <1>1, <1>2, <1>3, <1>4, <1>5, <1>6, <1>7, <1>8, <1>9, <1>10, <1>11 DEF Next

\* Hence it always holds.
LEMMA InvHolds == Spec => []Inv
BY InitInv, NextInv, PTL DEF Spec

(***************************************************************************)
(* The fields have their types: pending transactions are kept by serial,   *)
(* only transactions that were made complete, and only those are waited    *)
(* for.                                                                    *)
(***************************************************************************)
THEOREM TypeCorrect == Spec => []TypeOK
<1>1. Inv => TypeOK
  BY DEF Inv
<1> QED BY <1>1, InvHolds, PTL

(***************************************************************************)
(* A transaction completes at its deadline or when its last reference is   *)
(* dropped, never before; and one without references is completed, so that *)
(* TransactionBlocker may treat a transaction that is gone as completed.   *)
(***************************************************************************)
THEOREM LastReference == Spec => []CompletesWithLastReference
<1>1. Inv => CompletesWithLastReference
  BY DEF Inv, CompletesWithLastReference
<1> QED BY <1>1, InvHolds, PTL

(***************************************************************************)
(* No wakeup is lost: a client whose commit has become ready is in the     *)
(* channel of clients to look at.                                          *)
(***************************************************************************)
THEOREM WakeupsKept == Spec => []NoLostWakeup
<1>1. Inv => NoLostWakeup
  BY DEF Inv
<1> QED BY <1>1, InvHolds, PTL

(***************************************************************************)
(* A client that never answers holds nobody back for ever: whatever waits  *)
(* for a transaction that is not completed has its deadline timer armed.   *)
(***************************************************************************)
THEOREM DeadlineGuards == Spec => []WaitersHaveDeadline
<1>1. Inv => WaitersHaveDeadline
  BY DEF Inv
<1> QED BY <1>1, InvHolds, PTL
=============================================================================
