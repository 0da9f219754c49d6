----------------------- MODULE TransactionProperties -----------------------
(***************************************************************************)
(* What transactions promise.                                              *)
(***************************************************************************)
EXTENDS Transaction

(***************************************************************************)
(* Every variable has the type of the field it stands for.                 *)
(***************************************************************************)
TypeOK ==
  /\ mapped \subseteq Window
  /\ next \in [Window -> Tx \cup {NoTx}]
  /\ sent \in [Window -> Nat] /\ acked \in [Window -> Nat]
  /\ pending \in [Window -> Seq([serial : Nat, tx : Tx])]
  /\ queue \in [Window -> Seq(Commit)]
  /\ created \subseteq Tx /\ completed \subseteq created /\ closing \subseteq created
  /\ notify \in [Tx -> SUBSET Window]
  /\ timer \in [Tx -> TimerState]
  /\ cleared \subseteq Client

HeldNow(t) == Held(t, next, pending, queue)

(***************************************************************************)
(* A transaction completes only when its last reference is dropped, that   *)
(* is when all its windows have answered and rendered, or moved on, or at  *)
(* the deadline (transaction.rs:15-17, 139-154).                           *)
(***************************************************************************)
CompletesOnTime ==
  \A t \in completed : timer[t] = "fired" \/ ~HeldNow(t)

(***************************************************************************)
(* A blocker is released when its transaction is completed or gone         *)
(* (TransactionBlocker::state); both are the same, so nobody waits for a   *)
(* transaction that no reference can complete any more.                    *)
(***************************************************************************)
DroppedIsCompleted ==
  \A t \in created : HeldNow(t) \/ t \in completed

(***************************************************************************)
(* Both ways: short of its deadline, a transaction completes exactly with  *)
(* the drop of its last reference.                                         *)
(***************************************************************************)
CompletesWithLastReference == CompletesOnTime /\ DroppedIsCompleted

(***************************************************************************)
(* No lost wakeup: when the first commit of a surface is ready and not     *)
(* applied, the client is in the channel of clients to look at.            *)
(***************************************************************************)
NoLostWakeup ==
  \A w \in Window :
    queue[w] # <<>> /\ Ready(queue[w][1], completed) => ClientOf[w] \in cleared

(***************************************************************************)
(* "Serves to avoid hanging when a client fails to respond": whatever      *)
(* waits for a transaction, commits or close animations, has its deadline  *)
(* set (transaction.rs:14-17, steps 3 and 4 of "How to use it").           *)
(***************************************************************************)
WaitersHaveDeadline ==
  \A t \in created \ completed :
    (t \in closing \/ \E w \in Window : \E c \in ToSet(queue[w]) : c.on = t)
      => timer[t] = "armed"

(***************************************************************************)
(* The inductive invariant: the properties above and what they rest on.    *)
(***************************************************************************)
\* A transaction is referred to only once it has been made.
OnlyCreated ==
  /\ \A w \in Window :
       /\ next[w] \in created \cup {NoTx}
       /\ \A p \in ToSet(pending[w]) : p.tx \in created
       /\ \A c \in ToSet(queue[w]) : {c.on, c.holds} \subseteq created \cup {NoTx}
  /\ \A t \in Tx : timer[t] # "none" => t \in created

\* A commit holds its transaction only while its buffer is being rendered.
HoldersRender ==
  \A w \in Window : \A c \in ToSet(queue[w]) : c.holds # NoTx => c.dmabuf

\* A commit that waits for a transaction has asked to be notified.
Subscribed ==
  \A w \in Window : \A c \in ToSet(queue[w]) :
    c.on # NoTx /\ c.on \notin completed => w \in notify[c.on]

\* The timer stops only when its transaction completes.
TimersStopped ==
  \A t \in Tx : timer[t] \in {"pinged", "fired", "removed"} => t \in completed

Inv == /\ TypeOK /\ OnlyCreated /\ HoldersRender /\ Subscribed /\ TimersStopped
       /\ CompletesOnTime /\ DroppedIsCompleted /\ NoLostWakeup /\ WaitersHaveDeadline

(***************************************************************************)
(* Every commit that joins a transaction is applied, even when other       *)
(* clients never answer.                                                   *)
(***************************************************************************)
Waits(w, t) == \E c \in ToSet(queue[w]) : c.on = t

CommitsApplied == \A w \in Window, t \in Tx : Waits(w, t) ~> ~Waits(w, t)

(***************************************************************************)
(* Every close animation starts.                                           *)
(***************************************************************************)
CloseAnimationsStart == \A t \in Tx : t \in closing ~> t \notin closing
=============================================================================
