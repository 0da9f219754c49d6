--------------------------- MODULE MCTransaction ---------------------------
(***************************************************************************)
(* Instances of the transactions for TLC.                                  *)
(***************************************************************************)
EXTENDS TransactionProperties, TLC

CONSTANTS Hasty,       \* the windows that are configured again before they answer
          MaxQueue     \* bound: commits of a window that wait

OneClientEach == [w \in Window |-> w]

Bounded ==
  \A w \in Window : sent'[w] <= (IF w \in Hasty THEN 2 ELSE 1) /\ Len(queue'[w]) <= MaxQueue

BoundedNext == Next /\ Bounded
MCSpec == Init /\ [][BoundedNext]_vars /\ Fairness
=============================================================================
