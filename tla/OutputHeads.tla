---------------------------- MODULE OutputHeads -----------------------------
(***************************************************************************)
(* Output management (src/src/protocols/output_management.rs): what a      *)
(* client is told of the outputs, and the configurations it asks for.      *)
(*                                                                         *)
(* A snapshot has, by connector, the output's make and modes, the index of *)
(* the current mode (0 for none) and its position; fresh is whether its    *)
(* OutputId has not been in a snapshot yet.  A head is what a client knows:*)
(* its mode objects keep their indices.  skewed is a history: the number   *)
(* of modes has changed since the client was told of the current one.      *)
(***************************************************************************)
EXTENDS OutputConfig

\* send_new_head
NewHead(e) == [modes |-> e.modes, cur |-> e.cur, enabled |-> e.cur # 0, x |-> e.x,
               skewed |-> FALSE]

\* (mistake) A head that had a mode is not enabled by another.
BadCurrentMode(old, new, h) ==
  CASE old.cur # 0 /\ new.cur = 0 -> [h EXCEPT !.enabled = FALSE]
    [] old.cur # 0 /\ new.cur # 0 /\ old.cur # new.cur -> [h EXCEPT !.cur = new.cur]
    [] OTHER -> h

\* The current mode, and whether the head is enabled.
CurrentMode(old, new, h) ==
  LET same == Len(old.modes) = Len(new.modes)
  IN  CASE old.cur # 0 /\ new.cur = 0 -> [h EXCEPT !.enabled = FALSE, !.skewed = @ \/ ~same]
        [] old.cur # 0 /\ new.cur # 0 /\ same
             /\ (old.modes # new.modes \/ old.cur # new.cur) -> [h EXCEPT !.cur = new.cur, !.skewed = ~h.enabled]
        [] old.cur = 0 /\ new.cur # 0 /\ same -> [h EXCEPT !.enabled = TRUE, !.cur = new.cur,
                                                             !.skewed = FALSE]
        [] OTHER -> [h EXCEPT !.skewed = @ \/ ~same]

\* Mode objects are resized in place, added and removed at the end.
ChangedHead(old, new, h) ==
  LET told == CurrentMode(old, new, h)
  IN  [told EXCEPT !.modes = new.modes, !.x = IF new.x = NoX THEN @ ELSE new.x]

Differs(old, new) == \/ old.modes # new.modes
                     \/ old.cur # new.cur
                     \/ new.x # NoX /\ old.x # new.x

Known(snapshot, c, current) == c \in DOMAIN current /\ ~snapshot[c].fresh

\* notify_changes: whether there is anything to tell, and the heads after it.
Notifies(current, new) ==
  \/ \E c \in DOMAIN new : Known(new, c, current) => Differs(current[c], new[c])
  \/ DOMAIN current \ DOMAIN new # {}
Notified(current, new, heads) ==
  [c \in DOMAIN new |-> IF Known(new, c, current) THEN ChangedHead(current[c], new[c], heads[c])
                                                  ELSE NewHead(new[c])]
Settled(snapshot) == [c \in DOMAIN snapshot |-> [snapshot[c] EXCEPT !.fresh = FALSE]]

-----------------------------------------------------------------------------
(* The configuration that the client is making, one at a time. *)

NoConf == [live |-> FALSE, outdated |-> FALSE, entries |-> <<>>]
NewConf(old) == [live |-> TRUE, outdated |-> old, entries |-> <<>>]

\* EnableHead and the requests on that head, or DisableHead.
CanConfigure(conf, c, current) ==
  conf.live /\ ~conf.outdated /\ c \in DOMAIN current /\ c \notin DOMAIN conf.entries
Configured(conf, c, current, config, field, value) ==
  LET entry == [Find(config, c, current[c].make) EXCEPT !.off = FALSE]
  IN  [conf EXCEPT !.entries = (c :> [entry EXCEPT ![field] = value]) @@ @]

Applies(conf) ==
  conf.live /\ ~conf.outdated /\ \E c \in DOMAIN conf.entries : ~conf.entries[c].off

\* The output sections that an applied configuration leaves, in any order.
Applied(conf) == SetToSeqs({conf.entries[c] : c \in DOMAIN conf.entries})
=============================================================================
