------------------------------ MODULE Toplevels -----------------------------
(***************************************************************************)
(* The windows as task bars see them (protocols/foreign_toplevel.rs): the  *)
(* ext list has titles only, the wlr management protocol states and outputs*)
(* too.  The server keeps, by window, what it told last; messages is the   *)
(* sequence that one client, bound to both, gets from a refresh.  Windows  *)
(* in a view are on the output of their workspace, and the focused one has *)
(* the keyboard focus.                                                     *)
(***************************************************************************)
EXTENDS EventStream

OutputOf(v, w) ==
    IF \E s \in ToSet(v.ws) : s.id = w.ws
    THEN (CHOOSE s \in ToSet(v.ws) : s.id = w.ws).output ELSE None
Toplevel(v, w) == [title |-> w.title, activated |-> w.focused, output |-> OutputOf(v, w)]
NewTitle(id, t) == [kind |-> "title", id |-> id, title |-> t.title]
NewState(id, t) == [kind |-> "state", id |-> id, activated |-> t.activated]
NewOutput(id, t) == [kind |-> "output", id |-> id, output |-> t.output]

\* add_ext_instance and add_wlr_instance.
Introduce(id, t) ==
    <<[kind |-> "toplevel", id |-> id], NewTitle(id, t), NewState(id, t), NewOutput(id, t)>>

\* refresh_toplevel: what changed.
ToplevelChanges(data, id, t) ==
    IF id \notin DOMAIN data THEN Introduce(id, t)
    ELSE When(data[id].title # t.title, NewTitle(id, t))
         \o When(data[id].activated # t.activated, NewState(id, t))
         \o When(data[id].output # t.output, NewOutput(id, t))

BadInOrder(win) == win

\* Closed windows first, then the others, the focused one last.
InOrder(win) == SelectSeq(win, LAMBDA w : ~w.focused) \o SelectSeq(win, LAMBDA w : w.focused)

ToplevelMessages(data, v) ==
    LET closed == DOMAIN data \ {w.id : w \in ToSet(v.win)}
        order  == InOrder(v.win)
    IN  SetToSeq({[kind |-> "closed", id |-> id] : id \in closed})
        \o FlattenSeq([i \in DOMAIN order |->
                         ToplevelChanges(data, order[i].id, Toplevel(v, order[i]))])
ToplevelData(v) ==
    [id \in {w.id : w \in ToSet(v.win)} |->
        Toplevel(v, CHOOSE w \in ToSet(v.win) : w.id = id)]

\* bind: a new client is told of the windows the server knows.
BindMessages(data) ==
    LET ids == SetToSeq(DOMAIN data)
    IN  FlattenSeq([i \in DOMAIN ids |-> Introduce(ids[i], data[ids[i]])])

\* What a message does to the client's list.
Receive(list, m) ==
    CASE m.kind = "toplevel" -> (m.id :> [title |-> None, activated |-> FALSE, output |-> None]) @@ list
      [] m.kind = "closed" -> Without(list, m.id)
      [] m.kind = "title" -> [list EXCEPT ![m.id].title = m.title]
      [] m.kind = "state" -> [list EXCEPT ![m.id].activated = m.activated]
      [] m.kind = "output" -> [list EXCEPT ![m.id].output = m.output]
=============================================================================
