--------------------------- MODULE WorkspaceGroups --------------------------
(***************************************************************************)
(* ext-workspace (protocols/ext_workspace.rs): workspaces as objects of a  *)
(* client, in groups that stand for outputs.  A state x has                *)
(*   data    what the server keeps: the groups and, by id, each workspace  *)
(*           with the label its clients were sent,                         *)
(*   seen    what the messages of one manager have told its client: groups,*)
(*           workspaces, which is in which group, and the slips of the     *)
(*           server: an "enter" repeated, a "leave" of a workspace that is *)
(*           not there, an object named that does not exist.               *)
(* A message changes seen only if the manager is bound.                    *)
(***************************************************************************)
EXTENDS EventStream

NoGroups ==
    [data |-> [groups |-> {}, ws |-> <<>>], bound |-> FALSE,
     seen |-> [groups |-> {}, ws |-> <<>>, members |-> {}, slips |-> {}]]

Slip(x, condition, name) ==
    IF x.bound /\ condition THEN [x EXCEPT !.seen.slips = @ \cup {name}] ELSE x

\* send_workspace_enter_leave, for workspace id and the group of its output.
Enter(x, id) ==
    LET o == x.data.ws[id].output
        y == Slip(x, <<o, id>> \in x.seen.members, "enter")
    IN  IF x.bound /\ o \in x.data.groups THEN [y EXCEPT !.seen.members = @ \cup {<<o, id>>}] ELSE x
Leave(x, id) ==
    LET o == x.data.ws[id].output
        y == Slip(x, <<o, id>> \notin x.seen.members, "leave")
    IN  IF x.bound /\ o \in x.data.groups THEN [y EXCEPT !.seen.members = @ \ {<<o, id>>}] ELSE x

Attributes(d) == [name |-> d.name, label |-> d.label, idx |-> d.idx,
                  active |-> d.active, urgent |-> d.urgent]
\* add_instance of a workspace, the last message of a removed one, and the
\* messages for what changed.
Announce(x, id) ==
    IF x.bound THEN [x EXCEPT !.seen.ws = (id :> Attributes(x.data.ws[id])) @@ @] ELSE x
Retract(x, id) ==
    LET y == Slip(x, \E o \in x.seen.groups : <<o, id>> \in x.seen.members, "removed")
    IN  IF x.bound THEN [y EXCEPT !.seen.ws = Without(@, id)] ELSE x
Tell(x, id, fields) ==
    IF x.bound
    THEN [x EXCEPT !.seen.ws[id] =
            [k \in DOMAIN @ |-> IF k \in fields THEN x.data.ws[id][k] ELSE @[k]]]
    ELSE x

\* A workspace that is gone leaves its group first.
RemoveWorkspace(x, id) ==
    LET y == Retract(Leave(x, id), id)
    IN  [y EXCEPT !.data.ws = Without(@, id)]

\* Groups of outputs that are gone: their workspaces leave them first.
RemoveGroup(x, o) ==
    LET there == {id \in DOMAIN x.data.ws : x.data.ws[id].output = o}
        y     == FoldSet(LAMBDA id, z : Leave(z, id), x, there)
    IN  [y EXCEPT !.data.groups = @ \ {o}, !.seen.groups = @ \ {o}]

\* build_name.
Label(w) == IF w.name = None THEN ToString(w.idx) ELSE w.name

NewWorkspace(x, w) ==
    LET d == [output |-> w.output, name |-> w.name, label |-> Label(w), idx |-> w.idx,
              active |-> w.active, urgent |-> w.urgent]
    IN  Enter(Announce([x EXCEPT !.data.ws = (w.id :> d) @@ @], w.id), w.id)

\* refresh_workspace of a workspace the server knows.
KnownWorkspace(x, w) ==
    LET old      == x.data.ws[w.id]
        recreate == old.name # w.name /\ old.name # None
        named    == old.name # w.name /\ old.name = None
        relabel  == recreate \/ IF w.name # None THEN named ELSE old.idx # w.idx
        new      == [output |-> w.output, name |-> w.name, idx |-> w.idx,
                     label  |-> IF relabel THEN Label(w) ELSE old.label,
                     active |-> w.active, urgent |-> w.urgent]
        moved    == old.output # w.output
        left     == IF moved THEN Leave(x, w.id) ELSE x
        y        == [left EXCEPT !.data.ws[w.id] = new]
    IN  IF recreate
        THEN Enter(Announce(Retract(Leave(y, w.id), w.id), w.id), w.id)
        ELSE Tell(IF moved THEN Enter(y, w.id) ELSE y, w.id,
                  {k \in {"name", "label", "idx", "active", "urgent"} : old[k] # new[k]})

BadNewGroup(x, o) ==
    [x EXCEPT !.data.groups = @ \cup {o}, !.seen.groups = IF x.bound THEN @ \cup {o} ELSE @]

\* refresh_workspace_group: workspaces that are on the output enter it.
NewGroup(x, o) ==
    LET y     == [x EXCEPT !.data.groups = @ \cup {o},
                           !.seen.groups = IF x.bound THEN @ \cup {o} ELSE @]
        there == {id \in DOMAIN x.data.ws : x.data.ws[id].output = o}
    IN  FoldSet(LAMBDA id, z : Enter(z, id), y, there)

\* refresh: the order matters, a workspace may move from one group to a new.
RefreshGroups(x, v, outputs) ==
    LET ids     == {w.id : w \in ToSet(v.ws)}
        removed == FoldSet(LAMBDA id, y : RemoveWorkspace(y, id), x, DOMAIN x.data.ws \ ids)
        groups  == FoldSet(LAMBDA o, y : RemoveGroup(y, o), removed, removed.data.groups \ outputs)
        known   == FoldLeft(LAMBDA y, w : IF w.id \in DOMAIN y.data.ws THEN KnownWorkspace(y, w)
                                          ELSE NewWorkspace(y, w), groups, v.ws)
    IN  FoldSet(LAMBDA o, y : NewGroup(y, o), known, outputs \ known.data.groups)

\* bind: a new manager is told of everything; Stop and the end of a client.
BindGroups(x) ==
    [x EXCEPT !.bound = TRUE,
              !.seen = [groups  |-> x.data.groups,
                        ws      |-> [id \in DOMAIN x.data.ws |-> Attributes(x.data.ws[id])],
                        members |-> {p \in x.data.groups \X DOMAIN x.data.ws :
                                        x.data.ws[p[2]].output = p[1]},
                        slips   |-> {}]]
StopGroups(x) == [x EXCEPT !.bound = FALSE, !.seen = NoGroups.seen]
=============================================================================
