------------------------------ MODULE MCServices ----------------------------
(***************************************************************************)
(* Instances of the services for TLC.                                      *)
(***************************************************************************)
EXTENDS ServicesProperties

\* A layout from its parts: for each output its workspaces and which is active,
\* the focused output, what is special, and the windows.
Ws(id, idx, o, act, focus, odd) ==
    [id |-> id, idx |-> idx, name |-> IF id = 1 /\ odd = "named" THEN "n" ELSE None,
     output |-> o, urgent |-> id = 2 /\ odd = "urgent",
     active |-> o # None /\ idx = act, focused |-> o # None /\ idx = act /\ focus = o,
     window |-> IF id = 1 /\ odd = "window" THEN 1 ELSE None]
Stack(ids, o, act, focus, odd) == [i \in DOMAIN ids |-> Ws(ids[i], i, o, act, focus, odd)]
Stacks == {<<1>>, <<2>>, <<1, 2>>, <<2, 1>>}
Pairs == {p \in (Stacks \cup {<<3>>, <<3, 1>>}) \X (Stacks \cup {<<3>>}) :
             ToSet(p[1]) \cap ToSet(p[2]) = {}}
WorkspaceViews ==
    {Stack(ids, None, 0, None, odd) : ids \in Stacks, odd \in {"no", "named"}}
    \cup UNION {{Stack(ids, "o1", a, "o1", odd) : a \in DOMAIN ids} :
                  ids \in Stacks, odd \in {"no", "named", "urgent"}}
    \cup UNION {{Stack(p[1], "o1", a, f, odd) \o Stack(p[2], "o2", b, f, odd) :
                   a \in DOMAIN p[1], b \in DOMAIN p[2], f \in {"o1", "o2"}} :
                 p \in Pairs, odd \in {"no", "named", "window"}}
Win(id, ws, odd, focus) ==
    [id |-> id, ws |-> ws, title |-> IF odd = "title" THEN "t" ELSE None, floating |-> odd = "float",
     focused |-> focus = id, urgent |-> odd = "urgent", stamp |-> focus = id,
     layout |-> IF odd = "moved" THEN 2 ELSE 1]
WindowViews ==
    {<<>>} \cup {<<Win(1, 1, odd, f)>> : odd \in {"no", "title", "urgent", "moved"}, f \in {None, 1}}
    \cup {<<Win(1, 1, odd, f), Win(2, ws, "no", f)>> :
            odd \in {"no", "float"}, ws \in {2, None}, f \in {None, 1, 2}}
    \cup {<<Win(2, 2, "no", f), Win(1, 2, odd, f)>> : odd \in {"no", "moved"}, f \in {1, 2}}
Cast(id, on) == [id |-> id, target |-> None, active |-> on]
CastViews == {{}, {Cast(1, FALSE)}, {Cast(1, TRUE)}, {Cast(1, TRUE), Cast(2, FALSE)}}
View(ws, win, casts, open) ==
    [ws |-> ws, win |-> win, casts |-> casts, open |-> open, kb |-> [names |-> "us", idx |-> 1]]

\* The state machine goes through few layouts; each part of a layout is
\* changed from anything to anything once.
Plain == Stack(<<1, 2>>, "o1", 1, "o1", "no")
MCViews ==
    [still |-> {View(Plain, <<Win(1, 1, "no", 1)>>, {}, FALSE)},
     few |->
        {View(Plain, <<Win(1, 1, "no", 1)>>, {}, FALSE),
         [View(Stack(<<1, 2>>, "o1", 2, "o1", "no"), <<Win(1, 1, "no", None)>>, {}, FALSE)
            EXCEPT !.kb.idx = 2],
         View(Stack(<<1>>, "o1", 1, "o2", "named") \o Stack(<<2>>, "o2", 1, "o2", "no"),
              <<Win(2, 2, "no", 2)>>, {Cast(1, TRUE)}, FALSE)},
     workspaces |-> {View(ws, <<>>, {}, FALSE) : ws \in WorkspaceViews},
     windows |-> {View(Plain, win, {}, FALSE) : win \in WindowViews},
     casts |-> {View(Plain, <<>>, casts, open) : casts \in CastViews, open \in BOOLEAN}]
Purse == [scene |-> "few", bound |-> FALSE, layout |-> 0, keymap |-> 0, connect |-> 0, bind |-> 0,
          watcher |-> 0, files |-> 0, asked |-> 0]
MCBudgets ==
    {[Purse EXCEPT !.layout = 2, !.connect = 1, !.bind = 1],
     [Purse EXCEPT !.scene = "still", !.watcher = 1, !.files = 2, !.asked = 1],
     [Purse EXCEPT !.scene = "still", !.watcher = 1, !.files = 3],
     [Purse EXCEPT !.keymap = 1, !.connect = 1, !.watcher = 1, !.files = 1]}
    \cup {[Purse EXCEPT !.scene = scene, !.bound = TRUE, !.layout = 1] : scene \in {"workspaces", "windows", "casts"}}
=============================================================================
