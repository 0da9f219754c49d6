------------------------------- MODULE MCSeat -------------------------------
(***************************************************************************)
(* Instances of the seat for TLC.  Each configuration has its actors, the  *)
(* parts of the next-state relation that it is there for, its keys, and    *)
(* its windows with the workspace that each is opened on.                  *)
(***************************************************************************)
EXTENDS SeatProperties, TLC

CONSTANTS w1, w2, w3, bar

MCAppOf == w1 :> "editor" @@ w2 :> "editor" @@ w3 :> NoApp
MCOrder == <<w1, w2, w3>>
MCOutputOf == 1 :> "left" @@ 2 :> "left" @@ 3 :> "right"

KeyBind(key, mods, action) ==
    [key |-> key, mods |-> mods, action |-> action, repeat |-> TRUE, cooldown |-> FALSE,
     allowLocked |-> FALSE, inhibitable |-> TRUE, class |-> "general"]
MruBind(key, action) == [KeyBind(key, {"alt"}, action) EXCEPT !.class = "mru"]
Quit == [op |-> "quit", skip |-> FALSE]

Config(actors, keys, home, level, binds, debounce) ==
    [actors |-> actors, keys |-> keys, home |-> home, level |-> [l \in Layer |-> level],
     binds |-> binds, debounce |-> debounce]

Scopes == Config({"windows", "workspaces"}, {"alt", "tab", "w"}, w1 :> 1 @@ w2 :> 2 @@ w3 :> 3, "top",
    {MruBind("tab", MruAdvance("forward", "same", "same"))}, FALSE)
Filters == Config({"windows"}, {"alt", "grave", "a"}, w1 :> 1 @@ w2 :> 1 @@ w3 :> 1, "top",
    {MruBind("grave", MruAdvance("backward", "all", "appId"))}, FALSE)
Recency == Config({"windows"}, {"alt", "tab"}, w1 :> 1 @@ w2 :> 1 @@ w3 :> 1, "top",
    {MruBind("tab", MruAdvance("forward", "same", "same")),
     KeyBind("tab", {}, Act("focusPrevious"))}, TRUE)
Terminals == Config({"windows", "lock", "click"}, {"alt", "tab", "vt"}, w1 :> 1 @@ w2 :> 1, "top",
    {MruBind("tab", MruAdvance("forward", "same", "same")),
     [KeyBind("mouseLeft", {}, Act("overview")) EXCEPT !.cooldown = TRUE]}, FALSE)
Interfaces(actors, keys) == Config({"ipc"} \cup actors, {"alt", "q", "escape"} \cup keys, w1 :> 1, "top",
    {[KeyBind("q", {"alt"}, Quit) EXCEPT !.cooldown = TRUE]}, FALSE)
Layers(level) == Config({"layers", "windows", "click"}, {}, w1 :> 1 @@ w2 :> 1, level, {}, FALSE)
Popups(actors) == Config(actors \cup {"popups"}, {"escape"}, w1 :> 1 @@ w2 :> 1, "top", {}, FALSE)

MCConfigs ==
    {Scopes, Filters, Recency, Terminals, Interfaces({"lock"}, {"return"}), Interfaces({"inhibit"}, {})}
    \cup {Layers(level) : level \in Level}
    \cup {Popups(actors) : actors \in {{"layers", "ipc"}, {"layers", "lock"}, {"lock", "ipc"}}}
MCIpcActions == {Act("screenshot"), Act("overview"), Act("toggleInhibit")}

Does(actor) == actor \in seat.config.actors

\* The windows that the configuration names, each where it belongs.
Bounded ==
    \A w \in seat'.mapped : w \in DOMAIN seat.config.home /\ seat'.place[w] = seat.config.home[w]

MCInit == Init /\ seat.active = 1
MCNext ==
    /\ ~seat.stopped
    /\ \/ \E key \in seat.config.keys : PressKey(key) \/ ReleaseKey(key)
       \/ \E key \in seat.cooling : CooldownTimer(key)
       \/ RepeatTimer \/ Refresh \/ CommitTimer
       \/ \E w \in Window, a \in BOOLEAN : MapWindow(w, a)
       \/ Does("windows") /\ WindowNext
       \/ Does("workspaces") /\ \E ws \in Workspace : FocusWorkspace(ws)
       \/ Does("click") /\ ButtonNext
       \/ Does("lock") /\ LockNext
       \/ Does("ipc") /\ IpcNext
       \/ Does("inhibit") /\ InhibitNext
       \/ Does("layers") /\ LayerNext
       \/ Does("popups") /\ PopupNext
    /\ Bounded
MCSpec == MCInit /\ [][MCNext]_seat
=============================================================================
