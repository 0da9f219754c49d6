------------------------------- MODULE Services -----------------------------
(***************************************************************************)
(* What the compositor tells others, as a turn of its event loop: callbacks*)
(* of sources (requests of IPC clients, messages of the watcher thread,    *)
(* anything that changes the layout), then the idle callbacks, then        *)
(* State::refresh, which compares the layout with what was told last.      *)
(* The layout is any of the views of a scene.                               *)
(***************************************************************************)
EXTENDS WorkspaceGroups, Toplevels, ConfigWatcher

CONSTANTS
    Client,            \* connections to the IPC socket
    Views,             \* views of the layout, by scene
    Buffer,            \* EVENT_STREAM_BUFFER_SIZE
    Budgets            \* bound: the scene, whether a manager is bound, what can happen how often

\* initial event burst had more events than buffer size
ASSUME BufferAssumption == Buffer \in Nat /\ Buffer >= 6

VARIABLES
    turn,       \* "dispatch" or "refresh"
    view,       \* the layout
    version,    \* how often it has changed
    copy,       \* event_stream_state
    told,       \* the version that the last refresh has read
    streams,    \* the clients in event_streams, whose order makes no difference
    ipc,        \* the state of each connection
    idle,       \* clients whose action is an idle callback
    groups,     \* ext-workspace, with one manager
    tops,       \* what foreign-toplevel clients were told
    bars,       \* the list of one such client, or None
    budget      \* changes that are left

vars == <<turn, view, version, copy, told, streams, ipc, idle, groups, tops, bars, budget, watcherVars>>
ipcVars == <<copy, told, streams, ipc, idle>>
shellVars == <<groups, tops, bars>>

\* A connection: its phase, the events in its channel, what its client has
\* made of those it got, and the version its action made.
Closed == [phase |-> "closed", queue |-> <<>>, replica |-> NewCopy, made |-> 0]

OutputsOf(v) == {w.output : w \in ToSet(v.ws)} \ {None}

Init ==
    /\ turn = "dispatch"
    /\ budget \in Budgets
    /\ view \in Views[budget.scene]
    /\ version = 0
    /\ copy = Copy(view, FALSE)
    /\ told = 0
    /\ streams = {}
    /\ ipc = [c \in Client |-> Closed]
    /\ idle = {}
    /\ tops = ToplevelData(view)
    /\ bars = IF budget.bound THEN tops ELSE None
    /\ LET new == RefreshGroups(NoGroups, view, OutputsOf(view))
       IN  groups = IF bars = None THEN new ELSE BindGroups(new)
    /\ WatcherInit

\* The keymap is replaced by ChangeKeymap only.
Layouts == {[v EXCEPT !.kb.names = view.kb.names] : v \in Views[budget.scene]}

Spend(what) == budget[what] > 0 /\ budget' = [budget EXCEPT ![what] = @ - 1]

-----------------------------------------------------------------------------
(* Events to clients.                                                      *)

\* send_event for each of events: an event that does not fit, or has no
\* receiver any more, removes the stream; the task of a client that is slow
\* ends before it writes again.
SendAll(events) ==
    LET slow == {c \in streams : Len(ipc[c].queue) + Len(events) > Buffer}
        gone == {c \in streams : events # <<>> /\ ipc[c].phase # "streaming"}
    IN  /\ streams' = streams \ (slow \cup gone)
        /\ ipc' = [c \in Client |->
                     IF c \notin streams THEN ipc[c]
                     ELSE IF c \in slow \cup gone THEN Closed
                     ELSE [ipc[c] EXCEPT !.queue = @ \o events]]

-----------------------------------------------------------------------------
(* Callbacks.                                                              *)

Dispatch == turn = "dispatch" /\ turn' = turn

ChangeLayout ==
    /\ Dispatch
    /\ Spend("layout")
    /\ view' \in Layouts \ {view}
    /\ version' = version + 1
    /\ UNCHANGED <<ipcVars, shellVars, watcherVars>>

\* ipc_keyboard_layouts_changed, when the keymap is replaced.
ChangeKeymap ==
    /\ Dispatch
    /\ Spend("keymap")
    /\ \E names \in {v.kb.names : v \in Views[budget.scene]} : view' = [view EXCEPT !.kb = [names |-> names, idx |-> 1]]
    /\ version' = version + 1
    /\ copy' = Apply(copy, [kind |-> "KeyboardLayoutsChanged", kb |-> view'.kb])
    /\ SendAll(<<[kind |-> "KeyboardLayoutsChanged", kb |-> view'.kb]>>)
    /\ UNCHANGED <<told, idle, shellVars, watcherVars>>

\* on_new_ipc_client.
Connect(c) ==
    /\ Dispatch
    /\ ipc[c].phase = "closed" /\ c \notin streams
    /\ Spend("connect")
    /\ ipc' = [ipc EXCEPT ![c] = [Closed EXCEPT !.phase = "open"]]
    /\ UNCHANGED <<view, version, copy, told, streams, idle, shellVars, watcherVars>>

\* process: an action is left to an idle callback, which the reply waits for.
RequestAction(c) ==
    /\ Dispatch
    /\ ipc[c].phase = "open"
    /\ ipc' = [ipc EXCEPT ![c].phase = "waiting"]
    /\ idle' = idle \cup {c}
    /\ UNCHANGED <<view, version, copy, told, streams, shellVars, watcherVars, budget>>

BadReply(c) ==
    /\ Dispatch
    /\ ipc[c].phase = "waiting"
    /\ ipc' = [ipc EXCEPT ![c].phase = "handled"]
    /\ UNCHANGED <<view, version, copy, told, streams, idle, shellVars, watcherVars, budget>>

\* The task goes on with the reply when the callback has run.
Reply(c) ==
    /\ Dispatch
    /\ ipc[c].phase = "waiting" /\ c \notin idle
    /\ ipc' = [ipc EXCEPT ![c].phase = "handled"]
    /\ UNCHANGED <<view, version, copy, told, streams, idle, shellVars, watcherVars, budget>>

BadRequestStream(c) ==
    /\ Dispatch
    /\ ipc[c].phase \in {"open", "handled", "accepted"}
    /\ ipc' = IF ipc[c].phase # "accepted"
              THEN [ipc EXCEPT ![c].phase = "accepted", ![c].queue = Replicate(copy)]
              ELSE [ipc EXCEPT ![c].phase = "streaming"]
    /\ streams' = IF ipc[c].phase = "accepted" THEN streams \cup {c} ELSE streams
    /\ UNCHANGED <<view, version, copy, told, idle, shellVars, watcherVars, budget>>

\* handle_client: the reply is written, which may wait; then the state is
\* sent and the stream added in one go.
RequestStream(c) ==
    /\ Dispatch
    /\ ipc[c].phase \in {"open", "handled", "accepted"}
    /\ ipc' = IF ipc[c].phase # "accepted" THEN [ipc EXCEPT ![c].phase = "accepted"]
              ELSE [ipc EXCEPT ![c].phase = "streaming", ![c].queue = Replicate(copy)]
    /\ streams' = IF ipc[c].phase = "accepted" THEN streams \cup {c} ELSE streams
    /\ UNCHANGED <<view, version, copy, told, idle, shellVars, watcherVars, budget>>

\* handle_event_stream_client writes an event and the client reads it.
Deliver(c) ==
    /\ Dispatch
    /\ ipc[c].phase = "streaming" /\ ipc[c].queue # <<>>
    /\ ipc' = [ipc EXCEPT ![c].queue = Tail(@),
                          ![c].replica = Apply(@, Head(ipc[c].queue))]
    /\ UNCHANGED <<view, version, copy, told, streams, idle, shellVars, watcherVars, budget>>

\* The client hangs up; its stream stays until the next event.
HangUp(c) ==
    /\ Dispatch
    /\ ipc[c].phase \notin {"closed", "waiting"}
    /\ ipc' = [ipc EXCEPT ![c] = Closed]
    /\ UNCHANGED <<view, version, copy, told, streams, idle, shellVars, watcherVars, budget>>

\* bind of the managers, and their Stop.
BindManagers ==
    /\ Dispatch
    /\ bars = None
    /\ Spend("bind")
    /\ groups' = BindGroups(groups)
    /\ bars' = FoldLeft(Receive, <<>>, BindMessages(tops))
    /\ UNCHANGED <<view, version, ipcVars, tops, watcherVars>>

StopManagers ==
    /\ Dispatch
    /\ bars # None
    /\ groups' = StopGroups(groups)
    /\ bars' = None
    /\ UNCHANGED <<view, version, ipcVars, tops, watcherVars, budget>>

\* The watcher thread, the files, requests to load a file.
Elsewhere ==
    /\ turn' = turn
    /\ \/ Watch /\ UNCHANGED budget
       \/ Spend("watcher") /\ StartWatcher
       \/ Spend("files") /\ \E f \in File : Edit(f)
       \/ turn = "dispatch" /\ Spend("asked") /\ \E path \in {Missing, "other"} : Ask(path)
    /\ UNCHANGED <<view, version, ipcVars, shellVars>>

\* The callback of the watcher's channel: reload_config, ipc_config_loaded.
ConfigLoaded ==
    /\ Dispatch
    /\ Reload
    /\ copy' = Apply(copy, [kind |-> "ConfigLoaded", failed |-> failed'])
    /\ SendAll(<<[kind |-> "ConfigLoaded", failed |-> failed']>>)
    /\ UNCHANGED <<view, version, told, idle, shellVars, budget>>

-----------------------------------------------------------------------------
\* The idle callbacks run when the sources are done: actions of IPC clients.
RunIdles ==
    /\ turn = "dispatch"
    /\ turn' = "refresh"
    /\ IF idle = {} THEN UNCHANGED <<view, version, ipc>>
       ELSE /\ view' \in Layouts
            /\ version' = version + 1
            /\ ipc' = [c \in Client |-> IF c \in idle THEN [ipc[c] EXCEPT !.made = version + 1]
                                        ELSE ipc[c]]
    /\ idle' = {}
    /\ UNCHANGED <<copy, told, streams, shellVars, watcherVars, budget>>

\* State::refresh.
Refresh ==
    /\ turn = "refresh"
    /\ turn' = "dispatch"
    /\ groups' = RefreshGroups(groups, view, OutputsOf(view))
    /\ tops' = ToplevelData(view)
    /\ bars' = IF bars = None THEN None ELSE FoldLeft(Receive, bars, ToplevelMessages(tops, view))
    /\ LET events == Events(copy, view)
       IN  /\ copy' = ApplyAll(copy, events)
           /\ SendAll(events)
    /\ told' = version
    /\ UNCHANGED <<view, version, idle, watcherVars, budget>>

Connections(c) ==
    \/ Connect(c) \/ RequestAction(c) \/ Reply(c) \/ RequestStream(c)
    \/ Deliver(c) \/ HangUp(c)
Next ==
    \/ ChangeLayout \/ ChangeKeymap
    \/ \E c \in Client : Connections(c)
    \/ BindManagers \/ StopManagers \/ Elsewhere \/ ConfigLoaded
    \/ RunIdles \/ Refresh
Spec == Init /\ [][Next]_vars
=============================================================================
