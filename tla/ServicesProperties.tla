-------------------------- MODULE ServicesProperties ------------------------
(***************************************************************************)
(* What those who follow the compositor can rely on.                       *)
(***************************************************************************)
EXTENDS Services

\* One workspace is active on each output, and at most one is focused.
OneActive(ws) ==
    /\ \A o \in {ws[i].output : i \in DOMAIN ws} \ {None} :
         Cardinality({i \in DOMAIN ws : ws[i].output = o /\ ws[i].active}) = 1
    /\ Cardinality({i \in DOMAIN ws : ws[i].focused}) <= 1
OneFocused(win) == Cardinality({i \in DOMAIN win : win[i].focused}) <= 1

(***************************************************************************)
(* No expect() fails in a client that applies the events of a refresh, and *)
(* after each of them one workspace is active on an output and at most one *)
(* workspace and one window are focused; a task bar never sees two         *)
(* activated windows, as the focused one comes last                        *)
(* (ipc_refresh_workspaces, ipc_refresh_windows, foreign_toplevel refresh).*)
(***************************************************************************)
OneByOne == [][
    turn = "refresh" /\ turn' = "dispatch" =>
        /\ \A some \in Prefixes(Events(copy, view)) :
             LET mid == ApplyAll(copy, some)
             IN  ~mid.broken /\ OneActive(mid.ws) /\ OneFocused(mid.win)
        /\ bars # None =>
             \A some \in Prefixes(ToplevelMessages(tops, view)) :
                LET mid == FoldLeft(Receive, bars, some)
                IN  Cardinality({id \in DOMAIN mid : mid[id].activated}) <= 1]_turn

(***************************************************************************)
(* A client of ext-workspace or foreign-toplevel that stays sees what one  *)
(* that binds now is told, and after a refresh this is the layout.  The    *)
(* messages are in order, but for a workspace that loses its name and moves*)
(* to another output in one refresh: it leaves the new group before it has *)
(* entered it.                                                             *)
(***************************************************************************)
ShellsFollow ==
    /\ bars # None =>
         /\ bars = tops
         /\ [groups.seen EXCEPT !.slips = {}] = BindGroups(groups).seen
    /\ turn = "dispatch" /\ told = version =>
         /\ tops = ToplevelData(view)
         /\ groups.data = RefreshGroups(NoGroups, view, OutputsOf(view)).data
RenamedAndMoved(data, w) ==
    w.id \in DOMAIN data /\ data[w.id].output # w.output
    /\ data[w.id].name \notin {None, w.name}
MessagesInOrder == [][
    groups'.seen.slips \ groups.seen.slips \subseteq
        IF \E w \in ToSet(view.ws) : RenamedAndMoved(groups.data.ws, w) THEN {"leave"} ELSE {}
    ]_groups

(***************************************************************************)
(* What is sent in one refresh makes sense in the order it is sent in.     *)
(***************************************************************************)
OrderMatters == OneByOne /\ MessagesInOrder

(***************************************************************************)
(* What a client has and what is in its channel make up the state of the   *)
(* server, from the moment its stream is added (handle_client): no event is*)
(* missed between the initial burst and the first refresh, whatever the    *)
(* order of requests, refreshes and reloads.                               *)
(***************************************************************************)
NoGap ==
    /\ \A c \in Client :
         ipc[c].phase = "streaming" =>
            c \in streams /\ ApplyAll(ipc[c].replica, ipc[c].queue) = copy
    /\ turn = "dispatch" /\ told = version => copy = Copy(view, failed)

(***************************************************************************)
(* A client that has the reply to an action can ask for windows and        *)
(* workspaces and is told of a layout after the action: the refresh of the *)
(* turn comes between the idle callback and the reply (process).           *)
(***************************************************************************)
ReadYourWrites == \A c \in Client : ipc[c].phase = "handled" => told >= ipc[c].made

(***************************************************************************)
(* When a poll finds nothing new, the configuration in use is what is in   *)
(* the files, or the user is told that it does not load: no change is      *)
(* missed between two polls, during a load, or while a result waits in the *)
(* channel (Watcher, WatcherInner::check).  Excused is a required module   *)
(* that was missing when the file was loaded and now is there, which       *)
(* nothing watches for, since require notes only what it has found         *)
(* (lua.rs:1368-1389); once the file changes it holds again.               *)
(***************************************************************************)
ModuleAppeared ==
    /\ files[Found(inner.path)].inc = "require" /\ files["inc"] # Missing
    /\ "inc" \notin DOMAIN inner.includes
ConfigFollows == [][
    /\ thread = "checking" /\ thread' = "waiting"
    /\ channel = <<>> /\ files[Found(inner.path)] # Missing
    /\ ~ModuleAppeared
    => LET now == Load(inner.path)
       IN  failed = ~now.ok /\ (now.ok => config = now.config)]_thread
=============================================================================
