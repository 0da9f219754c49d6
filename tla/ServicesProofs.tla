--------------------------- MODULE ServicesProofs ---------------------------
(***************************************************************************)
(* What is proved of the services, for any clients, views of the layout,   *)
(* buffer and budgets: when a client is answered, and that the watcher     *)
(* thread misses no change of the configuration files.                     *)
(*                                                                         *)
(* The second is proved, as it is checked, without the races that the      *)
(* watcher loses (Races = {}): a change before its thread has started, of  *)
(* an include while it is loaded, or one that is undone before the next    *)
(* poll.                                                                   *)
(***************************************************************************)
EXTENDS ServicesProperties, TLAPS

(***************************************************************************)
(* The turns of the event loop                                             *)
(***************************************************************************)
\* A connection is a record of its four fields.
IsConnection(r) == r = [phase |-> r.phase, queue |-> r.queue, replica |-> r.replica, made |-> r.made]

\* A connection of each client.
OfClients(f) == f = [c \in Client |-> f[c]]

\* What connection r may be: it has made a version that there has been, and one
\* that a refresh has read, unless that is still to come.
Answered(r, there, read, t) ==
  /\ IsConnection(r)
  /\ r.made \in 0..there
  /\ t = "dispatch" \/ r.phase # "waiting" => r.made <= read

\* Those who wait for an idle callback wait, no stream is of one who waits, and
\* no version is read before it has been made.
TurnInv ==
  /\ turn \in {"dispatch", "refresh"}
  /\ version \in Nat /\ told \in 0..version
  /\ streams \subseteq Client /\ idle \subseteq Client
  /\ turn = "refresh" => idle = {}
  /\ \A c \in streams : ipc[c].phase \in {"closed", "streaming"}
  /\ \A c \in idle : ipc[c].phase = "waiting"
  /\ OfClients(ipc)
  /\ \A c \in Client : Answered(ipc[c], version, told, turn)

(***************************************************************************)
(* The watcher of the configuration                                        *)
(***************************************************************************)
\* A file.
FileRecord == [ver : Nat, bad : BOOLEAN, inc : Use]
\* What is known of one.
PropsRecord == [file : File, ver : Nat]

\* What was known of a file at one time, since when there have been n changes at most.
KnownBy(p, n) == p = Missing \/ (p \in PropsRecord /\ p.ver <= n)

\* Files fs, none of which is younger than the n-th change.
FilesOK(fs, n) ==
  /\ n \in Nat
  /\ fs \in [File -> FileRecord \cup {Missing}]
  /\ \A f \in File : fs[f] # Missing => fs[f].ver <= n

\* What the thread has seen: the file that was found, and its includes.
Seen(path, props, includes) == [path |-> path, props |-> props, includes |-> includes]

\* A record of that, where at most the include "inc" was seen.
SeenOK(i, n) ==
  /\ i = Seen(i.path, i.props, i.includes)
  /\ i.path \in {"regular", "other"}
  /\ KnownBy(i.props, n)
  /\ DOMAIN i.includes \subseteq {"inc"}
  /\ i.includes = [f \in DOMAIN i.includes |-> i.includes[f]]
  /\ \A f \in DOMAIN i.includes : KnownBy(i.includes[f], n)

\* What is known of file f of fs.
Known(fs, f) == IF fs[f] = Missing THEN Missing ELSE [file |-> f, ver |-> fs[f].ver]
\* The includes that file f of fs comes with.
Used(fs, f) ==
  IF fs[f].inc = "no" \/ (fs[f].inc = "require" /\ fs["inc"] = Missing) THEN {} ELSE {"inc"}
\* Whether it loads.
Loads(fs, f) ==
  /\ ~fs[f].bad
  /\ \/ fs[f].inc = "no"
     \/ IF fs["inc"] = Missing THEN fs[f].inc = "optional" ELSE ~fs["inc"].bad

\* Whether i knows what file r uses: a module that r requires only if it was found.
KnowsUse(i, r) ==
  /\ r.inc = "no" => DOMAIN i.includes = {}
  /\ r.inc \in {"include", "optional"} => DOMAIN i.includes = {"inc"}
  /\ r.inc = "require" /\ "inc" \in DOMAIN i.includes => i.includes["inc"] # Missing

\* A load of file r with the includes of i has come to ok and cfg.
ComesTo(i, r, ok, cfg) ==
  /\ ok => cfg = [main |-> i.props, includes |-> i.includes]
  /\ "inc" \in DOMAIN i.includes /\ i.includes["inc"] = Missing
       => (ok <=> ~r.bad /\ r.inc = "optional")
  /\ r.inc = "require" /\ "inc" \notin DOMAIN i.includes => ~ok

\* Nothing that i knows has changed, and there is nothing that it should know.
SameUse(fs, i, r) ==
  /\ \A g \in DOMAIN i.includes : i.includes[g] = Known(fs, g)
  /\ r.inc = "require" /\ "inc" \notin DOMAIN i.includes => fs["inc"] = Missing

\* As long as the file that was loaded is the same, what came of it, ok and cfg, is
\* what was seen, and what it would come to as long as the includes are the same.
Reflects(fs, i, ok, cfg) ==
  i.props # Missing /\ Known(fs, i.props.file) = i.props =>
    /\ KnowsUse(i, fs[i.props.file]) /\ ComesTo(i, fs[i.props.file], ok, cfg)
    /\ SameUse(fs, i, fs[i.props.file]) => (ok <=> Loads(fs, i.props.file))

\* Whether the last result has loaded, which is in use or in the channel.
ResultOk == IF channel = <<>> THEN ~failed ELSE channel[1].ok
\* The configuration that it has, if so.
ResultConfig == IF channel = <<>> THEN config ELSE channel[1].config

\* What is known of the includes used.
Includes(fs, used) == [g \in used |-> Known(fs, g)]
\* What was seen of the files, with the includes of what has been loaded.
WithIncludes == Seen(inner.path, inner.props, Includes(files, parsed.includes))

\* The compositor has loaded its configuration.
Loaded(f) == /\ channel = <<>> /\ ~failed
             /\ files[f] # Missing /\ Loads(files, f)
             /\ config = [main |-> Known(files, f), includes |-> Includes(files, Used(files, f))]

\* A request to load another file has been taken and the file not been checked.
Asked == /\ force /\ inner.path = "other"
         /\ inner.props = Missing \/ inner.props.file = "other"

\* Where the thread is says what the result is that it has seen.
ThreadOK ==
  /\ thread = "starting" => Loaded(Found("regular"))
  /\ thread = "waiting" => Reflects(files, inner, ResultOk, ResultConfig)
  /\ thread = "checking" => Reflects(files, inner, ResultOk, ResultConfig) \/ Asked
  /\ thread = "loading" => inner.props # Missing /\ inner.props.file = Found(inner.path)
  /\ thread \in {"sending", "including"} => parsed.includes \subseteq {"inc"}
  /\ thread = "sending" => Reflects(files, WithIncludes, parsed.ok, parsed.config)
  /\ thread = "including" => Reflects(files, WithIncludes, ResultOk, ResultConfig)

\* The invariant: what was seen comes from the files, and what is or will be in
\* use from what was seen.
WatcherInv ==
  /\ thread \in {"starting", "waiting", "checking", "loading", "sending", "including"}
  /\ FilesOK(files, edits) /\ SeenOK(inner, edits)
  /\ force \in BOOLEAN /\ failed \in BOOLEAN
  /\ asked \in Seq({Missing, "other"})
  /\ ThreadOK

-----------------------------------------------------------------------------
(***************************************************************************)
(* Every step keeps the first invariant                                    *)
(***************************************************************************)
\* A connection with another phase, queue and replica, or a closed one.
Follows(new, old) == IsConnection(new) /\ new.made \in {0, old.made}

\* A callback that keeps idle callbacks and streams to those who may have them.
LEMMA TurnKept ==
  ASSUME TurnInv, UNCHANGED <<turn, told>>, version' \in {version, version + 1},
         turn = "dispatch" \/ UNCHANGED ipc,
         OfClients(ipc'),
         \A c \in Client : Follows(ipc'[c], ipc[c]),
         streams' \subseteq Client, \A c \in streams' : ipc'[c].phase \in {"closed", "streaming"},
         idle' \subseteq Client, turn = "dispatch" \/ UNCHANGED idle, \A c \in idle' : ipc'[c].phase = "waiting"
  PROVE  TurnInv'
<1>1. version' \in Nat /\ told' \in 0..version' /\ 0 \in 0..told
  BY DEF TurnInv
<1>2. ASSUME NEW c \in Client PROVE Answered(ipc'[c], version', told', turn')
  <2>1. PICK new, old : new = ipc'[c] /\ old = ipc[c]
    OBVIOUS
  <2>2. Answered(old, version, told, turn) /\ Follows(new, old)
    BY <2>1 DEF TurnInv
  <2>3. turn = "dispatch" \/ new = old
    BY <2>1
  <2>4. version \in Nat /\ told \in 0..version
    BY DEF TurnInv
  <2>5. Answered(new, version', told, turn)
    BY <2>2, <2>3, <2>4 DEF Answered, Follows
  <2> QED BY <2>1, <2>5
<1> QED BY <1>1, <1>2 DEF TurnInv

\* Connections that nothing happens to.
LEMMA SameFollows ==
  ASSUME TurnInv, NEW c \in Client
  PROVE  Follows(ipc[c], ipc[c])
BY DEF TurnInv, Answered, Follows

\* send_event closes connections or fills their channels.
LEMMA Sent ==
  ASSUME TurnInv, NEW events, SendAll(events)
  PROVE  /\ OfClients(ipc')
         /\ \A c \in Client : /\ Follows(ipc'[c], ipc[c])
                              /\ c \notin streams => ipc'[c] = ipc[c]
                              /\ ipc'[c].phase \in {"closed", ipc[c].phase}
         /\ streams' \subseteq streams
<1>1. streams' \subseteq streams
  BY DEF SendAll
<1>2. OfClients(ipc')
  BY DEF SendAll, OfClients
<1>3. ASSUME NEW c \in Client
      PROVE  /\ Follows(ipc'[c], ipc[c]) /\ (c \notin streams => ipc'[c] = ipc[c])
             /\ ipc'[c].phase \in {"closed", ipc[c].phase}
  <2>1. PICK old : old = ipc[c]
    OBVIOUS
  <2>2. IsConnection(old) /\ Follows(old, old)
    BY <2>1, SameFollows DEF Follows
  <2>3. \/ ipc'[c] = old
        \/ c \in streams /\ ipc'[c] = Closed
        \/ c \in streams /\ ipc'[c] = [old EXCEPT !.queue = @ \o events]
    BY <2>1 DEF SendAll
  <2>4. CASE ipc'[c] = old
    BY <2>1, <2>2, <2>4
  <2>5. CASE c \in streams /\ ipc'[c] = Closed
    BY <2>5 DEF Closed, Follows, IsConnection
  <2>6. CASE c \in streams /\ ipc'[c] = [old EXCEPT !.queue = @ \o events]
    <3>1. ipc'[c] = [phase |-> old.phase, queue |-> old.queue \o events, replica |-> old.replica,
                     made |-> old.made]
      BY <2>2, <2>6 DEF IsConnection
    <3> QED BY <2>1, <2>6, <3>1 DEF Follows, IsConnection
  <2> QED BY <2>3, <2>4, <2>5, <2>6
<1> QED BY <1>1, <1>2, <1>3

\* Callbacks that send events.
LEMMA SendingKeeps ==
  ASSUME TurnInv, NEW events, SendAll(events), turn = "dispatch",
         UNCHANGED <<turn, told, idle>>, version' \in {version, version + 1}
  PROVE  TurnInv'
<1>1. /\ OfClients(ipc')
      /\ \A c \in Client : /\ Follows(ipc'[c], ipc[c])
                           /\ c \notin streams => ipc'[c] = ipc[c]
                           /\ ipc'[c].phase \in {"closed", ipc[c].phase}
      /\ streams' \subseteq streams
  BY Sent
<1>2. streams \subseteq Client /\ idle \subseteq Client
  BY DEF TurnInv
<1>3. \A c \in streams' : ipc'[c].phase \in {"closed", "streaming"}
  BY <1>1, <1>2 DEF TurnInv
<1>4. ASSUME NEW c \in idle PROVE ipc'[c].phase = "waiting"
  <2>1. c \in Client /\ ipc[c].phase = "waiting" /\ c \notin streams
    BY <1>2 DEF TurnInv
  <2> QED BY <1>1, <2>1
<1> QED BY <1>1, <1>2, <1>3, <1>4, TurnKept

\* ipc with another phase, queue and replica of client c.
Becomes(c, p, q, r) ==
  /\ OfClients(ipc')
  /\ \A d \in Client \ {c} : ipc'[d] = ipc[d]
  /\ Follows(ipc'[c], ipc[c])
  /\ ipc'[c].phase = p /\ ipc'[c].queue = q /\ ipc'[c].replica = r

\* A callback that concerns one connection.
LEMMA OneKept ==
  ASSUME TurnInv, turn = "dispatch", UNCHANGED <<turn, told, version>>, NEW c \in Client,
         NEW p, NEW q, NEW r, Becomes(c, p, q, r),
         streams' \in {streams, streams \cup {c}}, idle' \in {idle, idle \cup {c}},
         c \in streams' => p \in {"closed", "streaming"},
         c \in idle' => p = "waiting"
  PROVE  TurnInv'
<1>1. \A d \in Client : Follows(ipc'[d], ipc[d])
  BY SameFollows DEF Becomes
<1>2. streams' \subseteq Client /\ idle' \subseteq Client
  BY DEF TurnInv
<1>3. \A d \in streams' : ipc'[d].phase \in {"closed", "streaming"}
  BY <1>2 DEF TurnInv, Becomes
<1>4. \A d \in idle' : ipc'[d].phase = "waiting"
  BY <1>2 DEF TurnInv, Becomes
<1> QED BY <1>1, <1>2, <1>3, <1>4, TurnKept DEF Becomes

\* What the connections of IPC clients do.
LEMMA ConnectionKeeps ==
  ASSUME TurnInv, NEW c \in Client, Connections(c)
  PROVE  TurnInv'
<1>1. PICK old : old = ipc[c]
  OBVIOUS
<1>2. IsConnection(old) /\ OfClients(ipc) /\ old.made \in {0, old.made}
  BY <1>1 DEF TurnInv, Answered
<1>3. (c \in streams => old.phase \in {"closed", "streaming"}) /\ (c \in idle => old.phase = "waiting")
  BY <1>1 DEF TurnInv
<1>4. ASSUME NEW new, ipc' = [ipc EXCEPT ![c] = new], Follows(new, old)
      PROVE  Becomes(c, new.phase, new.queue, new.replica)
  BY <1>1, <1>2, <1>4 DEF Becomes, OfClients
<1>5. ASSUME NEW p, NEW q, NEW r, NEW new, new = [phase |-> p, queue |-> q, replica |-> r, made |-> old.made]
      PROVE  Follows(new, old)
  BY <1>5 DEF Follows, IsConnection
<1>6. CASE Connect(c)
  <2>1. PICK new : new = [Closed EXCEPT !.phase = "open"]
    OBVIOUS
  <2>2. Follows(new, old) /\ new.phase = "open"
    BY <2>1 DEF Closed, Follows, IsConnection
  <2>3. ipc' = [ipc EXCEPT ![c] = new] /\ c \notin streams /\ old.phase = "closed"
    BY <1>1, <1>6, <2>1 DEF Connect
  <2>4. Becomes(c, new.phase, new.queue, new.replica)
    BY <1>4, <2>2, <2>3
  <2> QED BY <1>3, <1>6, <2>2, <2>3, <2>4, OneKept DEF Connect, Dispatch
<1>7. CASE RequestAction(c) \/ Reply(c)
  <2>1. PICK p \in {"waiting", "handled"} : ipc' = [ipc EXCEPT ![c].phase = p]
                                          /\ (RequestAction(c) \/ p = "handled")
                                          /\ (Reply(c) \/ p = "waiting")
    BY <1>7 DEF RequestAction, Reply
  <2>2. PICK new : new = [old EXCEPT !.phase = p]
    OBVIOUS
  <2>3. new = [phase |-> p, queue |-> old.queue, replica |-> old.replica, made |-> old.made]
    BY <1>2, <2>2 DEF IsConnection
  <2>4. ipc' = [ipc EXCEPT ![c] = new] /\ new.phase = p /\ Follows(new, old)
    BY <1>1, <1>5, <2>1, <2>2, <2>3
  <2>5. Becomes(c, p, new.queue, new.replica)
    BY <1>4, <2>4
  <2>6. old.phase \in {"open", "waiting"} /\ c \notin streams
    BY <1>1, <1>3, <1>7 DEF RequestAction, Reply
  <2>7. c \in idle' => p = "waiting"
    BY <1>1, <1>3, <1>7, <2>1 DEF RequestAction, Reply
  <2> QED BY <1>7, <2>5, <2>6, <2>7, OneKept DEF RequestAction, Reply, Dispatch
<1>8. CASE RequestStream(c)
  <2>1. PICK new : new = IF old.phase # "accepted" THEN [old EXCEPT !.phase = "accepted"]
                         ELSE [old EXCEPT !.phase = "streaming", !.queue = Replicate(copy)]
    OBVIOUS
  <2>2. PICK p, q : new = [phase |-> p, queue |-> q, replica |-> old.replica, made |-> old.made]
                    /\ p = (IF old.phase # "accepted" THEN "accepted" ELSE "streaming")
    <3>1. CASE old.phase # "accepted"
      BY <1>2, <2>1, <3>1 DEF IsConnection
    <3>2. CASE old.phase = "accepted"
      BY <1>2, <2>1, <3>2 DEF IsConnection
    <3> QED BY <3>1, <3>2
  <2>3. ipc' = [ipc EXCEPT ![c] = new]
    BY <1>1, <1>2, <1>8, <2>1 DEF RequestStream
  <2>4. Becomes(c, p, q, new.replica)
    <3>1. new.phase = p /\ new.queue = q /\ Follows(new, old)
      BY <1>5, <2>2
    <3> QED BY <1>4, <2>3, <3>1
  <2>5. /\ old.phase \in {"open", "handled", "accepted"} /\ c \notin streams /\ c \notin idle
        /\ streams' = IF old.phase = "accepted" THEN streams \cup {c} ELSE streams
    BY <1>1, <1>3, <1>8 DEF RequestStream
  <2> QED BY <1>8, <2>2, <2>4, <2>5, OneKept DEF RequestStream, Dispatch
<1>9. CASE Deliver(c)
  <2>1. PICK new : new = [old EXCEPT !.queue = Tail(@), !.replica = Apply(@, Head(old.queue))]
    OBVIOUS
  <2>2. PICK q, r : new = [phase |-> old.phase, queue |-> q, replica |-> r, made |-> old.made]
    BY <1>2, <2>1 DEF IsConnection
  <2>3. ipc' = [ipc EXCEPT ![c] = new] /\ old.phase = "streaming"
    BY <1>1, <1>2, <1>9, <2>1 DEF Deliver
  <2>4. Becomes(c, old.phase, q, r)
    <3>1. new.phase = old.phase /\ new.queue = q /\ new.replica = r /\ Follows(new, old)
      BY <1>5, <2>2
    <3> QED BY <1>4, <2>3, <3>1
  <2> QED BY <1>3, <1>9, <2>3, <2>4, OneKept DEF Deliver, Dispatch
<1>10. CASE HangUp(c)
  <2>1. Follows(Closed, old) /\ Closed.phase = "closed"
    BY DEF Closed, Follows, IsConnection
  <2>2. ipc' = [ipc EXCEPT ![c] = Closed] /\ c \notin idle
    BY <1>1, <1>3, <1>10 DEF HangUp
  <2>3. Becomes(c, Closed.phase, Closed.queue, Closed.replica)
    BY <1>4, <2>1, <2>2
  <2> QED BY <1>10, <2>1, <2>2, <2>3, OneKept DEF HangUp, Dispatch
<1> QED BY <1>6, <1>7, <1>8, <1>9, <1>10 DEF Connections

\* The idle callbacks of those who wait make a new version.
LEMMA IdlesKeep ==
  ASSUME TurnInv, RunIdles
  PROVE  TurnInv'
<1>1. /\ turn' = "refresh" /\ UNCHANGED <<told, streams>> /\ idle' = {}
      /\ turn = "dispatch" /\ version \in Nat /\ told \in 0..version
  BY DEF RunIdles, TurnInv
<1>2. CASE idle = {}
  <2>1. version' = version /\ ipc' = ipc
    BY <1>2 DEF RunIdles
  <2>2. ASSUME NEW c \in Client PROVE Answered(ipc[c], version, told, "refresh")
    BY <1>1 DEF TurnInv, Answered
  <2> QED BY <1>1, <2>1, <2>2 DEF TurnInv
<1>3. CASE idle # {}
  <2>1. version' = version + 1
        /\ ipc' = [c \in Client |-> IF c \in idle THEN [ipc[c] EXCEPT !.made = version + 1] ELSE ipc[c]]
    BY <1>3 DEF RunIdles
  <2>2. version' \in Nat /\ told \in 0..version'
    BY <1>1, <2>1
  <2>3. ASSUME NEW c \in Client
        PROVE  Answered(ipc'[c], version', told, "refresh") /\ ipc'[c].phase = ipc[c].phase
    <3>1. PICK old : old = ipc[c]
      OBVIOUS
    <3>2. Answered(old, version, told, turn)
      BY <3>1 DEF TurnInv
    <3>3. CASE c \in idle
      <4>1. ipc'[c] = [phase |-> old.phase, queue |-> old.queue, replica |-> old.replica,
                       made |-> version + 1]
        BY <2>1, <3>1, <3>2, <3>3 DEF Answered, IsConnection
      <4>2. old.phase = "waiting"
        BY <3>1, <3>3 DEF TurnInv
      <4>3. version + 1 \in 0..version'
        BY <1>1, <2>1
      <4> QED BY <3>1, <4>1, <4>2, <4>3 DEF Answered, IsConnection
    <3>4. CASE c \notin idle
      <4>1. ipc'[c] = old
        BY <2>1, <3>1, <3>4
      <4>2. IsConnection(old) /\ old.made \in 0..version /\ old.made <= told
        BY <1>1, <3>2 DEF Answered
      <4>3. old.made \in 0..version'
        BY <1>1, <2>1, <4>2
      <4>4. Answered(old, version', told, "refresh")
        BY <4>2, <4>3 DEF Answered
      <4> QED BY <3>1, <4>1, <4>4
    <3> QED BY <3>3, <3>4
  <2>4. OfClients(ipc')
    BY <2>1 DEF OfClients
  <2>5. \A c \in streams : ipc'[c].phase \in {"closed", "streaming"}
    BY <2>3 DEF TurnInv
  <2> QED BY <1>1, <2>2, <2>3, <2>4, <2>5 DEF TurnInv
<1> QED BY <1>2, <1>3

\* A refresh reads the latest version.
LEMMA RefreshKeeps ==
  ASSUME TurnInv, Refresh
  PROVE  TurnInv'
<1>1. PICK events : SendAll(events)
  BY DEF Refresh
<1>2. /\ OfClients(ipc')
      /\ \A c \in Client : /\ Follows(ipc'[c], ipc[c])
                           /\ c \notin streams => ipc'[c] = ipc[c]
                           /\ ipc'[c].phase \in {"closed", ipc[c].phase}
      /\ streams' \subseteq streams
  BY <1>1, Sent
<1>3. turn' = "dispatch" /\ told' = version /\ version' = version /\ idle' = {} /\ version \in Nat
  BY DEF Refresh, TurnInv
<1>4. told' \in 0..version'
  BY <1>3
<1>5. ASSUME NEW c \in Client PROVE Answered(ipc'[c], version, version, "dispatch")
  <2>1. PICK new, old : new = ipc'[c] /\ old = ipc[c]
    OBVIOUS
  <2>2. Follows(new, old) /\ old.made \in 0..version
    BY <1>2, <2>1 DEF TurnInv, Answered
  <2>3. Answered(new, version, version, "dispatch")
    BY <1>3, <2>2 DEF Answered, Follows
  <2> QED BY <2>1, <2>3
<1>6. streams' \subseteq Client
  BY <1>2 DEF TurnInv
<1>7. \A c \in streams' : ipc'[c].phase \in {"closed", "streaming"}
  BY <1>2, <1>6 DEF TurnInv
<1> QED BY <1>2, <1>3, <1>4, <1>5, <1>6, <1>7 DEF TurnInv

\* The invariant holds at first.
LEMMA TurnInit == ASSUME Init PROVE TurnInv
<1>1. ASSUME NEW c \in Client PROVE Answered(ipc[c], 0, 0, "dispatch")
  <2>1. ipc[c] = Closed
    BY DEF Init
  <2> QED BY <2>1 DEF Closed, Answered, IsConnection
<1>2. OfClients(ipc)
  BY DEF Init, OfClients
<1>3. turn = "dispatch" /\ version = 0 /\ told = 0 /\ streams = {} /\ idle = {}
  BY DEF Init
<1> QED BY <1>1, <1>2, <1>3 DEF TurnInv

\* Every step keeps it.
LEMMA TurnNext == ASSUME TurnInv, [Next]_vars PROVE TurnInv'
<1>0. \A c \in Client : Follows(ipc[c], ipc[c])
  BY SameFollows
<1>1. ASSUME UNCHANGED <<turn, told, streams, ipc, idle>>, version' \in {version, version + 1}
      PROVE  TurnInv'
  BY <1>0, <1>1, TurnKept DEF TurnInv
<1>2. CASE ChangeLayout \/ BindManagers \/ StopManagers \/ Elsewhere \/ UNCHANGED vars
  BY <1>1, <1>2 DEF ChangeLayout, BindManagers, StopManagers, Elsewhere, Dispatch, vars, ipcVars
<1>3. CASE ChangeKeymap \/ ConfigLoaded
  <2>1. turn = "dispatch" /\ UNCHANGED <<turn, told, idle>> /\ version' \in {version, version + 1}
    BY <1>3 DEF ChangeKeymap, ConfigLoaded, Dispatch
  <2>2. PICK events : SendAll(events)
    BY <1>3 DEF ChangeKeymap, ConfigLoaded
  <2> QED BY <2>1, <2>2, SendingKeeps
<1>4. CASE \E c \in Client : Connections(c)
  BY <1>4, ConnectionKeeps
<1>5. CASE RunIdles
  BY <1>5, IdlesKeep
<1>6. CASE Refresh
  BY <1>6, RefreshKeeps
<1> QED BY <1>2, <1>3, <1>4, <1>5, <1>6 DEF Next

(***************************************************************************)
(* A client that has the reply to an action can ask what it did: a refresh *)
(* has read what the action made before the reply goes out (process in     *)
(* ipc/server.rs).                                                         *)
(***************************************************************************)
THEOREM AnswersAfterRefresh == Spec => []ReadYourWrites
<1>1. Init => TurnInv
  BY TurnInit
<1>2. TurnInv /\ [Next]_vars => TurnInv'
  BY TurnNext
<1>3. TurnInv => ReadYourWrites
  BY DEF TurnInv, Answered, ReadYourWrites
<1> QED BY <1>1, <1>2, <1>3, PTL DEF Spec

-----------------------------------------------------------------------------
(***************************************************************************)
(* Every step keeps the invariant of the watcher                           *)
(***************************************************************************)
\* Props and IncludeProps say what is known of the files.
LEMMA PropsKnown == /\ \A f : Props(f) = Known(files, f)
                    /\ \A used : IncludeProps(used) = Includes(files, used)
BY DEF Props, IncludeProps, Known, Includes

\* What is known of a file.
LEMMA KnownFacts ==
  ASSUME NEW fs, NEW n, FilesOK(fs, n), NEW f \in File
  PROVE  /\ KnownBy(Known(fs, f), n)
         /\ Known(fs, f) = Missing <=> fs[f] = Missing
         /\ fs[f] # Missing => Known(fs, f).file = f /\ Known(fs, f).ver = fs[f].ver
<1>1. CASE fs[f] = Missing
  BY <1>1 DEF Known, KnownBy
<1>2. CASE fs[f] # Missing
  <2>1. fs[f] \in FileRecord /\ fs[f].ver <= n
    BY <1>2 DEF FilesOK
  <2>2. Known(fs, f) = [file |-> f, ver |-> fs[f].ver] /\ fs[f].ver \in Nat
    BY <1>2, <2>1 DEF Known, FileRecord
  <2>3. Known(fs, f) \in PropsRecord /\ Known(fs, f).file = f /\ Known(fs, f).ver = fs[f].ver
    BY <2>2 DEF PropsRecord
  <2> QED BY <1>2, <2>1, <2>3, MissingAssumption DEF KnownBy, PropsRecord
<1> QED BY <1>1, <1>2

\* The file that is found is a file.
LEMMA FoundIsFile == ASSUME NEW path PROVE Found(path) \in File
BY DEF Found, File

\* The includes of a file.
LEMMA UsedIsInclude == ASSUME NEW fs, NEW f PROVE Used(fs, f) \subseteq {"inc"} /\ Used(fs, f) \subseteq File
BY DEF Used, File

\* A load gives the contents of the file that is found.
LEMMA LoadFacts ==
  ASSUME NEW path, NEW f, f = Found(path), files[f] # Missing
  PROVE  /\ Load(path).ok <=> Loads(files, f)
         /\ Load(path).config = [main |-> Known(files, f), includes |-> Includes(files, Used(files, f))]
         /\ Load(path).includes = Used(files, f)
BY PropsKnown DEF Load, Loads, Used, Noted, UseLoads

\* A change of the files keeps what a result says of those that are the same.
LEMMA Edited ==
  ASSUME NEW fs, NEW n, FilesOK(fs, n), NEW i, SeenOK(i, n), NEW ok, NEW cfg, Reflects(fs, i, ok, cfg),
         NEW f \in File, NEW new \in FileRecord \cup {Missing}, new # Missing => new.ver = n + 1,
         NEW gs, gs = [fs EXCEPT ![f] = new]
  PROVE  Reflects(gs, i, ok, cfg)
<1>1. gs[f] = new /\ \A g \in File \ {f} : gs[g] = fs[g] /\ Known(gs, g) = Known(fs, g)
  BY DEF FilesOK, Known
<1>2. new # Missing => Known(gs, f).ver = n + 1 /\ Known(gs, f) # Missing
  <2> SUFFICES ASSUME new # Missing PROVE Known(gs, f).ver = n + 1 /\ Known(gs, f) # Missing
    OBVIOUS
  <2>1. Known(gs, f) = [file |-> f, ver |-> n + 1]
    BY <1>1 DEF Known
  <2>2. n + 1 \in Nat
    BY DEF FilesOK
  <2>3. [file |-> f, ver |-> n + 1] \in PropsRecord
    BY <2>2 DEF PropsRecord
  <2> QED BY <2>1, <2>3, MissingAssumption DEF PropsRecord
<1>3. new = Missing => Known(gs, f) = Missing
  BY <1>1 DEF Known
<1> SUFFICES ASSUME i.props # Missing, Known(gs, i.props.file) = i.props
             PROVE  /\ KnowsUse(i, gs[i.props.file]) /\ ComesTo(i, gs[i.props.file], ok, cfg)
                    /\ SameUse(gs, i, gs[i.props.file]) => (ok <=> Loads(gs, i.props.file))
  BY DEF Reflects
<1>4. PICK F : F = i.props.file
  OBVIOUS
<1>5. F \in File /\ i.props.ver \in Nat /\ i.props.ver <= n /\ n \in Nat
  BY <1>4 DEF SeenOK, KnownBy, PropsRecord, FilesOK
<1>6. F # f
  BY <1>2, <1>3, <1>4, <1>5
<1>7. gs[F] = fs[F] /\ Known(fs, F) = i.props
  BY <1>1, <1>4, <1>5, <1>6
<1>8. PICK r : r = gs[F] /\ r = fs[F]
  BY <1>7
<1>9. /\ KnowsUse(i, r) /\ ComesTo(i, r, ok, cfg)
      /\ SameUse(fs, i, r) => (ok <=> Loads(fs, F))
  BY <1>4, <1>7, <1>8 DEF Reflects
<1>10. r.inc \in Use /\ DOMAIN i.includes \subseteq {"inc"} /\ "inc" \in File
  <2>1. fs[F] \in FileRecord
    <3>1. fs[F] # Missing
      BY <1>4, <1>5, <1>7, KnownFacts
    <3> QED BY <1>5, <3>1 DEF FilesOK
  <2> QED BY <1>8, <2>1 DEF FileRecord, SeenOK, File
<1>11. ASSUME SameUse(gs, i, r) PROVE ok <=> Loads(gs, F)
  <2>1. CASE f # "inc"
    <3>1. gs["inc"] = fs["inc"] /\ Known(gs, "inc") = Known(fs, "inc")
      BY <1>1, <1>10, <2>1
    <3>2. SameUse(fs, i, r)
      BY <1>10, <1>11, <3>1 DEF SameUse
    <3> QED BY <1>7, <1>9, <3>1, <3>2 DEF Loads
  <2>2. CASE f = "inc" /\ "inc" \in DOMAIN i.includes
    <3>1. KnownBy(i.includes["inc"], n) /\ i.includes["inc"] = Known(gs, "inc")
      BY <1>11, <2>2 DEF SeenOK, SameUse
    <3>2. new = Missing
      BY <1>2, <1>5, <2>2, <3>1 DEF KnownBy, PropsRecord
    <3>3. i.includes["inc"] = Missing /\ gs["inc"] = Missing
      BY <1>1, <1>3, <2>2, <3>1, <3>2
    <3>4. ok <=> ~r.bad /\ r.inc = "optional"
      BY <1>9, <2>2, <3>3 DEF ComesTo
    <3>5. r.inc # "no"
      BY <1>9, <2>2 DEF KnowsUse
    <3> QED BY <1>8, <3>3, <3>4, <3>5 DEF Loads
  <2>3. CASE f = "inc" /\ "inc" \notin DOMAIN i.includes
    <3>1. r.inc \in {"no", "require"}
      BY <1>9, <1>10, <2>3 DEF KnowsUse, Use
    <3>2. CASE r.inc = "no"
      <4>1. SameUse(fs, i, r)
        BY <1>10, <2>3, <3>2 DEF SameUse
      <4> QED BY <1>7, <1>8, <1>9, <3>2, <4>1 DEF Loads
    <3>3. CASE r.inc = "require"
      <4>1. gs["inc"] = Missing
        BY <1>11, <2>3, <3>3 DEF SameUse
      <4>2. ~ok
        BY <1>9, <2>3, <3>3 DEF ComesTo
      <4> QED BY <1>8, <3>3, <4>1, <4>2 DEF Loads
    <3> QED BY <3>1, <3>2, <3>3
  <2> QED BY <2>1, <2>2, <2>3
<1> QED BY <1>4, <1>8, <1>9, <1>11

\* A change of the files keeps what is known of them.
LEMMA EditedFiles ==
  ASSUME NEW fs, NEW n, FilesOK(fs, n), NEW i, SeenOK(i, n),
         NEW f \in File, NEW new \in FileRecord \cup {Missing}, new # Missing => new.ver = n + 1,
         NEW gs, gs = [fs EXCEPT ![f] = new]
  PROVE  FilesOK(gs, n + 1) /\ SeenOK(i, n + 1)
<1>1. n \in Nat /\ n + 1 \in Nat
  BY DEF FilesOK
<1>2. FilesOK(gs, n + 1)
  <2>1. gs \in [File -> FileRecord \cup {Missing}]
    BY DEF FilesOK
  <2>2. ASSUME NEW g \in File, gs[g] # Missing PROVE gs[g].ver <= n + 1
    <3>1. CASE g = f
      BY <1>1, <2>2, <3>1 DEF FilesOK
    <3>2. CASE g # f
      <4>1. fs[g] \in FileRecord /\ fs[g].ver <= n /\ gs[g] = fs[g]
        BY <2>2, <3>2 DEF FilesOK
      <4>2. fs[g].ver \in Nat
        BY <4>1 DEF FileRecord
      <4> QED BY <1>1, <4>1, <4>2
    <3> QED BY <3>1, <3>2
  <2> QED BY <1>1, <2>1, <2>2 DEF FilesOK
<1>3. ASSUME NEW p, KnownBy(p, n) PROVE KnownBy(p, n + 1)
  BY <1>1, <1>3 DEF KnownBy, PropsRecord
<1> QED BY <1>2, <1>3 DEF SeenOK

\* What has been seen, with what is known of the include now.
LEMMA SeenWith ==
  ASSUME FilesOK(files, edits), SeenOK(inner, edits), NEW used, used \subseteq {"inc"}
  PROVE  SeenOK(Seen(inner.path, inner.props, Includes(files, used)), edits)
<1>1. PICK i : i = Seen(inner.path, inner.props, Includes(files, used))
  OBVIOUS
<1>2. i.path = inner.path /\ i.props = inner.props /\ i.includes = Includes(files, used)
  BY <1>1 DEF Seen
<1>3. DOMAIN i.includes = used /\ \A g \in used : i.includes[g] = Known(files, g)
  BY <1>2 DEF Includes
<1>4. i.includes = [f \in DOMAIN i.includes |-> i.includes[f]]
  BY <1>2 DEF Includes
<1>5. \A g \in used : g \in File
  BY DEF File
<1>6. ASSUME NEW g \in used PROVE KnownBy(i.includes[g], edits)
  <2>1. g \in File /\ i.includes[g] = Known(files, g)
    BY <1>3, <1>5
  <2>2. KnownBy(Known(files, g), edits)
    BY <2>1, KnownFacts
  <2> QED BY <2>1, <2>2
<1>7. i = Seen(i.path, i.props, i.includes)
  BY <1>1, <1>2
<1>8. i.path \in {"regular", "other"} /\ KnownBy(i.props, edits)
  BY <1>2 DEF SeenOK
<1> QED BY <1>1, <1>3, <1>4, <1>6, <1>7, <1>8 DEF SeenOK

\* A file is written, replaced or removed.
LEMMA EditKeeps ==
  ASSUME Races = {}, WatcherInv, NEW f \in File, Edit(f)
  PROVE  WatcherInv'
<1>1. PICK new : /\ new \in {Missing} \cup [ver : {edits + 1}, bad : BOOLEAN,
                                        inc : IF f = "user" THEN Use ELSE {"no"}]
                 /\ Lost(f, new) \subseteq Races
                 /\ files' = [files EXCEPT ![f] = new]
  BY DEF Edit
<1>2. /\ edits' = edits + 1 /\ edits \in Nat
      /\ UNCHANGED <<inner, thread, force, asked, parsed, channel, config, failed>>
  BY DEF Edit, WatcherInv, FilesOK
<1>3. new \in FileRecord \cup {Missing} /\ (new # Missing => new.ver = edits + 1)
  <2>1. CASE new \in [ver : {edits + 1}, bad : BOOLEAN,
                                        inc : IF f = "user" THEN Use ELSE {"no"}]
    <3>1. new = [ver |-> new.ver, bad |-> new.bad, inc |-> new.inc]
          /\ new.ver = edits + 1 /\ new.bad \in BOOLEAN /\ new.inc \in IF f = "user" THEN Use ELSE {"no"}
      BY <2>1
    <3>2. new.inc \in Use
      BY <3>1 DEF Use
    <3>3. edits + 1 \in Nat
      BY <1>2
    <3> QED BY <3>1, <3>2, <3>3 DEF FileRecord
  <2> QED BY <1>1, <2>1
<1>4. /\ thread # "starting"
      /\ ~(f = "inc" /\ thread \in {"sending", "including"})
      /\ ~(f = "user" /\ thread = "loading" /\ Missing \in {files[f], new})
  BY <1>1 DEF Lost
<1>5. FilesOK(files, edits) /\ SeenOK(inner, edits)
  BY DEF WatcherInv
<1>6. FilesOK(files', edits') /\ SeenOK(inner', edits')
  BY <1>1, <1>2, <1>3, <1>5, EditedFiles
<1>7. ASSUME NEW i, NEW ok, NEW cfg, SeenOK(i, edits), Reflects(files, i, ok, cfg)
      PROVE  Reflects(files', i, ok, cfg)
  BY <1>1, <1>3, <1>5, <1>7, Edited
<1>8. ResultOk' = ResultOk /\ ResultConfig' = ResultConfig
  BY <1>2 DEF ResultOk, ResultConfig
<1>9. ThreadOK
  BY DEF WatcherInv
<1>10. CASE thread = "waiting"
  <2>1. Reflects(files, inner, ResultOk, ResultConfig)
    BY <1>9, <1>10 DEF ThreadOK
  <2>2. Reflects(files', inner', ResultOk', ResultConfig')
    BY <1>2, <1>5, <1>7, <1>8, <2>1
  <2> QED BY <1>2, <1>6, <1>10, <2>2 DEF WatcherInv, ThreadOK
<1>11. CASE thread = "checking"
  <2>1. Reflects(files, inner, ResultOk, ResultConfig) \/ Asked
    BY <1>9, <1>11 DEF ThreadOK
  <2>2. Reflects(files', inner', ResultOk', ResultConfig') \/ Asked'
    <3>1. CASE Asked
      BY <1>2, <3>1 DEF Asked
    <3>2. CASE Reflects(files, inner, ResultOk, ResultConfig)
      BY <1>2, <1>5, <1>7, <1>8, <3>2
    <3> QED BY <2>1, <3>1, <3>2
  <2> QED BY <1>2, <1>6, <1>11, <2>2 DEF WatcherInv, ThreadOK
<1>12. CASE thread = "loading"
  <2>1. inner.props # Missing /\ inner.props.file = Found(inner.path)
    BY <1>9, <1>12 DEF ThreadOK
  <2>2. (files'["user"] # Missing) <=> (files["user"] # Missing)
    BY <1>1, <1>4, <1>5, <1>12 DEF FilesOK, File
  <2>3. Found(inner.path)' = Found(inner.path)
    BY <1>2, <2>2 DEF Found
  <2> QED BY <1>2, <1>6, <1>12, <2>1, <2>3 DEF WatcherInv, ThreadOK
<1>13. CASE thread \in {"sending", "including"}
  <2>1. parsed.includes \subseteq {"inc"} /\ f # "inc"
    BY <1>4, <1>9, <1>13 DEF ThreadOK
  <2>2. \A g \in parsed.includes : Known(files', g) = Known(files, g)
    BY <1>1, <1>5, <2>1 DEF Known, FilesOK, File
  <2>3. Includes(files', parsed.includes) = Includes(files, parsed.includes)
    BY <2>2 DEF Includes
  <2>4. WithIncludes' = WithIncludes
    BY <1>2, <2>3 DEF WithIncludes
  <2>5. SeenOK(WithIncludes, edits)
    BY <1>5, <2>1, SeenWith DEF WithIncludes
  <2>6. CASE thread = "sending"
    <3>1. Reflects(files, WithIncludes, parsed.ok, parsed.config)
      BY <1>9, <2>6 DEF ThreadOK
    <3>2. Reflects(files', WithIncludes', parsed'.ok, parsed'.config)
      BY <1>2, <1>7, <2>4, <2>5, <3>1
    <3> QED BY <1>2, <1>6, <2>1, <2>6, <3>2 DEF WatcherInv, ThreadOK
  <2>7. CASE thread = "including"
    <3>1. Reflects(files, WithIncludes, ResultOk, ResultConfig)
      BY <1>9, <2>7 DEF ThreadOK
    <3>2. Reflects(files', WithIncludes', ResultOk', ResultConfig')
      BY <1>2, <1>7, <1>8, <2>4, <2>5, <3>1
    <3> QED BY <1>2, <1>6, <2>1, <2>7, <3>2 DEF WatcherInv, ThreadOK
  <2> QED BY <1>13, <2>6, <2>7
<1> QED BY <1>4, <1>10, <1>11, <1>12, <1>13 DEF WatcherInv

\* The compositor has loaded its configuration.
LEMMA WatcherStarts == ASSUME Init PROVE WatcherInv
<1>1. PICK there \in {{"user", "inc"}, {"system", "other"}}, use \in Use :
        files = [f \in File |-> IF f \notin there THEN Missing
                                ELSE [ver |-> 0, bad |-> FALSE, inc |-> IF f = "user" THEN use ELSE "no"]]
  BY DEF Init, WatcherInit
<1>2. /\ edits = 0 /\ inner = Seen("regular", Missing, <<>>) /\ thread = "starting" /\ force = FALSE
      /\ asked = <<>> /\ channel = <<>> /\ config = Load("regular").config /\ failed = FALSE
  BY DEF Init, WatcherInit, Seen
<1>3. ASSUME NEW f \in there PROVE [ver |-> 0, bad |-> FALSE, inc |-> IF f = "user" THEN use ELSE "no"] \in FileRecord
  BY DEF FileRecord, Use
<1>4. FilesOK(files, edits)
  <2>1. files \in [File -> FileRecord \cup {Missing}]
    BY <1>1, <1>3
  <2>2. \A f \in File : files[f] # Missing => files[f].ver <= edits
    BY <1>1, <1>2
  <2> QED BY <1>2, <2>1, <2>2 DEF FilesOK
<1>5. SeenOK(inner, edits)
  BY <1>2 DEF SeenOK, Seen, KnownBy
<1>6. PICK f : f = Found("regular")
  OBVIOUS
<1>7. f \in there /\ f \in {"user", "system"} /\ (f = "user" => "inc" \in there)
  <2>1. CASE there = {"user", "inc"}
    <3>1. files["user"] \in FileRecord
      BY <1>1, <1>3, <2>1 DEF File
    <3>2. files["user"] # Missing
      BY <3>1, MissingAssumption DEF FileRecord
    <3> QED BY <1>6, <2>1, <3>2 DEF Found
  <2>2. CASE there = {"system", "other"}
    <3>1. files["user"] = Missing
      BY <1>1, <2>2 DEF File
    <3> QED BY <1>6, <2>2, <3>1 DEF Found
  <2> QED BY <2>1, <2>2
<1>8. ASSUME NEW g \in there
      PROVE  /\ files[g] # Missing /\ files[g].bad = FALSE
             /\ g # "user" => files[g].inc = "no"
  <2>1. g \in File
    BY DEF File
  <2>2. files[g] = [ver |-> 0, bad |-> FALSE, inc |-> IF g = "user" THEN use ELSE "no"]
    BY <1>1, <2>1
  <2>3. files[g].bad = FALSE /\ (g # "user" => files[g].inc = "no")
    BY <2>2
  <2>4. files[g] \in FileRecord
    BY <1>3, <2>2
  <2>5. files[g] # Missing
    BY <2>4, MissingAssumption DEF FileRecord
  <2> QED BY <2>3, <2>5
<1>9. Loads(files, f)
  BY <1>7, <1>8 DEF Loads, Used
<1>10. Loaded(Found("regular"))
  BY <1>2, <1>6, <1>7, <1>8, <1>9, LoadFacts DEF Loaded
<1>11. asked \in Seq({Missing, "other"}) /\ force \in BOOLEAN /\ failed \in BOOLEAN
  <2>1. << >> \in Seq({Missing, "other"})
    OBVIOUS
  <2> QED BY <1>2, <2>1
<1>12. ThreadOK
  BY <1>2, <1>10 DEF ThreadOK
<1> QED BY <1>2, <1>4, <1>5, <1>11, <1>12 DEF WatcherInv

\* What came of a load of file F tells what it and its includes are.
LEMMA LoadReflects ==
  ASSUME FilesOK(files, edits), NEW F \in File, NEW path,
         NEW ok, NEW cfg,
         files[F] # Missing => /\ ok <=> Loads(files, F)
                               /\ ok => cfg = [main |-> Known(files, F),
                                               includes |-> Includes(files, Used(files, F))],
         NEW p, p.file = F
  PROVE  Reflects(files, Seen(path, p, Includes(files, Used(files, F))), ok, cfg)
<1>1. PICK i : i = Seen(path, p, Includes(files, Used(files, F)))
  OBVIOUS
<1>2. i.props = p /\ i.includes = Includes(files, Used(files, F))
  BY <1>1 DEF Seen
<1> SUFFICES ASSUME p # Missing, Known(files, F) = p
             PROVE  Reflects(files, i, ok, cfg)
  BY <1>1, <1>2 DEF Reflects
<1>3. files[F] # Missing
  BY KnownFacts
<1>4. DOMAIN i.includes = Used(files, F) /\ \A g \in Used(files, F) : i.includes[g] = Known(files, g)
  BY <1>2 DEF Includes
<1>5. (ok <=> Loads(files, F)) /\ (ok => cfg = [main |-> Known(files, F), includes |-> i.includes])
  BY <1>2, <1>3
<1>6. "inc" \in DOMAIN i.includes => (i.includes["inc"] = Missing <=> files["inc"] = Missing)
  <2>1. "inc" \in File
    BY DEF File
  <2> QED BY <1>4, <2>1, KnownFacts
<1>7. KnowsUse(i, files[F])
  BY <1>4, <1>6 DEF KnowsUse, Used
<1>8. ComesTo(i, files[F], ok, cfg)
  <2>1. ok => cfg = [main |-> i.props, includes |-> i.includes]
    BY <1>2, <1>5
  <2>2. ASSUME "inc" \in DOMAIN i.includes, i.includes["inc"] = Missing
        PROVE  ok <=> ~files[F].bad /\ files[F].inc = "optional"
    <3>1. files["inc"] = Missing /\ files[F].inc # "no"
      BY <1>4, <1>6, <2>2 DEF Used
    <3> QED BY <1>5, <3>1 DEF Loads
  <2>3. ASSUME files[F].inc = "require", "inc" \notin DOMAIN i.includes PROVE ~ok
    <3>1. files["inc"] = Missing
      BY <1>4, <2>3 DEF Used
    <3> QED BY <1>5, <2>3, <3>1 DEF Loads
  <2> QED BY <2>1, <2>2, <2>3 DEF ComesTo
<1>9. i.props.file = F
  BY <1>2
<1> QED BY <1>5, <1>7, <1>8, <1>9 DEF Reflects

\* WatcherInner::new for the includes of the configuration the compositor has.
LEMMA StartKeeps ==
  ASSUME WatcherInv, StartWatcher
  PROVE  WatcherInv'
<1>1. PICK F : F = Found("regular")
  OBVIOUS
<1>2. F \in File /\ FilesOK(files, edits) /\ SeenOK(inner, edits)
  BY <1>1, FoundIsFile DEF WatcherInv
<1>3. Loaded(F)
  BY <1>1 DEF StartWatcher, WatcherInv, ThreadOK
<1>4. /\ inner' = [path |-> "regular", props |-> Props(F), includes |-> IncludeProps(DOMAIN config.includes)]
      /\ thread' = "waiting"
      /\ UNCHANGED <<files, edits, force, asked, parsed, channel, config, failed>>
  BY <1>1 DEF StartWatcher
<1>5. DOMAIN config.includes = Used(files, F)
  BY <1>3 DEF Loaded, Includes
<1>6. inner' = Seen("regular", Known(files, F), Includes(files, Used(files, F)))
  BY <1>4, <1>5, PropsKnown DEF Seen
<1>7. Known(files, F).file = F /\ KnownBy(Known(files, F), edits)
  BY <1>2, <1>3, KnownFacts DEF Loaded
<1>8. Reflects(files, inner', ~failed, config)
  BY <1>2, <1>3, <1>6, <1>7, LoadReflects DEF Loaded
<1>9. Reflects(files', inner', ResultOk', ResultConfig')
  BY <1>3, <1>4, <1>8 DEF Loaded, ResultOk, ResultConfig
<1>10. SeenOK(inner', edits')
  <2>1. Used(files, F) \subseteq {"inc"}
    BY UsedIsInclude
  <2>2. PICK i, inc : i = inner' /\ inc = Includes(files, Used(files, F))
    OBVIOUS
  <2>3. i.path = "regular" /\ i.props = Known(files, F) /\ i.includes = inc
    BY <1>6, <2>2 DEF Seen
  <2>4. SeenOK(Seen(inner.path, inner.props, inc), edits)
    BY <1>2, <2>1, <2>2, SeenWith
  <2>5. Seen(inner.path, inner.props, inc).includes = inc
    BY DEF Seen
  <2>6. i = Seen(i.path, i.props, i.includes)
    BY <1>6, <2>2, <2>3
  <2>7. SeenOK(i, edits)
    BY <1>7, <2>3, <2>4, <2>5, <2>6 DEF SeenOK
  <2> QED BY <1>4, <2>2, <2>7
<1> QED BY <1>2, <1>4, <1>9, <1>10 DEF WatcherInv, ThreadOK

\* recv_timeout.
LEMMA WakeKeeps ==
  ASSUME WatcherInv, Wake
  PROVE  WatcherInv'
<1>1. /\ thread = "waiting" /\ thread' = "checking"
      /\ UNCHANGED <<files, edits, parsed, channel, config, failed>>
  BY DEF Wake
<1>2. Reflects(files, inner, ResultOk, ResultConfig) /\ SeenOK(inner, edits) /\ FilesOK(files, edits)
  BY <1>1 DEF WatcherInv, ThreadOK
<1>3. ResultOk' = ResultOk /\ ResultConfig' = ResultConfig
  BY <1>1 DEF ResultOk, ResultConfig
<1>4. CASE inner' = inner
  <2>1. force' \in BOOLEAN /\ asked' \in Seq({Missing, "other"})
    <3>1. asked \in Seq({Missing, "other"})
      BY DEF WatcherInv
    <3>2. CASE asked = <<>>
      BY <3>1, <3>2 DEF Wake
    <3>3. CASE asked # <<>>
      <4>1. force' = TRUE /\ asked' = Tail(asked)
        BY <3>3 DEF Wake
      <4> QED BY <3>1, <3>3, <4>1
    <3> QED BY <3>2, <3>3
  <2>2. Reflects(files', inner', ResultOk', ResultConfig')
    BY <1>1, <1>2, <1>3, <1>4
  <2>3. ThreadOK'
    BY <1>1, <2>2 DEF ThreadOK
  <2> QED BY <1>1, <1>2, <1>4, <2>1, <2>3 DEF WatcherInv
<1>5. CASE inner' # inner
  <2>1. asked # <<>> /\ asked \in Seq({Missing, "other"})
    BY <1>5 DEF Wake, WatcherInv
  <2>2. PICK path : path = Head(asked)
    OBVIOUS
  <2>3. path \in {Missing, "other"} /\ asked' \in Seq({Missing, "other"}) /\ force' = TRUE
    BY <2>1, <2>2 DEF Wake
  <2>4. path = "other" /\ inner' = Seen(path, Props(path), <<>>)
    BY <1>5, <2>1, <2>2, <2>3 DEF Wake, Seen
  <2>5. PICK i : i = inner'
    OBVIOUS
  <2>6. i.path = "other" /\ i.props = Known(files, "other") /\ i.includes = <<>>
        /\ i = Seen(i.path, i.props, i.includes)
    BY <2>4, <2>5, PropsKnown DEF Seen
  <2>7. /\ KnownBy(Known(files, "other"), edits)
        /\ Known(files, "other") = Missing \/ Known(files, "other").file = "other"
    BY <1>2, KnownFacts DEF File
  <2>8. DOMAIN i.includes = {} /\ i.includes = [f \in DOMAIN i.includes |-> i.includes[f]]
    BY <2>6
  <2>9. SeenOK(i, edits)
    BY <2>6, <2>7, <2>8 DEF SeenOK
  <2>10. Asked'
    BY <2>3, <2>5, <2>6, <2>7 DEF Asked
  <2>11. ThreadOK'
    BY <1>1, <2>10 DEF ThreadOK
  <2> QED BY <1>1, <1>2, <2>3, <2>5, <2>9, <2>11 DEF WatcherInv
<1> QED BY <1>4, <1>5

\* A check of the file that is found.
LEMMA CheckKeeps ==
  ASSUME WatcherInv, Check
  PROVE  WatcherInv'
<1>1. PICK f : f = Found(inner.path)
  OBVIOUS
<1>2. PICK new : new = Known(files, f)
  OBVIOUS
<1>3. /\ thread = "checking" /\ thread' \in {"loading", "waiting"}
      /\ thread' = "loading" => new # Missing
      /\ thread' = "waiting" => new = Missing \/ (~force /\ new = inner.props)
      /\ inner' = [inner EXCEPT !.props = IF new = Missing THEN @ ELSE new]
      /\ UNCHANGED <<files, edits, force, asked, parsed, channel, config, failed>>
  BY <1>1, <1>2, PropsKnown DEF Check
<1>4. FilesOK(files, edits) /\ SeenOK(inner, edits) /\ f \in File
  BY <1>1, FoundIsFile DEF WatcherInv
<1>5. KnownBy(new, edits) /\ (new # Missing => new.file = f) /\ (new = Missing <=> files[f] = Missing)
  BY <1>2, <1>4, KnownFacts
<1>6. ResultOk' = ResultOk /\ ResultConfig' = ResultConfig
  BY <1>3 DEF ResultOk, ResultConfig
<1>7. inner = Seen(inner.path, inner.props, inner.includes)
  BY <1>4 DEF SeenOK
<1>8. new = Missing \/ new = inner.props => inner' = inner
  BY <1>3, <1>7 DEF Seen
<1>9. new # Missing => inner' = Seen(inner.path, new, inner.includes)
  BY <1>3, <1>7 DEF Seen
<1>10. CASE thread' = "loading"
  <2>1. PICK i : i = inner'
    OBVIOUS
  <2>2. i.path = inner.path /\ i.props = new /\ i.includes = inner.includes
        /\ i = Seen(i.path, i.props, i.includes)
    BY <1>3, <1>9, <1>10, <2>1 DEF Seen
  <2>3. SeenOK(i, edits)
    BY <1>4, <1>5, <2>2 DEF SeenOK
  <2>4. Found(inner.path)' = f
    BY <1>1, <1>3, <2>1, <2>2 DEF Found
  <2>5. ThreadOK'
    BY <1>3, <1>5, <1>10, <2>1, <2>2, <2>4 DEF ThreadOK
  <2> QED BY <1>3, <1>4, <1>10, <2>1, <2>3, <2>5 DEF WatcherInv
<1>11. CASE thread' = "waiting"
  <2>1. inner' = inner
    BY <1>3, <1>8, <1>11
  <2>2. Reflects(files, inner, ResultOk, ResultConfig) \/ Asked
    BY <1>3 DEF WatcherInv, ThreadOK
  <2>3. Asked => f = "other" /\ new = Missing
    BY <1>1, <1>3, <1>11 DEF Asked, Found
  <2>4. Asked => inner.props = Missing \/ Known(files, inner.props.file) = Missing
    BY <1>2, <2>3 DEF Asked
  <2>5. Reflects(files, inner, ResultOk, ResultConfig)
    BY <2>2, <2>4 DEF Reflects
  <2>6. Reflects(files', inner', ResultOk', ResultConfig')
    BY <1>3, <1>6, <2>1, <2>5
  <2>7. ThreadOK'
    BY <1>11, <2>6 DEF ThreadOK
  <2> QED BY <1>3, <1>4, <1>11, <2>1, <2>7 DEF WatcherInv
<1> QED BY <1>3, <1>10, <1>11

\* process loads the file that is found.
LEMMA LoadFileKeeps ==
  ASSUME WatcherInv, LoadFile
  PROVE  WatcherInv'
<1>1. PICK F : F = Found(inner.path)
  OBVIOUS
<1>2. /\ thread = "loading" /\ thread' = "sending" /\ parsed' = Load(inner.path)
      /\ UNCHANGED <<files, edits, inner, force, asked, channel, config, failed>>
  BY DEF LoadFile
<1>3. FilesOK(files, edits) /\ SeenOK(inner, edits) /\ F \in File
  BY <1>1, FoundIsFile DEF WatcherInv
<1>4. inner.props # Missing /\ inner.props.file = F
  BY <1>1, <1>2 DEF WatcherInv, ThreadOK
<1>5. WithIncludes' = Seen(inner.path, inner.props, Includes(files, parsed'.includes))
  BY <1>2 DEF WithIncludes
<1>6. CASE files[F] = Missing
  <2>1. parsed' = [ok |-> FALSE, config |-> Missing, includes |-> {}]
    BY <1>1, <1>2, <1>6 DEF Load
  <2>2. parsed'.includes \subseteq {"inc"}
    BY <2>1
  <2>3. Known(files, F) # inner.props
    BY <1>4, <1>6 DEF Known
  <2>4. PICK i : i = WithIncludes'
    OBVIOUS
  <2>5. i.props = inner.props
    BY <1>5, <2>4 DEF Seen
  <2>6. Reflects(files, i, parsed'.ok, parsed'.config)
    BY <1>4, <2>3, <2>5 DEF Reflects
  <2>7. ThreadOK'
    BY <1>2, <2>2, <2>4, <2>6 DEF ThreadOK
  <2> QED BY <1>2, <1>3, <2>7 DEF WatcherInv
<1>7. CASE files[F] # Missing
  <2>1. PICK r : r = parsed'
    OBVIOUS
  <2>2. /\ r.ok <=> Loads(files, F)
        /\ r.config = [main |-> Known(files, F), includes |-> Includes(files, Used(files, F))]
        /\ r.includes = Used(files, F)
    BY <1>1, <1>2, <1>7, <2>1, LoadFacts
  <2>3. r.includes \subseteq {"inc"}
    BY <2>2, UsedIsInclude
  <2>4. Reflects(files, Seen(inner.path, inner.props, Includes(files, Used(files, F))), r.ok, r.config)
    BY <1>3, <1>4, <2>2, LoadReflects
  <2>5. Reflects(files', WithIncludes', parsed'.ok, parsed'.config)
    BY <1>2, <1>5, <2>1, <2>2, <2>4
  <2>6. ThreadOK'
    BY <1>2, <2>1, <2>3, <2>5 DEF ThreadOK
  <2> QED BY <1>2, <1>3, <2>6 DEF WatcherInv
<1> QED BY <1>6, <1>7

\* changed.send.
LEMMA SendKeeps ==
  ASSUME WatcherInv, Send
  PROVE  WatcherInv'
<1>1. /\ thread = "sending" /\ thread' = "including" /\ channel' = <<parsed>>
      /\ UNCHANGED <<files, edits, inner, force, asked, parsed, config, failed>>
  BY DEF Send
<1>2. parsed.includes \subseteq {"inc"} /\ Reflects(files, WithIncludes, parsed.ok, parsed.config)
  BY <1>1 DEF WatcherInv, ThreadOK
<1>3. ResultOk' = parsed.ok /\ ResultConfig' = parsed.config
  BY <1>1 DEF ResultOk, ResultConfig
<1>4. WithIncludes' = WithIncludes
  BY <1>1 DEF WithIncludes
<1>5. Reflects(files', WithIncludes', ResultOk', ResultConfig')
  BY <1>1, <1>2, <1>3, <1>4
<1>6. ThreadOK'
  BY <1>1, <1>2, <1>5 DEF ThreadOK
<1> QED BY <1>1, <1>6 DEF WatcherInv

\* set_includes.
LEMMA SetIncludesKeeps ==
  ASSUME WatcherInv, SetIncludes
  PROVE  WatcherInv'
<1>1. /\ thread = "including" /\ thread' = "waiting"
      /\ inner' = [inner EXCEPT !.includes = Includes(files, parsed.includes)]
      /\ UNCHANGED <<files, edits, force, asked, channel, config, failed>>
  BY PropsKnown DEF SetIncludes
<1>2. FilesOK(files, edits) /\ SeenOK(inner, edits) /\ parsed.includes \subseteq {"inc"}
      /\ Reflects(files, WithIncludes, ResultOk, ResultConfig)
  BY <1>1 DEF WatcherInv, ThreadOK
<1>3. inner = Seen(inner.path, inner.props, inner.includes)
  BY <1>2 DEF SeenOK
<1>4. inner' = WithIncludes
  BY <1>1, <1>3 DEF Seen, WithIncludes
<1>5. SeenOK(inner', edits)
  BY <1>2, <1>4, SeenWith DEF WithIncludes
<1>6. ResultOk' = ResultOk /\ ResultConfig' = ResultConfig
  BY <1>1 DEF ResultOk, ResultConfig
<1>7. Reflects(files', inner', ResultOk', ResultConfig')
  BY <1>1, <1>2, <1>4, <1>6
<1>8. ThreadOK'
  BY <1>1, <1>7 DEF ThreadOK
<1> QED BY <1>1, <1>2, <1>5, <1>8 DEF WatcherInv

\* A step that leaves the thread alone: a request, a result that is taken, all else.
LEMMA ApartKeeps ==
  ASSUME WatcherInv, UNCHANGED <<files, edits, inner, thread, force, parsed>>,
         asked' \in Seq({Missing, "other"}), failed' \in BOOLEAN,
         ResultOk' <=> ResultOk, ResultOk => ResultConfig' = ResultConfig,
         thread = "starting" => UNCHANGED <<channel, config, failed>>
  PROVE  WatcherInv'
<1>1. ASSUME NEW i, Reflects(files, i, ResultOk, ResultConfig)
      PROVE  Reflects(files', i, ResultOk', ResultConfig')
  BY <1>1 DEF Reflects, ComesTo
<1>2. WithIncludes' = WithIncludes
  BY DEF WithIncludes
<1>3. Found(inner.path)' = Found(inner.path)
  BY DEF Found
<1>4. Asked' <=> Asked
  BY DEF Asked
<1>5. thread = "starting" => (Loaded(Found(inner.path))' <=> Loaded(Found(inner.path)))
  BY <1>3 DEF Loaded
<1>6. ThreadOK
  BY DEF WatcherInv
<1>7. thread = "starting" => Loaded(Found("regular"))'
  BY <1>6 DEF ThreadOK, Loaded, Found
<1>8. /\ thread = "waiting" => Reflects(files', inner', ResultOk', ResultConfig')
      /\ thread = "checking" => Reflects(files', inner', ResultOk', ResultConfig') \/ Asked'
      /\ thread = "loading" => inner.props # Missing /\ inner.props.file = Found(inner.path)'
      /\ thread \in {"sending", "including"} => parsed.includes \subseteq {"inc"}
      /\ thread = "sending" => Reflects(files', WithIncludes', parsed.ok, parsed.config)
      /\ thread = "including" => Reflects(files', WithIncludes', ResultOk', ResultConfig')
  BY <1>1, <1>2, <1>3, <1>4, <1>6 DEF ThreadOK
<1>9. ThreadOK'
  BY <1>7, <1>8 DEF ThreadOK
<1> QED BY <1>9 DEF WatcherInv

\* reload_config: what is in use is what was about to be.
LEMMA ReloadKeeps ==
  ASSUME WatcherInv, Reload
  PROVE  WatcherInv'
<1>1. /\ channel # <<>> /\ channel' = <<>> /\ failed' = ~channel[1].ok
      /\ config' = IF channel[1].ok THEN channel[1].config ELSE config
      /\ UNCHANGED <<files, edits, inner, thread, force, asked, parsed>>
  BY DEF Reload
<1>2. thread # "starting"
  BY <1>1 DEF WatcherInv, ThreadOK, Loaded
<1>3. (ResultOk' <=> ResultOk) /\ (ResultOk => ResultConfig' = ResultConfig)
  BY <1>1 DEF ResultOk, ResultConfig
<1>4. asked' \in Seq({Missing, "other"}) /\ failed' \in BOOLEAN
  BY <1>1 DEF WatcherInv
<1> QED BY <1>1, <1>2, <1>3, <1>4, ApartKeeps

\* Every step keeps the invariant.
LEMMA WatcherNext == ASSUME Races = {}, WatcherInv, [Next]_vars PROVE WatcherInv'
<1>1. ASSUME UNCHANGED watcherVars PROVE WatcherInv'
  <2>1. /\ UNCHANGED <<files, edits, inner, thread, force, asked, parsed, channel, config, failed>>
        /\ failed' \in BOOLEAN /\ asked' \in Seq({Missing, "other"})
    BY <1>1 DEF watcherVars, WatcherInv
  <2>2. ResultOk' = ResultOk /\ ResultConfig' = ResultConfig
    BY <2>1 DEF ResultOk, ResultConfig
  <2> QED BY <2>1, <2>2, ApartKeeps
<1>2. CASE Elsewhere
  <2>1. CASE Watch
    BY <2>1, WakeKeeps, CheckKeeps, LoadFileKeeps, SendKeeps, SetIncludesKeeps DEF Watch
  <2>2. CASE StartWatcher
    BY <2>2, StartKeeps
  <2>3. CASE \E f \in File : Edit(f)
    BY <2>3, EditKeeps
  <2>4. CASE \E path \in {Missing, "other"} : Ask(path)
    <3>1. PICK path \in {Missing, "other"} : Ask(path)
      BY <2>4
    <3>2. UNCHANGED <<files, edits, inner, thread, force, parsed, channel, config, failed>>
          /\ asked' = Append(asked, path)
      BY <3>1 DEF Ask
    <3>3. asked' \in Seq({Missing, "other"}) /\ failed' \in BOOLEAN
      BY <3>1, <3>2 DEF WatcherInv
    <3>4. ResultOk' = ResultOk /\ ResultConfig' = ResultConfig
      BY <3>2 DEF ResultOk, ResultConfig
    <3> QED BY <3>2, <3>3, <3>4, ApartKeeps
  <2> QED BY <1>2, <2>1, <2>2, <2>3, <2>4 DEF Elsewhere
<1>3. CASE ConfigLoaded
  BY <1>3, ReloadKeeps DEF ConfigLoaded
<1>4. CASE \E c \in Client : Connections(c)
  BY <1>1, <1>4 DEF Connections, Connect, RequestAction, Reply, RequestStream, Deliver, HangUp
<1>5. CASE ChangeLayout \/ ChangeKeymap \/ BindManagers \/ StopManagers \/ RunIdles \/ Refresh \/ UNCHANGED vars
  BY <1>1, <1>5 DEF ChangeLayout, ChangeKeymap, BindManagers, StopManagers, RunIdles, Refresh, vars
<1> QED BY <1>2, <1>3, <1>4, <1>5 DEF Next

\* A poll that finds nothing new finds what is in use.
LEMMA NothingNew ==
  ASSUME WatcherInv, Check, thread' = "waiting", channel = <<>>,
         files[Found(inner.path)] # Missing, ~ModuleAppeared
  PROVE  failed = ~Load(inner.path).ok /\ (Load(inner.path).ok => config = Load(inner.path).config)
<1>1. PICK F : F = Found(inner.path)
  OBVIOUS
<1>2. FilesOK(files, edits) /\ SeenOK(inner, edits) /\ F \in File /\ failed \in BOOLEAN
  BY <1>1, FoundIsFile DEF WatcherInv
<1>3. Known(files, F) # Missing /\ Known(files, F).file = F
  BY <1>1, <1>2, KnownFacts
<1>4. /\ ~force /\ inner.props = Known(files, F) /\ thread = "checking"
      /\ \A f \in DOMAIN inner.includes : inner.includes[f] = Known(files, f)
  BY <1>1, <1>3, PropsKnown DEF Check
<1>5. Reflects(files, inner, ~failed, config)
  BY <1>4 DEF WatcherInv, ThreadOK, Asked, ResultOk, ResultConfig
<1>6. PICK used : used = Used(files, F)
  OBVIOUS
<1>7. KnowsUse(inner, files[F]) /\ ComesTo(inner, files[F], ~failed, config)
      /\ (SameUse(files, inner, files[F]) => (~failed <=> Loads(files, F)))
  BY <1>3, <1>4, <1>5 DEF Reflects
<1>8. files[F].inc = "require" /\ "inc" \notin DOMAIN inner.includes => files["inc"] = Missing
  BY <1>1 DEF ModuleAppeared
<1>9. /\ ~failed => config = [main |-> inner.props, includes |-> inner.includes]
      /\ ~failed <=> Loads(files, F)
      /\ inner.includes = Includes(files, used)
  <2>1. SameUse(files, inner, files[F])
    BY <1>4, <1>8 DEF SameUse
  <2>2. DOMAIN inner.includes = used
    <3>1. files[F] \in FileRecord /\ DOMAIN inner.includes \subseteq {"inc"} /\ "inc" \in File
      BY <1>1, <1>2 DEF FilesOK, SeenOK, File
    <3>2. files[F].inc \in Use
      BY <3>1 DEF FileRecord
    <3>3. "inc" \in DOMAIN inner.includes => (inner.includes["inc"] = Missing <=> files["inc"] = Missing)
      BY <1>2, <1>4, <3>1, KnownFacts
    <3> QED BY <1>6, <1>7, <1>8, <3>1, <3>2, <3>3 DEF KnowsUse, Used, Use
  <2>3. inner.includes = [f \in used |-> inner.includes[f]]
    BY <1>2, <2>2 DEF SeenOK
  <2>4. [f \in used |-> inner.includes[f]] = [f \in used |-> Known(files, f)]
    BY <1>4, <2>2
  <2> QED BY <1>7, <2>1, <2>3, <2>4 DEF ComesTo, Includes
<1>10. /\ Load(inner.path).ok <=> Loads(files, F)
       /\ Load(inner.path).config = [main |-> Known(files, F), includes |-> Includes(files, used)]
  BY <1>1, <1>6, LoadFacts
<1>11. Load(inner.path).ok \in BOOLEAN
  BY <1>1 DEF Load
<1> QED BY <1>2, <1>4, <1>9, <1>10, <1>11

\* Only a check that finds nothing goes from checking to waiting.
LEMMA OnlyCheck ==
  ASSUME [Next]_vars, thread = "checking", thread' = "waiting"
  PROVE  Check
<1>1. thread' # thread
  OBVIOUS
<1>2. ~UNCHANGED watcherVars
  BY <1>1 DEF watcherVars
<1>3. ~(\E c \in Client : Connections(c))
  BY <1>2 DEF Connections, Connect, RequestAction, Reply, RequestStream, Deliver, HangUp
<1>4. ~(ChangeLayout \/ ChangeKeymap \/ BindManagers \/ StopManagers \/ RunIdles \/ Refresh \/ UNCHANGED vars)
  BY <1>2 DEF ChangeLayout, ChangeKeymap, BindManagers, StopManagers, RunIdles, Refresh, vars
<1>5. ~ConfigLoaded
  BY <1>1 DEF ConfigLoaded, Reload
<1>6. Elsewhere
  BY <1>3, <1>4, <1>5 DEF Next
<1> QED BY <1>6 DEF Elsewhere, Watch, Wake, LoadFile, Send, SetIncludes, StartWatcher, Edit, Ask

(***************************************************************************)
(* When a poll of the watcher thread finds nothing new, the configuration  *)
(* in use is what is in the files, or the user is told that it does not    *)
(* load (WatcherInner::check, with main's reload_config), as long as none  *)
(* of the races happens that the watcher loses, and but for a module that  *)
(* was missing when a file that requires it was loaded (ModuleAppeared).   *)
(***************************************************************************)
THEOREM ConfigFollowed == ASSUME Races = {} PROVE Spec => ConfigFollows
<1>1. Init => WatcherInv
  BY WatcherStarts
<1>2. WatcherInv /\ [Next]_vars => WatcherInv'
  BY WatcherNext
<1>3. WatcherInv /\ [Next]_vars =>
        [/\ thread = "checking" /\ thread' = "waiting"
         /\ channel = <<>> /\ files[Found(inner.path)] # Missing
         /\ ~ModuleAppeared
         => LET now == Load(inner.path)
            IN  failed = ~now.ok /\ (now.ok => config = now.config)]_thread
  BY NothingNew, OnlyCheck
<1> QED BY <1>1, <1>2, <1>3, PTL DEF Spec, ConfigFollows
=============================================================================
