---------------------------- MODULE ConfigWatcher ---------------------------
(***************************************************************************)
(* The thread that watches the configuration file (utils/watcher.rs) and   *)
(* the channel by which the main loop gets what it has loaded.  A file is a*)
(* record, or Missing: ver is its modification time, bad that it does not  *)
(* parse, and inc how it uses the file "inc": as an include, an optional   *)
(* one, a module that it requires, or not.  The watched path is "regular"  *)
(* (the user's file or else the system's) or "other", a file named in a    *)
(* request to load it.                                                     *)
(***************************************************************************)
EXTENDS Integers, SequencesExt

CONSTANTS
    Missing,           \* no file
    Races              \* which of the races that the watcher loses may happen

VARIABLES
    files,      \* the files
    edits,      \* modification time of the last change
    inner,      \* the thread's path and what it saw of it, props, and of its includes
    thread,     \* where the thread is
    force,      \* should_load
    asked,      \* requests not yet taken by the thread
    parsed,     \* what the thread has loaded and has not sent
    channel,    \* sync_channel(1)
    config,     \* the configuration in use
    failed      \* whether the last one did not load

watcherVars == <<files, edits, inner, thread, force, asked, parsed, channel, config, failed>>

File == {"user", "system", "other", "inc"}
Use == {"no", "include", "optional", "require"}

\* Missing is neither a file nor what is known of one.
ASSUME MissingAssumption ==
    Missing \notin [ver : Nat, bad : BOOLEAN, inc : Use] \cup [file : File, ver : Nat]

\* from_config_path: user_path, or else system_path.
Found(path) ==
    IF path = "other" THEN "other" ELSE IF files["user"] # Missing THEN "user" ELSE "system"
\* Props::from_path: which file it is and its modification time.
Props(f) == IF files[f] = Missing THEN Missing ELSE [file |-> f, ver |-> files[f].ver]
IncludeProps(includes) == [f \in includes |-> Props(f)]

\* The includes that a file comes with: include_config, dofile and loadfile note the
\* path before they read it, require only the path of a module that it has found.
Noted(f) ==
    IF f.inc = "no" \/ (f.inc = "require" /\ files["inc"] = Missing) THEN {} ELSE {"inc"}
\* Whether what it uses is there, unless that is optional, and parses.
UseLoads(f) ==
    \/ f.inc = "no"
    \/ IF files["inc"] = Missing THEN f.inc = "optional" ELSE ~files["inc"].bad

\* ConfigPath::load: the includes are known, whether it loads or not, unless the
\* file itself cannot be read.
Load(path) ==
    LET f == files[Found(path)]
    IN  IF f = Missing THEN [ok |-> FALSE, config |-> Missing, includes |-> {}]
        ELSE [ok       |-> ~f.bad /\ UseLoads(f),
              config   |-> [main |-> Props(Found(path)), includes |-> IncludeProps(Noted(f))],
              includes |-> Noted(f)]

\* The compositor has loaded its configuration; the thread is not started.
WatcherInit ==
    /\ edits = 0
    /\ \E there \in {{"user", "inc"}, {"system", "other"}}, use \in Use :
         files = [f \in File |->
                    IF f \notin there THEN Missing
                    ELSE [ver |-> 0, bad |-> FALSE, inc |-> IF f = "user" THEN use ELSE "no"]]
    /\ inner = [path |-> "regular", props |-> Missing, includes |-> <<>>]
    /\ thread = "starting"
    /\ force = FALSE
    /\ asked = <<>>
    /\ parsed = Missing
    /\ channel = <<>>
    /\ config = Load("regular").config
    /\ failed = FALSE

-----------------------------------------------------------------------------
(* The world.                                                              *)

\* Changes that the watcher does not see: before its thread has started; of an
\* include between a load and set_includes; of the file that is found, while it
\* is loaded, if it changes back before the next poll.
Lost(f, new) ==
    (IF thread = "starting" THEN {"startup"} ELSE {})
    \cup (IF f = "inc" /\ thread \in {"sending", "including"} THEN {"include"} ELSE {})
    \cup (IF f = "user" /\ thread = "loading" /\ Missing \in {files[f], new} THEN {"switch"} ELSE {})

\* A file is written, replaced or removed.
Edit(f) ==
    /\ edits' = edits + 1
    /\ \E new \in {Missing} \cup [ver : {edits + 1}, bad : BOOLEAN,
                                 inc : IF f = "user" THEN Use ELSE {"no"}] :
         /\ new # files[f]
         /\ Lost(f, new) \subseteq Races
         /\ files' = [files EXCEPT ![f] = new]
    /\ UNCHANGED <<inner, thread, force, asked, parsed, channel, config, failed>>

\* Watcher::load_config, on the main thread; Missing is the path in use.
Ask(path) ==
    /\ asked' = Append(asked, path)
    /\ UNCHANGED <<files, edits, inner, thread, force, parsed, channel, config, failed>>

-----------------------------------------------------------------------------
(* The thread.                                                             *)

\* WatcherInner::new for the includes the compositor started with.
StartWatcher ==
    /\ thread = "starting"
    /\ inner' = [path     |-> "regular", props |-> Props(Found("regular")),
                 includes |-> IncludeProps(DOMAIN config.includes)]
    /\ thread' = "waiting"
    /\ UNCHANGED <<files, edits, force, asked, parsed, channel, config, failed>>

\* recv_timeout: a request, or half a second later none.
Wake ==
    /\ thread = "waiting"
    /\ IF asked = <<>> THEN force' = FALSE /\ UNCHANGED <<inner, asked>>
       ELSE LET path == Head(asked)
            IN  /\ force' = TRUE
                /\ asked' = Tail(asked)
                /\ inner' = IF path = Missing THEN inner
                            ELSE [path |-> path, props |-> Props(path), includes |-> <<>>]
    /\ thread' = "checking"
    /\ UNCHANGED <<files, edits, parsed, channel, config, failed>>

BadCheck ==
    LET new  == Props(Found(inner.path))
        load == force \/ new # inner.props
    IN  /\ thread = "checking"
        /\ inner' = [inner EXCEPT !.props = IF new = Missing THEN @ ELSE new]
        /\ thread' = IF new # Missing /\ load THEN "loading" ELSE "waiting"
        /\ UNCHANGED <<files, edits, force, asked, parsed, channel, config, failed>>

\* check, and the loop's continue for a file that is missing.
Check ==
    LET new  == Props(Found(inner.path))
        load == \/ force
                \/ new # inner.props
                \/ \E f \in DOMAIN inner.includes : inner.includes[f] # Props(f)
    IN  /\ thread = "checking"
        /\ inner' = [inner EXCEPT !.props = IF new = Missing THEN @ ELSE new]
        /\ thread' = IF new # Missing /\ load THEN "loading" ELSE "waiting"
        /\ UNCHANGED <<files, edits, force, asked, parsed, channel, config, failed>>

\* process.
LoadFile ==
    /\ thread = "loading"
    /\ parsed' = Load(inner.path)
    /\ thread' = "sending"
    /\ UNCHANGED <<files, edits, inner, force, asked, channel, config, failed>>

\* changed.send waits while a result is in the channel.
Send ==
    /\ thread = "sending"
    /\ channel = <<>>
    /\ channel' = <<parsed>>
    /\ thread' = "including"
    /\ UNCHANGED <<files, edits, inner, force, asked, parsed, config, failed>>

\* set_includes.
SetIncludes ==
    /\ thread = "including"
    /\ inner' = [inner EXCEPT !.includes = IncludeProps(parsed.includes)]
    /\ parsed' = Missing
    /\ thread' = "waiting"
    /\ UNCHANGED <<files, edits, force, asked, channel, config, failed>>

Watch == Wake \/ Check \/ LoadFile \/ Send \/ SetIncludes

\* The channel's callback on the main thread, reload_config.
Reload ==
    /\ channel # <<>>
    /\ channel' = <<>>
    /\ failed' = ~channel[1].ok
    /\ config' = IF channel[1].ok THEN channel[1].config ELSE config
    /\ UNCHANGED <<files, edits, inner, thread, force, asked, parsed>>
=============================================================================
