------------------------------- MODULE Outputs ------------------------------
(***************************************************************************)
(* The outputs of the session (src/src/backend/tty.rs, src/src/ymir.rs,    *)
(* src/src/protocols/gamma_control.rs): which DRM devices are open, which  *)
(* of their connectors have a surface and an output, where the outputs are *)
(* placed and what gamma they have, while devices and monitors come and go,*)
(* the lid closes, the configuration is reloaded, and another session takes*)
(* the devices away and gives them back.                                   *)
(*                                                                         *)
(* The kernel's side is present, plugged, readable and changed; what the   *)
(* compositor keeps is one record, tty, which its handlers transform.  A   *)
(* connector has a CRTC of its own.                                        *)
(***************************************************************************)
EXTENDS OutputHeads

CONSTANTS
  Device,        \* DRM devices, in the order of Devices
  Devices,
  DeviceOf,      \* the device of each connector
  Fixed,         \* devices that are never removed nor ignored: the primary node
  MonitorsOf,    \* the makes of monitors that may be plugged into each connector
  NoMonitor,
  Widths,        \* the modes of each make, the preferred one first
  Headsets,      \* the makes with the property "non-desktop"
  Panels,        \* the connectors for which is_laptop_panel holds
  KeepPanel,     \* keep_laptop_panel_on_when_lid_is_closed
  Ramp,          \* gamma ramps
  Files,         \* configuration files: their output sections, and ignored devices
  Commands,      \* what IPC changes: the name it gives, and off or a mode
  Positions, Customs,   \* positions and widths that clients ask for
  LateNames      \* whether monitors are connected before their EDID is read

VARIABLES
  present,    \* the device list of the udev source
  plugged,    \* the monitor at each connector
  readable,   \* connectors whose monitor has told its name and modes
  changed,    \* devices whose event "changed" is to come
  file,       \* the configuration file
  tty         \* what the compositor keeps
(***************************************************************************)
(*   active, lid           session.is_active(), is_lid_closed              *)
(*   config, ignored       the output sections, ignored_nodes              *)
(*   deferred              update_output_config_on_resume                  *)
(*   devices               devices                                         *)
(*   scanned               drm_scanner and known_crtcs, by connector       *)
(*   leased                non_desktop_connectors                          *)
(*   surfaces              surfaces: mode, previous_blob and               *)
(*                         pending_gamma_change                            *)
(*   space                 the position of each output                     *)
(*   late                  removed outputs, by their connectors, that a    *)
(*                         client still knows: their global is disabled but*)
(*                         not removed yet                                 *)
(*   controlled            the keys of gamma_controls: the output of a     *)
(*                         connector, or one that was removed from it      *)
(*   asked                 history: the gamma asked for last on each CRTC  *)
(*   crossed               history: it was asked for through a control of  *)
(*                         an output that is gone                          *)
(*   lit                   connectors that show what another session drew  *)
(*   lut                   the GAMMA_LUT of each CRTC                      *)
(*   ipc, ipcChanged       ipc_outputs, ipc_outputs_changed                *)
(*   left                  history: a device has gone with outputs that    *)
(*                         nobody looked at since                          *)
(*   resized               history: outputs changed their mode since they  *)
(*                         were placed                                     *)
(*   current, heads, conf  output management                               *)
(***************************************************************************)

kernel == <<present, plugged, readable, changed>>
vars == <<kernel, file, tty>>

Flat == "flat"       \* no gamma ramp
NoRamp == "none"     \* no pending change
Key == {"present", "removed"}   \* of a control: which output of a connector it is for

ConnectorsOf(d) == {c \in Connector : DeviceOf[c] = d}
Plugged == {c \in Connector : plugged[c] # NoMonitor /\ DeviceOf[c] \in present}
KernelWidths(c) == IF c \in readable THEN Widths[plugged[c]] ELSE <<>>
Without(f, S) == Restrict(f, DOMAIN f \ S)

-----------------------------------------------------------------------------
(* Placing outputs *)

Entry(s, c) == Find(s.config, c, s.scanned[c].make)
OutputsOf(s) ==
  [c \in DOMAIN s.surfaces |-> [make |-> s.scanned[c].make, x |-> Entry(s, c).x,
                                width |-> s.surfaces[c].mode.width]]
Moved(s, space) ==
  [s EXCEPT !.space = space, !.resized = FALSE,
            !.ipcChanged = @ \/ \E c \in DOMAIN space :
                                  c \notin DOMAIN s.space \/ space[c] # s.space[c]]
Reposition(s) == Moved(s, Placed(OutputsOf(s)))
RepositionIf(needed, s) == IF needed THEN Reposition(s) ELSE s

-----------------------------------------------------------------------------
(* Connectors *)

\* refresh_ipc_outputs of the backend.
IpcOutput(s, c) ==
  LET widths == s.scanned[c].widths
      on == c \in DOMAIN s.surfaces
      custom == on /\ s.surfaces[c].mode.custom
      same == {i \in DOMAIN widths : on /\ widths[i] = s.surfaces[c].mode.width}
  IN  [make |-> s.scanned[c].make, fresh |-> s.scanned[c].fresh,
       modes |-> IF custom THEN <<s.surfaces[c].mode.width>> \o widths ELSE widths,
       cur |-> IF custom THEN 1 ELSE IF same = {} THEN 0 ELSE Max(same),
       x |-> IF c \in DOMAIN s.space THEN s.space[c] ELSE NoX]
RefreshIpcOutputs(s) ==
  [s EXCEPT !.ipc = [c \in DOMAIN s.scanned |-> IpcOutput(s, c)], !.ipcChanged = TRUE]

\* connector_disconnected, with remove_output and output_removed of the gamma
\* controls, for each of cs.  Who had a control keeps the wl_output; the control of
\* an output removed before stays.
Disconnect(s, cs) ==
  LET gone == cs \cap DOMAIN s.surfaces
  IN  RepositionIf(gone # {}, [s EXCEPT !.surfaces = Without(@, cs), !.space = Without(@, cs),
                                        !.leased = @ \ (cs \ gone), !.lit = @ \ gone,
                                        !.late = @ \cup {c \in gone : <<c, "present">> \in s.controlled},
                                        !.controlled = @ \ (gone \X {"present"}),
                                        !.crossed = @ \ gone])

\* A surface is made, its gamma is reset.
Connected(s, c, mode) ==
  [s EXCEPT !.surfaces = (c :> [mode |-> mode, prev |-> Flat, pending |-> NoRamp]) @@ @,
            !.lut[c] = Flat, !.asked[c] = Flat, !.crossed = @ \ {c}, !.lit = @ \ {c}]

\* connector_connected for each of cs, with add_output.  Without a mode it fails.
Connect(s, cs) ==
  LET Mode(c) == PickMode(s.scanned[c].widths, Entry(s, c).mode)
      headsets == {c \in cs : plugged[c] \in Headsets}
      usable == {c \in cs \ headsets : Mode(c) # NoMode}
      offered == [s EXCEPT !.leased = @ \cup headsets]
  IN  RepositionIf(usable # {}, FoldSet(LAMBDA c, t : Connected(t, c, Mode(c)), offered, usable))

\* should_disable_laptop_panels, for a connector.
ShouldDisable(s, c) ==
  s.lid /\ ~KeepPanel /\ c \in Panels /\ \E d \in DOMAIN s.scanned : d \notin Panels

Wanted(s, c) == ~Entry(s, c).off /\ ~ShouldDisable(s, c)

\* on_output_config_changed: modes, then outputs that are not wanted any more,
\* then those that are.
Remode(s, c) ==
  LET mode == PickMode(s.scanned[c].widths, Entry(s, c).mode)
  IN  IF mode \in {NoMode, s.surfaces[c].mode} THEN s
      ELSE [s EXCEPT !.surfaces[c].mode = mode, !.resized = TRUE]

\* (mistake) Outputs keep the mode that they have.
BadOnOutputConfigChanged(s) ==
  LET unwanted == {c \in DOMAIN s.surfaces : ~Wanted(s, c)}
      idle == {c \in DOMAIN s.scanned : c \notin DOMAIN s.surfaces \cup s.leased /\ Wanted(s, c)}
  IN  IF ~s.active THEN [s EXCEPT !.deferred = TRUE]
      ELSE RefreshIpcOutputs(Connect(
             Disconnect([s EXCEPT !.deferred = FALSE, !.left = FALSE], unwanted), idle))

OnOutputConfigChanged(s) ==
  LET unwanted == {c \in DOMAIN s.surfaces : ~Wanted(s, c)}
      remoded == FoldSet(LAMBDA c, t : Remode(t, c), s, DOMAIN s.surfaces \ unwanted)
      idle == {c \in DOMAIN s.scanned : c \notin DOMAIN s.surfaces \cup s.leased /\ Wanted(s, c)}
  IN  IF ~s.active THEN [s EXCEPT !.deferred = TRUE]
      ELSE RefreshIpcOutputs(Connect(
             Disconnect([remoded EXCEPT !.deferred = FALSE, !.left = FALSE], unwanted), idle))

-----------------------------------------------------------------------------
(* Devices *)

\* The name of a new connector of a device: that of its monitor, unless it is
\* not known yet or another connector has it.
Name(s, c, added) ==
  LET taken == {s.scanned[d].make : d \in DOMAIN s.scanned}
               \cup {plugged[d] : d \in {e \in added \cap readable : Rank(e) < Rank(c)}}
  IN  IF c \in readable /\ plugged[c] \notin taken THEN plugged[c] ELSE Unnamed

\* (mistake) Only connectors that are gone are turned off.
BadCleanup(s, d) == [s EXCEPT !.lit = @ \ (ConnectorsOf(d) \ DOMAIN s.scanned)]

\* cleanup_mismatching_resources: CRTCs of connectors that are not in use.
Cleanup(s, d) ==
  [s EXCEPT !.lit = @ \ {c \in ConnectorsOf(d) : c \in DOMAIN s.scanned => ~Wanted(s, c)}]

Lost(s, cs) == [s EXCEPT !.scanned = Without(@, cs)]
Updated(s, now, added) ==
  LET Info(c) == [make |-> Name(s, c, added), widths |-> KernelWidths(c), fresh |-> TRUE]
  IN  [s EXCEPT !.scanned =
         [c \in DOMAIN @ \cup now |->
            IF c \in added THEN Info(c)
            ELSE IF c \in now THEN [@[c] EXCEPT !.widths = KernelWidths(c)]
            ELSE @[c]]]

\* device_changed for an open device: what the scan has found.
Rescanned(s, d) ==
  LET old == ConnectorsOf(d) \cap DOMAIN s.scanned
      now == {c \in ConnectorsOf(d) : plugged[c] # NoMonitor}
  IN  Updated(Lost(Disconnect(s, old \ now), old \ now), now, now \ old)

CleanedUp(s, d, cleanup) == IF cleanup THEN Cleanup(s, d) ELSE s
RescanOpen(s, d, cleanup) == OnOutputConfigChanged(CleanedUp(Rescanned(s, d), d, cleanup))

\* device_added
DeviceAdded(s, d) ==
  IF d \in s.ignored THEN s ELSE RescanOpen([s EXCEPT !.devices = @ \cup {d}], d, TRUE)

\* device_changed; a device that is not open yet is added.
DeviceChanged(s, d, cleanup) ==
  IF d \in s.ignored THEN s
  ELSE RescanOpen([s EXCEPT !.devices = @ \cup {d}], d, cleanup \/ d \notin s.devices)

\* device_removed
DeviceRemoved(s, d) ==
  LET here == ConnectorsOf(d) \cap DOMAIN s.scanned
  IN  IF d \notin s.devices THEN s
      ELSE RefreshIpcOutputs([Disconnect(s, here) EXCEPT
             !.devices = @ \ {d}, !.scanned = Without(@, here),
             !.leased = @ \ here, !.lit = @ \ here, !.left = TRUE])

\* compute_ignored_nodes
Ignored(f) == f.ignored \ Fixed

ForEach(Op(_, _), s, ds) == FoldLeft(Op, s, ds)
InOrder(ds) == SelectSeq(Devices, LAMBDA d : d \in ds)   \* the primary node first

-----------------------------------------------------------------------------
(* The kernel and its events *)

Init ==
  /\ present \in {D \in SUBSET Device : Fixed \subseteq D}
  /\ plugged \in {p \in [Connector -> Make \cup {NoMonitor}] :
                    \A c \in Connector : p[c] \in MonitorsOf[c] \cup {NoMonitor}}
  /\ readable = {c \in Connector : plugged[c] # NoMonitor}
  /\ changed = {}
  /\ file \in Files
  /\ LET s == [active |-> TRUE, lid |-> FALSE,
               config |-> file.outputs, ignored |-> Ignored(file), deferred |-> FALSE,
               devices |-> {}, scanned |-> <<>>, leased |-> {}, surfaces |-> <<>>,
               space |-> <<>>, late |-> {}, controlled |-> {},
               asked |-> [c \in Connector |-> Flat], crossed |-> {},
               lit |-> Plugged \cap readable, lut |-> [c \in Connector |-> NoRamp],
               ipc |-> <<>>, ipcChanged |-> FALSE, left |-> FALSE, resized |-> FALSE,
               current |-> <<>>, heads |-> <<>>, conf |-> NoConf]
     IN  tty = ForEach(DeviceAdded, s, InOrder(present))

Plug(c, make) ==
  /\ DeviceOf[c] \in present /\ make \in MonitorsOf[c] /\ plugged[c] # make
  /\ plugged' = [plugged EXCEPT ![c] = make]
  /\ readable' \in {readable \cup {c}} \cup (IF LateNames THEN {readable \ {c}} ELSE {})
  /\ changed' = changed \cup {DeviceOf[c]}
  /\ UNCHANGED <<present, file, tty>>

Unplug(c) ==
  /\ c \in Plugged
  /\ plugged' = [plugged EXCEPT ![c] = NoMonitor]
  /\ readable' = readable \ {c}
  /\ changed' = changed \cup {DeviceOf[c]}
  /\ tty' = [tty EXCEPT !.lit = @ \ {c}]
  /\ UNCHANGED <<present, file>>

\* The EDID of a monitor has been read.
EdidRead(c) ==
  /\ c \in Plugged \ readable
  /\ readable' = readable \cup {c}
  /\ changed' = changed \cup {DeviceOf[c]}
  /\ UNCHANGED <<present, plugged, file, tty>>

\* on_udev_event; the device list of its source follows even while inactive.
UdevAdded(d) ==
  /\ d \notin present
  /\ present' = present \cup {d}
  /\ tty' = IF tty.active THEN DeviceAdded([tty EXCEPT !.ignored = Ignored(file)], d) ELSE tty
  /\ UNCHANGED <<plugged, readable, changed, file>>

UdevChanged(d) ==
  /\ d \in changed \cap present
  /\ changed' = changed \ {d}
  /\ tty' = IF tty.active THEN DeviceChanged(tty, d, FALSE) ELSE tty
  /\ UNCHANGED <<present, plugged, readable, file>>

UdevRemoved(d) ==
  /\ d \in present \ Fixed
  /\ present' = present \ {d}
  /\ changed' = changed \ {d}
  /\ tty' = IF tty.active THEN DeviceRemoved(tty, d) ELSE tty
  /\ UNCHANGED <<plugged, readable, file>>

-----------------------------------------------------------------------------
(* Sessions *)

\* PauseSession; the other session draws on what it finds, with its own gamma.
PauseSession ==
  /\ tty.active
  /\ tty' = [tty EXCEPT !.active = FALSE, !.lut = [c \in Connector |-> NoRamp]]
  /\ UNCHANGED <<kernel, file>>

\* (mistake) The gamma from before, whatever was asked for meanwhile.
BadRestoreGamma(s, d) ==
  LET here == {c \in DOMAIN s.surfaces : DeviceOf[c] = d}
  IN  [s EXCEPT !.surfaces = [c \in DOMAIN @ |-> IF c \in here THEN [@[c] EXCEPT !.pending = NoRamp]
                                                          ELSE @[c]],
                !.lut = [c \in Connector |-> IF c \in here THEN s.surfaces[c].prev ELSE @[c]]]

\* The gamma that was asked for meanwhile, or the one from before.
RestoreGamma(s, d) ==
  LET here == {c \in DOMAIN s.surfaces : DeviceOf[c] = d}
      Gamma(c) == IF s.surfaces[c].pending # NoRamp THEN s.surfaces[c].pending
                                                    ELSE s.surfaces[c].prev
  IN  [s EXCEPT !.surfaces = [c \in DOMAIN @ |->
                                IF c \in here THEN [@[c] EXCEPT !.prev = Gamma(c), !.pending = NoRamp]
                                              ELSE @[c]],
                !.lut = [c \in Connector |-> IF c \in here THEN Gamma(c) ELSE @[c]]]

Shown(s) == [s EXCEPT !.lit = @ \ DOMAIN s.surfaces]
Resumed(s) == RefreshIpcOutputs(Shown(IF s.deferred THEN OnOutputConfigChanged(s) ELSE s))

\* ActivateSession
ActivateSession(order) ==
  LET back == [tty EXCEPT !.active = TRUE, !.ignored = Ignored(file),
                           !.lit = Plugged \cap readable]
      gone == {d \in tty.devices : d \notin present \/ d \in back.ignored}
      kept == tty.devices \ gone
      s1 == ForEach(DeviceRemoved, back, InOrder(gone))
      s2 == ForEach(LAMBDA t, d : RestoreGamma(DeviceChanged(t, d, TRUE), d), s1, order)
      s3 == ForEach(DeviceAdded, s2, InOrder(present \ tty.devices))
  IN  /\ ~tty.active /\ order \in SetToSeqs(kept)
      /\ tty' = Resumed(s3)
      /\ UNCHANGED <<kernel, file>>

-----------------------------------------------------------------------------
(* What the user, programs and the configuration ask for *)

\* set_lid_closed
SetLidClosed(closed) ==
  /\ tty.lid # closed
  /\ tty' = OnOutputConfigChanged([tty EXCEPT !.lid = closed])
  /\ UNCHANGED <<kernel, file>>

\* reload_output_config
Reloaded(s) == Reposition(OnOutputConfigChanged(s))

\* update_ignored_nodes_config
UpdateIgnoredNodes(s, ignored) ==
  LET gone == {d \in s.devices : d \in ignored \/ d \notin present}
      rest == ForEach(DeviceRemoved, [s EXCEPT !.ignored = ignored], InOrder(gone))
  IN  IF ~s.active \/ ignored = s.ignored THEN s
      ELSE ForEach(DeviceAdded, rest, InOrder(present \ s.devices))

\* reload_config: changes made meanwhile are kept unless the file changes them.
ReloadConfig(f) ==
  LET new == IF f.outputs # file.outputs THEN [tty EXCEPT !.config = f.outputs] ELSE tty
      ignoring == UpdateIgnoredNodes(new, Ignored(f))
  IN  /\ f # file
      /\ file' = f
      /\ tty' = Reloaded(ignoring)
      /\ UNCHANGED kernel

\* apply_transient_output_config
OutputCommand(cmd) ==
  LET Named(cs) == {c \in cs : Matches(c, tty.scanned[c].make, cmd.key)}
      on == Named(DOMAIN tty.surfaces)
      known == on \cup Named(DOMAIN tty.scanned \ tty.leased)
      c == CHOOSE c \in known : on = {} \/ c \in on
  IN  /\ tty' = Reloaded([tty EXCEPT !.config =
                   IF known = {} THEN Modified(@, cmd.key, cmd.key, Unnamed, cmd.field, cmd.value)
                                 ELSE Modified(@, cmd.key, c, tty.scanned[c].make,
                                               cmd.field, cmd.value)])
      /\ UNCHANGED <<kernel, file>>

\* set_gamma, which finds the surface by the CRTC of the output.  It fails without one.
SetGamma(s, c, key, ramp) ==
  IF c \notin DOMAIN s.surfaces THEN s
  ELSE [s EXCEPT !.asked[c] = ramp,
                 !.crossed = IF key = "removed" THEN @ \cup {c} ELSE @ \ {c},
                 !.lut[c] = IF s.active THEN ramp ELSE @,
                 !.surfaces[c] = IF s.active THEN [@ EXCEPT !.prev = ramp]
                                             ELSE [@ EXCEPT !.pending = ramp]]

Dropped(s, c, key) == [s EXCEPT !.controlled = @ \ {<<c, key>>}]

\* GetGammaControl, SetGamma and the end of a control, or of its client.
GetGammaControl(c, key) ==
  /\ c \in DOMAIN tty.surfaces /\ <<c, key>> \notin tty.controlled
  /\ key = "removed" => c \in tty.late
  /\ tty' = [tty EXCEPT !.controlled = @ \cup {<<c, key>>}]
  /\ UNCHANGED <<kernel, file>>

RequestGamma(c, key, ramp) ==
  /\ <<c, key>> \in tty.controlled
  /\ tty' = IF c \in DOMAIN tty.surfaces THEN SetGamma(tty, c, key, ramp) ELSE Dropped(tty, c, key)
  /\ UNCHANGED <<kernel, file>>

DestroyGammaControl(c, key) ==
  /\ <<c, key>> \in tty.controlled
  /\ tty' = SetGamma(Dropped(tty, c, key), c, key, Flat)
  /\ UNCHANGED <<kernel, file>>

\* The timer of remove_output: ten seconds later nobody knows the output any more.
GlobalRemoved(c) ==
  /\ c \in tty.late
  /\ tty' = [tty EXCEPT !.late = @ \ {c}]
  /\ UNCHANGED <<kernel, file>>

-----------------------------------------------------------------------------
(* Output management *)

\* refresh_ipc_outputs, in State::refresh, with notify_changes.
RefreshOutputs ==
  LET new == [c \in DOMAIN tty.ipc |->
                [tty.ipc[c] EXCEPT !.x = IF c \in DOMAIN tty.space THEN tty.space[c] ELSE NoX]]
      shown == [tty EXCEPT !.ipcChanged = FALSE, !.ipc = new]
  IN  /\ tty.ipcChanged
      /\ tty' = IF ~Notifies(tty.current, new) THEN shown
                ELSE [shown EXCEPT !.current = Settled(new), !.ipc = Settled(new),
                                   !.heads = Notified(tty.current, new, @),
                                   !.scanned = [c \in DOMAIN @ |-> [@[c] EXCEPT !.fresh = FALSE]],
                                   !.conf.outdated = tty.conf.live]
      /\ UNCHANGED <<kernel, file>>

\* The client binds the manager anew.
BindManager ==
  /\ tty' = [tty EXCEPT !.heads = [c \in DOMAIN tty.current |-> NewHead(tty.current[c])],
                        !.conf = NoConf]
  /\ UNCHANGED <<kernel, file>>

\* old: the client has not seen the last serial.
CreateConfiguration(old) ==
  /\ ~tty.conf.live
  /\ tty' = [tty EXCEPT !.conf = NewConf(old)]
  /\ UNCHANGED <<kernel, file>>

\* EnableHead, then perhaps a request on the head, or DisableHead.
ConfigureHead(c, field, value) ==
  /\ CanConfigure(tty.conf, c, tty.current)
  /\ tty' = [tty EXCEPT !.conf = Configured(@, c, tty.current, tty.config, field, value)]
  /\ UNCHANGED <<kernel, file>>

EnableHead(c) == ConfigureHead(c, "off", FALSE)
DisableHead(c) == ConfigureHead(c, "off", TRUE)
SetMode(c, i) ==
  /\ c \in DOMAIN tty.heads \cap DOMAIN tty.current
  /\ i \in DOMAIN tty.heads[c].modes \cap DOMAIN tty.current[c].modes
  /\ ConfigureHead(c, "mode", [width |-> tty.current[c].modes[i], custom |-> FALSE])
SetCustomMode(c, w) == ConfigureHead(c, "mode", [width |-> w, custom |-> TRUE])
SetPosition(c, x) == ConfigureHead(c, "x", x)

ApplyConfiguration ==
  /\ Applies(tty.conf)
  /\ \E outputs \in Applied(tty.conf) :
       tty' = Reloaded([tty EXCEPT !.config = outputs, !.conf = NoConf])
  /\ UNCHANGED <<kernel, file>>

\* An outdated configuration is cancelled, one without outputs fails.
DestroyConfiguration ==
  /\ tty.conf.live
  /\ tty' = [tty EXCEPT !.conf = NoConf]
  /\ UNCHANGED <<kernel, file>>

-----------------------------------------------------------------------------
HotplugNext ==
  \/ \E c \in Connector : Unplug(c) \/ EdidRead(c) \/ \E m \in MonitorsOf[c] : Plug(c, m)
  \/ \E d \in Device : UdevAdded(d) \/ UdevChanged(d) \/ UdevRemoved(d)
SessionNext ==
  PauseSession \/ \E ds \in SUBSET Device : \E order \in SetToSeqs(ds) : ActivateSession(order)
ConfigNext ==
  \/ \E closed \in BOOLEAN : SetLidClosed(closed)
  \/ \E f \in Files : ReloadConfig(f)
  \/ \E cmd \in Commands : OutputCommand(cmd)
GammaOf(c) ==
  \/ GlobalRemoved(c)
  \/ \E key \in Key : \/ GetGammaControl(c, key) \/ DestroyGammaControl(c, key)
                       \/ \E ramp \in Ramp : RequestGamma(c, key, ramp)
GammaNext == \E c \in Connector : GammaOf(c)
ManagementNext ==
  \/ RefreshOutputs \/ BindManager \/ ApplyConfiguration \/ DestroyConfiguration
  \/ \E old \in BOOLEAN : CreateConfiguration(old)
  \/ \E c \in Connector : \/ EnableHead(c) \/ DisableHead(c)
                          \/ \E i \in 1..3 : SetMode(c, i)
                          \/ \E x \in Positions : SetPosition(c, x)
                          \/ \E w \in Customs : SetCustomMode(c, w)

Next == HotplugNext \/ SessionNext \/ ConfigNext \/ GammaNext \/ ManagementNext
Spec == Init /\ [][Next]_vars
=============================================================================
