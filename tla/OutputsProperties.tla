------------------------- MODULE OutputsProperties --------------------------
(***************************************************************************)
(* What the outputs promise.                                               *)
(***************************************************************************)
EXTENDS Outputs

\* The compositor has the devices and has heard of every change.
Aware == tty.active /\ changed = {}

Usable(c) == Wanted(tty, c) /\ c \notin tty.leased
Expected == {c \in Plugged : DeviceOf[c] \in tty.devices}

(***************************************************************************)
(* The outputs are the connected monitors that are wanted: whatever was    *)
(* plugged, unplugged, reloaded or closed, in whatever session, leaves no  *)
(* monitor dark and no output without one.  Headsets are offered for lease *)
(* (device_changed, device_removed, on_output_config_changed,              *)
(* ActivateSession, tty.rs:599-746, 949-1248, 2399-2596).  left is when    *)
(* PanelReturns fails.                                                     *)
(***************************************************************************)
OutputsFollow ==
  Aware /\ ~tty.left =>
    /\ tty.devices = present \ tty.ignored
    /\ DOMAIN tty.scanned = Expected
    /\ DOMAIN tty.surfaces \subseteq {c \in Expected : Usable(c)}
    /\ \A c \in Expected :
         LET mode == PickMode(KernelWidths(c), Entry(tty, c).mode)
         IN  Usable(c) /\ mode # NoMode =>
               c \in DOMAIN tty.surfaces /\ tty.surfaces[c].mode = mode
    /\ tty.leased \subseteq Expected

(***************************************************************************)
(* The panel of a laptop whose lid is closed comes back once it is the only*)
(* monitor left (tty.rs:1131-1132).                                        *)
(***************************************************************************)
PanelReturns ==
  Aware => \A c \in Expected \cap Panels \cap readable : Usable(c) => c \in DOMAIN tty.surfaces

(***************************************************************************)
(* With the session ours, no screen that is off in the configuration or    *)
(* behind a closed lid goes on showing what another session drew           *)
(* (cleanup_mismatching_resources, tty.rs:231-370).                        *)
(***************************************************************************)
NoStrayScreens ==
  tty.active => tty.lit \cap DOMAIN tty.scanned \subseteq tty.leased

(***************************************************************************)
(* No two connectors have names that match each other: the layout keeps    *)
(* outputs apart by their names (tty.rs:1058-1082).                        *)
(***************************************************************************)
NamesUnique ==
  \A c, d \in DOMAIN tty.scanned :
    c # d => ~Matches(c, tty.scanned[c].make, Formatted(d, tty.scanned[d].make))

(***************************************************************************)
(* Every CRTC has the gamma that was asked for last, by the control of its *)
(* output, or none without a control: before, during and after another     *)
(* session had the device (set_gamma, tty.rs:685-717, 1338-1349,           *)
(* 2112-2134).  crossed names the outputs that this fails for: a control   *)
(* of an output that was removed from the connector, got through a         *)
(* wl_output that was kept, acts on the surface of its successor           *)
(* (gamma_control.rs:104-121), over the gamma of the successor's own       *)
(* control, until that asks again.                                         *)
(***************************************************************************)
GammaKept ==
  /\ \A c \in Connector : <<c, "present">> \in tty.controlled => c \in DOMAIN tty.surfaces
  /\ \A c \in DOMAIN tty.surfaces :
       /\ tty.active => tty.lut[c] = tty.asked[c]
       /\ <<c, "present">> \notin tty.controlled /\ c \notin tty.crossed => tty.asked[c] = Flat

(***************************************************************************)
(* Where the outputs are depends on what is configured and on their names, *)
(* never on the order in which they came: they do not overlap, one is where*)
(* it is configured to be unless another is there, and one that is not     *)
(* configured is to the right of those before it (reposition_outputs,      *)
(* ymir.rs:2742-2863).  Outputs that only change their mode are not placed *)
(* anew.                                                                   *)
(***************************************************************************)
PlacedByName ==
  LET outputs == OutputsOf(tty)
      Over(c, x, d) == Overlap(x, outputs[c].width, tty.space[d], outputs[d].width)
  IN  ~tty.resized =>
        /\ DOMAIN tty.space = DOMAIN tty.surfaces
        /\ \A c, d \in DOMAIN tty.space : c # d =>
             /\ ~Over(c, tty.space[c], d)
             /\ outputs[d].x = NoX /\ Before(outputs, c, d) => tty.space[c] < tty.space[d]
        /\ \A c \in DOMAIN tty.space :
             \/ outputs[c].x \in {NoX, tty.space[c]}
             \/ \E d \in DOMAIN tty.space \ {c} : Over(c, outputs[c].x, d)

(***************************************************************************)
(* What outputs are called and where they are.                             *)
(***************************************************************************)
NamedAndPlaced == NamesUnique /\ PlacedByName

Mirrors(h, e) == /\ h.modes = e.modes
                 /\ h.enabled = (e.cur # 0)
                 /\ h.enabled => h.cur = e.cur /\ h.x = e.x

(***************************************************************************)
(* After a refresh a client of output management knows the outputs: which  *)
(* there are, which are enabled, in what mode and where (notify_changes,   *)
(* output_management.rs:96-270).                                           *)
(***************************************************************************)
HeadsMirror ==
  ~tty.ipcChanged =>
    /\ DOMAIN tty.heads = DOMAIN tty.scanned
    /\ \A c \in DOMAIN tty.heads : Mirrors(tty.heads[c], IpcOutput(tty, c))

(***************************************************************************)
(* The same, for heads whose number of modes stays.                        *)
(***************************************************************************)
SteadyHeadsMirror ==
  ~tty.ipcChanged =>
    /\ DOMAIN tty.heads = DOMAIN tty.scanned
    /\ \A c \in DOMAIN tty.heads :
         tty.heads[c].skewed \/ Mirrors(tty.heads[c], IpcOutput(tty, c))
=============================================================================
