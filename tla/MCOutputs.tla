------------------------------ MODULE MCOutputs -----------------------------
(***************************************************************************)
(* An instance of the outputs for TLC: a laptop with a panel and a port,   *)
(* and a dock with a port of its own, to which a monitor of the same make  *)
(* or a headset may be plugged.                                            *)
(***************************************************************************)
EXTENDS OutputsProperties

CONSTANTS Scenes, MaxConfig

VARIABLES scene, inputs   \* which part of the system moves, and its steps so far

MCDevices == <<"gpu", "dock">>
MCDeviceOf == [panel |-> "gpu", dp |-> "gpu", usb |-> "dock"]
MCOrder == <<"acme", "lg", "builtin", "hmd", "dp", "panel", "usb">>
MCMonitorsOf == [panel |-> {"builtin"}, dp |-> {"acme", "lg"}, usb |-> {"acme", "hmd"}]
MCWidths == [builtin |-> <<2>>, acme |-> <<3, 2>>, lg |-> <<1, 3>>, hmd |-> <<4>>]

MaxInputs == [hotplug |-> 6, config |-> 1, gamma |-> 1, heads |-> 9]

Section(key, off, mode, x) == [key |-> key, off |-> off, mode |-> mode, x |-> x]
Width(w, custom) == [width |-> w, custom |-> custom]
File(outputs, ignored) == [outputs |-> outputs, ignored |-> ignored]
MCFiles == {File(<<>>, {}),
            File(<<Section("acme", TRUE, Auto, NoX)>>, {}),
            File(<<Section("panel", FALSE, Auto, 1), Section("acme", FALSE, Auto, 2)>>, {"dock"})}
Command(key, field, value) == [key |-> key, field |-> field, value |-> value]
MCCommands == {Command("acme", "off", FALSE), Command("dp", "off", TRUE),
               Command("dp", "mode", Width(2, FALSE)), Command("panel", "mode", Width(5, TRUE))}

Blank == File(<<>>, {})

PortNext == \/ Unplug("dp") \/ EdidRead("dp") \/ \E m \in MonitorsOf["dp"] : Plug("dp", m)
            \/ UdevChanged("gpu")
HeadNext ==
  \/ RefreshOutputs \/ BindManager \/ ApplyConfiguration \/ DestroyConfiguration
  \/ \E old \in BOOLEAN : CreateConfiguration(old)
  \/ EnableHead("panel") \/ EnableHead("dp") \/ DisableHead("dp")
  \/ SetMode("dp", 2) \/ SetPosition("panel", 0) \/ SetCustomMode("dp", 2)
MCInit ==
  /\ Init /\ scene \in Scenes /\ inputs = 0
  /\ scene # "config" => file = Blank
  /\ scene \in {"gamma", "heads"} => present = Fixed
LidNext == \E closed \in BOOLEAN : SetLidClosed(closed)
MCNext ==
  /\ UNCHANGED scene
  /\ inputs < MaxInputs[scene]
  /\ inputs' = IF scene \in {"hotplug", "heads"} THEN inputs + 1 ELSE 0
  /\ CASE scene = "hotplug" -> HotplugNext \/ SessionNext \/ LidNext
       [] scene = "config" -> ConfigNext \/ SessionNext
       [] scene = "gamma" -> PortNext \/ SessionNext \/ GammaOf("dp")
       [] scene = "heads" -> PortNext \/ HeadNext
MCSpec == MCInit /\ [][MCNext]_<<vars, scene, inputs>>

Bounded == Len(tty.config) <= MaxConfig
=============================================================================
