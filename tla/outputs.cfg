SPECIFICATION MCSpec
CONSTANTS
  Connector = {"panel", "dp", "usb"}
  Make = {"builtin", "acme", "lg", "hmd"}
  Unnamed = "unknown"
  Order <- MCOrder
  Device = {"gpu", "dock"}
  Devices <- MCDevices
  DeviceOf <- MCDeviceOf
  Fixed = {"gpu"}
  MonitorsOf <- MCMonitorsOf
  NoMonitor = "none"
  Widths <- MCWidths
  Headsets = {"hmd"}
  Panels = {"panel"}
  KeepPanel = FALSE
  Ramp = {"flat", "warm"}
  Files <- MCFiles
  Commands <- MCCommands
  Positions = {0}
  Customs = {}
  LateNames = TRUE
  Scenes = {"hotplug", "config", "gamma", "heads"}
  MaxConfig = 2
CONSTRAINT Bounded
CHECK_DEADLOCK FALSE
INVARIANTS OutputsFollow NoStrayScreens NamedAndPlaced GammaKept SteadyHeadsMirror
