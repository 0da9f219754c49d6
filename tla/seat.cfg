SPECIFICATION MCSpec
CONSTANTS
  w1 = w1
  w2 = w2
  w3 = w3
  bar = bar
  Window = {w1, w2, w3}
  Layer = {bar}
  LockSurface = LockSurface
  NoWindow = NoWindow
  App = {"editor"}
  NoApp = "none"
  AppOf <- MCAppOf
  WindowOrder <- MCOrder
  Fullscreen = {w2}
  Workspace = {1, 2, 3}
  OutputOf <- MCOutputOf
  Key = {"alt", "tab", "grave", "a", "w", "q", "escape", "return", "vt"}
  Modifier = {"alt"}
  Button = {"mouseLeft"}
  IpcActions <- MCIpcActions
  Configs <- MCConfigs
CHECK_DEADLOCK FALSE
INVARIANTS KeysPaired SwitcherInStep FocusedIsNewest FocusInCharge
