SPECIFICATION MCSpec
CONSTANTS
  Output = {o1, o2}
  Lone = {o1}
  Visible = {}
  EarlyVBlanks = FALSE
  Hotplug = TRUE
CHECK_DEADLOCK FALSE
INVARIANTS TimersAwaited VBlanksAwaited NoLostRedraw DarkScreensRedrawn AnimationsKeepDrawing LockHides
PROPERTIES EveryLockSettles EveryRedrawHappens EveryFrameCallback
