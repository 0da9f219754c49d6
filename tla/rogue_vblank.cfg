SPECIFICATION MCRogueSpec
CONSTANTS
  Output = {o1}
  Visible = {o1}
  Lone = {}
  EarlyVBlanks = FALSE
  Hotplug = FALSE
CHECK_DEADLOCK FALSE
INVARIANTS NoPanic
