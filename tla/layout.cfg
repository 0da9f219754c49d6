SPECIFICATION MCSpec
CONSTANTS
  Output = {A, B}
  Window = {w1}
  Name = {n1}
  Configs <- BelowAndAbove
  Draggable = {w1}
  Swipes = TRUE
  Scenes = {"arrange", "hands"}
  MaxEach = 4
  MaxAll = 4
  MaxHands = 3
  NoOutput = NoOutput
  NoName = NoName
  NameUnfocusedEdge = FALSE
VIEW UpToIds
SYMMETRY Symmetry
CHECK_DEADLOCK FALSE
INVARIANTS NothingLost BlankWorkspaces HotplugKeepsLayout NoPanic
PROPERTIES ViewNeverSlips
