SPECIFICATION MCSpec
CONSTANTS
  Output = {A, B}
  Window = {w1}
  Name = {n1}
  Configs <- OnlyBelow
  Draggable = {}
  Swipes = FALSE
  Scenes = {"arrange"}
  MaxHands = 3
  MaxEach = 3
  MaxAll = 5
  NoOutput = NoOutput
  NoName = NoName
  NameUnfocusedEdge = TRUE
VIEW UpToIds
SYMMETRY Symmetry
CHECK_DEADLOCK FALSE
INVARIANT BlankEnds
