SPECIFICATION MCSpec
CONSTANTS
  Window = {w1, w2, w3}
  TreeWindow = {w1, w2, w3, w4}
  NoWindow = NoWindow
  Permanent = FALSE
  PageSize = 2
  Placements <- MCPlacements
  Preselections = {"left"}
  Scenes = {"workspace"}
  MaxBesides = 1
CHECK_DEADLOCK FALSE
INVARIANT ColumnsVerified
SYMMETRY Symmetry
