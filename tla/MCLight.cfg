SPECIFICATION LightSpec
CONSTANTS
  Cells <- Floor
  Neighbors <- Beside
  ChunkOf <- Halves
  World <- Lamplit
  Bright = 9
  Workers = {Q, N}
  Editable <- Touched
  Models <- Stamped
  MaxEdits = 2
  None = None
SYMMETRY Alike
INVARIANT LightIsExact ShownIsLit
CHECK_DEADLOCK FALSE
