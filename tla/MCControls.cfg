SPECIFICATION Spec
CONSTANTS
  Escape = Escape
  W = W
  C = C
  B = B
  Left = Left
  Right = Right
  Keys <- Board
  Buttons <- Mouse
  DefaultKeys <- BoardBinds
  DefaultButtons <- MouseBinds
  Absent = Absent
  MaxHeld = 2
  MaxRebinds = 1
  MaxStarts = 2
INVARIANT BindingsWhole BackInPlay OnMeansHeld
