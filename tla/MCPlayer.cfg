SPECIFICATION PlayerSpec
CONSTANTS
  Height = 4
  Columns <- MCColumns
  Spawn = 3
  Foods = {10}
  MaxAloft = 13
  MaxEdits = 1
INVARIANT HealthInRange
PROPERTY DamageIsTheFall
