SPECIFICATION Spec
CONSTANTS
  Threads = {t1, t2}
  Spots = {s1, s2}
  Blocks = {b1, b2}
  Chests = {}
  Players = {}
  Slots = {1}
  Items = {}
  Seeds = {initial, other}
  InitialSeed = initial
  Absent = Absent
  Empty = Empty
  Free = Free
  Position = Position
  MaxRetries = 1
  SavePosLimit = 0
  Kinds = {"BlockSet", "MultiBlockSet", "RequestTakeoff"}
  MaxJobs = 3
  MaxRestarts = 1
SYMMETRY Symmetry
INVARIANT TypeOK BlocksRecoverable
PROPERTY KeepsPromise
CHECK_DEADLOCK FALSE
