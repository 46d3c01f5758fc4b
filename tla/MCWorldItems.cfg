SPECIFICATION FairSpec
CONSTANTS
  Threads = {t1, t2}
  Spots = {}
  Blocks = {}
  Chests = {c1}
  Players = {p1}
  Slots = {n1}
  Items = {i1}
  Seeds = {initial}
  InitialSeed = initial
  Absent = Absent
  Empty = Empty
  Free = Free
  Position = Position
  MaxRetries = 0
  SavePosLimit = 0
  Kinds = {"ChestSlot", "InvSlot", "PlayerUpdate"}
  MaxJobs = 3
  MaxRestarts = 1
INVARIANT SnapshotsRecoverable ItemsConserved DiskNeverDuplicates
PROPERTY QueueDrains HandlersFinish
CHECK_DEADLOCK FALSE
