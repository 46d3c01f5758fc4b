SPECIFICATION FairSpec
CONSTANTS
  Conns = {c1, c2}
  Ids = {i1, i2}
  Absent = Absent
  Free = Free
  Room = 1
  Requests = {"PlayerUpdate", "RequestUdm", "RequestSeed"}
  Recorded = {}
  Leavers = {c1}
  MaxMsgs = 2
  MaxInbox = 1
  Idles = TRUE
PROPERTY DepartedAreRemoved MapComesFree
CHECK_DEADLOCK FALSE
