SPECIFICATION Spec
CONSTANTS
  Conns = {c1, c2}
  Ids = {i1, i2}
  Absent = Absent
  Free = Free
  Room = 2
  Requests = {"Edit", "PlayerUpdate", "RequestUdm", "ReqChestReg"}
  Recorded = {"Edit", "Udm", "UdmFile"}
  Leavers = {}
  MaxMsgs = 4
  MaxInbox = 1
  Idles = FALSE
SYMMETRY Symmetry
INVARIANT JoinsWell OnlyTwinsLoseSession SameOrder
CHECK_DEADLOCK FALSE
