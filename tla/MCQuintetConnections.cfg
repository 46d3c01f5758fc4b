SPECIFICATION FairSpec
CONSTANTS
  Casts <- MCCasts
  MaxEndpoints = 2
  Ids <- MCIds
  CtrlSize = 1
INVARIANT EventsPaired DisconnectNeverFails ChannelsAgree IdsAgree
PROPERTY EndsAreNoticed
CHECK_DEADLOCK FALSE
