SPECIFICATION FairSpec
CONSTANTS
  h1 = h1
  h2 = h2
  Hosts <- MCHosts
  Modes <- MCModes
  Configs <- MCConfigs
  MaxCerts = 2
  MaxDials = 2
  MaxRestarts = 1
INVARIANT StoreKeeps SavedAreNotChanged
PROPERTY NeverSilently AttemptsEnd
CHECK_DEADLOCK FALSE
