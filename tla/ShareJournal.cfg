SPECIFICATION FairSpec
CONSTANTS
  Shares = {s1}
  Tokens = {t1}
  MaxFaults = 1
CHECK_DEADLOCK FALSE
INVARIANTS TypeOK  MountHasOwner
PROPERTIES StagingCollected
