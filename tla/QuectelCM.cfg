SPECIFICATION CMFairSpec
CONSTANTS
  Profiles <- CMProfiles
  FaultMax = 1
  NetMax = 1
  ResetMax = 1
  TroubleMax = 2
  QMax = 1
INVARIANTS NoOrphanCall
PROPERTIES LinkFollowsCall 
CHECK_DEADLOCK FALSE
