SPECIFICATION Spec
CONSTANTS
  OfflineThreshold = 2
  TriggerWindow = 3
  TriggerMax = 1
  BlockSec = 3
  GraceSec = 2
  CfunAfterCycles = 2
  CfunCooldown = 3
  CfunBeforeReset = 1
  CfunRecheckTicks = 2
  AtDeadTicks = 2
  DeadPlaneTicks = 2
  MhiResetMax = 1
  MhiResetWindow = 1
  ModemResetMax = 1
  ModemResetWindow = 3
  ModemResetBackoff = 2
  AttachLostCfun = 1
  AttachLostCfunMax = 2
  TickLengths = {1}
  Situations = {"good", "plane", "down", "hung", "nosignal", "disabled"}
  Failures = {"lock", "reset", "radio", "off", "dead"}
INVARIANTS NoChurnWithoutSignal
PROPERTIES FreshDialLeftAlone
