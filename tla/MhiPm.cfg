SPECIFICATION PmSpec
CONSTANTS
  FaultMax = 1
  CycleMax = 1
  EvMax = 2
  StartEE = {"PTHRU", "EDL"}
  CrashEE = {"AMSS", "RDDM", "EDL"}
INVARIANTS SuspendedMeansM3 NoWaitCycle ErrorIsOwned
CHECK_DEADLOCK FALSE
