SPECIFICATION CmSpec
CONSTANTS
  Ops = {"qmiwwan", "gobinet"}
  Slots = {"WDS", "WDS6"}
  TidMax = 3
  Slices = 1
  SyncMax = 1
  FaultMax = 1
  IndMax = 1
  ReqMax = 0
  Errs = {3, 25}
  FailMax = 1
  ResetMax = 1
  PinTries = 3
  ProfMax = 3
  AnswerLen = 2
  Codes = {100, 310, 999}
  Answers <- MCAnswers
  Urcs <- MCUrcs
  CmdMax = 2
  UrcMax = 1
  TryMax = 2
  Closings = {"quit", "hangup"}
  BufMax = 6
  Texts <- MCTexts
  Plays <- MCPlays
  Home <- MCHome
  Ifaces = {"lan", "guest"}
  WriteMax = 2
  IfMax = 1
  KnownMax = 1
  LoadMax = 1
INVARIANTS AnswerIsOwn CurrentNotFreed  
 
CHECK_DEADLOCK FALSE
