SPECIFICATION FairSpec
CONSTANTS
  Pids = {p1, p2}
  NoPid = NoPid
  EngineImages = {engine}
  OtherImages = {other}
  NoRecord = NoRecord
  MaxTime = 3
INVARIANTS
  TypeOK
  OnlyOursTerminated
  RunningEngineRecorded
  FailedStartLeavesNothing
  ManagerKnowsEngine
PROPERTIES
  MutexIsReleased
