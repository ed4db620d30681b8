SPECIFICATION Spec
CONSTANTS
  Pids = {p1, p2}
  NoPid = NoPid
  EngineImages = {engine}
  OtherImages = {other}
  NoRecord = NoRecord
  MaxTime = 3
INVARIANT
  DeathLeavesNoUnrecordedEngine
