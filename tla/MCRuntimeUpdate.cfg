SPECIFICATION Spec
CONSTANTS
  Versions = {1, 2, 3}
  Embeddeds = {1, 3}
  NoState = NoState
INVARIANTS
  TypeOK
  SessionAgrees
  NoSecondEngine
  EngineExplained
PROPERTIES
  TrustedTreesKept
  RefusalHasCause
  ImplementsRuntimeCommit
