SPECIFICATION FairSpec
CONSTANTS
  Size = 2
  MaxRead = 3
  MaxRedirects = 1
  Width = 3
INVARIANTS
  TypeOK
  ContextAlive
  BodyBounded
  TargetWhole
PROPERTIES
  CallEnds
