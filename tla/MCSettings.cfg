SPECIFICATION Spec
CONSTANTS
  Ids <- MCIds
  Folded <- MCFolded
  MaxEntries = 2
  MaxArgs = 2
  Versions = {1, 2}
  Policies = {"notify", "disabled"}
  DefaultPolicy = "notify"
  Catalogs <- MCCatalogs
  Embedded = 1
  LegacyFiles <- MCLegacyFiles
  NoFile = NoFile
  NoEngine = NoEngine
INVARIANTS
  TypeOK
  SelectionIsOffered
  NextLaunchAgrees
  EngineIsAsShown
PROPERTIES
  NothingForgotten
