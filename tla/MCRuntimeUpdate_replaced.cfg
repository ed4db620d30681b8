SPECIFICATION Spec
CONSTANTS
  Versions = {1, 2, 3}
  Embeddeds = {1, 3}
  NoState = NoState
PROPERTY
  ReplacedLauncherStarts
