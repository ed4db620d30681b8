SPECIFICATION Spec
CONSTANTS
  Releases <- MCReleases
  Manifest <- MCManifest
  LauncherVersion <- MCLauncherVersion
  StableChannel = FALSE
  Embedded <- MCEmbedded
  MaxNumber <- MCMaxNumber
INVARIANT
  OfferIsNewer
