SPECIFICATION FairSpec
CONSTANTS
  Releases <- MCReleases
  Manifest <- MCManifest
  LauncherVersion <- MCLauncherVersion
  StableChannel = FALSE
  Embedded <- MCEmbedded
  MaxNumber <- MCMaxNumber
INVARIANTS
  TypeOK
  NotModifiedIsAnswerable
  ResultIsOfServer
  OfferIsActionable
  NoticeIsFresh
PROPERTIES
  CheckEnds
