SPECIFICATION FairSpec
INVARIANTS
  TypeOK
  NothingDenied
  MenuTellsTruth
  OutcomeIsComplete
  ExitAsAsked
PROPERTIES
  LossIsShown
  ConnectEnds
