SPECIFICATION Spec
CONSTANTS
  Binaries = {"winws"}
  Data = {"list"}
  Same = {"winws"}
PROPERTY
  PreparationRepairs
