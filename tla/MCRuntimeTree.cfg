SPECIFICATION Spec
CONSTANTS
  Binaries = {"winws", "driver"}
  Data = {"list"}
  Same = {"winws", "list"}
INVARIANTS
  TypeOK
  ReportedIsAccepted
PROPERTIES
  ImplementsTreePromise
