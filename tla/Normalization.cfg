SPECIFICATION Spec
CONSTANTS
  Assets = 3
  Retained = 1
  Final = 4
  MaxId = 6
  MaxForeign = 1
  Approvals = {"first", "up", "down"}
  Original = "first"
  MaxDispatch <- RunsPerApproval
INVARIANTS IndInv PageRecognisable
CHECK_DEADLOCK FALSE
PROPERTIES ImplementsLedger DeletesWhatWasApproved RunsEnd
