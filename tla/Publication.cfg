SPECIFICATION Spec
CONSTANTS
  Assets = 2
  Final = 5
  MaxId = 5
  MaxForeign = 1
  Approvals = {"first", "fresh"}
  Original = "first"
  MaxDispatch <- RunsPerApproval
INVARIANTS IndInv JournalExplainsPage
PROPERTIES ImplementsLedger ActsOnWhatItRead RunsEnd
CHECK_DEADLOCK FALSE
