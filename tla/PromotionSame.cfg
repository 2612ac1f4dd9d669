SPECIFICATION Spec
CONSTANTS
  Procs = {"p", "q"}
  Candidates = {"old", "new"}
  Evidence = {"bundle"}
  MaxTries = 2
  MaxFaults = 1
  MaxForeign = 0
  MaxRuns <- OneRunEach
  None = "-"
  Jobs <- SameCandidate
INVARIANTS VerifiedRetained
CHECK_DEADLOCK FALSE
