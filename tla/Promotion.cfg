SPECIFICATION Spec
CONSTANTS
  Procs = {"p", "q"}
  Candidates = {"old", "new"}
  Evidence = {"bundle"}
  MaxTries = 2
  MaxFaults = 2
  MaxForeign = 1
  MaxRuns <- OneRunEach
  None = "-"
  Jobs <- DistinctJobs
INVARIANTS TypeOK VerifiedRetained AliasSafe FailureUndone
PROPERTIES OnlyWholeOnlyOwn RunsEnd
CHECK_DEADLOCK FALSE
