SPECIFICATION Spec
CONSTANTS
  MaxFaults = 2
  MaxForeign = 1
  Scenarios <- ThreeScenarios
  CallerEnvironments <- Callers
  ClientLaunches <- Clients
INVARIANTS TypeOK SamplesTrue ServersGone StatusTells
PROPERTIES ResultSafe EveryoneEnds
CHECK_DEADLOCK FALSE
