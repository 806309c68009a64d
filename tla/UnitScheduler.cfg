\* Safety: three goroutines (the host capacity), four units in three graphs,
\* one unit larger than the pool, a docker pool of one.
CONSTANTS
  Unit <- MCUnit
  Worker = {w1, w2, w3}
  NoUnit = NoUnit
  Graphs <- MCGraphs
  Weight <- MCHostWeight
  HostWeight <- MCHostWeight
  DockerWeight <- MCDockerWeight
  HostTotal = 3
  DockerTotal = 1
  Cacheable <- MCCacheable
SPECIFICATION Spec
SYMMETRY Symmetry
INVARIANTS
  TypeOK
  NoneLostNoneTwice
  DependenciesFirst
  NoHandlerBesideDependency
  SuccessRestsOnSuccess
  ReportAgreesWithTracker
  CapacityHeld
PROPERTIES
  VerdictIsFinal
  KeepsQueueProtocol
