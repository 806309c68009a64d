\* Termination and the refinement of WorkGraph: two goroutines (the host
\* capacity), the diamond graph, one unit larger than the pool.
CONSTANTS
  Unit <- MCUnit
  Worker = {w1, w2}
  NoUnit = NoUnit
  Graphs <- DiamondOnly
  Weight <- MCHostWeight
  HostWeight <- MCHostWeight
  DockerWeight <- MCDockerWeight
  HostTotal = 2
  DockerTotal = 1
  Cacheable = {}
SPECIFICATION FairSpec
PROPERTIES
  Termination
  ImplementsWorkGraph
