CONSTANTS
  Module <- MCModule
  Graphs <- MCGraphs
  MaxConcurrent = 2
  Changesets <- MCChangesets
  MaxDisturbances = 2
SPECIFICATION Spec
CHECK_DEADLOCK FALSE
INVARIANTS TypeOK GreenMeansTested NobodyWaitsInVain
PROPERTIES DispatchedAfterDependencies
