\* Seven units, four graphs, three weightings, three orders of the work slice.
CONSTANTS
  Unit <- MCUnit
  Graphs <- MCGraphs
  Weights <- MCWeights
  Works <- MCWorks
SPECIFICATION Spec
INVARIANTS
  HeapOrdered
  LeftBehindIsSkipped
PROPERTIES
  ImplementsReadyQueue
