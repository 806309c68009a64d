\* Two processes of two goroutines each; crashes, signals and failing locks.
CONSTANTS
  Proc = {p1, p2}
  Worker = {w1, w2}
  Main = Main
  None = None
  AllocId = {i1, i2, i3}
  Weights = {1, 2}
  Capacities = {3}
  TornWrites = FALSE
  Signals = TRUE
  LockErrors = TRUE
  Resizing = FALSE
SPECIFICATION Spec
SYMMETRY Symmetry
INVARIANTS
  TypeOK
  OpenPoolsFit
  HoldersRecorded
