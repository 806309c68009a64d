\* Two processes of one goroutine, capacities that change, signals; crashes and errors, some in
\* the middle of a write.
CONSTANTS
  Proc = {p1, p2}
  Worker = {w1}
  Main = Main
  None = None
  AllocId = {i1, i2}
  Weights = {1, 2}
  Capacities = {1, 2}
  TornWrites = TRUE
  Signals = TRUE
  LockErrors = FALSE
  Resizing = TRUE
SPECIFICATION FairSpec
PROPERTIES
  ExitsClean
  SomeoneIsServed
