CONSTANTS
  a = a
  b = b
  Layouts <- LayoutValues
  StatusBuffer = 1
SPECIFICATION FairSpec
CHECK_DEADLOCK FALSE
INVARIANTS
  TypeOK
  SummaryTellsVerdicts
  VerdictsBeforeSummary
  NoFalseVerdict
  ExitAfterAllWork
  DisplayOutlivesWorkers
PROPERTIES
  ReportEnds
