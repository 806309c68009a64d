CONSTANTS
  d1 = d1
  m1 = m1
  tm = tm
  D = D
  M = M
  Unit = {d1, m1}
  Test = {tm}
  Module = {D, M}
  ModuleOf <- MCModuleOf
  DependsOn <- MCDependsOn
  a = a
  b = b
  Part = {a, b}
  Listed <- MCListed
  None = None
  MaxDisturbances = 2
SPECIFICATION MCFairSpec
INVARIANTS TypeOK  SourcesBuilt
PROPERTIES NothingLeftToDo 
