\* As UnitLock.cfg; TLC finds two holders where an open file can be removed.
CONSTANTS
  Acquirer = {p1, p2, p3}
  Inode = {i1, i2, i3}
  None = None
SPECIFICATION Spec
SYMMETRY Symmetry
INVARIANT MutualExclusion
