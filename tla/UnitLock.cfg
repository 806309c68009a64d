\* Three processes, on each platform; crashes and timeouts at any time.
CONSTANTS
  Acquirer = {p1, p2, p3}
  Inode = {i1, i2, i3}
  None = None
SPECIFICATION FairSpec
INVARIANTS
  TypeOK
  RegistryHonest
  ExclusionWithoutUnlink
PROPERTIES
  SomeoneGetsIn
