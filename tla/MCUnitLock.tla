------------------------------ MODULE MCUnitLock ------------------------------
(* Instances of UnitLock for TLC. *)
EXTENDS UnitLock, TLC

\* Acquirers are interchangeable, inodes too.
Symmetry == Permutations(Acquirer) \cup Permutations(Inode)
=============================================================================
