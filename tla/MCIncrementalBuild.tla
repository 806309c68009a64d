-------------------------- MODULE MCIncrementalBuild --------------------------
(* An instance of IncrementalBuild for TLC: the component m1 of module M is     *)
(* built from what d1 of module D makes, and tm tests M.  Of the two files each *)
(* unit makes, m1 lists both, d1 and tm one.                                    *)
EXTENDS IncrementalBuild

CONSTANTS d1, m1, tm, D, M, a, b

MCModuleOf == [u \in {d1, m1, tm} |-> IF u = d1 THEN D ELSE M]
MCDependsOn == [u \in {d1, m1} |-> IF u = m1 THEN {d1} ELSE {}]
MCListed == [u \in {d1, m1, tm} |-> IF u = m1 THEN {a, b} ELSE {a}]

\* Of a user who edits under a command whose unit is then killed between its last write and
\* its manifest only the type invariant says anything: these behaviours are left out here.
MCInit == Init /\ (restores => calm)
MCFairSpec == MCInit /\ [][Next]_vars /\ Fairness
===============================================================================
