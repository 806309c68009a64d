----------------------------- MODULE MCCIPipeline -----------------------------
(* Instances of CIPipeline for TLC. *)
EXTENDS CIPipeline

None == [m \in Module |-> {}]
All == [dependsOn |-> None, ciOnly |-> None, workflow |-> Module]
MCJoin == [All EXCEPT !.dependsOn = [None EXCEPT ![1] = {2}], !.ciOnly = [None EXCEPT ![1] = {3}]]
MCChain == [All EXCEPT !.dependsOn = [None EXCEPT ![2] = {3}, ![1] = {2}]]
MCGraphs == {MCJoin, MCChain}
MCChangesets == {{2}}
MCModule == 1 .. 3
===============================================================================
