------------------------------- MODULE WorkGraph -------------------------------
(***************************************************************************)
(* What running a set of work units promises to the commands that submit   *)
(* it, whatever the number of workers, the capacity and the scheduling     *)
(* order: a unit starts only when everything it depends on has succeeded,  *)
(* a failure fails every transitive dependent with it, nothing that failed *)
(* or succeeded changes its verdict, and every unit gets one.              *)
(***************************************************************************)
EXTENDS Integers

CONSTANTS Unit, Graphs

VARIABLES depsOf, status

vars == <<depsOf, status>>

Status == {"pending", "running", "ok", "failed"}

\* S holds every dependent of u and of S.
Closed(S, u) == \A v \in Unit : depsOf[v] \cap (S \cup {u}) # {} => v \in S

Downstream(u) == {v \in Unit : \A S \in SUBSET Unit : Closed(S, u) => v \in S}

Init ==
  /\ depsOf \in Graphs
  /\ status = [u \in Unit |-> "pending"]

Start(u) ==
  /\ status[u] = "pending"
  /\ \A d \in depsOf[u] : status[d] = "ok"
  /\ status' = [status EXCEPT ![u] = "running"]
  /\ UNCHANGED depsOf

Succeed(u) ==
  /\ status[u] = "running"
  /\ status' = [status EXCEPT ![u] = "ok"]
  /\ UNCHANGED depsOf

Fail(u) ==
  /\ status[u] = "running"
  /\ status' = [v \in Unit |-> IF v = u \/ v \in Downstream(u) THEN "failed"
                                                               ELSE status[v]]
  /\ UNCHANGED depsOf

Step(u) == Start(u) \/ Succeed(u) \/ Fail(u)

Next == \E u \in Unit : Step(u)

Spec == Init /\ [][Next]_vars

FairSpec == Spec /\ \A u \in Unit : WF_vars(Step(u))
=============================================================================
