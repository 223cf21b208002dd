----------------------------- MODULE MCInstagram -----------------------------
(* A small instance: one approved version, which its publisher may confirm
   twice: its executions are alike, and so are the callers. *)
EXTENDS InstagramExecution, TLC

CONSTANTS e1, e2, v1

MCVersionOf == [e \in Executions |-> v1]
Alike == Permutations(Workers) \cup Permutations(Executions)
=============================================================================
