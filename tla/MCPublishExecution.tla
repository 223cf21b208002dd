------------------------ MODULE MCPublishExecution ------------------------
(***************************************************************************)
(* Small instances of PublishExecution for TLC.                            *)
(***************************************************************************)
EXTENDS PublishExecution, TLC

(* Workers are interchangeable, and so are executions and contents; none of
   the safety properties names one of them. *)
Interchangeable ==
  Permutations(Workers) \cup Permutations(Executions) \cup Permutations(Contents)

=============================================================================
