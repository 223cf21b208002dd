---------------------------- MODULE MCWorkspace ----------------------------
(* One workspace with two users, two requests at a time and one worker. *)
EXTENDS Workspace, TLC

CONSTANTS u1, u2, r1, r2, w1

MCOperations == {<<"account_deletion", u>> : u \in Users}
                \cup {<<"workspace_data_deletion", NoUser>>}
MCNoOperation == <<"none", NoUser>>

Symmetry == Permutations(Users) \cup Permutations(Requests)

=============================================================================
