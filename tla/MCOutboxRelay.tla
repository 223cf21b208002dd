---------------------------- MODULE MCOutboxRelay ----------------------------
(***************************************************************************)
(* Small instances of OutboxRelay for TLC. No symmetry: the run also checks  *)
(* a liveness property.                                                      *)
(***************************************************************************)
EXTENDS OutboxRelay

=============================================================================
