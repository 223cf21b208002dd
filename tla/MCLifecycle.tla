----------------------------- MODULE MCLifecycle -----------------------------
(***************************************************************************)
(* Small instances of Lifecycle for TLC. Worker processes are alike: the    *)
(* runs of safety properties take them as symmetric.                        *)
(***************************************************************************)
EXTENDS Lifecycle, TLC

MCOperations == ChannelOperations
MCReferenced == {Retirement(k) : k \in Keys}
WorkerSymmetry == Permutations(Workers)
MCNoOperation == <<"none", 0>>

=============================================================================
