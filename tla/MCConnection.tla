---------------------------- MODULE MCConnection ----------------------------
(* Requests of one kind stand for servers and browsers alike. *)
EXTENDS ChannelConnection, TLC

Alike == Permutations(Requests)
=============================================================================
