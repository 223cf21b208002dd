-------------------------- MODULE InstagramContract --------------------------
(***************************************************************************)
(* What the database lets anyone write into the provider checkpoints of an   *)
(* Instagram execution: the trigger enforce_instagram_provider_write_        *)
(* transition, as a specification of its own. A statement that leaves this   *)
(* relation is refused and takes its transaction with it, so a program that  *)
(* is to work must stay within it.                                           *)
(***************************************************************************)
EXTENDS Naturals

CONSTANT Executions   \* identities of the executions

VARIABLE rows         \* the checkpoint of each execution

WriteStates == {"not_started", "started", "ambiguous", "succeeded", "failed"}

(* container and media: the provider's ids are set; erasable: the version's
   account reference has been replaced by disconnected:... or expired:...;
   an execution that does not exist has exists = FALSE. *)
NoCheckpoint == [exists |-> FALSE, create |-> "not_started",
                 publish |-> "not_started", container |-> FALSE,
                 media |-> FALSE, erasable |-> FALSE]

WriteMoves(old, new) ==
  \/ old = new
  \/ old \in {"not_started", "failed"} /\ new = "started"
  \/ old = "started" /\ new \in {"succeeded", "ambiguous", "failed"}
  \/ old = "ambiguous" /\ new \in {"succeeded", "failed"}

(* What a checkpoint must say of itself, inserted or updated. *)
Consistent(row) ==
  /\ row.container => row.create = "succeeded"
  /\ row.media => row.publish = "succeeded" /\ row.container
  /\ row.publish # "not_started" => row.create = "succeeded" /\ row.container

(* Erasure of the ids of an account that has been made anonymous. *)
Erasure(old, new) ==
  /\ new.erasable /\ (old.container \/ old.media)
  /\ ~ new.container /\ ~ new.media
  /\ new.create = old.create /\ new.publish = old.publish

Update(old, new) ==
  /\ Consistent(new)
  /\ old.container => new.container
  /\ old.media => new.media
  /\ WriteMoves(old.create, new.create)
  /\ WriteMoves(old.publish, new.publish)

Columns(row) == <<row.create, row.publish, row.container, row.media>>

(* The trigger fires for a statement that names a checkpoint column. *)
Permitted(old, new) ==
  \/ ~ old.exists /\ new.exists /\ Consistent(new)
  \/ /\ old.exists /\ new.exists
     /\ \/ Erasure(old, new) \/ Update(old, new)
        \/ Columns(new) = Columns(old)

Init == rows = [e \in Executions |-> NoCheckpoint]

Next == \A e \in Executions :
          rows'[e] = rows[e] \/ Permitted(rows[e], rows'[e])

Spec == Init /\ [][Next]_rows

=============================================================================
