-------------------------- MODULE LifecycleControl --------------------------
(***************************************************************************)
(* The durable control plane of the compliance work: the rows of            *)
(* lifecycle_operations and the workers that claim them. What an operation   *)
(* does is in the modules that extend this one.                             *)
(*                                                                         *)
(* A claim is named by its owner and its generation. A worker process takes  *)
(* a second claim on a row only after its first run of it has ended, so the  *)
(* owner alone names the claim here, and the two counters (generation and    *)
(* attempt) are left out. PENDING and RETRY are one state: the order in which *)
(* waiting rows fall due is left open, so any claimable row may be the next. *)
(*                                                                         *)
(* The step journal is folded into the steps: its RUNNING and COMPLETED      *)
(* writes test the claim that the step's own transaction tests, and a write  *)
(* of it that fails is the fault "journal".                                  *)
(***************************************************************************)
EXTENDS Naturals, FiniteSets

CONSTANTS
  Workers,      \* worker processes, one lifecycle loop each
  Operations,   \* identities of the rows, one for each dedupe key
  Referenced,   \* rows enqueued with a reference in their outcome
  Faults,       \* the kinds of fault that may happen
  MaxFaults,    \* bound on the faults of one behaviour
  Nobody, NoOperation

ASSUME ControlAssumption ==
  /\ Nobody \notin Workers
  /\ NoOperation \notin Operations
  /\ Referenced \subseteq Operations
  /\ MaxFaults \in Nat

VARIABLES
  operation,  \* lifecycle_operations
  serving,    \* the operation each worker runs, and its flag claimLost
  budget      \* faults that may still happen

controlVars == <<operation, serving, budget>>

-----------------------------------------------------------------------------
(* The rows *)

OperationStates == {"absent", "waiting", "claimed", "completed"}

(* outcome: the row still holds the reference it was enqueued with; overdue:
   its deadline has passed. *)
Absent == [state |-> "absent", owner |-> Nobody, live |-> FALSE,
           overdue |-> FALSE, outcome |-> FALSE]
NewRow(o) == [Absent EXCEPT !.state = "waiting", !.outcome = o \in Referenced]

NotServing == [operation |-> NoOperation, lost |-> FALSE]

Open(o) == operation[o].state \in {"waiting", "claimed"}

ControlInit ==
  /\ operation = [o \in Operations |-> Absent]
  /\ serving = [w \in Workers |-> NotServing]
  /\ budget = MaxFaults

ControlTypeOK ==
  /\ operation \in [Operations ->
       [state : OperationStates, owner : Workers \cup {Nobody},
        live : BOOLEAN, overdue : BOOLEAN, outcome : BOOLEAN]]
  /\ serving \in [Workers ->
       [operation : Operations \cup {NoOperation}, lost : BOOLEAN]]
  /\ budget \in 0..MaxFaults

Spend(kind) ==
  /\ kind \in Faults
  /\ budget > 0
  /\ budget' = budget - 1

(* Inserting with skipDuplicates: a row that exists, ended or not, stays as
   it is but for the time of its next attempt. *)
Enqueued(rows) ==
  [o \in Operations |->
     IF o \in rows /\ operation[o].state = "absent" THEN NewRow(o)
                                                    ELSE operation[o]]

-----------------------------------------------------------------------------
(* Claims *)

(* The test every write of a run makes: record, finish, renew and
   assertLifecycleClaim. *)
HoldsClaimUnchecked(w) ==  \* mutant: the claim is not tested
  serving[w].operation # NoOperation
HoldsClaim(w) ==
  LET o == serving[w].operation IN
  /\ o # NoOperation
  /\ operation[o].state = "claimed"
  /\ operation[o].owner = w
  /\ operation[o].live

(* claim_lifecycle_operation: rows that wait, and claimed ones whose term has
   passed. *)
ClaimableOnce(o) ==  \* mutant: a claim is for ever
  operation[o].state = "waiting"
Claimable(o) ==
  \/ operation[o].state = "waiting"
  \/ operation[o].state = "claimed" /\ ~ operation[o].live

(* claimLifecycleOperation *)
ClaimOperation(w, o) ==
  /\ serving[w].operation = NoOperation
  /\ Claimable(o)
  /\ operation' = [operation EXCEPT ![o].state = "claimed",
                                    ![o].owner = w, ![o].live = TRUE]
  /\ serving' = [serving EXCEPT ![w] = [operation |-> o, lost |-> FALSE]]
  /\ UNCHANGED budget

(* finish_lifecycle_operation: the outcome the row was enqueued with is
   replaced by the outcome of the attempt, whatever the state. *)
FailedRow(row, state) ==  \* mutant: an unfinished row is set to failed
  [row EXCEPT !.state = IF state = "completed" THEN state ELSE "failed",
              !.owner = Nobody, !.live = FALSE, !.outcome = FALSE]
FinishedRow(row, state) ==
  [row EXCEPT !.state = state, !.owner = Nobody, !.live = FALSE,
              !.outcome = FALSE]

StopServing(w) == serving' = [serving EXCEPT ![w] = NotServing]

(* finishLifecycleOperation, and the end of the run: a worker that saw its
   heartbeat fail does not write, and a stale one writes nothing. *)
FinishOperation(w, state) ==
  LET o == serving[w].operation IN
  /\ operation' = IF ~ serving[w].lost /\ HoldsClaim(w)
                  THEN [operation EXCEPT ![o] = FinishedRow(@, state)]
                  ELSE operation
  /\ StopServing(w)
  /\ UNCHANGED budget

(* The run ends with lifecycle_claim_lost and writes nothing. *)
StandDown(w) ==
  /\ ~ HoldsClaim(w)
  /\ StopServing(w)
  /\ UNCHANGED <<operation, budget>>

-----------------------------------------------------------------------------
(* Time and failures *)

(* renewLifecycleOperationClaim is not called in time, and the term passes. *)
ExpireClaim(o) ==
  /\ operation[o].state = "claimed" /\ operation[o].live
  /\ IF serving[operation[o].owner].operation = o
     THEN Spend("stall")
     ELSE UNCHANGED budget
  /\ operation' = [operation EXCEPT ![o].live = FALSE]
  /\ UNCHANGED serving

(* A heartbeat that fails for the database's reasons: the run counts its
   claim as lost, though the term goes on. *)
HeartbeatFails(w) ==
  /\ serving[w].operation # NoOperation /\ ~ serving[w].lost
  /\ Spend("heartbeat")
  /\ serving' = [serving EXCEPT ![w].lost = TRUE]
  /\ UNCHANGED operation

CrashServing(w) ==
  /\ serving[w].operation # NoOperation
  /\ Spend("crash")
  /\ StopServing(w)
  /\ UNCHANGED operation

(* deadline_at passes; lifecycleOperationDeadlineExceeded reads it. *)
PassDeadline(o) ==
  /\ Open(o) /\ ~ operation[o].overdue
  /\ operation' = [operation EXCEPT ![o].overdue = TRUE]
  /\ UNCHANGED <<serving, budget>>

=============================================================================
