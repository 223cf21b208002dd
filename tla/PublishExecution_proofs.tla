----------------------- MODULE PublishExecution_proofs -----------------------
(***************************************************************************)
(* Theorems about PublishExecution, for every number of workers, contents   *)
(* and executions, every platform and every bound.                          *)
(***************************************************************************)
EXTENDS PublishExecution, TLAPS

(* A worker that is not idle works on an execution that was confirmed. *)
JobsNameRows == \A w \in Workers :
  job[w].step # "idle" => outbox[job[w].execution].state # "absent"

(* A row that nobody holds names no owner. *)
RowsFree == \A e \in Executions :
  outbox[e].state # "claimed" => outbox[e].owner = NoWorker /\ ~ outbox[e].live

(* What may have become of an execution after a disconnection has read it: in the
   transaction that begins it, whose lock keeps the lease from everybody, and in
   the one that erases, whose channel is not connected, only a worker that had
   read no work may have ended it. *)
Window ==
  /\ transaction.disconnection = "none" => \A e \in Executions : ~ Ended(e)
  /\ transaction.disconnection = "erase" => channel.state # "connected"
  /\ \A e \in Executions : Ended(e) =>
       \/ execution[e].state \in {"not_started", "failed", "needs_attention"}
       \/ /\ transaction.disconnection = "erase"
          /\ execution[e].state \in {"publishing", "processing"}

(* TypeOK is not inductive alone: the worker copies the state of the execution
   into its job, which is a state of work only because the row was claimed, and
   so the execution is not absent. The disconnection writes what it has read, and
   ends nothing that was published because of Window. *)
IInv == TypeOK /\ OutcomeAgreement /\ JobsNameRows /\ RowsFree /\ Window

(* What a step of a worker, other than a claim, does to the jobs. *)
JobsKept ==
  /\ job' \in [Workers -> Jobs]
  /\ \A v \in Workers : job'[v].step # "idle" =>
       job[v].step # "idle" /\ job'[v].execution = job[v].execution

(* What every step is shown to do: keep the invariant, leave what has ended
   alone, and honour the contract of the outbox; the last under the condition that
   the disconnection has read no execution whose row is completed, which only the
   invariant of PublishSafety_proofs excludes. *)
Final == \A e \in Executions : execution[e].state \in Settled /\ e \notin overrun' =>
  /\ execution'[e].state \in {execution[e].state, transaction.ends[e]}
  /\ outbox'[e] = outbox[e]

Spared == \A e \in Executions :
  transaction.disconnection = "prepare" /\ Ended(e) => outbox[e].state # "completed"

Honoured == [Contract!Next]_(Contract!vars)

(* Only a published execution gets its row completed, and the transaction that
   begins a disconnection reads only executions that were not started. *)
RowsOrdered == \A e \in Executions : outbox'[e].state = "completed" =>
  outbox[e].state = "completed" \/ execution[e].state \in {"processing", "published"}

ReadsOrdered == \A e \in Executions :
  transaction'.disconnection = "prepare" /\ Ended(e)' =>
    \/ Unstarted(e)
    \/ transaction.disconnection = "prepare" /\ Ended(e)

Safe == IInv' /\ Final /\ RowsOrdered /\ ReadsOrdered /\ (Spared => Honoured)

USE DEF Settled, OpenStates, DeadStates, Categories, Steps, ChannelStates

LEMMA LeftJob ==
  ASSUME NEW j \in Jobs
  PROVE  /\ Left(j) \in Jobs
         /\ Left(j).step = "idle" \/ Left(j).execution = j.execution
<1>1. NoJob \in Jobs /\ NoJob.step = "idle"
  BY DEF NoJob, Jobs
<1>2. CASE j.state = "none"
  BY <1>1, <1>2 DEF Left
<1>3. CASE j.state # "none"
  BY <1>3 DEF Left, Jobs
<1> QED
  BY <1>2, <1>3

LEMMA ThrownJob ==
  ASSUME NEW j \in Jobs, NEW category \in Categories
  PROVE  /\ Thrown(j, category) \in Jobs
         /\ \/ Thrown(j, category).step = "idle"
            \/ Thrown(j, category).execution = j.execution
<1>1. CASE j.lost
  BY <1>1, LeftJob DEF Thrown
<1>2. CASE ~ j.lost
  BY <1>2 DEF Thrown, Jobs
<1> QED
  BY <1>1, <1>2

LEMMA JobUpdate ==
  ASSUME TypeOK, NEW w \in Workers, job[w].step # "idle",
         NEW j \in Jobs, j.step = "idle" \/ j.execution = job[w].execution,
         job' = [job EXCEPT ![w] = j]
  PROVE  JobsKept
BY DEF TypeOK, JobsKept

LEMMA LeaveKeeps ==
  ASSUME TypeOK, NEW w \in Workers, job[w].step # "idle", Leave(w)
  PROVE  JobsKept
<1>1. job[w] \in Jobs
  BY DEF TypeOK
<1> QED
  BY <1>1, LeftJob, JobUpdate DEF Leave

LEMMA ThrowKeeps ==
  ASSUME TypeOK, NEW w \in Workers, job[w].step # "idle",
         NEW category \in Categories, Throw(w, category)
  PROVE  JobsKept
<1>1. job[w] \in Jobs
  BY DEF TypeOK
<1> QED
  BY <1>1, ThrownJob, JobUpdate DEF Throw

LEMMA UnclaimedRow ==
  ASSUME NEW row \in OutboxRows, NEW n \in Nat,
         NEW state \in {"pending", "completed", "dead"}
  PROVE  /\ Unclaimed(row, state, n) \in OutboxRows
         /\ Unclaimed(row, state, n).state = state
         /\ Unclaimed(row, state, n).owner = NoWorker
         /\ ~ Unclaimed(row, state, n).live
<1> DEFINE r == [state |-> state, owner |-> NoWorker, generation |-> row.generation,
                 live |-> FALSE, attempt |-> row.attempt + n]
<1>1. row.generation \in Nat /\ row.attempt + n \in Nat
  BY DEF OutboxRows
<1>2. Unclaimed(row, state, n) \in OutboxRows
  BY <1>1 DEF Unclaimed, OutboxRows
<1>3. /\ Unclaimed(row, state, n).state = state
      /\ Unclaimed(row, state, n).owner = NoWorker
      /\ ~ Unclaimed(row, state, n).live
  BY DEF Unclaimed, OutboxRows
<1> QED
  BY <1>2, <1>3

LEMMA EndClaimRows ==
  ASSUME TypeOK, NEW e \in Executions, NEW n \in Nat,
         NEW state \in {"pending", "completed", "dead"}, EndClaim(e, state, n)
  PROVE  /\ outbox' \in [Executions -> OutboxRows]
         /\ outbox'[e].state = state
         /\ outbox'[e].owner = NoWorker /\ ~ outbox'[e].live
         /\ \A f \in Executions \ {e} : outbox'[f] = outbox[f]
BY UnclaimedRow DEF EndClaim, TypeOK

LEMMA RefusalCases ==
  ASSUME TypeOK, NEW e \in Executions
  PROVE  /\ ReadRefusal(e) \in Categories \cup {"none"}
         /\ ReadRefusal(e) = "none" => execution[e].state \notin Settled
BY DEF ReadRefusal

LEMMA SpendNat ==
  ASSUME TypeOK, NEW kind, Spend(kind)
  PROVE  budget' \in Nat
BY DEF TypeOK, Spend

Holder(row) == IF row.state = "claimed" THEN row.owner ELSE NoWorker

(* A step that changes one row moves that row in the contract. *)
LEMMA ContractMove ==
  ASSUME NEW e \in Executions, NEW state, NEW h,
         \A f \in Executions \ {e} : outbox'[f] = outbox[f],
         Standing(outbox'[e]) = state, Holder(outbox'[e]) = h
  PROVE  Contract!Move(e, state, h)
<1>1. [f \in Executions |-> Standing(outbox'[f])] =
      [[f \in Executions |-> Standing(outbox[f])] EXCEPT ![e] = state]
  OBVIOUS
<1>2. [f \in Executions |-> Holder(outbox'[f])] =
      [[f \in Executions |-> Holder(outbox[f])] EXCEPT ![e] = h]
  OBVIOUS
<1> QED
  BY <1>1, <1>2 DEF Contract!Move, Holder, Standing

-----------------------------------------------------------------------------
(* What a connected channel, or one nobody disconnects, says of an execution at
   work: no disconnection has read it. *)
LEMMA NotEnded ==
  ASSUME IInv, NEW e \in Executions,
         \/ LifecycleFree
         \/ /\ channel.state = "connected"
            /\ execution[e].state \in {"publishing", "processing", "published"}
  PROVE  ~ Ended(e)
BY DEF IInv, Window, LifecycleFree

(* What leaves the open transactions alone. *)
ChannelSteady ==
  channel'.state = channel.state \/ channel'.state # "connected" \/ LifecycleFree

LEMMA WindowKept ==
  ASSUME IInv, UNCHANGED transaction, ChannelSteady,
         \A e \in Executions : Ended(e) =>
           execution'[e].state \in {execution[e].state, "failed", "needs_attention"}
  PROVE  Window'
BY DEF IInv, Window, ChannelSteady, LifecycleFree, Ended

(* Three kinds of step cover almost every action. *)

LEMMA StepKeeps ==
  ASSUME IInv, JobsKept, OutcomeAgreement', RowsFree', Window',
         content' \in [Contents -> ContentRows],
         execution' \in [Executions -> ExecutionRows],
         outbox' \in [Executions -> OutboxRows],
         channel' \in ChannelRows,
         transaction' \in Transactions,
         uploads' \in [Executions -> Nat],
         overrun' \in SUBSET Executions,
         budget' \in Nat,
         \A e \in Executions : outbox[e].state # "absent" => outbox'[e].state # "absent"
  PROVE  IInv'
<1>1. TypeOK'
  BY DEF IInv, TypeOK, JobsKept
<1>2. JobsNameRows'
  BY DEF IInv, TypeOK, JobsNameRows, JobsKept
<1> QED
  BY <1>1, <1>2 DEF IInv

(* A step that leaves the outbox alone, and no more than moves an execution
   from one state of work to another, or one that was overtaken. *)
LEMMA AsideStep ==
  ASSUME IInv, JobsKept, Window', ReadsOrdered, UNCHANGED outbox,
         content' \in [Contents -> ContentRows],
         execution' \in [Executions -> ExecutionRows],
         channel' \in ChannelRows,
         transaction' \in Transactions,
         uploads' \in [Executions -> Nat],
         overrun' \in SUBSET Executions, overrun \subseteq overrun',
         budget' \in Nat,
         \A e \in Executions :
           \/ execution'[e].state = execution[e].state
           \/ /\ execution[e].state # "absent" /\ execution'[e].state # "absent"
              /\ \/ e \in overrun'
                 \/ /\ execution[e].state \in OpenStates
                    /\ execution'[e].state \in OpenStates
  PROVE  Safe
<1>1. OutcomeAgreement' /\ RowsFree'
  BY DEF IInv, OutcomeAgreement, RowsFree
<1>2. IInv'
  BY <1>1, StepKeeps DEF IInv, TypeOK
<1>3. Final
  BY DEF Final
<1>4. Honoured
  BY DEF Honoured, Contract!vars, Standing
<1> QED
  BY <1>2, <1>3, <1>4 DEF RowsOrdered, Safe

LEMMA WorkStep ==
  ASSUME IInv, JobsKept, UNCHANGED <<outbox, transaction, overrun>>, ChannelSteady,
         content' \in [Contents -> ContentRows],
         execution' \in [Executions -> ExecutionRows],
         channel' \in ChannelRows,
         uploads' \in [Executions -> Nat],
         budget' \in Nat,
         \A e \in Executions :
           \/ execution'[e].state = execution[e].state
           \/ /\ execution[e].state \in OpenStates /\ execution'[e].state \in OpenStates
              /\ ~ Ended(e)
  PROVE  Safe
<1>1. Window'
  BY WindowKept
<1>2. ReadsOrdered
  BY DEF ReadsOrdered, Ended
<1> QED
  BY <1>1, <1>2, AsideStep DEF IInv, TypeOK

(* The holder of a live claim ends it, and its execution with it when the row
   ends. *)
LEMMA EndStep ==
  ASSUME IInv, JobsKept, NEW w \in Workers, NEW e \in Executions,
         NEW state \in {"pending", "completed", "dead"}, NEW n \in Nat,
         outbox[e].state = "claimed", outbox[e].owner = w, outbox[e].live,
         EndClaim(e, state, n),
         content' \in [Contents -> ContentRows],
         execution' \in [Executions -> ExecutionRows],
         channel' \in ChannelRows,
         UNCHANGED <<transaction, histories>>, ChannelSteady,
         budget' \in Nat,
         execution'[e].state # "absent",
         state = "completed" => execution[e].state \in {"processing", "published"},
         e \notin overrun =>
           /\ state = "pending" => execution'[e].state \in OpenStates
           /\ state = "completed" => execution'[e].state = "published"
           /\ state = "dead" => execution'[e].state \in DeadStates,
         Ended(e) =>
           execution'[e].state \in {execution[e].state, "failed", "needs_attention"},
         \A f \in Executions \ {e} : execution'[f].state = execution[f].state
  PROVE  Safe
<1>1. /\ outbox' \in [Executions -> OutboxRows]
      /\ outbox'[e].state = state
      /\ outbox'[e].owner = NoWorker /\ ~ outbox'[e].live
      /\ \A f \in Executions \ {e} : outbox'[f] = outbox[f]
  BY EndClaimRows DEF IInv
<1>2. e \notin overrun => execution[e].state \in OpenStates
  BY DEF IInv, OutcomeAgreement
<1>3. OutcomeAgreement' /\ RowsFree'
  BY <1>1, <1>2 DEF IInv, OutcomeAgreement, RowsFree, histories
<1>4. Window'
  BY WindowKept
<1>5. IInv'
  BY <1>1, <1>3, <1>4, StepKeeps DEF IInv, TypeOK, histories
<1>7. Final
  BY <1>1, <1>2 DEF Final, histories
<1>6. Honoured
  <2>1. Holder(outbox'[e]) = NoWorker
    BY <1>1 DEF Holder
  <2>2. Standing(outbox'[e]) = IF state = "pending" THEN "waiting" ELSE state
    BY <1>1 DEF Standing
  <2>3. Standing(outbox[e]) = "held" /\ Holder(outbox[e]) = w
    BY DEF Standing, Holder
  <2>4. CASE state = "pending"
    <3>1. Contract!Move(e, "waiting", NoWorker)
      BY <1>1, <2>1, <2>2, <2>4, ContractMove
    <3>2. Contract!GiveBack(e, w)
      BY <2>3, <3>1 DEF Contract!GiveBack, Holder
    <3> QED
      BY <3>2 DEF Honoured, Contract!Next
  <2>5. CASE state \in {"completed", "dead"}
    <3>1. Contract!Move(e, state, NoWorker) /\ state \in Contract!Ends
      BY <1>1, <2>1, <2>2, <2>5, ContractMove DEF Contract!Ends
    <3>2. Contract!End(e, w)
      BY <2>3, <3>1 DEF Contract!End, Holder
    <3> QED
      BY <3>2 DEF Honoured, Contract!Next
  <2> QED
    BY <2>4, <2>5
<1>8. RowsOrdered /\ ReadsOrdered
  BY <1>1 DEF RowsOrdered, ReadsOrdered, Ended
<1> QED
  BY <1>5, <1>6, <1>7, <1>8 DEF Safe

-----------------------------------------------------------------------------
(* What the actions write *)

LEMMA WorkerExecution ==
  ASSUME IInv, NEW w \in Workers, job[w].step # "idle"
  PROVE  /\ job[w] \in Jobs /\ job[w].execution \in Executions
         /\ execution[job[w].execution] \in ExecutionRows
         /\ execution[job[w].execution].state # "absent"
BY DEF IInv, TypeOK, JobsNameRows, OutcomeAgreement

LEMMA ForgetContents ==
  ASSUME TypeOK, ForgetAccount
  PROVE  content' \in [Contents -> ContentRows]
<1>1. \A c \in Contents : [content[c] EXCEPT !.bound = FALSE] \in ContentRows
  BY DEF TypeOK, ContentRows
<1> QED
  BY <1>1 DEF ForgetAccount

LEMMA WithoutLeaseRow ==
  ASSUME NEW row \in ChannelRows
  PROVE  WithoutLease(row) \in ChannelRows
BY DEF WithoutLease, ChannelRows

LEMMA FailedExecutions ==
  ASSUME TypeOK, NEW w \in Workers, NEW state \in DeadStates, NEW reauthorize \in BOOLEAN,
         job[w].execution \in Executions, FailExecution(w, state, reauthorize)
  PROVE  /\ execution' \in [Executions -> ExecutionRows]
         /\ \A f \in Executions \ {job[w].execution} :
              execution'[f].state = execution[f].state
         /\ execution'[job[w].execution].state =
              IF execution[job[w].execution].state \in OpenStates
              THEN state ELSE execution[job[w].execution].state
<1> DEFINE s(f) == IF f = job[w].execution /\ execution[f].state \in OpenStates
                   THEN state ELSE execution[f].state
           p(f) == execution[f].provider /\ ~ (reauthorize /\ Bound(f))
           x(f) == [execution[f] EXCEPT !.state = s(f), !.provider = p(f)]
<1>1. execution' = [f \in Executions |-> x(f)]
  BY DEF FailExecution
<1>2. ASSUME NEW f \in Executions PROVE x(f) \in ExecutionRows /\ x(f).state = s(f)
  <2>1. p(f) \in BOOLEAN
    OBVIOUS
  <2>2. execution[f] \in ExecutionRows /\ s(f) \in {"absent"} \cup OpenStates \cup Settled
    BY DEF TypeOK, ExecutionRows
  <2> HIDE DEF s, p
  <2> QED
    BY <2>1, <2>2 DEF ExecutionRows
<1> QED
  BY <1>1, <1>2

LEMMA FailureStep ==
  ASSUME IInv, NEW w \in Workers, job[w].step # "idle",
         NEW state \in DeadStates, NEW reauthorize \in BOOLEAN,
         RecordFailure(w, state, reauthorize),
         UNCHANGED <<transaction, histories>>, budget' \in Nat
  PROVE  Safe
<1> DEFINE e == job[w].execution
<1>0. LifecycleFree /\ ChannelSteady
  BY DEF RecordFailure, ChannelSteady
<1>1. e \in Executions /\ TypeOK /\ execution[e].state # "absent"
  BY WorkerExecution DEF IInv
<1>2. CASE HoldsFence(w) /\ ~ Superseded(e) /\ HoldsClaim(w)
  <2>1. /\ FailExecution(w, state, reauthorize)
        /\ EndClaim(e, "dead", 0)
        /\ Leave(w)
        /\ \/ ForgetAccount \/ UNCHANGED content
        /\ \/ channel' = [channel EXCEPT !.state = "reauthorization_required",
                                        !.authorized = FALSE]
           \/ UNCHANGED channel
    BY <1>2 DEF RecordFailure
  <2>2. outbox[e].state = "claimed" /\ outbox[e].owner = w /\ outbox[e].live
    BY <1>2 DEF HoldsClaim
  <2>3. content' \in [Contents -> ContentRows] /\ channel' \in ChannelRows
    BY <1>1, <2>1, ForgetContents DEF TypeOK, ChannelRows
  <2>4. e \notin overrun => execution[e].state \in OpenStates
    BY <1>1, <2>2 DEF IInv, OutcomeAgreement
  <2>5. /\ execution' \in [Executions -> ExecutionRows]
        /\ \A f \in Executions \ {e} : execution'[f].state = execution[f].state
        /\ execution'[e].state =
             IF execution[e].state \in OpenStates THEN state ELSE execution[e].state
    BY <1>1, <2>1, FailedExecutions
  <2>6. JobsKept /\ ~ Ended(e)
    BY <1>0, <1>1, <2>1, LeaveKeeps, NotEnded
  <2> QED
    BY <1>0, <1>1, <2>1, <2>2, <2>3, <2>4, <2>5, <2>6, EndStep
<1>3. CASE ~ (HoldsFence(w) /\ ~ Superseded(e) /\ HoldsClaim(w))
  <2>1. /\ Leave(w) \/ Throw(w, "transient")
        /\ UNCHANGED <<content, execution, outbox, channel>>
    BY <1>3 DEF RecordFailure
  <2>2. JobsKept
    BY <1>1, <2>1, LeaveKeeps, ThrowKeeps
  <2> QED
    BY <1>0, <1>1, <2>1, <2>2, WorkStep DEF TypeOK, histories
<1> QED
  BY <1>2, <1>3

LEMMA RetryStep ==
  ASSUME IInv, NEW w \in Workers, job[w].step # "idle",
         NEW increment \in {0, 1}, FinishRetry(w, increment),
         UNCHANGED <<transaction, histories>>, budget' \in Nat
  PROVE  Safe
<1> DEFINE e == job[w].execution
<1>1. e \in Executions /\ TypeOK /\ execution[e].state # "absent"
  BY WorkerExecution DEF IInv
<1>2. JobsKept /\ UNCHANGED <<content, execution, channel>> /\ ChannelSteady
  BY <1>1, LeaveKeeps DEF FinishRetry, ChannelSteady
<1>3. CASE HoldsClaim(w)
  <2>1. outbox[e].state = "claimed" /\ outbox[e].owner = w /\ outbox[e].live
    BY <1>3 DEF HoldsClaim
  <2>2. e \notin overrun => execution[e].state \in OpenStates
    BY <1>1, <2>1 DEF IInv, OutcomeAgreement
  <2>3. EndClaim(e, "pending", increment)
    BY <1>3 DEF FinishRetry
  <2>4. increment \in Nat
    OBVIOUS
  <2> QED
    BY <1>1, <1>2, <2>1, <2>2, <2>3, <2>4, EndStep DEF TypeOK
<1>4. CASE ~ HoldsClaim(w)
  <2>1. UNCHANGED outbox
    BY <1>4 DEF FinishRetry
  <2> QED
    BY <1>1, <1>2, <2>1, WorkStep DEF TypeOK, histories
<1> QED
  BY <1>3, <1>4

-----------------------------------------------------------------------------
(* The worker *)

LEMMA ClaimMessageStep ==
  ASSUME IInv, NEW w \in Workers, NEW e \in Executions, ClaimMessage(w, e)
  PROVE  Safe
<1> DEFINE r == ClaimedBy(outbox[e], w)
           j == [NoJob EXCEPT !.step = "claimed", !.execution = e,
                              !.generation = outbox[e].generation + 1,
                              !.attempt = outbox[e].attempt]
<1>1. outbox[e] \in OutboxRows /\ outbox[e].state \in {"pending", "claimed"}
  BY DEF IInv, TypeOK, ClaimMessage, Claimable
<1>2. r \in OutboxRows /\ r.state = "claimed" /\ r.owner = w /\ r.live
  <2>1. outbox[e].generation + 1 \in Nat
    BY <1>1 DEF OutboxRows
  <2> QED
    BY <1>1, <2>1 DEF ClaimedBy, OutboxRows
<1>3. j \in Jobs /\ j.execution = e
  <2>1. outbox[e].generation + 1 \in Nat /\ outbox[e].attempt \in Nat
    BY <1>1 DEF OutboxRows
  <2> QED
    BY <2>1 DEF NoJob, Jobs
<1>4. /\ outbox' = [outbox EXCEPT ![e] = r]
      /\ job' = [job EXCEPT ![w] = j]
      /\ UNCHANGED <<content, execution, channel, transaction, uploads, overrun, budget>>
  BY DEF ClaimMessage, histories
<1> HIDE DEF r, j
<1>5. /\ outbox' \in [Executions -> OutboxRows] /\ outbox'[e] = r
      /\ \A f \in Executions \ {e} : outbox'[f] = outbox[f]
  BY <1>2, <1>4 DEF IInv, TypeOK
<1>6. /\ job' \in [Workers -> Jobs] /\ job'[w] = j
      /\ \A v \in Workers \ {w} : job'[v] = job[v]
  BY <1>3, <1>4 DEF IInv, TypeOK
<1>7. TypeOK'
  BY <1>3, <1>4, <1>5, <1>6 DEF IInv, TypeOK
<1>8. OutcomeAgreement' /\ RowsFree' /\ Window'
  <2>1. OutcomeAgreement'
    BY <1>1, <1>2, <1>4, <1>5 DEF IInv, OutcomeAgreement
  <2>2. RowsFree'
    BY <1>2, <1>5 DEF IInv, RowsFree
  <2>3. Window'
    BY <1>4, WindowKept DEF ChannelSteady
  <2> QED
    BY <2>1, <2>2, <2>3
<1>9. JobsNameRows'
  BY <1>2, <1>3, <1>5, <1>6 DEF IInv, TypeOK, JobsNameRows
<1>10. Final
  BY <1>1, <1>4, <1>5 DEF IInv, OutcomeAgreement, Final
<1>11. Honoured
  <2>1. Standing(outbox'[e]) = "held" /\ Holder(outbox'[e]) = w
    BY <1>2, <1>5 DEF Standing, Holder
  <2>2. Contract!Move(e, "held", w)
    BY <1>5, <2>1, ContractMove
  <2>3. Standing(outbox[e]) \in {"waiting", "lapsed"}
    BY <1>1 DEF Standing, ClaimMessage, Claimable
  <2>4. Contract!Claim(e, w)
    BY <2>2, <2>3 DEF Contract!Claim
  <2> QED
    BY <2>4 DEF Honoured, Contract!Next
<1>12. RowsOrdered /\ ReadsOrdered
  BY <1>2, <1>4, <1>5 DEF RowsOrdered, ReadsOrdered, Ended
<1> QED
  BY <1>7, <1>8, <1>9, <1>10, <1>11, <1>12 DEF IInv, Safe

LEMMA ReadExecutionStep ==
  ASSUME IInv, NEW w \in Workers, ReadExecution(w)
  PROVE  Safe
<1> DEFINE e == job[w].execution
           j == [job[w] EXCEPT !.step = "reading", !.state = execution[e].state,
                               !.provider = execution[e].provider]
<1>1. /\ job[w].step # "idle" /\ e \in Executions /\ execution[e] \in ExecutionRows
      /\ execution[e].state \in OpenStates
  BY WorkerExecution, RefusalCases DEF ReadExecution, IInv, ExecutionRows
<1>2. j \in Jobs /\ j.execution = e
  <2>1. execution[e].provider \in BOOLEAN /\ job[w] \in Jobs
    BY <1>1 DEF IInv, TypeOK, ExecutionRows
  <2> QED
    BY <1>1, <2>1 DEF Jobs
<1>3. JobsKept
  <2>1. job' = [job EXCEPT ![w] = j]
    BY DEF ReadExecution
  <2> HIDE DEF j
  <2> QED
    BY <1>1, <1>2, <2>1, JobUpdate DEF IInv
<1> QED
  BY <1>3, WorkStep DEF ReadExecution, IInv, TypeOK, ChannelSteady, histories

LEMMA ReadWorkStep ==
  ASSUME IInv, NEW w \in Workers, ReadWork(w)
  PROVE  Safe
<1> DEFINE e == job[w].execution
           fresh == job[w].state = "not_started"
           state == Started(job[w].state)
           j == [job[w] EXCEPT !.lease = channel.generation, !.state = state,
                               !.step = FirstStep(state, job[w].provider)]
<1>1. /\ job[w].step # "idle" /\ e \in Executions /\ job[w] \in Jobs
      /\ execution[e] \in ExecutionRows /\ execution[e].state # "absent"
  BY WorkerExecution DEF ReadWork
<1>2. state \in {"none"} \cup OpenStates
  BY <1>1 DEF Started, Jobs
<1>3. j \in Jobs /\ j.execution = e
  <2>1. FirstStep(state, job[w].provider) \in Steps
    BY DEF FirstStep
  <2>2. channel.generation \in Nat
    BY DEF IInv, TypeOK, ChannelRows
  <2> QED
    BY <1>1, <1>2, <2>1, <2>2 DEF Jobs
<1>4. JobsKept
  <2>1. job' = [job EXCEPT ![w] = j]
    BY DEF ReadWork
  <2> HIDE DEF j
  <2> QED
    BY <1>1, <1>3, <2>1, JobUpdate DEF IInv
<1>5. execution' \in [Executions -> ExecutionRows]
  BY <1>1 DEF ReadWork, IInv, TypeOK, ExecutionRows
<1>6. channel' \in ChannelRows /\ channel'.state = "connected"
  BY <1>1 DEF ReadWork, Leasable, IInv, TypeOK, ChannelRows
<1>7. overrun' \in SUBSET Executions /\ overrun \subseteq overrun'
  BY <1>1 DEF ReadWork, IInv, TypeOK
<1>8. \A f \in Executions :
        \/ execution'[f].state = execution[f].state
        \/ /\ execution[f].state # "absent" /\ execution'[f].state # "absent"
           /\ \/ f \in overrun'
              \/ execution[f].state \in OpenStates /\ execution'[f].state \in OpenStates
  BY <1>1 DEF ReadWork, IInv, TypeOK, ExecutionRows
<1>9. Window'
  <2>1. LifecycleFree /\ UNCHANGED transaction
    BY DEF ReadWork, RowFree, LifecycleFree, Leasable, IInv, Window, TypeOK, Transactions
  <2> QED
    BY <1>6, <2>1 DEF IInv, Window, LifecycleFree, Ended
<1>10. ReadsOrdered
  BY DEF ReadWork, ReadsOrdered, Ended
<1> QED
  BY <1>4, <1>5, <1>6, <1>7, <1>8, <1>9, <1>10, AsideStep DEF ReadWork, IInv, TypeOK

LEMMA UnreadJob ==
  ASSUME TypeOK, NEW w \in Workers, job[w].step # "idle",
         NEW category \in Categories, ReadFailed(w, category)
  PROVE  JobsKept
<1>1. Unread(job[w]) \in Jobs /\ Unread(job[w]).execution = job[w].execution
  BY DEF Unread, TypeOK, Jobs
<1> QED
  BY <1>1, ThrownJob, JobUpdate DEF ReadFailed

LEMMA ReadRefusedStep ==
  ASSUME IInv, NEW w \in Workers, ReadRefused(w) \/ ReadError(w)
  PROVE  Safe
<1>1. job[w].step # "idle" /\ job[w].execution \in Executions
  BY WorkerExecution DEF ReadRefused, ReadError
<1>2. JobsKept
  BY <1>1, RefusalCases, UnreadJob DEF IInv, ReadRefused, ReadError
<1>3. budget' \in Nat
  BY SpendNat DEF IInv, TypeOK, ReadRefused, ReadError
<1> QED
  BY <1>2, <1>3, WorkStep
  DEF IInv, TypeOK, ReadRefused, ReadError, ChannelSteady, histories

LEMMA UploadStep ==
  ASSUME IInv, NEW w \in Workers,
         \/ AttemptFailed(w) \/ UploadAccepted(w)
         \/ UploadAmbiguous(w) \/ UploadMisread(w)
  PROVE  Safe
<1> USE DEF AttemptFailed, UploadAccepted, UploadAmbiguous, UploadMisread
<1>1. job[w].step # "idle" /\ job[w].execution \in Executions
  BY WorkerExecution
<1>2. JobsKept
  <2>1. CASE UploadAccepted(w)
    BY <1>1, <2>1 DEF IInv, TypeOK, Jobs, JobsKept
  <2>2. CASE AttemptFailed(w)
    BY <1>1, <2>2, ThrowKeeps DEF IInv, AttemptCategories
  <2>3. CASE UploadAmbiguous(w) \/ UploadMisread(w)
    BY <1>1, <2>3, ThrowKeeps DEF IInv
  <2> QED
    BY <2>1, <2>2, <2>3
<1>3. budget' \in Nat
  BY SpendNat DEF IInv, TypeOK
<1>4. uploads' \in [Executions -> Nat]
  BY <1>1 DEF IInv, TypeOK, histories
<1> QED
  BY <1>2, <1>3, <1>4, WorkStep DEF IInv, TypeOK, ChannelSteady, histories

LEMMA RecordStep ==
  ASSUME IInv, NEW w \in Workers,
         RecordUpload(w) \/ RecordTransfer(w) \/ RecordError(w)
  PROVE  Safe
<1> DEFINE e == job[w].execution
<1> USE DEF RecordUpload, RecordTransfer, RecordError
<1>1. job[w].step # "idle" /\ e \in Executions
  BY WorkerExecution
<1>2. JobsKept
  <2>1. CASE Leave(w) \/ Throw(w, "transient")
    BY <1>1, <2>1, LeaveKeeps, ThrowKeeps DEF IInv
  <2>2. CASE ~ (Leave(w) \/ Throw(w, "transient"))
    BY <1>1, <2>2 DEF IInv, TypeOK, Jobs, JobsKept
  <2> QED
    BY <2>1, <2>2
<1>3. budget' \in Nat
  BY SpendNat DEF IInv, TypeOK
<1>4. \/ UNCHANGED execution
      \/ /\ execution[e].state = "publishing" /\ channel.state = "connected"
         /\ UploadRecorded(e)
      \/ /\ execution[e].state = "publishing" /\ channel.state = "connected"
         /\ execution' = [execution EXCEPT ![e].state = "processing"]
  BY DEF UploadRecordable, TransferRecordable, HoldsFence
<1>6. UNCHANGED execution \/ ~ Ended(e)
  BY <1>1, <1>4, NotEnded
<1>5. /\ execution' \in [Executions -> ExecutionRows]
      /\ \A f \in Executions :
           \/ execution'[f].state = execution[f].state
           \/ execution[f].state \in OpenStates /\ execution'[f].state \in OpenStates
  <2>1. CASE UNCHANGED execution
    BY <2>1 DEF IInv, TypeOK
  <2>2. CASE execution[e].state = "publishing" /\ UploadRecorded(e)
    <3> DEFINE s == IF Platform = "tiktok" THEN "publishing" ELSE "processing"
               x == [execution[e] EXCEPT !.provider = TRUE, !.state = s]
    <3>1. x \in ExecutionRows /\ x.state = s
      <4>1. execution[e] \in ExecutionRows /\ s \in OpenStates
        BY <1>1 DEF IInv, TypeOK
      <4> HIDE DEF s
      <4> QED
        BY <4>1 DEF ExecutionRows
    <3>2. execution' = [execution EXCEPT ![e] = x]
      BY <1>1, <2>2 DEF UploadRecorded, IInv, TypeOK
    <3> QED
      BY <1>1, <2>2, <3>1, <3>2 DEF IInv, TypeOK
  <2>3. CASE /\ execution[e].state = "publishing"
             /\ execution' = [execution EXCEPT ![e].state = "processing"]
    BY <1>1, <2>3 DEF IInv, TypeOK, ExecutionRows
  <2> QED
    BY <1>4, <2>1, <2>2, <2>3
<1> QED
  BY <1>2, <1>3, <1>4, <1>5, <1>6, WorkStep
  DEF UploadRecorded, IInv, TypeOK, ChannelSteady, histories

LEMMA PollPublishedStep ==
  ASSUME IInv, NEW w \in Workers, PollPublished(w)
  PROVE  Safe
<1> DEFINE e == job[w].execution
<1>1. job[w].step # "idle" /\ e \in Executions /\ TypeOK /\ ChannelSteady
  BY WorkerExecution DEF PollPublished, IInv, ChannelSteady
<1>2. CASE UNCHANGED <<execution, outbox>> /\ (Leave(w) \/ Throw(w, "transient"))
  <2>1. JobsKept
    BY <1>1, <1>2, LeaveKeeps, ThrowKeeps
  <2> QED
    BY <1>1, <1>2, <2>1, WorkStep DEF PollPublished, TypeOK, histories
<1>3. CASE /\ HoldsFence(w) /\ execution[e].state \in {"processing", "published"}
           /\ HoldsClaim(w)
           /\ execution' = [execution EXCEPT ![e].state = "published"]
           /\ EndClaim(e, "completed", 0) /\ Leave(w)
  <2>1. outbox[e].state = "claimed" /\ outbox[e].owner = w /\ outbox[e].live
    BY <1>3 DEF HoldsClaim
  <2>2. JobsKept
    BY <1>1, <1>3, LeaveKeeps
  <2>3. /\ execution' \in [Executions -> ExecutionRows]
        /\ execution'[e].state = "published"
        /\ \A f \in Executions \ {e} : execution'[f].state = execution[f].state
    BY <1>1, <1>3 DEF TypeOK, ExecutionRows
  <2>4. ~ Ended(e)
    BY <1>1, <1>3, NotEnded DEF HoldsFence
  <2>5. UNCHANGED <<transaction, histories>> /\ content' \in [Contents -> ContentRows]
        /\ channel' \in ChannelRows /\ budget' \in Nat
    BY <1>1 DEF PollPublished, TypeOK
  <2> QED
    BY <1>1, <1>3, <2>1, <2>2, <2>3, <2>4, <2>5, EndStep
<1> QED
  BY <1>2, <1>3 DEF PollPublished

LEMMA PollStep ==
  ASSUME IInv, NEW w \in Workers,
         PollFailed(w) \/ PollProcessing(w) \/ FailWithWork(w)
  PROVE  Safe
<1>1. job[w].step # "idle" /\ TypeOK
  BY DEF PollFailed, PollProcessing, FailWithWork, IInv
<1>2. CASE PollFailed(w)
  BY <1>1, <1>2, FailureStep DEF PollFailed, TypeOK
<1>3. CASE PollProcessing(w)
  <2>1. budget' \in Nat /\ UNCHANGED <<transaction, histories>>
    BY <1>1, <1>3, SpendNat DEF PollProcessing, TypeOK
  <2> QED
    BY <1>1, <1>3, <2>1, FailureStep, RetryStep DEF PollProcessing
<1>4. CASE FailWithWork(w)
  <2> DEFINE state == IF NeedsAttention(job[w].category) THEN "needs_attention"
                                                         ELSE "failed"
             reauthorize == job[w].category = "reauthorize"
  <2>1. state \in DeadStates /\ reauthorize \in BOOLEAN
    OBVIOUS
  <2>2. RecordFailure(w, state, reauthorize)
    BY <1>4 DEF FailWithWork
  <2>3. UNCHANGED <<transaction, histories>> /\ budget' \in Nat
    BY <1>1, <1>4 DEF FailWithWork, TypeOK
  <2> HIDE DEF state, reauthorize
  <2> QED
    BY <1>1, <2>1, <2>2, <2>3, FailureStep
<1> QED
  BY <1>2, <1>3, <1>4

LEMMA FailWithoutWorkStep ==
  ASSUME IInv, NEW w \in Workers, FailWithoutWork(w)
  PROVE  Safe
<1> DEFINE e == job[w].execution
           state == IF NeedsAttention(job[w].category) THEN "needs_attention"
                                                       ELSE "failed"
           end == IF execution[e].state = "published" THEN "completed" ELSE "dead"
<1>1. job[w].step # "idle" /\ e \in Executions /\ TypeOK /\ execution[e].state # "absent"
  BY WorkerExecution DEF FailWithoutWork, IInv
<1>2. /\ JobsKept /\ ChannelSteady
      /\ UNCHANGED <<content, channel, transaction, histories, budget>>
  BY <1>1, LeaveKeeps DEF FailWithoutWork, ChannelSteady
<1>3. CASE HoldsClaim(w)
  <2>1. outbox[e].state = "claimed" /\ outbox[e].owner = w /\ outbox[e].live
    BY <1>3 DEF HoldsClaim
  <2>2. e \notin overrun => execution[e].state \in OpenStates
    BY <1>1, <2>1 DEF IInv, OutcomeAgreement
  <2>3. state \in {"failed", "needs_attention"} /\ end \in {"pending", "completed", "dead"}
    OBVIOUS
  <2>4. /\ execution' = [execution EXCEPT ![e].state =
             IF execution[e].state \in OpenStates THEN state ELSE execution[e].state]
        /\ EndClaim(e, end, 0)
    BY <1>1, <1>3 DEF FailWithoutWork, TypeOK
  <2>5. /\ execution[e].state \in OpenStates => end = "dead"
        /\ end = "completed" => execution[e].state = "published"
    OBVIOUS
  <2> HIDE DEF state, end
  <2>6. /\ execution' \in [Executions -> ExecutionRows]
        /\ execution'[e].state =
             IF execution[e].state \in OpenStates THEN state ELSE execution[e].state
        /\ \A f \in Executions \ {e} : execution'[f].state = execution[f].state
    BY <1>1, <2>3, <2>4 DEF TypeOK, ExecutionRows
  <2>7. /\ execution'[e].state # "absent"
        /\ e \notin overrun =>
             /\ end = "pending" => execution'[e].state \in OpenStates
             /\ end = "completed" => execution'[e].state = "published"
             /\ end = "dead" => execution'[e].state \in DeadStates
        /\ execution'[e].state \in {execution[e].state, "failed", "needs_attention"}
    BY <1>1, <2>2, <2>3, <2>5, <2>6
  <2> QED
    BY <1>1, <1>2, <2>1, <2>3, <2>4, <2>5, <2>6, <2>7, EndStep DEF TypeOK
<1>4. CASE ~ HoldsClaim(w)
  BY <1>1, <1>2, <1>4, WorkStep DEF FailWithoutWork, TypeOK, histories
<1> QED
  BY <1>3, <1>4

LEMMA ResetStep ==
  ASSUME IInv, NEW w \in Workers, ResetForRetry(w)
  PROVE  Safe
<1> DEFINE e == job[w].execution
<1>1. job[w].step # "idle" /\ e \in Executions /\ TypeOK
  BY WorkerExecution DEF ResetForRetry, IInv
<1>2. JobsKept
  <2>1. CASE Leave(w)
    BY <1>1, <2>1, LeaveKeeps
  <2>2. CASE ~ Leave(w)
    BY <1>1, <2>2 DEF ResetForRetry, TypeOK, Jobs, JobsKept
  <2> QED
    BY <2>1, <2>2
<1>3. /\ execution' \in [Executions -> ExecutionRows]
      /\ \A f \in Executions :
           \/ execution'[f].state = execution[f].state
           \/ /\ execution[f].state = "publishing" /\ channel.state = "connected"
              /\ execution'[f].state = "not_started"
  <2>1. CASE UNCHANGED execution
    BY <1>1, <2>1 DEF TypeOK
  <2>2. CASE /\ HoldsFence(w) /\ execution[e].state = "publishing"
             /\ execution' = [execution EXCEPT ![e].state = "not_started"]
    BY <1>1, <2>2 DEF HoldsFence, TypeOK, ExecutionRows
  <2> QED
    BY <2>1, <2>2 DEF ResetForRetry
<1> QED
  BY <1>1, <1>2, <1>3, NotEnded, WorkStep
  DEF ResetForRetry, TypeOK, ChannelSteady, histories

LEMMA RetryLaterStep ==
  ASSUME IInv, NEW w \in Workers, RetryLater(w)
  PROVE  Safe
<1>1. job[w].step # "idle" /\ budget' \in Nat
  BY DEF RetryLater, IInv, TypeOK
<1> QED
  BY <1>1, RetryStep DEF RetryLater

LEMMA LeavingStep ==
  ASSUME IInv, NEW w \in Workers,
         ReleaseLease(w) \/ NoticeLost(w) \/ StoreError(w) \/ Crash(w)
  PROVE  Safe
<1> USE DEF ReleaseLease, NoticeLost, StoreError, Crash
<1>1. job[w].step # "idle" /\ TypeOK /\ job[w] \in Jobs
  BY DEF IInv, TypeOK
<1>2. NoJob \in Jobs /\ NoJob.step = "idle"
  BY DEF NoJob, Jobs
<1>3. JobsKept
  <2>1. CASE ReleaseLease(w) \/ Crash(w)
    BY <1>1, <1>2, <2>1, JobUpdate
  <2>2. CASE NoticeLost(w)
    BY <1>1, <2>2 DEF TypeOK, Jobs, JobsKept
  <2>3. CASE StoreError(w)
    BY <1>1, <2>3, LeaveKeeps
  <2> QED
    BY <2>1, <2>2, <2>3
<1>4. budget' \in Nat
  BY <1>1, SpendNat DEF TypeOK
<1>5. channel' \in ChannelRows /\ ChannelSteady
  <2>1. WithoutLease(channel).state = channel.state
    BY <1>1 DEF WithoutLease, TypeOK, ChannelRows
  <2> QED
    BY <1>1, <2>1, WithoutLeaseRow DEF TypeOK, ChannelSteady
<1> QED
  BY <1>1, <1>3, <1>4, <1>5, WorkStep DEF TypeOK, histories

-----------------------------------------------------------------------------
(* The user, the channel and time *)

LEMMA AuthorStep ==
  ASSUME IInv, NEW c \in Contents, ApproveContent(c) \/ EditContent(c)
  PROVE  Safe
<1>1. JobsKept
  BY DEF JobsKept, ApproveContent, EditContent, IInv, TypeOK
<1>2. content' \in [Contents -> ContentRows]
  <2>1. content[c] \in ContentRows
    BY DEF IInv, TypeOK
  <2>2. /\ [content[c] EXCEPT !.status = "superseded"] \in ContentRows
        /\ [content[c] EXCEPT !.status = "approved", !.bound = TRUE] \in ContentRows
    BY <2>1 DEF ContentRows
  <2>3. \/ content' = [content EXCEPT ![c] = [content[c] EXCEPT !.status = "superseded"]]
        \/ content' = [content EXCEPT ![c] =
                          [content[c] EXCEPT !.status = "approved", !.bound = TRUE]]
    BY DEF ApproveContent, EditContent, IInv, TypeOK
  <2> QED
    BY <2>2, <2>3 DEF IInv, TypeOK
<1> QED
  BY <1>1, <1>2, WorkStep
  DEF ApproveContent, EditContent, IInv, TypeOK, ChannelSteady, histories

LEMMA ConfirmStep ==
  ASSUME IInv, NEW c \in Contents, NEW e \in Executions, ConfirmPublishing(c, e)
  PROVE  Safe
<1> USE DEF ConfirmPublishing
<1>1. JobsKept
  BY DEF JobsKept, IInv, TypeOK
<1>2. outbox[e].state = "absent"
  BY DEF IInv, OutcomeAgreement
<1>3. /\ outbox' \in [Executions -> OutboxRows] /\ outbox'[e].state = "pending"
      /\ \A f \in Executions \ {e} : outbox'[f] = outbox[f]
  BY DEF IInv, TypeOK, OutboxRows
<1>4. /\ execution' \in [Executions -> ExecutionRows]
      /\ execution'[e].state = "not_started"
      /\ \A f \in Executions \ {e} : execution'[f] = execution[f]
  <2> DEFINE x == [execution[e] EXCEPT !.state = "not_started", !.content = c]
  <2>1. x \in ExecutionRows /\ x.state = "not_started"
    BY DEF IInv, TypeOK, ExecutionRows
  <2>2. execution' = [execution EXCEPT ![e] = x]
    BY DEF IInv, TypeOK
  <2> QED
    BY <2>1, <2>2 DEF IInv, TypeOK
<1>5. content' \in [Contents -> ContentRows]
  BY DEF IInv, TypeOK, ContentRows
<1>6. OutcomeAgreement' /\ RowsFree' /\ Window'
  <2>1. OutcomeAgreement'
    BY <1>3, <1>4 DEF IInv, OutcomeAgreement, histories
  <2>2. outbox'[e] = [outbox[e] EXCEPT !.state = "pending"]
    BY DEF IInv, TypeOK
  <2>3. RowsFree'
    BY <1>2, <1>3, <2>2 DEF IInv, RowsFree, TypeOK, OutboxRows
  <2>4. ~ Ended(e)
    BY DEF IInv, Window
  <2>5. Window'
    BY <1>4, <2>4, WindowKept DEF ChannelSteady
  <2> QED
    BY <2>1, <2>3, <2>5
<1>7. IInv'
  BY <1>1, <1>3, <1>4, <1>5, <1>6, StepKeeps DEF IInv, TypeOK, histories
<1>8. Final
  BY <1>3, <1>4 DEF Final
<1>9. Honoured
  <2>1. Standing(outbox'[e]) = "waiting" /\ Holder(outbox'[e]) = NoWorker
    BY <1>3 DEF Standing, Holder
  <2>2. Contract!Move(e, "waiting", NoWorker)
    BY <1>3, <2>1, ContractMove
  <2>3. Standing(outbox[e]) = "absent"
    BY <1>2 DEF Standing
  <2>4. Contract!Post(e)
    BY <2>2, <2>3 DEF Contract!Post
  <2> QED
    BY <2>4 DEF Honoured, Contract!Next
<1>10. RowsOrdered /\ ReadsOrdered
  BY <1>3 DEF RowsOrdered, ReadsOrdered, Ended
<1> QED
  BY <1>7, <1>8, <1>9, <1>10 DEF Safe

LEMMA ExpireClaimStep ==
  ASSUME IInv, NEW e \in Executions, ExpireClaim(e)
  PROVE  Safe
<1> USE DEF ExpireClaim
<1>1. JobsKept
  BY DEF JobsKept, IInv, TypeOK
<1>2. budget' \in Nat
  BY SpendNat DEF IInv, TypeOK
<1>3. /\ outbox' \in [Executions -> OutboxRows]
      /\ outbox'[e].state = "claimed" /\ ~ outbox'[e].live
      /\ outbox'[e].owner = outbox[e].owner
      /\ \A f \in Executions \ {e} : outbox'[f] = outbox[f]
  BY DEF IInv, TypeOK, OutboxRows
<1>4. OutcomeAgreement' /\ RowsFree' /\ Window'
  <2>1. OutcomeAgreement' /\ RowsFree'
    BY <1>3 DEF IInv, OutcomeAgreement, RowsFree, histories
  <2>2. Window'
    BY WindowKept DEF ChannelSteady
  <2> QED
    BY <2>1, <2>2
<1>5. IInv'
  BY <1>1, <1>2, <1>3, <1>4, StepKeeps DEF IInv, TypeOK, histories
<1>6. Final
  BY <1>3 DEF Final, IInv, OutcomeAgreement, histories
<1>7. Honoured
  <2>0. PICK h : h = Holder(outbox[e])
    OBVIOUS
  <2>1. Standing(outbox'[e]) = "lapsed" /\ Holder(outbox'[e]) = h
    BY <1>3, <2>0 DEF Standing, Holder
  <2>2. Contract!Move(e, "lapsed", h)
    BY <1>3, <2>1, ContractMove
  <2>3. Standing(outbox[e]) = "held"
    BY DEF Standing
  <2>4. Contract!Lapse(e)
    BY <2>0, <2>2, <2>3 DEF Contract!Lapse, Contract!Move, Holder
  <2> QED
    BY <2>4 DEF Honoured, Contract!Next
<1>8. RowsOrdered /\ ReadsOrdered
  BY <1>3 DEF RowsOrdered, ReadsOrdered, Ended
<1> QED
  BY <1>5, <1>6, <1>7, <1>8 DEF Safe

LEMMA ChannelStep ==
  ASSUME IInv,
         \/ ExpireLease \/ FinishDisconnect \/ CompleteConnection \/ DenyConnection
  PROVE  Safe
<1> USE DEF ExpireLease, FinishDisconnect, CompleteConnection, DenyConnection
<1>1. JobsKept
  BY DEF JobsKept, IInv, TypeOK
<1>2. budget' \in Nat
  BY SpendNat DEF IInv, TypeOK
<1>3. channel \in ChannelRows /\ WithoutLease(channel) \in ChannelRows
  BY WithoutLeaseRow DEF IInv, TypeOK
<1>4. channel' \in ChannelRows /\ ChannelSteady
  BY <1>3 DEF ChannelRows, ChannelSteady
<1> QED
  BY <1>1, <1>2, <1>4, WorkStep DEF IInv, TypeOK, histories

LEMMA AttemptStep ==
  ASSUME IInv, ReadChannel \/ BeginConnection
  PROVE  Safe
<1> USE DEF ReadChannel, BeginConnection
<1>1. JobsKept
  BY DEF JobsKept, IInv, TypeOK
<1>2. transaction' \in Transactions
  BY DEF IInv, TypeOK, Transactions
<1>3. channel' \in ChannelRows
  BY DEF IInv, TypeOK, ChannelRows
<1>4. /\ transaction'.disconnection = transaction.disconnection
      /\ transaction'.ends = transaction.ends
      /\ channel'.state \in {channel.state, "connecting"}
  BY DEF IInv, TypeOK, Transactions, ChannelRows
<1>5. Window'
  BY <1>4 DEF IInv, Window, Ended
<1>6. ReadsOrdered
  BY <1>4 DEF ReadsOrdered, Ended
<1> QED
  BY <1>1, <1>2, <1>3, <1>5, <1>6, AsideStep DEF IInv, TypeOK, histories

(* A disconnection reads executions that are open, once its lock or the channel's
   state keeps the lease from everybody. *)
LEMMA ReadEndsStep ==
  ASSUME IInv, ReadUnstarted \/ ReadOpen
  PROVE  Safe
<1>1. JobsKept
  BY DEF JobsKept, ReadUnstarted, ReadOpen, IInv, TypeOK
<1>2. \E phase \in {"prepare", "erase"} :
        /\ phase = "erase" => channel.state = "disconnecting"
        /\ \E ends \in [Executions -> {"none", "cancelled", "needs_attention"}] :
             /\ transaction' = [transaction EXCEPT !.disconnection = phase, !.ends = ends]
             /\ phase = "prepare" => \A e \in Executions : ends[e] # "none" => Unstarted(e)
             /\ \A e \in Executions : ends[e] # "none" =>
                  \/ execution[e].state = "not_started"
                  \/ phase = "erase" /\ execution[e].state \in {"publishing", "processing"}
  <2>1. CASE ReadUnstarted
    <3> DEFINE ends == [e \in Executions |->
                          IF Unstarted(e) THEN "cancelled" ELSE "none"]
    <3>1. transaction' = [transaction EXCEPT !.disconnection = "prepare", !.ends = ends]
      BY <2>1 DEF ReadUnstarted, ReadEnds
    <3>2. ends \in [Executions -> {"none", "cancelled", "needs_attention"}]
      OBVIOUS
    <3>3. \A e \in Executions : ends[e] # "none" =>
            Unstarted(e) /\ execution[e].state = "not_started"
      BY DEF Unstarted
    <3> HIDE DEF ends
    <3> QED
      BY <3>1, <3>2, <3>3
  <2>2. CASE ReadOpen
    <3> DEFINE ends == [e \in Executions |->
                          IF Bound(e) THEN Terminalized(execution[e].state) ELSE "none"]
    <3>1. transaction' = [transaction EXCEPT !.disconnection = "erase", !.ends = ends]
      BY <2>2 DEF ReadOpen, ReadEnds
    <3>2. ends \in [Executions -> {"none", "cancelled", "needs_attention"}]
      BY DEF Terminalized
    <3>3. \A e \in Executions : ends[e] # "none" => execution[e].state \in OpenStates
      BY DEF Terminalized
    <3>4. channel.state = "disconnecting"
      BY <2>2 DEF ReadOpen
    <3> HIDE DEF ends
    <3> QED
      BY <3>1, <3>2, <3>3, <3>4
  <2> QED
    BY <2>1, <2>2
<1>3. /\ UNCHANGED <<content, execution, outbox, channel, histories, budget>>
  BY DEF ReadUnstarted, ReadOpen
<1>4. transaction' \in Transactions /\ Window'
  BY <1>2, <1>3 DEF IInv, TypeOK, Transactions, Window, Ended
<1>5. ReadsOrdered
  <2> SUFFICES ASSUME NEW e \in Executions,
                      transaction'.disconnection = "prepare",
                      transaction'.ends[e] # "none"
               PROVE  Unstarted(e)
    BY DEF ReadsOrdered, Ended
  <2>1. PICK phase \in {"prepare", "erase"} :
          \E ends \in [Executions -> {"none", "cancelled", "needs_attention"}] :
            /\ transaction' = [transaction EXCEPT !.disconnection = phase, !.ends = ends]
            /\ phase = "prepare" => \A f \in Executions : ends[f] # "none" => Unstarted(f)
    BY <1>2
  <2>2. transaction \in Transactions
    BY DEF IInv, TypeOK
  <2> QED
    BY <2>1, <2>2 DEF Transactions
<1> QED
  BY <1>1, <1>3, <1>4, <1>5, AsideStep DEF IInv, TypeOK, histories

LEMMA CancelMove ==
  ASSUME NEW S \in SUBSET Executions,
         \A e \in S : Standing(outbox[e]) \in {"waiting", "held", "lapsed"},
         \A e \in Executions :
           /\ Standing(outbox'[e]) = IF e \in S THEN "dead" ELSE Standing(outbox[e])
           /\ Holder(outbox'[e]) = IF e \in S THEN NoWorker ELSE Holder(outbox[e])
  PROVE  Honoured
<1>1. Contract!Cancel(S)
  BY DEF Contract!Cancel, Contract!Ends, Standing, Holder
<1> QED
  BY <1>1 DEF Honoured, Contract!Next

(* A disconnection ends the executions it has read, and the rows that have not
   ended; a dead row it closes again stays as it is. *)
LEMMA CancelStep ==
  ASSUME IInv, NEW phase, transaction.disconnection = phase, phase \in {"prepare", "erase"},
         CloseDisconnection,
         UNCHANGED <<job, histories, budget>>,
         content' \in [Contents -> ContentRows],
         channel' \in ChannelRows,
         execution' \in [Executions -> ExecutionRows],
         \A e \in Executions : execution'[e].state = EndedState(e),
         outbox' = [e \in Executions |->
           IF /\ Ended(e)
              /\ phase = "prepare" \/ outbox[e].state \notin {"completed", "dead"}
           THEN ClosedRow(outbox[e]) ELSE outbox[e]]
  PROVE  Safe
<1>1. JobsKept
  BY DEF JobsKept, IInv, TypeOK
<1>2. \A e \in Executions : ClosedRow(outbox[e]) \in OutboxRows
        /\ ClosedRow(outbox[e]).state = "dead"
        /\ ClosedRow(outbox[e]).owner = NoWorker /\ ~ ClosedRow(outbox[e]).live
  BY UnclaimedRow DEF ClosedRow, IInv, TypeOK
<1>3. ASSUME NEW e \in Executions, outbox[e].state = "dead"
      PROVE  ClosedRow(outbox[e]) = outbox[e]
  <2> DEFINE r == outbox[e]
  <2>1. /\ r.owner = NoWorker /\ r.live = FALSE /\ r.attempt \in Nat
        /\ r = [state |-> r.state, owner |-> r.owner, generation |-> r.generation,
                live |-> r.live, attempt |-> r.attempt]
    BY <1>3 DEF IInv, RowsFree, TypeOK, OutboxRows
  <2>2. r.attempt + 0 = r.attempt
    BY <2>1
  <2>3. ClosedRow(r) = [r EXCEPT !.state = "dead", !.owner = NoWorker, !.live = FALSE,
                                 !.attempt = r.attempt]
    BY <2>2 DEF ClosedRow, Unclaimed
  <2> HIDE DEF r
  <2>4. r.state = "dead"
    BY <1>3 DEF r
  <2>5. ClosedRow(r) = r
    BY <2>1, <2>3, <2>4
  <2> QED
    BY <2>5 DEF r
<1>4. \A e \in Executions : Ended(e) =>
        /\ EndedState(e) \in DeadStates /\ outbox[e].state # "absent"
        /\ e \notin overrun => outbox[e].state \in {"pending", "claimed", "dead"}
  <2> TAKE e \in Executions
  <2>1. ASSUME Ended(e) PROVE EndedState(e) \in DeadStates
    BY <2>1 DEF Ended, EndedState, IInv, TypeOK, Transactions
  <2>2. ASSUME Ended(e) PROVE execution[e].state \in OpenStates \cup DeadStates
    BY <2>2 DEF IInv, Window
  <2> QED
    BY <2>1, <2>2 DEF IInv, OutcomeAgreement
<1>5. \A e \in Executions : ~ Ended(e) => EndedState(e) = execution[e].state
  BY DEF EndedState
<1> DEFINE closes(e) == /\ Ended(e)
                        /\ phase = "prepare" \/ outbox[e].state \notin {"completed", "dead"}
<1>6. /\ outbox' \in [Executions -> OutboxRows]
      /\ \A e \in Executions :
           outbox'[e] = IF closes(e) THEN ClosedRow(outbox[e]) ELSE outbox[e]
  BY <1>2 DEF IInv, TypeOK
<1> HIDE DEF closes
<1>7. OutcomeAgreement' /\ RowsFree'
  <2>1. OutcomeAgreement'
    <3> SUFFICES ASSUME NEW e \in Executions
                 PROVE  OutcomeAgreement!(e)'
      BY DEF OutcomeAgreement
    <3>1. CASE Ended(e)
      BY <1>2, <1>4, <1>6, <3>1 DEF closes, IInv, OutcomeAgreement, histories
    <3>2. CASE ~ Ended(e)
      BY <1>5, <1>6, <3>2 DEF closes, IInv, OutcomeAgreement, histories
    <3> QED
      BY <3>1, <3>2
  <2>2. RowsFree'
    BY <1>2, <1>6 DEF IInv, RowsFree
  <2> QED
    BY <2>1, <2>2
<1>8. transaction' \in Transactions /\ Window'
  BY DEF CloseDisconnection, NoEnds, IInv, TypeOK, Transactions, Window, Ended
<1>9. IInv'
  BY <1>1, <1>2, <1>4, <1>6, <1>7, <1>8, StepKeeps DEF IInv, TypeOK, histories
<1>10. Final
  <2> SUFFICES ASSUME NEW e \in Executions,
                      execution[e].state \in Settled, e \notin overrun
               PROVE  /\ execution'[e].state \in {execution[e].state, transaction.ends[e]}
                      /\ outbox'[e] = outbox[e]
    BY DEF Final, histories
  <2>1. EndedState(e) \in {execution[e].state, transaction.ends[e]}
    BY DEF EndedState
  <2>2. Ended(e) => outbox[e].state = "dead"
    BY <1>4 DEF IInv, OutcomeAgreement
  <2> QED
    BY <1>3, <1>6, <2>1, <2>2 DEF closes
<1>11. ASSUME Spared PROVE Honoured
  <2> DEFINE S == {e \in Executions :
                     closes(e) /\ outbox[e].state \in {"pending", "claimed"}}
  <2>1. ASSUME NEW e \in Executions
        PROVE  outbox'[e] = IF e \in S THEN ClosedRow(outbox[e]) ELSE outbox[e]
    <3>1. closes(e) => outbox[e].state \in {"pending", "claimed", "dead"}
      BY <1>4, <1>11 DEF closes, Spared, IInv, TypeOK, OutboxRows
    <3> QED
      BY <1>3, <1>6, <3>1
  <2>2. \A e \in S : Standing(outbox[e]) \in {"waiting", "held", "lapsed"}
    BY DEF Standing
  <2>3. S \in SUBSET Executions
    OBVIOUS
  <2> HIDE DEF S
  <2>4. \A e \in Executions :
          /\ Standing(outbox'[e]) = IF e \in S THEN "dead" ELSE Standing(outbox[e])
          /\ Holder(outbox'[e]) = IF e \in S THEN NoWorker ELSE Holder(outbox[e])
    BY <1>2, <2>1 DEF Standing, Holder
  <2> QED
    BY <2>2, <2>3, <2>4, CancelMove
<1>12. RowsOrdered /\ ReadsOrdered
  BY <1>2, <1>6
  DEF RowsOrdered, ReadsOrdered, CloseDisconnection, IInv, TypeOK, Transactions
<1> QED
  BY <1>9, <1>10, <1>11, <1>12 DEF Safe

LEMMA PrepareStep ==
  ASSUME IInv, PrepareDisconnect
  PROVE  Safe
<1>1. \A e \in Executions : EndedState(e) \in {"absent"} \cup OpenStates \cup Settled
  BY DEF EndedState, Ended, IInv, TypeOK, Transactions, ExecutionRows
<1>2. ASSUME NEW e \in Executions
      PROVE  execution'[e] \in ExecutionRows /\ execution'[e].state = EndedState(e)
  <2>1. execution'[e] = [execution[e] EXCEPT !.state = EndedState(e)]
    BY DEF PrepareDisconnect
  <2>2. execution[e] \in ExecutionRows
    BY DEF IInv, TypeOK
  <2> QED
    BY <1>1, <2>1, <2>2 DEF ExecutionRows
<1>3. execution' \in [Executions -> ExecutionRows]
  BY <1>2 DEF PrepareDisconnect
<1>4. channel' \in ChannelRows
  <2>1. channel \in ChannelRows /\ channel.generation + 1 \in Nat
    BY DEF IInv, TypeOK, ChannelRows
  <2> QED
    BY <2>1 DEF PrepareDisconnect, ChannelRows
<1> QED
  BY <1>2, <1>3, <1>4, CancelStep DEF PrepareDisconnect, IInv, TypeOK

LEMMA RevokeStep ==
  ASSUME IInv, RevokeAndErase
  PROVE  Safe
<1>1. \A e \in Executions : EndedState(e) \in {"absent"} \cup OpenStates \cup Settled
  BY DEF EndedState, Ended, IInv, TypeOK, Transactions, ExecutionRows
<1>2. ASSUME NEW e \in Executions
      PROVE  execution'[e] \in ExecutionRows /\ execution'[e].state = EndedState(e)
  <2> DEFINE q == execution[e].provider /\ ~ Bound(e)
  <2>1. execution'[e] = [execution[e] EXCEPT !.state = EndedState(e), !.provider = q]
    BY DEF RevokeAndErase
  <2>2. execution[e] \in ExecutionRows /\ q \in BOOLEAN
    BY DEF IInv, TypeOK
  <2> HIDE DEF q
  <2> QED
    BY <1>1, <2>1, <2>2 DEF ExecutionRows
<1>3. execution' \in [Executions -> ExecutionRows]
  BY <1>2 DEF RevokeAndErase
<1>4. content' \in [Contents -> ContentRows]
  BY ForgetContents DEF RevokeAndErase, IInv
<1>5. channel' \in ChannelRows
  BY WithoutLeaseRow DEF RevokeAndErase, IInv, TypeOK, ChannelRows
<1> QED
  BY <1>2, <1>3, <1>4, <1>5, CancelStep DEF RevokeAndErase

-----------------------------------------------------------------------------
(* The theorems *)

LEMMA InitIInv == Init => IInv /\ Contract!Init
<1> SUFFICES ASSUME Init PROVE IInv /\ Contract!Init
  OBVIOUS
<1> USE DEF Init
<1>1. TypeOK
  <2>1. NoJob \in Jobs /\ NoJob.step = "idle"
    BY DEF NoJob, Jobs
  <2> QED
    BY <2>1, BoundAssumption DEF TypeOK, ContentRows, ExecutionRows, OutboxRows,
       ChannelRows, Transactions, NoTransaction, NoEnds
<1>2. OutcomeAgreement
  BY DEF OutcomeAgreement
<1>3. JobsNameRows
  BY DEF JobsNameRows, NoJob
<1>4. Contract!Init
  BY DEF Contract!Init, Standing
<1>5. RowsFree /\ Window
  BY DEF RowsFree, Window, Ended, NoTransaction, NoEnds
<1> QED
  BY <1>1, <1>2, <1>3, <1>4, <1>5 DEF IInv

LEMMA NextSafe == IInv /\ [Next]_vars => Safe
<1> SUFFICES ASSUME IInv, [Next]_vars PROVE Safe
  OBVIOUS
<1>1. CASE Publisher
  BY <1>1, AuthorStep, ConfirmStep, ReadEndsStep, AttemptStep, ChannelStep DEF Publisher
<1>2. ASSUME NEW w \in Workers, Work(w) PROVE Safe
  BY <1>2, ClaimMessageStep, ReadExecutionStep, ReadWorkStep, ReadRefusedStep,
     UploadStep, RecordStep, PollPublishedStep, PollStep, FailWithoutWorkStep,
     ResetStep, RetryLaterStep, LeavingStep DEF Work
<1>3. ASSUME NEW w \in Workers, Disturbance(w) PROVE Safe
  BY <1>3, ReadRefusedStep, UploadStep, RecordStep, LeavingStep DEF Disturbance
<1>4. CASE Disconnector
  BY <1>4, PrepareStep, ReadEndsStep, RevokeStep, ChannelStep DEF Disconnector
<1>5. ASSUME NEW e \in Executions, ExpireClaim(e) PROVE Safe
  BY <1>5, ExpireClaimStep
<1>6. CASE ExpireLease
  BY <1>6, ChannelStep
<1>7. CASE UNCHANGED vars
  <2>1. JobsKept
    BY <1>7 DEF vars, JobsKept, IInv, TypeOK
  <2> QED
    BY <1>7, <2>1, WorkStep DEF vars, IInv, TypeOK, ChannelSteady, histories
<1> QED
  BY <1>1, <1>2, <1>3, <1>4, <1>5, <1>6, <1>7 DEF Next

THEOREM Invariance == Spec => []IInv
<1>1. Init => IInv
  BY InitIInv
<1>2. IInv /\ [Next]_vars => IInv'
  BY NextSafe DEF Safe
<1> QED
  BY <1>1, <1>2, PTL DEF Spec

(* The rows and the jobs keep their shapes. *)
THEOREM TypeCorrect == Spec => []TypeOK
<1>1. IInv => TypeOK
  BY DEF IInv
<1> QED
  BY <1>1, Invariance, PTL

(* Executions and their outbox rows end together, and the same way, but for those
   that a read which was overtaken has started again. *)
THEOREM OutcomesAgree == Spec => []OutcomeAgreement
<1>1. IInv => OutcomeAgreement
  BY DEF IInv
<1> QED
  BY <1>1, Invariance, PTL

(* No step of anybody changes what has ended, with the two exceptions of the
   updates by id: the end that a disconnection has read for an execution when it
   was open replaces the one a worker gave it meanwhile, and a read of the work
   that was overtaken starts the execution again. *)
THEOREM EndsAreFinal == Spec => TerminalIsFinal
<1>1. IInv /\ [Next]_vars =>
        [\A e \in Executions : execution[e].state \in Settled /\ e \notin overrun' =>
           /\ execution'[e].state \in {execution[e].state, transaction.ends[e]}
           /\ outbox'[e] = outbox[e]]_vars
  BY NextSafe DEF Safe, Final
<1> QED
  BY <1>1, Invariance, PTL DEF Spec, TerminalIsFinal

=============================================================================
