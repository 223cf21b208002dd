------------------------ MODULE PublishSafety_proofs ------------------------
(***************************************************************************)
(* What holds of PublishExecution under every fault: no two workers upload   *)
(* for one execution at once, unless a read of one was overtaken; what is    *)
(* shown as published is at the provider; the retry counter is bounded; and   *)
(* the rows behave as the contract of the outbox says.                       *)
(***************************************************************************)
EXTENDS PublishExecution_proofs

Active(w) == job[w].step \notin {"idle", "finally"}

(* The provider's reference is there, or the whole account is gone. *)
Referenced(e) == execution[e].provider \/ ~ Bound(e)

(* The worker is uploading, or failed at it: it may reset the execution. *)
Uploading(w) ==
  /\ job[w].step \in {"upload", "uploaded", "failed"}
  /\ job[w].state = "publishing" /\ ~ job[w].provider

JobShape(w) ==
  /\ job[w].step = "claimed" => job[w].state = "none"
  /\ job[w].step = "reading" =>
       /\ job[w].state \in OpenStates
       /\ job[w].state # "not_started" => job[w].provider
  /\ job[w].step \in {"upload", "uploaded"} => Uploading(w)
  /\ job[w].step = "uploaded" => uploads[job[w].execution] > 0
  /\ job[w].step \in {"resume", "transfer", "poll"} => job[w].provider
  /\ job[w].step = "retrying" => job[w].attempt < MaxAttempts

(* An execution is started once for each time it is not started, and only who
   started it can put it back; unless its start was overtaken, for then another
   one may have started it since it was read. *)
OneUploader ==
  /\ \A w \in Workers : JobShape(w)
  /\ \A w \in Workers : Uploading(w) =>
       execution[job[w].execution].state # "not_started" \/ job[w].execution \in overrun
  /\ \A v, w \in Workers :
       Uploading(v) /\ Uploading(w) /\ job[v].execution = job[w].execution =>
         v = w \/ job[w].execution \in overrun

RealExecution(e) ==
  /\ execution[e].provider => uploads[e] > 0
  /\ execution[e].state \in {"processing", "published"} =>
       uploads[e] > 0 /\ Referenced(e)
  /\ outbox[e].state = "completed" => Referenced(e)

NoDraftConfirmed == \A e \in Executions, c \in Contents :
  execution[e].content = c => content[c].status # "draft"

(* A completed row keeps its execution out of the disconnection's reach: what that
   reads has no reference. *)
Real == NoDraftConfirmed /\ Spared /\ \A e \in Executions : RealExecution(e)

(* The attempt that a worker counts from is the one in the row it claimed. *)
Counted ==
  /\ AttemptBound
  /\ \A w \in Workers : Active(w) /\ HoldsClaim(w) =>
       job[w].attempt = outbox[job[w].execution].attempt

SafetyInv == IInv /\ OneUploader /\ Real /\ Counted

USE DEF Settled, OpenStates, DeadStates, Categories, Steps, ChannelStates

-----------------------------------------------------------------------------
(* Leaving and failing *)

LEMMA LeftQuits ==
  ASSUME TypeOK, NEW w \in Workers, Leave(w)
  PROVE  /\ job'[w].step \in {"idle", "finally"}
         /\ \A v \in Workers \ {w} : job'[v] = job[v]
<1>1. Left(job[w]).step \in {"idle", "finally"}
  BY DEF Left, NoJob, TypeOK, Jobs
<1> QED
  BY <1>1 DEF Leave, TypeOK

LEMMA ThrownFails ==
  ASSUME TypeOK, NEW w \in Workers, NEW category, Throw(w, category)
  PROVE  /\ \A v \in Workers \ {w} : job'[v] = job[v]
         /\ \/ job'[w].step \in {"idle", "finally"}
            \/ /\ job'[w].step = "failed" /\ job'[w].category = category
               /\ job'[w].execution = job[w].execution
               /\ job'[w].generation = job[w].generation
               /\ job'[w].attempt = job[w].attempt
               /\ job'[w].state = job[w].state
               /\ job'[w].provider = job[w].provider
<1>1. job'[w] = Thrown(job[w], category) /\ \A v \in Workers \ {w} : job'[v] = job[v]
  BY DEF Throw, TypeOK
<1>2. CASE job[w].lost
  <2>1. job'[w] = Left(job[w])
    BY <1>1, <1>2 DEF Thrown
  <2>2. Left(job[w]).step \in {"idle", "finally"}
    BY DEF Left, NoJob, TypeOK, Jobs
  <2> QED
    BY <1>1, <2>1, <2>2
<1>3. CASE ~ job[w].lost
  <2>1. job'[w] = [job[w] EXCEPT !.step = "failed", !.category = category]
    BY <1>1, <1>3 DEF Thrown
  <2>2. job[w] \in Jobs
    BY DEF TypeOK
  <2> QED
    BY <1>1, <2>1, <2>2 DEF Jobs
<1> QED
  BY <1>2, <1>3

LEMMA EndClaimOthers ==
  ASSUME TypeOK, NEW e \in Executions, NEW state, NEW n, EndClaim(e, state, n)
  PROVE  \A f \in Executions \ {e} : outbox'[f] = outbox[f]
BY DEF EndClaim, TypeOK

LEMMA EndedRow ==
  ASSUME TypeOK, NEW e \in Executions, NEW state, NEW n, EndClaim(e, state, n)
  PROVE  /\ outbox'[e].state = state /\ ~ outbox'[e].live
         /\ outbox'[e].attempt = outbox[e].attempt + n
BY DEF EndClaim, Unclaimed, TypeOK, OutboxRows

-----------------------------------------------------------------------------
(* What a step may do without more being said *)

ContentEvolves(c) ==
  /\ content'[c].latest = content[c].latest
  /\ content[c].status # "draft" => content'[c].status # "draft"
  /\ content'[c].bound => content[c].bound \/ content[c].status = "draft"

(* No object and no reference gets lost, save with the account; the execution
   is neither started nor put back. *)
RealEvolves(e) ==
  /\ uploads'[e] >= uploads[e]
  /\ execution'[e].content = execution[e].content
  /\ \/ execution'[e].provider = execution[e].provider
     \/ ~ execution'[e].provider /\ ~ Bound(e)'
     \/ execution'[e].provider /\ uploads'[e] > 0
  /\ \/ execution'[e].state = execution[e].state
     \/ execution'[e].state \in DeadStates
     \/ /\ execution'[e].state \in {"publishing", "processing", "published"}
        /\ uploads'[e] > 0 /\ (execution'[e].provider \/ ~ Bound(e)')

RealEvolution ==
  /\ \A e \in Executions : RealEvolves(e)
  /\ \A c \in Contents : ContentEvolves(c)

(* A worker that goes on works as before; no row is claimed. *)
JobEvolves(v) ==
  /\ JobShape(v)'
  /\ Uploading(v)' => Uploading(v) /\ job'[v].execution = job[v].execution
  /\ job'[v].step \notin {"idle", "finally"} =>
       /\ Active(v) /\ job'[v].execution = job[v].execution
       /\ job'[v].generation = job[v].generation /\ job'[v].attempt = job[v].attempt

RowEvolves(e) ==
  \/ outbox'[e] = outbox[e]
  \/ /\ outbox'[e].state # "claimed" \/ ~ outbox'[e].live
     /\ outbox'[e].attempt <= outbox[e].attempt
  \/ /\ outbox'[e].state # "claimed"
     /\ \/ outbox'[e].attempt <= MaxAttempts
        \/ Platform = "tiktok" /\ outbox'[e].attempt <= MaxPolls

LEMMA SparedKept ==
  ASSUME SafetyInv, Safe
  PROVE  Spared'
<1> SUFFICES ASSUME NEW e \in Executions, transaction'.disconnection = "prepare",
                    Ended(e)'
             PROVE  outbox'[e].state # "completed"
  BY DEF Spared
<1>1. CASE Unstarted(e)
  <2>1. execution[e].state = "not_started" /\ ~ Referenced(e)
    BY <1>1 DEF Unstarted, Referenced
  <2>2. outbox[e].state # "completed"
    BY <2>1 DEF SafetyInv, Real, RealExecution
  <2> QED
    BY <2>1, <2>2 DEF Safe, RowsOrdered
<1>2. CASE transaction.disconnection = "prepare" /\ Ended(e)
  <2>1. execution[e].state \in {"not_started", "failed", "needs_attention"}
    BY <1>2 DEF SafetyInv, IInv, Window
  <2>2. outbox[e].state # "completed"
    BY <1>2 DEF SafetyInv, Real, Spared
  <2> QED
    BY <2>1, <2>2 DEF Safe, RowsOrdered
<1> QED
  BY <1>1, <1>2 DEF Safe, ReadsOrdered

LEMMA RealKeeps ==
  ASSUME SafetyInv, Safe, RealEvolution, TypeOK'
  PROVE  Real'
<1>1. ASSUME NEW e \in Executions, Bound(e)' PROVE Bound(e)
  <2>1. PICK c \in Contents : execution'[e].content = c /\ content'[c].bound
    BY <1>1 DEF Bound
  <2>2. execution[e].content = c /\ content[c].status # "draft"
    BY <2>1 DEF SafetyInv, Real, NoDraftConfirmed, RealEvolution, RealEvolves
  <2> QED
    BY <2>1, <2>2 DEF Bound, RealEvolution, ContentEvolves
<1>2. NoDraftConfirmed'
  BY DEF SafetyInv, Real, NoDraftConfirmed, RealEvolution, RealEvolves, ContentEvolves
<1>3. ASSUME NEW e \in Executions PROVE RealExecution(e)'
  <2>1. /\ RealExecution(e) /\ RealEvolves(e)
        /\ uploads[e] \in Nat /\ uploads'[e] \in Nat
    BY DEF SafetyInv, IInv, TypeOK, Real, RealEvolution
  <2>2. Referenced(e) => Referenced(e)' \/ execution'[e].provider # execution[e].provider
    BY <1>1 DEF Referenced
  <2>3. Referenced(e) => Referenced(e)'
    BY <2>1, <2>2 DEF RealEvolves, Referenced
  <2>4. outbox'[e].state = "completed" =>
          \/ outbox[e].state = "completed"
          \/ execution[e].state \in {"processing", "published"}
    BY DEF Safe, RowsOrdered
  <2> QED
    BY <2>1, <2>3, <2>4 DEF RealExecution, RealEvolves, Referenced
<1> QED
  BY <1>2, <1>3, SparedKept DEF Real

LEMMA JobsKeep ==
  ASSUME SafetyInv, TypeOK', UNCHANGED overrun, \A e \in Executions : RealEvolves(e),
         \A v \in Workers : JobEvolves(v)
  PROVE  OneUploader'
<1>1. ASSUME NEW v \in Workers, Uploading(v)'
      PROVE  \/ execution'[job'[v].execution].state # "not_started"
             \/ job'[v].execution \in overrun
  <2>1. Uploading(v) /\ job'[v].execution = job[v].execution
    BY <1>1 DEF JobEvolves
  <2>2. PICK e \in Executions : e = job[v].execution
    BY <2>1 DEF Uploading, SafetyInv, IInv, TypeOK
  <2>3. RealEvolves(e) /\ (execution[e].state # "not_started" \/ e \in overrun)
    BY <2>1, <2>2 DEF SafetyInv, OneUploader
  <2> QED
    BY <2>1, <2>2, <2>3 DEF RealEvolves
<1> QED
  BY <1>1 DEF OneUploader, SafetyInv, JobEvolves

LEMMA CountKeeps ==
  ASSUME SafetyInv, TypeOK', \A e \in Executions : RowEvolves(e),
         \A v \in Workers : JobEvolves(v)
  PROVE  Counted'
<1>1. AttemptBound'
  <2> SUFFICES ASSUME NEW e \in Executions
               PROVE  \/ outbox'[e].attempt <= MaxAttempts
                      \/ Platform = "tiktok" /\ outbox'[e].attempt <= MaxPolls
    BY DEF AttemptBound
  <2>1. /\ outbox[e].attempt \in Nat /\ outbox'[e].attempt \in Nat
        /\ MaxAttempts \in Nat /\ MaxPolls \in Nat
    BY BoundAssumption DEF SafetyInv, IInv, TypeOK, OutboxRows
  <2>2. \/ outbox[e].attempt <= MaxAttempts
        \/ Platform = "tiktok" /\ outbox[e].attempt <= MaxPolls
    BY DEF SafetyInv, Counted, AttemptBound
  <2> QED
    BY <2>1, <2>2 DEF RowEvolves
<1>2. ASSUME NEW v \in Workers, Active(v)', HoldsClaim(v)'
      PROVE  job'[v].attempt = outbox'[job'[v].execution].attempt
  <2>1. PICK e \in Executions : e = job[v].execution /\ e = job'[v].execution
    BY <1>2 DEF Active, JobEvolves, SafetyInv, IInv, TypeOK
  <2>2. outbox'[e] = outbox[e]
    BY <1>2, <2>1 DEF HoldsClaim, RowEvolves
  <2> QED
    BY <1>2, <2>1, <2>2 DEF Active, HoldsClaim, JobEvolves, SafetyInv, Counted
<1> QED
  BY <1>1, <1>2 DEF Counted

LEMMA EvolutionSafe ==
  ASSUME SafetyInv, Safe, UNCHANGED overrun, RealEvolution,
         \A e \in Executions : RowEvolves(e),
         \A v \in Workers : JobEvolves(v)
  PROVE  SafetyInv'
BY RealKeeps, JobsKeep, CountKeeps DEF SafetyInv, Safe, IInv, RealEvolution

(* The same, for a step of one worker that writes at most its own row. *)
LEMMA WorkerSafe ==
  ASSUME SafetyInv, Safe, NEW w \in Workers, NEW e \in Executions, UNCHANGED overrun,
         RealEvolution, JobEvolves(w), RowEvolves(e),
         \A v \in Workers \ {w} : job'[v] = job[v],
         \A f \in Executions \ {e} : outbox'[f] = outbox[f]
  PROVE  SafetyInv'
<1>1. ASSUME NEW v \in Workers \ {w} PROVE JobEvolves(v)
  <2>1. JobShape(v) /\ (job[v].step # "idle" => job[v].execution \in Executions)
    BY DEF SafetyInv, OneUploader, IInv, TypeOK
  <2>2. \A f \in Executions : uploads[f] \in Nat /\ uploads'[f] \in Nat
                              /\ uploads'[f] >= uploads[f]
    BY DEF SafetyInv, Safe, IInv, TypeOK, RealEvolution, RealEvolves
  <2>3. Uploading(v)' <=> Uploading(v)
    BY DEF Uploading
  <2>4. JobShape(v)'
    BY <2>1, <2>2, <2>3 DEF JobShape
  <2> QED
    BY <2>3, <2>4 DEF JobEvolves, Active
<1>2. ASSUME NEW f \in Executions PROVE RowEvolves(f)
  BY DEF RowEvolves
<1> QED
  BY <1>1, <1>2, EvolutionSafe

-----------------------------------------------------------------------------
(* The user, the channel, and time *)

(* Steps that leave the jobs alone. *)
LEMMA AsideSafe ==
  ASSUME SafetyInv, Safe, UNCHANGED <<job, overrun>>, RealEvolution,
         \A e \in Executions : RowEvolves(e)
  PROVE  SafetyInv'
<1> SUFFICES ASSUME NEW v \in Workers PROVE JobEvolves(v)
  BY EvolutionSafe
<1>1. JobShape(v) /\ (job[v].step # "idle" => job[v].execution \in Executions)
  BY DEF SafetyInv, OneUploader, IInv, TypeOK
<1>2. \A f \in Executions : uploads[f] \in Nat /\ uploads'[f] \in Nat
                            /\ uploads'[f] >= uploads[f]
  BY DEF SafetyInv, Safe, IInv, TypeOK, RealEvolution, RealEvolves
<1>3. Uploading(v)' <=> Uploading(v)
  BY DEF Uploading
<1> QED
  BY <1>1, <1>2, <1>3 DEF JobEvolves, JobShape, Active

LEMMA Unmoved ==
  ASSUME SafetyInv, UNCHANGED <<execution, uploads>>
  PROVE  \A e \in Executions : RealEvolves(e)
BY DEF RealEvolves, SafetyInv, IInv, TypeOK

LEMMA AuthorSafe ==
  ASSUME SafetyInv, Safe, NEW c \in Contents, ApproveContent(c) \/ EditContent(c)
  PROVE  SafetyInv'
<1>1. \A d \in Contents : ContentEvolves(d)
  BY DEF ContentEvolves, ApproveContent, EditContent, SafetyInv, IInv, TypeOK, ContentRows
<1>2. RealEvolution
  BY <1>1, Unmoved DEF RealEvolution, ApproveContent, EditContent, histories
<1> QED
  BY <1>2, AsideSafe DEF ApproveContent, EditContent, RowEvolves, histories

LEMMA ChannelSafe ==
  ASSUME SafetyInv, Safe,
         \/ ReadChannel \/ BeginConnection \/ CompleteConnection \/ DenyConnection
         \/ ReadUnstarted \/ ReadOpen \/ FinishDisconnect
         \/ ExpireLease \/ UNCHANGED vars
  PROVE  SafetyInv'
<1>1. UNCHANGED <<content, execution, outbox, job, uploads, overrun>>
  BY DEF ReadChannel, BeginConnection, CompleteConnection, DenyConnection,
         ReadUnstarted, ReadOpen, FinishDisconnect, ExpireLease, vars, histories
<1>2. RealEvolution
  BY <1>1, Unmoved DEF RealEvolution, ContentEvolves
<1> QED
  BY <1>1, <1>2, AsideSafe DEF RowEvolves

LEMMA ExpireClaimSafe ==
  ASSUME SafetyInv, Safe, NEW e \in Executions, ExpireClaim(e)
  PROVE  SafetyInv'
<1>1. RealEvolution
  BY Unmoved DEF ExpireClaim, histories, RealEvolution, ContentEvolves
<1>2. ASSUME NEW f \in Executions PROVE RowEvolves(f)
  BY DEF ExpireClaim, RowEvolves, SafetyInv, IInv, TypeOK, OutboxRows
<1> QED
  BY <1>1, <1>2, AsideSafe DEF ExpireClaim, histories

LEMMA ConfirmSafe ==
  ASSUME SafetyInv, Safe, NEW c \in Contents, NEW e \in Executions,
         ConfirmPublishing(c, e)
  PROVE  SafetyInv'
<1>1. /\ UNCHANGED <<job, uploads, overrun>>
      /\ \A f \in Executions \ {e} :
           execution'[f] = execution[f] /\ outbox'[f] = outbox[f]
      /\ execution'[e].state = "not_started" /\ execution'[e].content = c
      /\ execution'[e].provider = execution[e].provider
      /\ outbox'[e].state = "pending" /\ outbox'[e].attempt = outbox[e].attempt
      /\ content[c].status # "draft"
      /\ \A d \in Contents : /\ content'[d].status = content[d].status
                             /\ content'[d].bound = content[d].bound
  BY DEF ConfirmPublishing, SafetyInv, IInv, TypeOK, ContentRows, ExecutionRows,
         OutboxRows, histories
<1>2. ASSUME NEW v \in Workers, job[v].step # "idle"
      PROVE  job[v].execution \in Executions \ {e}
  BY <1>2 DEF ConfirmPublishing, SafetyInv, IInv, TypeOK, JobsNameRows, OutcomeAgreement
<1>3. ASSUME NEW v \in Workers PROVE JobShape(v)' /\ (Uploading(v)' <=> Uploading(v))
  BY <1>1 DEF SafetyInv, OneUploader, JobShape, Uploading
<1>4. OneUploader'
  BY <1>1, <1>2, <1>3 DEF SafetyInv, OneUploader, Uploading
<1>5. ASSUME NEW f \in Executions PROVE RealExecution(f)'
  <2>1. RealExecution(f)
    BY DEF SafetyInv, Real
  <2>2. f # e => (Referenced(f)' <=> Referenced(f))
    BY <1>1 DEF Referenced, Bound
  <2> QED
    BY <1>1, <2>1, <2>2 DEF RealExecution
<1>6. NoDraftConfirmed'
  BY <1>1 DEF SafetyInv, Real, NoDraftConfirmed
<1>7. AttemptBound'
  BY <1>1 DEF SafetyInv, Counted, AttemptBound
<1>8. Counted'
  BY <1>1, <1>2, <1>7 DEF SafetyInv, Counted, Active, HoldsClaim
<1> QED
  BY <1>4, <1>5, <1>6, <1>8, SparedKept DEF SafetyInv, Safe, Real

LEMMA PrepareSafe ==
  ASSUME SafetyInv, Safe, PrepareDisconnect
  PROVE  SafetyInv'
<1>1. ASSUME NEW e \in Executions
      PROVE  /\ execution'[e].content = execution[e].content
             /\ execution'[e].provider = execution[e].provider
             /\ \/ execution'[e].state = execution[e].state
                \/ execution'[e].state \in DeadStates
             /\ RowEvolves(e)
  <2>1. /\ execution[e] \in ExecutionRows /\ outbox[e] \in OutboxRows
        /\ EndedState(e) = execution[e].state \/ EndedState(e) \in DeadStates
    BY DEF EndedState, Ended, SafetyInv, IInv, TypeOK, Transactions
  <2>2. /\ execution'[e] = [execution[e] EXCEPT !.state = EndedState(e)]
        /\ outbox'[e] = IF Ended(e) THEN ClosedRow(outbox[e]) ELSE outbox[e]
    BY DEF PrepareDisconnect
  <2>3. ClosedRow(outbox[e]).state = "dead"
        /\ ClosedRow(outbox[e]).attempt = outbox[e].attempt
    BY <2>1 DEF ClosedRow, Unclaimed, OutboxRows
  <2> QED
    BY <2>1, <2>2, <2>3 DEF ExecutionRows, OutboxRows, RowEvolves
<1>2. UNCHANGED <<content, uploads>> /\ \A e \in Executions : uploads[e] \in Nat
  BY DEF PrepareDisconnect, histories, SafetyInv, IInv, TypeOK
<1>3. \A e \in Executions : RealEvolves(e)
  BY <1>1, <1>2 DEF RealEvolves
<1>4. RealEvolution
  BY <1>2, <1>3 DEF RealEvolution, ContentEvolves
<1> QED
  BY <1>1, <1>4, AsideSafe DEF PrepareDisconnect, histories

LEMMA RevokeSafe ==
  ASSUME SafetyInv, Safe, RevokeAndErase
  PROVE  SafetyInv'
<1>1. \A c \in Contents : ContentEvolves(c) /\ ~ content'[c].bound
  BY DEF RevokeAndErase, ForgetAccount, ContentEvolves, SafetyInv, IInv, TypeOK, ContentRows
<1>2. ASSUME NEW e \in Executions
      PROVE  /\ execution'[e].content = execution[e].content
             /\ \/ execution'[e].provider = execution[e].provider
                \/ ~ execution'[e].provider
             /\ \/ execution'[e].state = execution[e].state
                \/ execution'[e].state \in DeadStates
             /\ RowEvolves(e)
  <2> DEFINE q == execution[e].provider /\ ~ Bound(e)
  <2>1. /\ execution[e] \in ExecutionRows /\ outbox[e] \in OutboxRows
        /\ EndedState(e) = execution[e].state \/ EndedState(e) \in DeadStates
    BY DEF EndedState, Ended, SafetyInv, IInv, TypeOK, Transactions
  <2>2. /\ execution'[e] = [execution[e] EXCEPT !.state = EndedState(e), !.provider = q]
        /\ outbox'[e] = IF Ended(e) /\ outbox[e].state \notin {"completed", "dead"}
                        THEN ClosedRow(outbox[e]) ELSE outbox[e]
    BY DEF RevokeAndErase
  <2>3. ClosedRow(outbox[e]).state = "dead"
        /\ ClosedRow(outbox[e]).attempt = outbox[e].attempt
    BY <2>1 DEF ClosedRow, Unclaimed, OutboxRows
  <2>4. RowEvolves(e)
    BY <2>1, <2>2, <2>3 DEF OutboxRows, RowEvolves
  <2>5. q \in BOOLEAN /\ (q = execution[e].provider \/ ~ q)
    BY <2>1 DEF ExecutionRows
  <2> HIDE DEF q
  <2> QED
    BY <2>1, <2>2, <2>4, <2>5 DEF ExecutionRows
<1>3. ASSUME NEW e \in Executions PROVE ~ Bound(e)'
  BY <1>1 DEF Bound
<1>4. ASSUME NEW e \in Executions PROVE RealEvolves(e)
  <2>1. uploads'[e] = uploads[e] /\ uploads[e] \in Nat
    BY DEF RevokeAndErase, SafetyInv, IInv, TypeOK, histories
  <2> QED
    BY <1>2, <1>3, <2>1 DEF RealEvolves
<1>5. RealEvolution
  BY <1>1, <1>4 DEF RealEvolution
<1> QED
  BY <1>2, <1>5, AsideSafe DEF RevokeAndErase, histories

-----------------------------------------------------------------------------
(* The worker claims and reads *)

LEMMA ClaimMessageSafe ==
  ASSUME SafetyInv, Safe, NEW w \in Workers, NEW e \in Executions, ClaimMessage(w, e)
  PROVE  SafetyInv'
<1>1. /\ \A v \in Workers \ {w} : job'[v] = job[v]
      /\ \A f \in Executions \ {e} : outbox'[f] = outbox[f]
      /\ UNCHANGED <<content, execution, uploads, overrun>>
      /\ job'[w].step = "claimed" /\ job'[w].execution = e /\ job'[w].state = "none"
      /\ job'[w].attempt = outbox[e].attempt
      /\ outbox'[e].owner = w /\ outbox'[e].attempt = outbox[e].attempt
  BY DEF ClaimMessage, ClaimedBy, NoJob, SafetyInv, IInv, TypeOK, OutboxRows, histories
<1>2. Real'
  <2>1. RealEvolution
    BY <1>1, Unmoved DEF RealEvolution, ContentEvolves
  <2> QED
    BY <2>1, RealKeeps DEF Safe, IInv
<1>3. ASSUME NEW v \in Workers
      PROVE  JobShape(v)' /\ (Uploading(v)' => Uploading(v) /\ v # w)
  <2>1. CASE v = w
    BY <1>1, <2>1 DEF JobShape, Uploading
  <2>2. CASE v # w
    BY <1>1, <2>2 DEF JobShape, Uploading, SafetyInv, OneUploader
  <2> QED
    BY <2>1, <2>2
<1>4. OneUploader'
  BY <1>1, <1>3 DEF SafetyInv, OneUploader
<1>5. AttemptBound'
  BY <1>1 DEF SafetyInv, Counted, AttemptBound
<1>6. ASSUME NEW v \in Workers, Active(v)', HoldsClaim(v)'
      PROVE  job'[v].attempt = outbox'[job'[v].execution].attempt
  <2>1. CASE v = w
    BY <1>1, <2>1
  <2>2. CASE v # w
    <3>1. job[v].execution \in Executions \ {e}
      BY <1>1, <1>6, <2>2 DEF Active, HoldsClaim, SafetyInv, IInv, TypeOK
    <3> QED
      BY <1>1, <1>6, <2>2, <3>1 DEF Active, HoldsClaim, SafetyInv, Counted
  <2> QED
    BY <2>1, <2>2
<1> QED
  BY <1>2, <1>4, <1>5, <1>6 DEF SafetyInv, Safe, Counted

(* What the update of the read writes. A worker that begins an upload had read its
   execution as not started; if that was over, the execution is in overrun. *)
LEMMA ReadWorkSafe ==
  ASSUME SafetyInv, Safe, NEW w \in Workers, ReadWork(w)
  PROVE  SafetyInv'
<1>1. PICK e \in Executions : e = job[w].execution
  BY DEF ReadWork, SafetyInv, IInv, TypeOK
<1>2. PICK state : state = Started(job[w].state)
  OBVIOUS
<1>3. /\ execution[e] \in ExecutionRows
      /\ job[w].state \in OpenStates
      /\ job[w].state # "not_started" => job[w].provider /\ state = job[w].state
      /\ job[w].state = "not_started" => state = "publishing"
  BY <1>1, <1>2 DEF ReadWork, Started, SafetyInv, IInv, TypeOK, OneUploader, JobShape
<1>4. /\ \A v \in Workers \ {w} : job'[v] = job[v]
      /\ job'[w].step = FirstStep(state, job[w].provider)
      /\ job'[w].execution = e /\ job'[w].generation = job[w].generation
      /\ job'[w].attempt = job[w].attempt
      /\ job'[w].state = state /\ job'[w].provider = job[w].provider
  <2>1. job' = [job EXCEPT ![w] = [job[w] EXCEPT
          !.lease = channel.generation, !.state = state,
          !.step = FirstStep(state, job[w].provider)]]
    BY <1>1, <1>2 DEF ReadWork
  <2>2. job[w] \in Jobs /\ job \in [Workers -> Jobs]
    BY DEF SafetyInv, IInv, TypeOK
  <2> QED
    BY <1>1, <2>1, <2>2 DEF Jobs
<1>5. /\ \A f \in Executions \ {e} : execution'[f] = execution[f]
      /\ execution'[e].state =
           IF job[w].state = "not_started" THEN "publishing" ELSE execution[e].state
      /\ execution'[e].provider = execution[e].provider
      /\ execution'[e].content = execution[e].content
      /\ UNCHANGED <<content, outbox, uploads>>
      /\ \/ overrun' = overrun /\ (job[w].state = "not_started" =>
                                      execution[e].state = "not_started")
         \/ overrun' = overrun \cup {e}
  BY <1>1, <1>3 DEF ReadWork, SafetyInv, IInv, TypeOK, ExecutionRows
<1>6. JobShape(w)'
  BY <1>3, <1>4 DEF JobShape, Uploading, FirstStep
<1>7. Uploading(w)' => job[w].state = "not_started"
  BY <1>3, <1>4 DEF Uploading
<1>8. ASSUME NEW v \in Workers \ {w}
      PROVE  JobShape(v)' /\ (Uploading(v)' <=> Uploading(v))
  BY <1>4, <1>5 DEF SafetyInv, OneUploader, JobShape, Uploading
<1>9. OneUploader'
  <2>1. \A v \in Workers : JobShape(v)'
    BY <1>6, <1>8
  <2>2. ASSUME NEW v \in Workers, Uploading(v)'
        PROVE  \/ execution'[job'[v].execution].state # "not_started"
               \/ job'[v].execution \in overrun'
    <3>1. CASE v = w
      BY <1>4, <1>5, <1>7, <2>2, <3>1
    <3>2. CASE v # w
      BY <1>4, <1>5, <1>8, <2>2, <3>2
         DEF SafetyInv, OneUploader, Uploading, IInv, TypeOK
    <3> QED
      BY <3>1, <3>2
  <2>3. ASSUME NEW v \in Workers \ {w}, Uploading(v)', Uploading(w)',
               job'[v].execution = job'[w].execution
        PROVE  e \in overrun'
    <3>1. Uploading(v) /\ job[v].execution = e /\ job[w].state = "not_started"
      BY <1>4, <1>7, <1>8, <2>3
    <3>2. execution[e].state # "not_started" \/ e \in overrun
      BY <3>1 DEF SafetyInv, OneUploader
    <3> QED
      BY <1>5, <3>1, <3>2
  <2>4. ASSUME NEW v \in Workers, NEW u \in Workers, Uploading(v)', Uploading(u)',
               job'[v].execution = job'[u].execution
        PROVE  v = u \/ job'[u].execution \in overrun'
    <3>1. CASE v # w /\ u # w
      BY <1>4, <1>5, <1>8, <2>4, <3>1 DEF SafetyInv, OneUploader
    <3>2. CASE v = w \/ u = w
      BY <1>4, <2>3, <2>4, <3>2
    <3> QED
      BY <3>1, <3>2
  <2> QED
    BY <2>1, <2>2, <2>4 DEF OneUploader
<1>10. ASSUME NEW f \in Executions PROVE RealExecution(f)'
  <2>1. RealExecution(f) /\ (Referenced(f)' <=> Referenced(f))
    BY <1>5 DEF SafetyInv, Real, Referenced, Bound
  <2> QED
    BY <1>5, <2>1 DEF RealExecution
<1>11. NoDraftConfirmed'
  BY <1>5 DEF SafetyInv, Real, NoDraftConfirmed
<1>12. Counted'
  <2>1. AttemptBound'
    BY <1>5 DEF SafetyInv, Counted, AttemptBound
  <2>2. ASSUME NEW v \in Workers, Active(v)', HoldsClaim(v)'
        PROVE  job'[v].attempt = outbox'[job'[v].execution].attempt
    <3>1. Active(v) /\ HoldsClaim(v)
      BY <1>1, <1>4, <1>5, <2>2 DEF ReadWork, Active, HoldsClaim
    <3> QED
      BY <1>1, <1>4, <1>5, <3>1 DEF SafetyInv, Counted
  <2> QED
    BY <2>1, <2>2 DEF Counted
<1> QED
  BY <1>9, <1>10, <1>11, <1>12, SparedKept DEF SafetyInv, Safe, Real

-----------------------------------------------------------------------------
(* The worker attempts, records and ends *)

LEMMA LeaveEvolves ==
  ASSUME TypeOK, NEW w \in Workers, Leave(w)
  PROVE  JobEvolves(w) /\ \A v \in Workers \ {w} : job'[v] = job[v]
BY LeftQuits DEF JobEvolves, JobShape, Uploading

LEMMA ThrowEvolves ==
  ASSUME TypeOK, NEW w \in Workers, NEW category, Throw(w, category),
         job[w].step \in {"upload", "uploaded", "resume", "transfer", "poll"},
         JobShape(w)
  PROVE  JobEvolves(w) /\ \A v \in Workers \ {w} : job'[v] = job[v]
<1>1. CASE job'[w].step \in {"idle", "finally"}
  BY <1>1, ThrownFails DEF JobEvolves, JobShape, Uploading
<1>2. CASE job'[w].step = "failed"
  <2>1. /\ job'[w].execution = job[w].execution
        /\ job'[w].generation = job[w].generation
        /\ job'[w].attempt = job[w].attempt
        /\ job'[w].state = job[w].state
        /\ job'[w].provider = job[w].provider
    BY <1>2, ThrownFails
  <2>2. JobShape(w)'
    BY <1>2 DEF JobShape
  <2>3. Uploading(w)' => Uploading(w)
    BY <1>2, <2>1 DEF JobShape, Uploading
  <2>4. Active(w)
    BY DEF Active
  <2> QED
    BY <2>1, <2>2, <2>3, <2>4, ThrownFails DEF JobEvolves
<1> QED
  BY <1>1, <1>2, ThrownFails

LEMMA UnreadFails ==
  ASSUME TypeOK, NEW w \in Workers, NEW category, ReadFailed(w, category),
         job[w].step \in {"claimed", "reading"}
  PROVE  /\ \A v \in Workers \ {w} : job'[v] = job[v]
         /\ \/ job'[w].step = "idle"
            \/ /\ job'[w].step = "failed" /\ job'[w].category = category
               /\ job'[w].execution = job[w].execution
               /\ job'[w].generation = job[w].generation
               /\ job'[w].attempt = job[w].attempt
               /\ job'[w].state = "none" /\ ~ job'[w].provider
<1>1. /\ job'[w] = Thrown(Unread(job[w]), category)
      /\ \A v \in Workers \ {w} : job'[v] = job[v]
      /\ job[w] \in Jobs
  BY DEF ReadFailed, TypeOK
<1>2. PICK j \in Jobs : /\ j = Unread(job[w])
                        /\ j.state = "none" /\ ~ j.provider
                        /\ j.execution = job[w].execution
                        /\ j.generation = job[w].generation
                        /\ j.attempt = job[w].attempt
  <2> DEFINE j == Unread(job[w])
  <2>1. /\ j \in Jobs
        /\ j.state = "none" /\ ~ j.provider
        /\ j.execution = job[w].execution
        /\ j.generation = job[w].generation
        /\ j.attempt = job[w].attempt
    BY <1>1 DEF Unread, Jobs
  <2> QED
    BY <2>1
<1>3. CASE j.lost
  <2>1. job'[w] = NoJob
    BY <1>1, <1>2, <1>3 DEF Thrown, Left
  <2> QED
    BY <1>1, <2>1 DEF NoJob
<1>4. CASE ~ j.lost
  <2>1. job'[w] = [j EXCEPT !.step = "failed", !.category = category]
    BY <1>1, <1>2, <1>4 DEF Thrown
  <2> QED
    BY <1>1, <1>2, <2>1 DEF Jobs
<1> QED
  BY <1>3, <1>4

LEMMA UnreadEvolves ==
  ASSUME TypeOK, NEW w \in Workers, NEW category, ReadFailed(w, category),
         job[w].step \in {"claimed", "reading"}
  PROVE  JobEvolves(w) /\ \A v \in Workers \ {w} : job'[v] = job[v]
BY UnreadFails DEF JobEvolves, JobShape, Uploading, Active

(* Steps that leave the contents, the rows and the objects alone. *)
LEMMA QuietSafe ==
  ASSUME SafetyInv, Safe, NEW w \in Workers, JobEvolves(w),
         \A v \in Workers \ {w} : job'[v] = job[v],
         UNCHANGED <<content, outbox, overrun>>,
         \A e \in Executions : RealEvolves(e)
  PROVE  SafetyInv'
<1>1. RealEvolution
  BY DEF RealEvolution, ContentEvolves
<1>2. \A e \in Executions : RowEvolves(e)
  BY DEF RowEvolves
<1>3. CASE Executions = {}
  <2>1. \A v \in Workers : job[v].step = "idle"
    BY <1>3 DEF SafetyInv, IInv, TypeOK
  <2>2. \A v \in Workers \ {w} : JobEvolves(v)
    BY <2>1 DEF JobEvolves, JobShape, Uploading, Active
  <2> QED
    BY <1>1, <1>2, <2>2, EvolutionSafe
<1>4. ASSUME NEW e \in Executions PROVE SafetyInv'
  BY <1>1, <1>2, WorkerSafe
<1> QED
  BY <1>3, <1>4

(* What the read has seen is a state of work, with a reference unless it was not
   started: what is published or processing has one, or no account. *)
LEMMA ReadExecutionSafe ==
  ASSUME SafetyInv, Safe, NEW w \in Workers, ReadExecution(w)
  PROVE  SafetyInv'
<1>1. PICK e \in Executions : e = job[w].execution
  BY DEF ReadExecution, SafetyInv, IInv, TypeOK
<1>2. /\ TypeOK /\ job[w].step = "claimed" /\ Real
      /\ ReadRefusal(e) = "none"
      /\ job' = [job EXCEPT ![w] =
           [job[w] EXCEPT !.step = "reading", !.state = execution[e].state,
                          !.provider = execution[e].provider]]
      /\ UNCHANGED <<content, execution, outbox, uploads, overrun>>
  BY <1>1 DEF ReadExecution, SafetyInv, IInv, histories
<1>3. /\ execution[e].state \in OpenStates
      /\ execution[e].state # "not_started" => execution[e].provider
  <2>1. execution[e].state # "absent"
    BY <1>1, <1>2 DEF SafetyInv, IInv, JobsNameRows, OutcomeAgreement
  <2>2. /\ execution[e] \in ExecutionRows
        /\ execution[e].state \notin Settled
        /\ ~ (execution[e].state = "publishing" /\ ~ execution[e].provider)
        /\ Bound(e)
    BY <1>2 DEF ReadRefusal, TypeOK
  <2> QED
    BY <1>2, <2>1, <2>2 DEF ExecutionRows, Real, RealExecution, Referenced
<1>4. /\ \A v \in Workers \ {w} : job'[v] = job[v]
      /\ job'[w].step = "reading" /\ job'[w].execution = e
      /\ job'[w].generation = job[w].generation
      /\ job'[w].attempt = job[w].attempt
      /\ job'[w].state = execution[e].state
      /\ job'[w].provider = execution[e].provider
  <2>1. job[w] \in Jobs /\ job \in [Workers -> Jobs]
    BY <1>2 DEF TypeOK
  <2> QED
    BY <1>1, <1>2, <2>1 DEF Jobs
<1>5. JobEvolves(w)
  BY <1>1, <1>2, <1>3, <1>4 DEF JobEvolves, JobShape, Uploading, Active
<1> QED
  BY <1>2, <1>4, <1>5, Unmoved, QuietSafe

LEMMA LeavingSafe ==
  ASSUME SafetyInv, Safe, NEW w \in Workers,
         \/ ReadRefused(w) \/ ReadError(w) \/ AttemptFailed(w) \/ StoreError(w)
         \/ ReleaseLease(w) \/ Crash(w) \/ NoticeLost(w)
  PROVE  SafetyInv'
<1>1. /\ UNCHANGED <<content, execution, outbox, uploads, overrun>>
      /\ TypeOK /\ JobShape(w)
  BY DEF ReadRefused, ReadError, AttemptFailed, StoreError, ReleaseLease, Crash,
         NoticeLost, SafetyInv, IInv, OneUploader, histories
<1>2. JobEvolves(w) /\ \A v \in Workers \ {w} : job'[v] = job[v]
  <2>1. CASE StoreError(w)
    BY <1>1, <2>1, LeaveEvolves DEF StoreError
  <2>2. CASE ReadRefused(w)
    BY <1>1, <2>2, UnreadEvolves DEF ReadRefused
  <2>3. CASE ReadError(w)
    BY <1>1, <2>3, UnreadEvolves DEF ReadError
  <2>4. CASE AttemptFailed(w)
    BY <1>1, <2>4, ThrowEvolves DEF AttemptFailed
  <2>5. CASE ReleaseLease(w) \/ Crash(w)
    <3>1. job'[w] = NoJob /\ \A v \in Workers \ {w} : job'[v] = job[v]
      BY <1>1, <2>5 DEF ReleaseLease, Crash, TypeOK
    <3> QED
      BY <3>1 DEF NoJob, JobEvolves, JobShape, Uploading
  <2>6. CASE NoticeLost(w)
    <3>1. /\ \A v \in Workers \ {w} : job'[v] = job[v]
          /\ job'[w] = [job[w] EXCEPT !.lost = TRUE]
          /\ job[w].step \notin {"idle", "finally"}
      BY <1>1, <2>6 DEF NoticeLost, TypeOK
    <3>2. /\ job'[w].step = job[w].step /\ job'[w].execution = job[w].execution
          /\ job'[w].generation = job[w].generation
          /\ job'[w].attempt = job[w].attempt
          /\ job'[w].state = job[w].state /\ job'[w].provider = job[w].provider
      BY <1>1, <3>1 DEF TypeOK, Jobs
    <3>3. JobShape(w)' /\ (Uploading(w)' => Uploading(w))
      BY <1>1, <3>2 DEF JobShape, Uploading
    <3> QED
      BY <3>1, <3>2, <3>3 DEF JobEvolves, Active
  <2> QED
    BY <2>1, <2>2, <2>3, <2>4, <2>5, <2>6
<1> QED
  BY <1>1, <1>2, Unmoved, QuietSafe

LEMMA UploadSafe ==
  ASSUME SafetyInv, Safe, NEW w \in Workers,
         UploadAccepted(w) \/ UploadAmbiguous(w) \/ UploadMisread(w)
  PROVE  SafetyInv'
<1> USE DEF UploadAccepted, UploadAmbiguous, UploadMisread
<1>1. PICK e \in Executions : e = job[w].execution
  BY DEF SafetyInv, IInv, TypeOK
<1>2. TypeOK /\ JobShape(w) /\ job[w].step = "upload" /\ Uploading(w)
  BY DEF SafetyInv, IInv, OneUploader, JobShape
<1>3. UNCHANGED <<content, execution, outbox, overrun>>
  OBVIOUS
<1>4. PICK n \in {0, 1} : /\ uploads' = [uploads EXCEPT ![e] = uploads[e] + n]
                          /\ UploadAccepted(w) => n = 1
  BY <1>1, <1>2 DEF TypeOK
<1>5. ASSUME NEW f \in Executions PROVE RealEvolves(f)
  <2>1. uploads[f] \in Nat /\ uploads'[f] >= uploads[f]
    BY <1>2, <1>4 DEF TypeOK
  <2> QED
    BY <1>3, <2>1 DEF RealEvolves
<1>6. JobEvolves(w) /\ \A v \in Workers \ {w} : job'[v] = job[v]
  <2>1. CASE UploadAccepted(w)
    <3>1. /\ \A v \in Workers \ {w} : job'[v] = job[v]
          /\ job'[w] = [job[w] EXCEPT !.step = "uploaded"]
      BY <1>2, <2>1 DEF TypeOK
    <3>2. /\ job'[w].step = "uploaded" /\ job'[w].execution = e
          /\ job'[w].generation = job[w].generation
          /\ job'[w].attempt = job[w].attempt
          /\ job'[w].state = job[w].state /\ job'[w].provider = job[w].provider
      BY <1>1, <1>2, <3>1 DEF TypeOK, Jobs
    <3>3. uploads'[e] > 0
      BY <1>2, <1>4, <2>1 DEF TypeOK
    <3>4. JobShape(w)' /\ Uploading(w)'
      BY <1>2, <3>2, <3>3 DEF JobShape, Uploading
    <3> QED
      BY <1>1, <1>2, <3>1, <3>2, <3>4 DEF JobEvolves, Active
  <2>2. CASE ~ UploadAccepted(w)
    BY <1>2, <2>2, ThrowEvolves
  <2> QED
    BY <2>1, <2>2
<1> QED
  BY <1>3, <1>5, <1>6, QuietSafe

(* What recording an accepted upload or transfer writes. *)
LEMMA RecordedEvolves ==
  ASSUME SafetyInv, NEW w \in Workers, NEW e \in Executions, e = job[w].execution,
         UNCHANGED uploads,
         \/ UNCHANGED execution
         \/ job[w].step = "uploaded" /\ UploadRecorded(e)
         \/ /\ TransferRecordable(e)
            /\ execution' = [execution EXCEPT ![e].state = "processing"]
  PROVE  \A f \in Executions : RealEvolves(f)
<1>1. /\ \A f \in Executions : uploads[f] \in Nat /\ execution[f] \in ExecutionRows
      /\ execution[e].provider => uploads[e] > 0
      /\ job[w].step = "uploaded" => uploads[e] > 0
      /\ TypeOK
  BY DEF SafetyInv, IInv, TypeOK, Real, RealExecution, OneUploader, JobShape
<1>2. CASE UNCHANGED execution
  BY <1>2, Unmoved
<1>3. CASE job[w].step = "uploaded" /\ UploadRecorded(e)
  <2>1. \A f \in Executions \ {e} : execution'[f] = execution[f]
    BY <1>1, <1>3 DEF UploadRecorded, TypeOK
  <2>2. /\ execution'[e].provider /\ execution'[e].content = execution[e].content
        /\ execution'[e].state \in {"publishing", "processing"}
    BY <1>1, <1>3 DEF UploadRecorded, TypeOK, ExecutionRows
  <2> QED
    BY <1>1, <1>3, <2>1, <2>2 DEF RealEvolves
<1>4. CASE /\ TransferRecordable(e)
           /\ execution' = [execution EXCEPT ![e].state = "processing"]
  <2>1. \A f \in Executions \ {e} : execution'[f] = execution[f]
    BY <1>1, <1>4 DEF TypeOK
  <2>2. /\ execution'[e].provider /\ execution[e].provider
        /\ execution'[e].content = execution[e].content
        /\ execution'[e].state = "processing"
    BY <1>1, <1>4 DEF TransferRecordable, TypeOK, ExecutionRows
  <2> QED
    BY <1>1, <2>1, <2>2 DEF RealEvolves
<1> QED
  BY <1>2, <1>3, <1>4

LEMMA RecordSafe ==
  ASSUME SafetyInv, Safe, NEW w \in Workers,
         RecordUpload(w) \/ RecordTransfer(w) \/ RecordError(w)
  PROVE  SafetyInv'
<1> USE DEF RecordUpload, RecordTransfer, RecordError
<1>1. PICK e \in Executions : e = job[w].execution
  BY DEF SafetyInv, IInv, TypeOK
<1>2. /\ TypeOK /\ JobShape(w) /\ job[w].step \in {"uploaded", "resume", "transfer"}
      /\ UNCHANGED <<content, outbox, uploads, overrun>>
  BY DEF SafetyInv, IInv, OneUploader, histories
<1>3. \A f \in Executions : RealEvolves(f)
  BY <1>1, <1>2, RecordedEvolves
<1>4. JobEvolves(w) /\ \A v \in Workers \ {w} : job'[v] = job[v]
  <2>1. CASE Leave(w)
    BY <1>2, <2>1, LeaveEvolves
  <2>2. CASE Throw(w, "transient")
    BY <1>2, <2>2, ThrowEvolves
  <2>3. CASE ~ Leave(w) /\ ~ Throw(w, "transient")
    <3>1. PICK step \in {"transfer", "poll"} :
            \/ /\ job[w].step = "uploaded"
               /\ job' = [job EXCEPT ![w] =
                            [job[w] EXCEPT !.provider = TRUE, !.step = step]]
            \/ /\ job[w].step \in {"resume", "transfer"}
               /\ job' = [job EXCEPT ![w] = [job[w] EXCEPT !.step = step]]
      BY <1>2, <2>3 DEF TypeOK
    <3>2. /\ \A v \in Workers \ {w} : job'[v] = job[v]
          /\ job'[w].step = step /\ job'[w].provider
          /\ job'[w].execution = job[w].execution
          /\ job'[w].generation = job[w].generation
          /\ job'[w].attempt = job[w].attempt
      <4>1. job[w] \in Jobs /\ (job[w].step # "uploaded" => job[w].provider)
        BY <1>2 DEF TypeOK, JobShape
      <4>2. CASE job[w].step = "uploaded"
        <5>1. /\ job'[w] = [job[w] EXCEPT !.provider = TRUE, !.step = step]
              /\ \A v \in Workers \ {w} : job'[v] = job[v]
          BY <1>2, <3>1, <4>2 DEF TypeOK
        <5> QED
          BY <4>1, <5>1 DEF Jobs
      <4>3. CASE job[w].step \in {"resume", "transfer"}
        BY <1>2, <3>1, <4>1, <4>3 DEF TypeOK, Jobs
      <4> QED
        BY <1>2, <4>2, <4>3
    <3> QED
      BY <1>2, <3>2 DEF JobEvolves, JobShape, Uploading, Active
  <2> QED
    BY <2>1, <2>2, <2>3
<1> QED
  BY <1>2, <1>3, <1>4, QuietSafe

LEMMA FailureSafe ==
  ASSUME SafetyInv, Safe, NEW w \in Workers, job[w].step \in {"poll", "failed"},
         NEW state \in DeadStates, NEW reauthorize \in BOOLEAN,
         RecordFailure(w, state, reauthorize), UNCHANGED <<uploads, overrun>>
  PROVE  SafetyInv'
<1>1. PICK e \in Executions : e = job[w].execution
  BY DEF SafetyInv, IInv, TypeOK
<1>2. TypeOK /\ JobShape(w)
  BY DEF SafetyInv, IInv, OneUploader
<1>3. CASE HoldsFence(w) /\ ~ Superseded(e) /\ HoldsClaim(w)
  <2>1. /\ FailExecution(w, state, reauthorize) /\ EndClaim(e, "dead", 0) /\ Leave(w)
        /\ IF reauthorize THEN ForgetAccount ELSE UNCHANGED content
    BY <1>1, <1>3 DEF RecordFailure
  <2>2. \A f \in Executions \ {e} : outbox'[f] = outbox[f]
    BY <1>2, <2>1, EndClaimOthers
  <2>3. RowEvolves(e)
    <3>1. outbox[e].attempt \in Nat
      BY <1>2 DEF TypeOK, OutboxRows
    <3> QED
      BY <1>2, <2>1, <3>1, EndedRow DEF RowEvolves
  <2>4. \A c \in Contents : ContentEvolves(c) /\ (reauthorize => ~ content'[c].bound)
    BY <1>2, <2>1 DEF ForgetAccount, ContentEvolves, TypeOK, ContentRows
  <2>5. ASSUME NEW f \in Executions PROVE RealEvolves(f)
    <3> DEFINE s == IF f = e /\ execution[f].state \in OpenStates
                    THEN state ELSE execution[f].state
               p == execution[f].provider /\ ~ (reauthorize /\ Bound(f))
    <3>1. execution'[f] = [execution[f] EXCEPT !.state = s, !.provider = p]
      BY <1>1, <2>1 DEF FailExecution
    <3>2. execution[f] \in ExecutionRows /\ uploads[f] \in Nat
      BY <1>2 DEF TypeOK
    <3>3. p \in BOOLEAN
      OBVIOUS
    <3>4. \/ p = execution[f].provider
          \/ ~ p /\ reauthorize
      BY <3>2 DEF ExecutionRows
    <3>5. s = execution[f].state \/ s \in DeadStates
      OBVIOUS
    <3> HIDE DEF s, p
    <3>6. /\ execution'[f].content = execution[f].content
          /\ execution'[f].state = s /\ execution'[f].provider = p
      BY <3>1, <3>2, <3>3 DEF ExecutionRows
    <3>7. reauthorize => ~ Bound(f)'
      BY <2>4 DEF Bound
    <3> QED
      BY <3>2, <3>4, <3>5, <3>6, <3>7 DEF RealEvolves
  <2>6. RealEvolution
    BY <2>4, <2>5 DEF RealEvolution
  <2> QED
    BY <1>2, <2>1, <2>2, <2>3, <2>6, LeaveEvolves, WorkerSafe
<1>4. CASE ~ (HoldsFence(w) /\ ~ Superseded(e) /\ HoldsClaim(w))
  <2>1. /\ Leave(w) \/ (job[w].step = "poll" /\ Throw(w, "transient"))
        /\ UNCHANGED <<content, execution, outbox>>
    BY <1>1, <1>4 DEF RecordFailure
  <2>2. JobEvolves(w) /\ \A v \in Workers \ {w} : job'[v] = job[v]
    BY <1>2, <2>1, LeaveEvolves, ThrowEvolves
  <2> QED
    BY <2>1, <2>2, Unmoved, QuietSafe
<1> QED
  BY <1>3, <1>4

LEMMA RetrySafe ==
  ASSUME SafetyInv, Safe, NEW w \in Workers, Active(w), job[w].step # "idle",
         NEW increment \in {0, 1}, FinishRetry(w, increment),
         UNCHANGED <<uploads, overrun>>,
         increment = 1 => \/ job[w].attempt < MaxAttempts
                          \/ Platform = "tiktok" /\ job[w].attempt < MaxPolls
  PROVE  SafetyInv'
<1>1. PICK e \in Executions : e = job[w].execution
  BY DEF SafetyInv, IInv, TypeOK
<1>2. /\ TypeOK /\ Leave(w) /\ UNCHANGED <<content, execution>>
      /\ JobEvolves(w) /\ \A v \in Workers \ {w} : job'[v] = job[v]
  BY LeaveEvolves DEF FinishRetry, SafetyInv, IInv
<1>3. CASE HoldsClaim(w)
  <2>1. EndClaim(e, "pending", increment) /\ job[w].attempt = outbox[e].attempt
    BY <1>1, <1>3 DEF FinishRetry, SafetyInv, Counted
  <2>2. /\ outbox'[e].state = "pending"
        /\ outbox'[e].attempt = outbox[e].attempt + increment
    BY <1>2, <2>1, EndedRow
  <2>3. /\ outbox[e].attempt \in Nat /\ MaxAttempts \in Nat /\ MaxPolls \in Nat
        /\ \/ outbox[e].attempt <= MaxAttempts
           \/ Platform = "tiktok" /\ outbox[e].attempt <= MaxPolls
    BY <1>2, BoundAssumption DEF TypeOK, OutboxRows, SafetyInv, Counted, AttemptBound
  <2>4. RowEvolves(e)
    BY <2>1, <2>2, <2>3 DEF RowEvolves
  <2>5. \A f \in Executions \ {e} : outbox'[f] = outbox[f]
    BY <1>2, <2>1, EndClaimOthers
  <2>6. RealEvolution
    BY <1>2, Unmoved DEF RealEvolution, ContentEvolves
  <2> QED
    BY <1>2, <2>4, <2>5, <2>6, WorkerSafe
<1>4. CASE ~ HoldsClaim(w)
  <2>1. UNCHANGED outbox
    BY <1>4 DEF FinishRetry
  <2> QED
    BY <1>2, <2>1, Unmoved, QuietSafe
<1> QED
  BY <1>3, <1>4

LEMMA PollPublishedSafe ==
  ASSUME SafetyInv, Safe, NEW w \in Workers, PollPublished(w)
  PROVE  SafetyInv'
<1>1. PICK e \in Executions : e = job[w].execution
  BY DEF PollPublished, SafetyInv, IInv, TypeOK
<1>2. /\ TypeOK /\ JobShape(w) /\ job[w].step = "poll"
      /\ UNCHANGED <<content, uploads, overrun>>
  BY DEF PollPublished, SafetyInv, IInv, OneUploader, histories
<1>3. CASE UNCHANGED <<execution, outbox>>
  <2>1. JobEvolves(w) /\ \A v \in Workers \ {w} : job'[v] = job[v]
    <3>1. CASE Leave(w)
      BY <1>2, <3>1, LeaveEvolves
    <3>2. CASE Throw(w, "transient")
      BY <1>2, <3>2, ThrowEvolves
    <3> QED
      BY <3>1, <3>2 DEF PollPublished
  <2> QED
    BY <1>2, <1>3, <2>1, Unmoved, QuietSafe
<1>4. CASE ~ UNCHANGED <<execution, outbox>>
  <2>1. /\ execution[e].state \in {"processing", "published"}
        /\ execution' = [execution EXCEPT ![e].state = "published"]
        /\ EndClaim(e, "completed", 0) /\ Leave(w)
    BY <1>1, <1>4 DEF PollPublished
  <2>2. ASSUME NEW f \in Executions PROVE RealEvolves(f)
    <3>1. /\ execution[f] \in ExecutionRows /\ uploads[f] \in Nat
          /\ \A g \in Executions \ {e} : execution'[g] = execution[g]
      BY <1>2, <2>1 DEF TypeOK
    <3>2. uploads[e] > 0 /\ (execution[e].provider \/ ~ Bound(e))
      BY <2>1 DEF SafetyInv, Real, RealExecution, Referenced
    <3>3. /\ execution'[e].state = "published"
          /\ execution'[e].content = execution[e].content
          /\ execution'[e].provider = execution[e].provider
      BY <1>2, <2>1 DEF TypeOK, ExecutionRows
    <3>4. Bound(e)' <=> Bound(e)
      BY <1>2, <3>3 DEF Bound
    <3> QED
      BY <1>2, <3>1, <3>2, <3>3, <3>4 DEF RealEvolves
  <2>3. RealEvolution
    BY <1>2, <2>2 DEF RealEvolution, ContentEvolves
  <2>4. RowEvolves(e) /\ \A f \in Executions \ {e} : outbox'[f] = outbox[f]
    <3>1. outbox[e].attempt \in Nat
      BY <1>2 DEF TypeOK, OutboxRows
    <3> QED
      BY <1>2, <2>1, <3>1, EndedRow, EndClaimOthers DEF RowEvolves
  <2> QED
    BY <1>2, <2>1, <2>3, <2>4, LeaveEvolves, WorkerSafe
<1> QED
  BY <1>3, <1>4

LEMMA PollSafe ==
  ASSUME SafetyInv, Safe, NEW w \in Workers,
         PollFailed(w) \/ PollProcessing(w) \/ FailWithWork(w) \/ RetryLater(w)
  PROVE  SafetyInv'
<1>1. CASE PollFailed(w)
  BY <1>1, FailureSafe DEF PollFailed, histories
<1>2. CASE FailWithWork(w)
  BY <1>2, FailureSafe DEF FailWithWork, histories
<1>3. CASE PollProcessing(w) /\ Platform # "tiktok"
  <2>1. /\ FinishRetry(w, 0) /\ UNCHANGED <<uploads, overrun>>
        /\ Active(w) /\ job[w].step # "idle"
    BY <1>3 DEF PollProcessing, histories, Active
  <2>2. 0 \in {0, 1} /\ ~ (0 = 1)
    OBVIOUS
  <2> QED
    BY <2>1, <2>2, RetrySafe
<1>4. CASE PollProcessing(w) /\ Platform = "tiktok"
  <2>1. CASE PollsExhausted(w)
    BY <1>4, <2>1, FailureSafe DEF PollProcessing, histories
  <2>2. CASE ~ PollsExhausted(w)
    <3>1. job[w].attempt \in Nat /\ MaxPolls \in Nat
      BY BoundAssumption DEF SafetyInv, IInv, TypeOK, Jobs
    <3>2. job[w].attempt < MaxPolls
      BY <2>2, <3>1 DEF PollsExhausted
    <3> QED
      BY <1>4, <2>2, <3>2, RetrySafe DEF PollProcessing, histories, Active
  <2> QED
    BY <2>1, <2>2
<1>5. CASE RetryLater(w)
  <2>1. job[w].attempt \in Nat /\ MaxAttempts \in Nat /\ JobShape(w)
    BY BoundAssumption DEF SafetyInv, IInv, TypeOK, Jobs, OneUploader
  <2>2. job[w].attempt < MaxAttempts
    BY <1>5, <2>1 DEF RetryLater, IsTerminal, JobShape
  <2> QED
    BY <1>5, <2>2, RetrySafe DEF RetryLater, Active, histories
<1> QED
  BY <1>1, <1>2, <1>3, <1>4, <1>5

LEMMA FailWithoutWorkSafe ==
  ASSUME SafetyInv, Safe, NEW w \in Workers, FailWithoutWork(w)
  PROVE  SafetyInv'
<1>1. PICK e \in Executions : e = job[w].execution
  BY DEF FailWithoutWork, SafetyInv, IInv, TypeOK
<1>2. /\ TypeOK /\ Leave(w) /\ UNCHANGED <<content, uploads, overrun>>
      /\ JobEvolves(w) /\ \A v \in Workers \ {w} : job'[v] = job[v]
  BY LeaveEvolves DEF FailWithoutWork, SafetyInv, IInv, histories
<1>3. CASE HoldsClaim(w)
  <2>1. PICK state \in DeadStates :
          execution' = [execution EXCEPT ![e].state =
                          IF @ \in OpenStates THEN state ELSE @]
    BY <1>1, <1>3 DEF FailWithoutWork
  <2>2. PICK end : EndClaim(e, end, 0) /\ end # "claimed"
    BY <1>1, <1>3 DEF FailWithoutWork
  <2>3. ASSUME NEW f \in Executions PROVE RealEvolves(f)
    <3>1. /\ execution[f] \in ExecutionRows /\ uploads[f] \in Nat
      BY <1>2 DEF TypeOK
    <3>2. /\ execution'[f].state = execution[f].state
             \/ execution'[f].state \in DeadStates
          /\ execution'[f].content = execution[f].content
          /\ execution'[f].provider = execution[f].provider
      BY <1>2, <2>1, <3>1 DEF TypeOK, ExecutionRows
    <3> QED
      BY <1>2, <3>1, <3>2 DEF RealEvolves
  <2>4. RealEvolution
    BY <1>2, <2>3 DEF RealEvolution, ContentEvolves
  <2>5. RowEvolves(e) /\ \A f \in Executions \ {e} : outbox'[f] = outbox[f]
    <3>1. outbox[e].attempt \in Nat
      BY <1>2 DEF TypeOK, OutboxRows
    <3> QED
      BY <1>2, <2>2, <3>1, EndedRow, EndClaimOthers DEF RowEvolves
  <2> QED
    BY <1>2, <2>4, <2>5, WorkerSafe
<1>4. CASE ~ HoldsClaim(w)
  BY <1>2, <1>4, Unmoved, QuietSafe DEF FailWithoutWork
<1> QED
  BY <1>3, <1>4

(* The worker that puts an execution back is the one that was uploading for it,
   and stops at once. *)
LEMMA ResetSafe ==
  ASSUME SafetyInv, Safe, NEW w \in Workers, ResetForRetry(w)
  PROVE  SafetyInv'
<1>1. PICK e \in Executions : e = job[w].execution
  BY DEF ResetForRetry, SafetyInv, IInv, TypeOK
<1>2. TypeOK /\ JobShape(w) /\ UNCHANGED <<content, outbox, uploads, overrun>>
  BY DEF ResetForRetry, SafetyInv, IInv, OneUploader, histories
<1>3. CASE Leave(w) /\ UNCHANGED execution
  BY <1>2, <1>3, LeaveEvolves, Unmoved, QuietSafe
<1>4. CASE ~ (Leave(w) /\ UNCHANGED execution)
  <2>1. /\ execution' = [execution EXCEPT ![e].state = "not_started"]
        /\ job' = [job EXCEPT ![w] = [job[w] EXCEPT !.step = "retrying"]]
        /\ Uploading(w) /\ Active(w)
        /\ ~ IsTerminal(job[w].category, job[w].attempt)
    BY <1>1, <1>2, <1>4 DEF ResetForRetry, ShouldReset, Uploading, Active, TypeOK
  <2>2. /\ \A f \in Executions \ {e} : execution'[f] = execution[f]
        /\ execution'[e].state = "not_started"
        /\ execution'[e].content = execution[e].content
        /\ execution'[e].provider = execution[e].provider
    BY <1>2, <2>1 DEF TypeOK, ExecutionRows
  <2>3. /\ \A v \in Workers \ {w} : job'[v] = job[v]
        /\ job'[w].step = "retrying" /\ job'[w].execution = e
        /\ job'[w].generation = job[w].generation
        /\ job'[w].attempt = job[w].attempt
    BY <1>1, <1>2, <2>1 DEF TypeOK, Jobs
  <2>4. job[w].attempt < MaxAttempts
    <3>1. job[w].attempt \in Nat /\ MaxAttempts \in Nat
      BY <1>2, BoundAssumption DEF TypeOK, Jobs
    <3> QED
      BY <2>1, <3>1 DEF IsTerminal
  <2>5. ASSUME NEW v \in Workers
        PROVE  JobShape(v)' /\ (Uploading(v)' => Uploading(v) /\ v # w)
    <3>1. CASE v = w
      BY <2>3, <2>4, <3>1 DEF JobShape, Uploading
    <3>2. CASE v # w
      BY <1>2, <2>3, <3>2 DEF JobShape, Uploading, SafetyInv, OneUploader
    <3> QED
      BY <3>1, <3>2
  <2>6. ASSUME NEW v \in Workers \ {w}, Uploading(v)
        PROVE  job[v].execution \in Executions \ {e} \/ job[v].execution \in overrun
    BY <1>1, <2>1, <2>6 DEF SafetyInv, IInv, TypeOK, OneUploader, Uploading
  <2>7. OneUploader'
    <3>1. \A v \in Workers : Uploading(v)' =>
            \/ execution'[job'[v].execution].state # "not_started"
            \/ job'[v].execution \in overrun'
      BY <1>2, <2>2, <2>3, <2>5, <2>6 DEF SafetyInv, OneUploader
    <3>2. \A u, v \in Workers :
            Uploading(u)' /\ Uploading(v)' /\ job'[u].execution = job'[v].execution
              => u = v \/ job'[v].execution \in overrun'
      BY <1>2, <2>3, <2>5 DEF SafetyInv, OneUploader
    <3> QED
      BY <2>5, <3>1, <3>2 DEF OneUploader
  <2>8. ASSUME NEW f \in Executions PROVE RealExecution(f)'
    <3>1. RealExecution(f) /\ (Referenced(f)' <=> Referenced(f))
      BY <1>2, <2>2 DEF SafetyInv, Real, Referenced, Bound
    <3> QED
      BY <1>2, <2>2, <3>1 DEF RealExecution
  <2>9. NoDraftConfirmed'
    BY <1>2, <2>2 DEF SafetyInv, Real, NoDraftConfirmed
  <2>10. AttemptBound'
    BY <1>2 DEF SafetyInv, Counted, AttemptBound
  <2>11. ASSUME NEW v \in Workers, Active(v)', HoldsClaim(v)'
         PROVE  job'[v].attempt = outbox'[job'[v].execution].attempt
    <3>1. Active(v) /\ HoldsClaim(v)
      BY <1>1, <1>2, <2>1, <2>3, <2>11 DEF Active, HoldsClaim
    <3> QED
      BY <1>1, <1>2, <2>3, <3>1 DEF SafetyInv, Counted
  <2> QED
    BY <2>7, <2>8, <2>9, <2>10, <2>11, SparedKept DEF SafetyInv, Safe, Real, Counted
<1> QED
  BY <1>3, <1>4

-----------------------------------------------------------------------------
(* The theorems *)

LEMMA InitSafetyInv == Init => SafetyInv
<1> SUFFICES ASSUME Init PROVE SafetyInv
  OBVIOUS
<1>1. IInv
  BY InitIInv
<1>2. OneUploader
  BY DEF Init, NoJob, OneUploader, JobShape, Uploading
<1>3. Real
  BY NullAssumption DEF Init, NoTransaction, Real, NoDraftConfirmed, RealExecution, Spared
<1>4. Counted
  BY BoundAssumption DEF Init, NoJob, Counted, AttemptBound, Active
<1> QED
  BY <1>1, <1>2, <1>3, <1>4 DEF SafetyInv

LEMMA NextSafetyInv == SafetyInv /\ [Next]_vars => SafetyInv'
<1> SUFFICES ASSUME SafetyInv, [Next]_vars PROVE SafetyInv'
  OBVIOUS
<1>1. Safe
  BY NextSafe DEF SafetyInv
<1>2. CASE Publisher
  BY <1>1, <1>2, AuthorSafe, ConfirmSafe, ChannelSafe DEF Publisher
<1>3. ASSUME NEW w \in Workers, Work(w) PROVE SafetyInv'
  <2>1. CASE \E e \in Executions : ClaimMessage(w, e)
    BY <1>1, <2>1, ClaimMessageSafe
  <2>2. CASE ReadExecution(w) \/ ReadWork(w) \/ ReadRefused(w)
    BY <1>1, <2>2, ReadExecutionSafe, ReadWorkSafe, LeavingSafe
  <2>3. CASE \/ AttemptFailed(w) \/ UploadAccepted(w) \/ UploadAmbiguous(w)
             \/ RecordUpload(w) \/ RecordTransfer(w) \/ ReleaseLease(w)
    BY <1>1, <2>3, LeavingSafe, UploadSafe, RecordSafe
  <2>4. CASE \/ PollPublished(w) \/ PollFailed(w) \/ PollProcessing(w)
             \/ FailWithWork(w) \/ FailWithoutWork(w)
             \/ ResetForRetry(w) \/ RetryLater(w)
    BY <1>1, <2>4, PollPublishedSafe, PollSafe, FailWithoutWorkSafe, ResetSafe
  <2> QED
    BY <1>3, <2>1, <2>2, <2>3, <2>4 DEF Work
<1>4. ASSUME NEW w \in Workers, Disturbance(w) PROVE SafetyInv'
  BY <1>1, <1>4, LeavingSafe, UploadSafe, RecordSafe DEF Disturbance
<1>5. CASE Disconnector
  BY <1>1, <1>5, PrepareSafe, RevokeSafe, ChannelSafe DEF Disconnector
<1>6. ASSUME NEW e \in Executions, ExpireClaim(e) PROVE SafetyInv'
  BY <1>1, <1>6, ExpireClaimSafe
<1>7. CASE ExpireLease \/ UNCHANGED vars
  BY <1>1, <1>7, ChannelSafe
<1> QED
  BY <1>2, <1>3, <1>4, <1>5, <1>6, <1>7 DEF Next

(* The inductive invariant of this module, of every execution that no overtaken
   read has started and, but for the exclusion of uploads, of the others as well:
   nobody uploads for an execution that is not started, nobody with another worker,
   what is shown as published is at the provider, a completed row keeps its
   execution from the disconnection, and claims count from their row. *)
THEOREM SafetyInvariance == Spec => []SafetyInv
BY InitSafetyInv, NextSafetyInv, PTL DEF Spec

(* Two workers never upload for the same execution at once, whatever they lost,
   unless one of them started it after a read that had been overtaken. The update
   that starts an execution does not name its state, so that is all there is: while
   no such start has happened, only who read it as not started starts it, and who
   started it alone puts it back. *)
THEOREM UploadsAreExclusive == Spec => []UploadExclusive
<1>1. SafetyInv => UploadExclusive
  BY DEF SafetyInv, OneUploader, JobShape, UploadExclusive
<1> QED
  BY <1>1, SafetyInvariance, PTL

(* What is shown as processing or published is at the provider. *)
THEOREM PublishedAreReal == Spec => []PublishedIsReal
<1>1. SafetyInv => PublishedIsReal
  BY DEF SafetyInv, Real, RealExecution, Referenced, PublishedIsReal
<1> QED
  BY <1>1, SafetyInvariance, PTL

(* The retry counter stays within its bound, for every bound. *)
THEOREM AttemptsAreBounded == Spec => []AttemptBound
<1>1. SafetyInv => AttemptBound
  BY DEF SafetyInv, Counted
<1> QED
  BY <1>1, SafetyInvariance, PTL

(* Every step of the publishing code is one that the contract of the outbox allows:
   a row ends or returns only through a live claim of it, a completed one is never
   written again, and a disconnection, whose update of the rows names no state,
   meets none that is completed. *)
THEOREM ImplementsContract == Spec => HonoursContract
<1>1. Init => Contract!Init
  BY DEF Init, Contract!Init, Standing
<1>2. SafetyInv /\ [Next]_vars => Honoured
  BY NextSafe DEF SafetyInv, Real, Safe
<1> QED
  BY <1>1, <1>2, SafetyInvariance, PTL DEF Spec, HonoursContract, Contract!Spec, Honoured

=============================================================================
