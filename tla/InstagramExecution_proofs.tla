---------------------- MODULE InstagramExecution_proofs ----------------------
(***************************************************************************)
(* Theorems about InstagramExecution for every number of callers, versions,  *)
(* executions, connections and faults.                                       *)
(*                                                                         *)
(* The strengthening says what a checkpoint tells of the provider's objects   *)
(* (RowsSound), what a caller may conclude from what it holds (JobsSound) and  *)
(* an open transaction from what it has read (TransactionSound), that of the  *)
(* executions of one version all but one are spent (Sole), and where the      *)
(* provider's grant stands beside the channel (GrantSound). That the program   *)
(* stays within the trigger follows from the first three.                     *)
(***************************************************************************)
EXTENDS InstagramExecution, TLAPS

(* The objects a write made. *)
Count(e, operation) == IF operation = "create" THEN containers[e] ELSE reels[e]

(* One object at most; none where the write may be repeated, and one where it
   is called done. *)
Settles(state, count) ==
  /\ count \in {0, 1}
  /\ state \in Repeatable => count = 0
  /\ state = "succeeded" => count = 1

(* What is published is called so until a disconnection that had read the
   execution before calls it otherwise; it takes the account away. *)
RowSound(e) ==
  LET x == execution[e] IN
  /\ x.state = "absent" => x = NoExecutionRow
  /\ x.state = "not_started" => x.create = "not_started" /\ x.publish = "not_started"
  /\ x.container => x.create = "succeeded"
  /\ x.media => x.publish = "succeeded" /\ x.container
  /\ x.state = "published" => x.publish = "succeeded"
  /\ x.publish = "succeeded" => x.state = "published" \/ VersionOf[e] \notin bound
  /\ x.state \in {"cancelled", "failed"} /\ e \notin overtaken =>
       x.publish \in Repeatable
  /\ Settles(x.create, containers[e])
  /\ Settles(x.publish, reels[e])

RowsSound == \A e \in Executions : RowSound(e)

(* A caller is alone with its execution. *)
Alone(w) ==
  /\ job[w].step = "idle" => job[w] = NoJob
  /\ job[w].step # "idle" =>
       /\ execution[job[w].execution].state # "absent"
       /\ \A v \in Workers \ {w} : job[v].execution # job[w].execution

(* What it has read as not started has nothing at the provider, whatever its state
   has become; and nobody has failed it. *)
Fresh(w) ==
  LET x == execution[job[w].execution] IN
  job[w].fresh =>
    /\ job[w].step = "reading"
    /\ x.state \in {"not_started", "needs_attention", "cancelled"}
    /\ x.create = "not_started" /\ x.publish = "not_started"

(* A call it is about to make is announced, and was not made before. *)
Announced(w) ==
  LET x == execution[job[w].execution] IN
  job[w].step \in Operations =>
    /\ job[w].operation = job[w].step
    /\ x.state \in {"publishing", "needs_attention", "cancelled"}
    /\ x.state = "cancelled" => job[w].execution \in overtaken
    /\ WriteState(x, job[w].operation) = "started"
    /\ Count(job[w].execution, job[w].operation) = 0

(* What it will record is so. *)
Learnt(w) ==
  job[w].step = "record" =>
    /\ job[w].outcome \in {"failed", "absent"} =>
         Count(job[w].execution, job[w].operation) = 0
    /\ job[w].outcome = "succeeded" =>
         Count(job[w].execution, job[w].operation) = 1

JobSound(w) == Alone(w) /\ Fresh(w) /\ Announced(w) /\ Learnt(w)

JobsSound == \A w \in Workers : JobSound(w)

(* What a disconnection is going to cancel has no unsettled write, but for one
   that was announced since. *)
EndSound(e) ==
  /\ transaction.ends[e] # "none" =>
       /\ transaction.disconnection = "locked" /\ transaction.account
       /\ execution[e].state # "absent"
  /\ transaction.ends[e] = "cancelled" /\ e \notin overtaken =>
       execution[e].create \notin Unsure /\ execution[e].publish \in Repeatable

TransactionSound ==
  /\ transaction.disconnection # "none" => channel.generation < MaxGeneration
  /\ transaction.callback \in sent \cup {0}
  /\ \A e \in Executions : EndSound(e)

(* An execution at an end that left nothing at the provider, and that no caller
   has read as not started: no caller takes it up again. *)
Spent(e) ==
  LET x == execution[e] IN
  /\ x.state \in {"failed", "cancelled", "needs_attention"}
  /\ x.create \in Repeatable /\ x.publish \in Repeatable
  /\ \A w \in Workers : job[w].execution = e => ~ job[w].fresh

Sole ==
  \A d, e \in Executions :
    d # e /\ VersionOf[d] = VersionOf[e]
      /\ execution[d].state # "absent" /\ execution[e].state # "absent"
    => Spent(d) \/ Spent(e)

(* The provider honours the last authorization or none. An authorization that is
   neither forgotten, nor held, nor heard of is the one whose removal the
   disconnected channel waits for, as long as no other one that was forgotten has
   been removed: the provider calls back for that one too. An authorization that the
   latest attempt may still bring is not forgotten yet. *)
Outstanding == (1..granted) \ (forgotten \cup receipts \cup {channel.held})

Misled ==
  (forgotten \ (IF channel.state = "connecting" THEN {offered} ELSE {})) \cap sent # {}

GrantSound ==
  /\ grant \in {0, granted} \ sent /\ offered \in 0..granted
  /\ sent \subseteq 1..granted
  /\ transaction.callback # 0 => transaction.callback \notin receipts
  /\ transaction.callback # 0 /\ channel.state = "connecting" =>
       transaction.callback # offered
  /\ channel.held # 0 =>
       /\ transaction.callback = 0
       /\ channel.removal = "not_applicable" /\ channel.correlation = "not_applicable"
  /\ transaction.disconnection # "none" /\ transaction.account =>
       transaction.correlation = "not_applicable"
  /\ ~ Misled =>
       /\ \A a, b \in Outstanding : a = b
       /\ Outstanding # {} =>
            /\ channel.state = "disconnected" /\ channel.held = 0
            /\ channel.removal = "pending" /\ channel.correlation = "pending"
            /\ transaction.disconnection = "none" /\ ~ transaction.connection

IInv == TypeOK /\ RowsSound /\ JobsSound /\ TransactionSound /\ Sole /\ GrantSound

USE DEF WriteStates, Unsure, Repeatable, ExecutionStates, OpenStates, ChannelStates,
        RemovalStates, Steps, Operations, Outcomes

-----------------------------------------------------------------------------
(* Types *)

LEMMA NoJobTyped ==
  NoJob \in Jobs /\ NoJob.step = "idle" /\ NoJob.execution = NoExecution
BY BoundAssumption DEF NoJob, Jobs

LEMMA NoTransactionTyped ==
  /\ NoTransaction \in Transactions
  /\ NoTransaction.disconnection = "none" /\ NoTransaction.ends = NoEnds
BY BoundAssumption DEF NoTransaction, NoEnds, Transactions

LEMMA RowTyped ==
  ASSUME NEW x \in ExecutionRows, NEW operation \in Operations, NEW state \in WriteStates
  PROVE  /\ WithWrite(x, operation, state) \in ExecutionRows
         /\ Succeeded(x, operation) \in ExecutionRows
         /\ Ambiguous(x, operation) \in ExecutionRows
         /\ Failed(x, operation) \in ExecutionRows
         /\ Erased(x) \in ExecutionRows
         /\ \A end \in {"none", "cancelled", "needs_attention"} :
              Ended(x, end) \in ExecutionRows
<1>1. WithWrite(x, operation, state) \in ExecutionRows
  BY DEF WithWrite, ExecutionRows
<1>2. Succeeded(x, operation) \in ExecutionRows
  BY DEF Succeeded, ExecutionRows
<1>3. Ambiguous(x, operation) \in ExecutionRows
  BY DEF Ambiguous, WithWrite, ExecutionRows
<1>4. Failed(x, operation) \in ExecutionRows
  BY DEF Failed, WithWrite, ExecutionRows
<1>5. Erased(x) \in ExecutionRows
  BY DEF Erased, ExecutionRows
<1>6. ASSUME NEW end \in {"none", "cancelled", "needs_attention"}
      PROVE  Ended(x, end) \in ExecutionRows
  BY DEF Ended, ExecutionRows
<1> QED
  BY <1>1, <1>2, <1>3, <1>4, <1>5, <1>6

(* A worker's step keeps its job typed, and its execution while it is at work. *)
OwnJob(w) ==
  /\ job[w].step # "idle"
  /\ job' \in [Workers -> Jobs]
  /\ \A v \in Workers \ {w} : job'[v] = job[v]
  /\ \/ job'[w] = NoJob
     \/ /\ job'[w].execution = job[w].execution
        /\ job'[w].step \notin {"idle", "reading"}

LEMMA OwnJobs ==
  ASSUME TypeOK, NEW w \in Workers,
         \/ ReadWork(w) \/ ReadCheckpoint(w) \/ ReadContainer(w)
         \/ PassFence(w) \/ FenceRefused(w)
         \/ \E operation \in Operations : Claim(w, operation)
         \/ ProviderWrite(w) \/ Reconcile(w)
         \/ RecordSucceeded(w) \/ RecordFailed(w) \/ RecordAmbiguous(w)
         \/ RecordAbsent(w) \/ RecordRefused(w) \/ Release(w) \/ Crash(w)
  PROVE  OwnJob(w)
<1>1. job \in [Workers -> Jobs] /\ job[w] \in Jobs
  BY DEF TypeOK
<1>2. ASSUME NEW held \in Jobs, job' = [job EXCEPT ![w] = held], job[w].step # "idle",
             \/ held = NoJob
             \/ /\ held.execution = job[w].execution
                /\ held.step \notin {"idle", "reading"}
      PROVE  OwnJob(w)
  BY <1>1, <1>2 DEF OwnJob
<1>3. ASSUME NEW step \in Steps \ {"idle", "reading"}, GoTo(w, step),
             job[w].step # "idle"
      PROVE  OwnJob(w)
  <2> DEFINE held == [job[w] EXCEPT !.step = step]
  <2>1. job' = [job EXCEPT ![w] = held]
    BY <1>1, <1>3 DEF GoTo
  <2>2. held \in Jobs /\ held.execution = job[w].execution /\ held.step = step
    BY <1>1 DEF Jobs
  <2> QED
    BY <1>2, <1>3, <2>1, <2>2
<1>4. CASE ReadCheckpoint(w) \/ ReadContainer(w)
  <2>1. NextAction(execution[job[w].execution]) \in Steps \ {"idle", "reading"}
    BY DEF NextAction
  <2> QED
    BY <1>3, <1>4, <2>1 DEF ReadCheckpoint, ReadContainer
<1>5. ASSUME NEW step \in {"next", "release"}, Settle(w, step), job[w].step # "idle"
      PROVE  OwnJob(w)
  <2>1. job' = [job EXCEPT ![w] = Settled(job[w], step)]
    BY <1>1, <1>5 DEF Settle
  <2>2. /\ Settled(job[w], step) \in Jobs /\ Settled(job[w], step).step = step
        /\ Settled(job[w], step).execution = job[w].execution
    BY <1>1 DEF Settled, Jobs
  <2> QED
    BY <1>2, <1>5, <2>1, <2>2
<1>6. ASSUME NEW operation \in Operations, Claim(w, operation)
      PROVE  OwnJob(w)
  <2> DEFINE held == [job[w] EXCEPT !.step = operation, !.operation = operation,
                                    !.fenced = FALSE]
  <2>1. job[w].step # "idle"
    BY <1>6 DEF Claim
  <2>2. Settle(w, "release") \/ job' = [job EXCEPT ![w] = held]
    BY <1>1, <1>6 DEF Claim
  <2>3. held \in Jobs /\ held.execution = job[w].execution /\ held.step = operation
    BY <1>1 DEF Jobs
  <2> QED
    BY <1>2, <1>5, <2>1, <2>2, <2>3
<1>7. CASE ProviderWrite(w)
  <2>1. PICK outcome \in Outcomes :
          job' = [job EXCEPT ![w] = [job[w] EXCEPT !.step = "record", !.outcome = outcome]]
    BY <1>1, <1>7 DEF ProviderWrite
  <2> DEFINE held == [job[w] EXCEPT !.step = "record", !.outcome = outcome]
  <2>2. held \in Jobs /\ held.execution = job[w].execution /\ held.step = "record"
    BY <1>1 DEF Jobs
  <2>3. job[w].step # "idle"
    BY <1>7 DEF ProviderWrite
  <2> QED
    BY <1>2, <2>1, <2>2, <2>3
<1>8. CASE Reconcile(w)
  <2>1. PICK operation \in Operations, outcome \in Outcomes :
          job' = [job EXCEPT ![w] = [job[w] EXCEPT !.step = "record",
                                       !.operation = operation, !.outcome = outcome]]
    BY <1>1, <1>8 DEF Reconcile
  <2> DEFINE held == [job[w] EXCEPT !.step = "record", !.operation = operation,
                                    !.outcome = outcome]
  <2>2. held \in Jobs /\ held.execution = job[w].execution /\ held.step = "record"
    BY <1>1 DEF Jobs
  <2>3. job[w].step # "idle"
    BY <1>8 DEF Reconcile
  <2> QED
    BY <1>2, <2>1, <2>2, <2>3
<1>9. ASSUME \/ RecordSucceeded(w) \/ RecordFailed(w) \/ RecordAmbiguous(w)
             \/ RecordAbsent(w) \/ RecordRefused(w) \/ FenceRefused(w)
      PROVE  OwnJob(w)
  <2>1. \E step \in {"next", "release"} : Settle(w, step)
    BY <1>9 DEF RecordSucceeded, RecordFailed, RecordAmbiguous, RecordAbsent,
       RecordRefused, Record, FenceRefused
  <2>2. job[w].step # "idle"
    BY <1>9 DEF RecordSucceeded, RecordFailed, RecordAmbiguous, RecordAbsent,
       RecordRefused, Record, FenceRefused, FencedSteps
  <2> QED
    BY <1>5, <2>1, <2>2
<1>10. CASE Release(w) \/ Crash(w)
  BY <1>1, <1>2, <1>10, NoJobTyped DEF Release, Crash
<1>11. CASE PassFence(w)
  <2> DEFINE held == [job[w] EXCEPT !.fenced = TRUE]
  <2>1. job' = [job EXCEPT ![w] = held] /\ job[w].step # "idle"
    BY <1>1, <1>11 DEF PassFence, FencedSteps
  <2>2. held \in Jobs /\ held.execution = job[w].execution /\ held.step = job[w].step
    BY <1>1 DEF Jobs
  <2>3. job[w].step # "reading"
    BY <1>11 DEF PassFence, FencedSteps
  <2> QED
    BY <1>2, <2>1, <2>2, <2>3
<1>12. CASE ReadWork(w)
  <2> DEFINE held == [job[w] EXCEPT !.step = "next", !.fresh = FALSE,
                                    !.generation = channel.generation]
  <2>1. job' = [job EXCEPT ![w] = NoJob] \/ job' = [job EXCEPT ![w] = held]
    BY <1>1, <1>12 DEF ReadWork
  <2>2. held \in Jobs /\ held.execution = job[w].execution /\ held.step = "next"
    BY <1>1 DEF TypeOK, ChannelRows, Jobs
  <2>3. job[w].step # "idle"
    BY <1>12 DEF ReadWork
  <2> QED
    BY <1>2, <2>1, <2>2, <2>3, NoJobTyped
<1> QED
  BY <1>4, <1>6, <1>7, <1>8, <1>9, <1>10, <1>11, <1>12

LEMMA CallerTyped ==
  ASSUME TypeOK, NEW w \in Workers,
         \/ ReadWork(w) \/ ReadCheckpoint(w) \/ ReadContainer(w)
         \/ PassFence(w) \/ FenceRefused(w)
         \/ \E operation \in Operations : Claim(w, operation)
         \/ ProviderWrite(w) \/ Reconcile(w)
         \/ RecordSucceeded(w) \/ RecordFailed(w) \/ RecordAmbiguous(w)
         \/ RecordAbsent(w) \/ RecordRefused(w) \/ Release(w) \/ Crash(w)
  PROVE  TypeOK'
<1>1. OwnJob(w)
  BY OwnJobs
<1>2. /\ job' \in [Workers -> Jobs]
      /\ \A v \in Workers : job'[v].step # "idle" => job'[v].execution \in Executions
  BY <1>1, NoJobTyped DEF TypeOK, OwnJob
<1>3. /\ execution \in [Executions -> ExecutionRows] /\ channel \in ChannelRows
      /\ job[w].execution \in Executions /\ job[w] \in Jobs
      /\ execution[job[w].execution] \in ExecutionRows
  BY <1>1 DEF TypeOK, OwnJob
<1>4. CASE \/ ReadCheckpoint(w) \/ ReadContainer(w) \/ PassFence(w) \/ FenceRefused(w)
          \/ Reconcile(w) \/ RecordRefused(w)
  BY <1>2, <1>4 DEF TypeOK, ReadCheckpoint, ReadContainer, PassFence, FenceRefused,
     Reconcile, RecordRefused, provider, removal
<1>5. ASSUME NEW operation \in Operations, Claim(w, operation)
      PROVE  TypeOK'
  <2>1. execution' \in [Executions -> ExecutionRows]
    BY <1>3, <1>5, RowTyped DEF Claim
  <2>2. overtaken' \subseteq Executions
    BY <1>3, <1>5 DEF Claim, TypeOK
  <2> QED
    BY <1>2, <1>5, <2>1, <2>2 DEF TypeOK, Claim, provider, removal
<1>6. CASE ProviderWrite(w)
  <2>1. containers' \in [Executions -> Nat] /\ reels' \in [Executions -> Nat]
    BY <1>3, <1>6 DEF ProviderWrite, TypeOK, provider
  <2> QED
    BY <1>2, <1>6, <2>1 DEF TypeOK, ProviderWrite, removal
<1>7. ASSUME RecordSucceeded(w) \/ RecordFailed(w) \/ RecordAmbiguous(w) \/ RecordAbsent(w)
      PROVE  TypeOK'
  <2>1. job[w].operation \in Operations
    BY <1>3 DEF Jobs
  <2>2. execution' \in [Executions -> ExecutionRows]
    <3>1. CASE RecordSucceeded(w)
      BY <1>3, <2>1, <3>1, RowTyped DEF RecordSucceeded, Record
    <3>2. CASE RecordFailed(w)
      BY <1>3, <2>1, <3>2, RowTyped DEF RecordFailed, Record
    <3>3. CASE RecordAmbiguous(w)
      BY <1>3, <2>1, <3>3, RowTyped DEF RecordAmbiguous, Record
    <3>4. CASE RecordAbsent(w)
      BY <1>3, <2>1, <3>4, RowTyped DEF RecordAbsent, Record
    <3> QED
      BY <1>7, <3>1, <3>2, <3>3, <3>4
  <2>3. UNCHANGED <<bound, channel, transaction, overtaken, provider, removal, budget>>
    BY <1>7 DEF RecordSucceeded, RecordFailed, RecordAmbiguous, RecordAbsent, Record
  <2> QED
    BY <1>2, <2>2, <2>3 DEF TypeOK, provider, removal
<1>8. CASE Release(w)
  <2>1. channel' \in ChannelRows
    <3>1. 0 \in 0..MaxGeneration
      BY BoundAssumption
    <3> QED
      BY <1>3, <1>8, <3>1 DEF Release, WithoutLease, ChannelRows
  <2> QED
    BY <1>2, <1>8, <2>1 DEF TypeOK, Release, provider, removal
<1>9. CASE Crash(w)
  <2>1. budget' \in 0..MaxFaults
    BY <1>9, BoundAssumption DEF TypeOK, Crash
  <2> QED
    BY <1>2, <1>9, <2>1 DEF TypeOK, Crash, provider, removal
<1>10. CASE ReadWork(w)
  <2>1. channel' \in ChannelRows
    BY <1>3, <1>10 DEF ReadWork, ChannelRows
  <2>2. execution' \in [Executions -> ExecutionRows]
    <3>1. \A state \in ExecutionStates :
            [execution[job[w].execution] EXCEPT !.state = state] \in ExecutionRows
      BY <1>3 DEF ExecutionRows
    <3>2. PICK state \in ExecutionStates :
            execution' \in {execution, [execution EXCEPT ![job[w].execution] =
                               [execution[job[w].execution] EXCEPT !.state = state]]}
      <4>1. execution[job[w].execution].state \in ExecutionStates
        BY <1>3 DEF ExecutionRows
      <4> QED
        BY <1>3, <1>10, <4>1 DEF ReadWork
    <3> QED
      BY <1>3, <3>1, <3>2
  <2> QED
    BY <1>2, <1>10, <2>1, <2>2 DEF TypeOK, ReadWork, provider, removal
<1> QED
  BY <1>4, <1>5, <1>6, <1>7, <1>8, <1>9, <1>10

LEMMA ReadingTyped ==
  ASSUME TypeOK, NEW w \in Workers, NEW e \in Executions, ReadExecution(w, e)
  PROVE  TypeOK'
<1>1. /\ job' \in [Workers -> Jobs]
      /\ \A v \in Workers : job'[v].step # "idle" => job'[v].execution \in Executions
  <2> DEFINE held == [NoJob EXCEPT !.step = "reading", !.execution = e,
                                   !.fresh = execution[e].state = "not_started"]
  <2>1. held \in Jobs /\ held.execution = e
    BY NoJobTyped DEF Jobs
  <2>2. job' = [job EXCEPT ![w] = held]
    BY DEF ReadExecution
  <2> QED
    BY <2>1, <2>2 DEF TypeOK
<1> QED
  BY <1>1 DEF TypeOK, ReadExecution, provider, removal

LEMMA RowsTyped ==
  ASSUME TypeOK, TransactionSound,
         \/ \E e \in Executions : Confirm(e) \/ EndWithoutEvidence(e)
         \/ Disconnect \/ ExpireAuthorization
  PROVE  TypeOK'
<1>1. execution \in [Executions -> ExecutionRows] /\ channel \in ChannelRows
  BY DEF TypeOK
<1>2. ASSUME NEW e \in Executions, Confirm(e)
      PROVE  TypeOK'
  <2>1. execution' = [execution EXCEPT ![e] =
                        [execution[e] EXCEPT !.state = "not_started", !.row = "pending"]]
    BY <1>1, <1>2 DEF Confirm
  <2>2. [execution[e] EXCEPT !.state = "not_started", !.row = "pending"] \in ExecutionRows
    BY <1>1 DEF ExecutionRows
  <2>3. execution' \in [Executions -> ExecutionRows]
    BY <1>1, <2>1, <2>2
  <2> QED
    BY <1>2, <2>3 DEF TypeOK, Confirm, provider, removal
<1>3. ASSUME NEW e \in Executions, EndWithoutEvidence(e)
      PROVE  TypeOK'
  <2>1. PICK state \in ExecutionStates, row \in {"completed", "dead"} :
          execution' = [execution EXCEPT ![e] =
                          [execution[e] EXCEPT !.state = state, !.row = row]]
    <3>1. execution[e].state \in ExecutionStates
      BY <1>1 DEF ExecutionRows
    <3> QED
      BY <1>1, <1>3, <3>1 DEF EndWithoutEvidence
  <2>2. [execution[e] EXCEPT !.state = state, !.row = row] \in ExecutionRows
    BY <1>1 DEF ExecutionRows
  <2>3. execution' \in [Executions -> ExecutionRows]
    BY <1>1, <2>1, <2>2
  <2> QED
    BY <1>3, <2>3 DEF TypeOK, EndWithoutEvidence, provider, removal
<1>4. CASE Disconnect
  <2>1. execution' \in [Executions -> ExecutionRows]
    <3>1. \A e \in Executions :
            /\ transaction.ends[e] \in {"none", "cancelled", "needs_attention"}
            /\ execution[e] \in ExecutionRows /\ Erased(execution[e]) \in ExecutionRows
      BY <1>1, RowTyped DEF TypeOK, Transactions
    <3> QED
      BY <1>4, <3>1, RowTyped DEF Disconnect
  <2>2. channel' \in ChannelRows
    <3>1. channel.generation + 1 \in 0..MaxGeneration /\ 0 \in 0..MaxGeneration
          /\ 0 \in 0..MaxAuthorizations
      BY <1>1, <1>4, BoundAssumption DEF TransactionSound, Disconnect, ChannelRows
    <3>2. Removed(transaction.correlation) \in RemovalStates
      BY DEF Removed
    <3> QED
      BY <1>1, <1>4, <3>1, <3>2 DEF Disconnect, WithoutLease, ChannelRows
  <2>3. transaction' \in Transactions
    BY <1>4, NoTransactionTyped DEF Disconnect, TypeOK, Transactions
  <2>4. forgotten' \subseteq 1..MaxAuthorizations
    BY <1>1, <1>4, BoundAssumption DEF Disconnect, Unawaited, TypeOK, ChannelRows
  <2> QED
    BY <1>4, <2>1, <2>2, <2>3, <2>4 DEF TypeOK, Disconnect, provider
<1>5. CASE ExpireAuthorization
  <2>1. execution' \in [Executions -> ExecutionRows]
    BY <1>1, <1>5, RowTyped DEF ExpireAuthorization
  <2>2. 0 \in 0..MaxGeneration /\ 0 \in 0..MaxAuthorizations
    BY BoundAssumption
  <2>3. channel' \in ChannelRows
    BY <1>1, <1>5, <2>2 DEF ExpireAuthorization, WithoutLease, ChannelRows
  <2>4. forgotten' \subseteq 1..MaxAuthorizations
    BY <1>1, <1>5, BoundAssumption DEF ExpireAuthorization, TypeOK, ChannelRows
  <2> QED
    BY <1>5, <2>1, <2>3, <2>4 DEF TypeOK, ExpireAuthorization, provider
<1> QED
  BY <1>2, <1>3, <1>4, <1>5

LEMMA ChannelTyped ==
  ASSUME TypeOK, TransactionSound,
         \/ \E v \in Versions : Approve(v)
         \/ ExpireLease
         \/ ReadChannel \/ BeginConnection \/ CompleteConnection \/ DenyConnection
         \/ ReadDisconnection \/ ReadEnds
         \/ Authorize \/ RemoveAtProvider
         \/ \E a \in sent : ReadCallback(a)
         \/ ReceiveDeauthorization
  PROVE  TypeOK'
<1>1. channel \in ChannelRows /\ transaction \in Transactions /\ 0 \in 0..MaxAuthorizations
  BY BoundAssumption DEF TypeOK
<1>2. CASE \E v \in Versions : Approve(v)
  BY <1>2 DEF TypeOK, Approve, provider, removal
<1>3. CASE ExpireLease
  <2>1. channel' \in ChannelRows
    BY <1>1, <1>3 DEF ExpireLease, ChannelRows
  <2>2. budget' \in 0..MaxFaults
    BY <1>3, BoundAssumption DEF ExpireLease, TypeOK
  <2> QED
    BY <1>3, <2>1, <2>2 DEF TypeOK, ExpireLease, provider, removal
<1>4. CASE ReadChannel \/ DenyConnection \/ ReadDisconnection
  <2>1. channel' \in ChannelRows /\ transaction' \in Transactions
    BY <1>1, <1>4 DEF ReadChannel, DenyConnection, ReadDisconnection, ChannelRows,
       Transactions
  <2> QED
    BY <1>4, <2>1 DEF TypeOK, ReadChannel, DenyConnection, ReadDisconnection, provider,
       removal
<1>5. CASE BeginConnection
  <2>1. channel' \in ChannelRows /\ transaction' \in Transactions
    BY <1>1, <1>5 DEF BeginConnection, ChannelRows, Transactions
  <2>2. asked' \in BOOLEAN /\ offered' \in 0..MaxAuthorizations
    BY <1>1, <1>5 DEF BeginConnection, TypeOK
  <2>3. budget' \in {budget, budget - 1} /\ (budget' = budget \/ budget > 0)
    BY <1>5 DEF BeginConnection
  <2>4. budget' \in 0..MaxFaults
    BY <2>3, BoundAssumption DEF TypeOK
  <2> QED
    BY <1>5, <2>1, <2>2, <2>4 DEF TypeOK, BeginConnection, provider
<1>6. CASE CompleteConnection
  <2>1. channel' \in ChannelRows
    BY <1>1, <1>6 DEF CompleteConnection, TypeOK, ChannelRows
  <2> QED
    BY <1>1, <1>6, <2>1 DEF TypeOK, CompleteConnection, provider
<1>7. CASE ReadEnds
  <2>1. \A x : End(x) \in {"none", "cancelled", "needs_attention"}
    BY DEF End
  <2>2. transaction' \in Transactions
    BY <1>1, <1>7, <2>1 DEF ReadEnds, Transactions
  <2> QED
    BY <1>7, <2>2 DEF TypeOK, ReadEnds, provider, removal
<1>8. CASE Authorize
  <2>1. granted + 1 \in 1..MaxAuthorizations
    BY <1>8, BoundAssumption DEF TypeOK, Authorize
  <2> QED
    BY <1>8, <2>1 DEF TypeOK, Authorize, provider
<1>9. CASE RemoveAtProvider
  <2>1. grant \in 1..MaxAuthorizations
    BY <1>9, BoundAssumption DEF TypeOK, RemoveAtProvider
  <2> QED
    BY <1>1, <1>9, <2>1 DEF TypeOK, RemoveAtProvider, provider
<1>10. ASSUME NEW a \in sent, ReadCallback(a)
       PROVE  TypeOK'
  <2>1. transaction' \in Transactions
    BY <1>1, <1>10 DEF TypeOK, ReadCallback, Transactions
  <2> QED
    BY <1>10, <2>1 DEF TypeOK, ReadCallback, provider, removal
<1>11. CASE ReceiveDeauthorization
  <2>1. channel' \in ChannelRows /\ transaction' \in Transactions
    BY <1>1, <1>11 DEF ReceiveDeauthorization, ChannelRows, Transactions
  <2> QED
    BY <1>11, <2>1 DEF TransactionSound, TypeOK, ReceiveDeauthorization, provider
<1> QED
  BY <1>2, <1>3, <1>4, <1>5, <1>6, <1>7, <1>8, <1>9, <1>10, <1>11

-----------------------------------------------------------------------------
(* Checkpoints and callers *)

(* A caller's step on its own execution says nothing about the others. *)
LEMMA OwnStep ==
  ASSUME TypeOK, RowsSound, JobsSound, NEW w \in Workers, OwnJob(w),
         NEW e \in Executions, e = job[w].execution,
         \A d \in Executions \ {e} :
           /\ execution'[d] = execution[d]
           /\ containers'[d] = containers[d] /\ reels'[d] = reels[d]
           /\ d \in overtaken' <=> d \in overtaken,
         UNCHANGED bound, RowSound(e)', execution'[e].state # "absent",
         Fresh(w)', Announced(w)', Learnt(w)'
  PROVE  RowsSound' /\ JobsSound'
<1>1. RowsSound'
  BY DEF RowsSound, RowSound
<1>2. \A v \in Workers \ {w} : job'[v] = job[v]
  BY DEF OwnJob
<1>3. Alone(w)'
  <2>1. Alone(w) /\ \A v \in Workers \ {w} : job[v].execution # e
    BY DEF JobsSound, JobSound, Alone, OwnJob
  <2> QED
    BY <1>2, <2>1, NoJobTyped DEF Alone, OwnJob
<1>4. ASSUME NEW v \in Workers, v # w
      PROVE  JobSound(v)'
  <2>1. job'[v] = job[v] /\ JobSound(v)
    BY <1>2, <1>4 DEF JobsSound
  <2>2. CASE job[v].step = "idle"
    BY <2>1, <2>2 DEF JobSound, Alone, Fresh, Announced, Learnt
  <2>3. CASE job[v].step # "idle"
    <3>1. job[v].execution \in Executions \ {e}
      BY <1>4, <2>3 DEF TypeOK, JobsSound, JobSound, Alone
    <3>2. \A u \in Workers \ {v} : job'[u].execution # job'[v].execution
      <4>1. \A u \in Workers \ {v} : job[u].execution # job[v].execution
        BY <2>1, <2>3 DEF JobSound, Alone
      <4>2. job'[w].execution \in {e, NoExecution}
        BY NoJobTyped DEF OwnJob
      <4> QED
        BY <1>2, <2>1, <3>1, <4>1, <4>2, NullAssumption
    <3>3. Alone(v)'
      BY <2>1, <2>3, <3>1, <3>2 DEF JobSound, Alone
    <3>4. Fresh(v)' /\ Announced(v)' /\ Learnt(v)'
      BY <2>1, <3>1 DEF JobSound, Fresh, Announced, Learnt, Count
    <3> QED
      BY <3>3, <3>4 DEF JobSound
  <2> QED
    BY <2>2, <2>3
<1> QED
  BY <1>1, <1>3, <1>4 DEF JobsSound, JobSound

(* Steps of a caller that change only what it holds, or the channel. *)
LEMMA MemorySteps ==
  ASSUME TypeOK, RowsSound, JobsSound, NEW w \in Workers,
         \/ ReadCheckpoint(w) \/ ReadContainer(w) \/ PassFence(w) \/ FenceRefused(w)
         \/ Reconcile(w) \/ RecordRefused(w) \/ Release(w) \/ Crash(w)
  PROVE  /\ RowsSound' /\ JobsSound'
         /\ UNCHANGED <<bound, execution, overtaken, provider>>
<1>1. OwnJob(w) /\ UNCHANGED <<bound, execution, overtaken, containers, reels>>
  BY OwnJobs DEF ReadCheckpoint, ReadContainer, PassFence, FenceRefused, Reconcile,
     RecordRefused, Release, Crash, provider
<1>2. PICK e \in Executions : e = job[w].execution
  BY <1>1 DEF OwnJob, TypeOK
<1>3. RowSound(e) /\ execution[e].state # "absent" /\ job[w] \in Jobs
      /\ job \in [Workers -> Jobs]
  BY <1>1, <1>2 DEF RowsSound, JobsSound, JobSound, Alone, OwnJob, TypeOK
<1>4. RowSound(e)'
  BY <1>1, <1>3 DEF RowSound
<1>5. \A step \in Steps :
        /\ GoTo(w, step) => job'[w].step = step /\ job'[w].fresh = job[w].fresh
        /\ Settle(w, step) => job'[w].step = step /\ job'[w].fresh = job[w].fresh
  BY <1>3 DEF GoTo, Settle, Settled, Jobs
<1>6. job[w].step # "reading" => ~ job[w].fresh
  BY DEF JobsSound, JobSound, Fresh
<1>7. CASE Reconcile(w)
  <2> DEFINE operation == IF job[w].step = "reconcile_create" THEN "create" ELSE "publish"
  <2> DEFINE outcome == IF Count(e, operation) > 0 THEN "succeeded" ELSE "absent"
  <2>1. job' = [job EXCEPT ![w] = [job[w] EXCEPT !.step = "record",
                               !.operation = operation, !.outcome = outcome]]
    BY <1>2, <1>3, <1>7 DEF Reconcile, Count
  <2> HIDE DEF operation, outcome
  <2>2. /\ job'[w].outcome = outcome /\ job'[w].operation = operation
        /\ job'[w].execution = e /\ job'[w].step = "record" /\ ~ job'[w].fresh
    <3>1. ~ job[w].fresh
      BY <1>6, <1>7 DEF Reconcile
    <3> DEFINE held == [job[w] EXCEPT !.step = "record", !.operation = operation,
                                      !.outcome = outcome]
    <3>2. /\ held.outcome = outcome /\ held.operation = operation
          /\ held.execution = e /\ held.step = "record" /\ ~ held.fresh
      BY <1>2, <1>3, <3>1 DEF Jobs
    <3>3. job'[w] = held
      BY <1>3, <2>1
    <3> QED
      BY <3>2, <3>3
  <2> USE DEF operation, outcome
  <2>3. Count(e, operation) \in {0, 1}
    BY <1>3 DEF Count, RowSound, Settles
  <2>4. Fresh(w)' /\ Announced(w)'
    BY <2>2 DEF Fresh, Announced
  <2>5. Learnt(w)'
    BY <1>1, <2>2, <2>3 DEF Learnt, Count
  <2> QED
    BY <1>1, <1>2, <1>3, <1>4, <2>4, <2>5, OwnStep DEF provider
<1>8. CASE PassFence(w)
  <2>1. /\ job'[w].step = job[w].step /\ job'[w].outcome = job[w].outcome
        /\ job'[w].operation = job[w].operation /\ job'[w].execution = job[w].execution
        /\ job'[w].fresh = job[w].fresh
    BY <1>3, <1>8 DEF PassFence, Jobs
  <2>2. Fresh(w)' /\ Announced(w)' /\ Learnt(w)'
    BY <1>1, <1>2, <2>1 DEF JobsSound, JobSound, Fresh, Announced, Learnt, Count
  <2> QED
    BY <1>1, <1>2, <1>3, <1>4, <2>2, OwnStep DEF provider
<1>9. CASE \/ ReadCheckpoint(w) \/ ReadContainer(w) \/ FenceRefused(w)
           \/ RecordRefused(w) \/ Release(w) \/ Crash(w)
  <2>1. job'[w].step \notin Operations \cup {"record"} /\ ~ job'[w].fresh
    <3>1. CASE ReadCheckpoint(w)
      <4>1. NextAction(execution[e]) \in Steps \ {"create", "publish", "record"}
        BY DEF NextAction
      <4> QED
        BY <1>2, <1>5, <1>6, <3>1, <4>1 DEF ReadCheckpoint
    <3>2. CASE ReadContainer(w)
      BY <1>5, <1>6, <3>2 DEF ReadContainer
    <3>3. CASE FenceRefused(w) \/ RecordRefused(w)
      BY <1>5, <1>6, <3>3 DEF FenceRefused, FencedSteps, RecordRefused
    <3>4. CASE Release(w) \/ Crash(w)
      BY <1>3, <3>4 DEF Release, Crash, NoJob
    <3> QED
      BY <1>9, <3>1, <3>2, <3>3, <3>4
  <2>2. Fresh(w)' /\ Announced(w)' /\ Learnt(w)'
    BY <2>1 DEF Fresh, Announced, Learnt
  <2> QED
    BY <1>1, <1>2, <1>3, <1>4, <2>2, OwnStep DEF provider
<1> QED
  BY <1>7, <1>8, <1>9

(* The steps that write a checkpoint or call the provider. *)
LEMMA ClaimStep ==
  ASSUME TypeOK, RowsSound, JobsSound, NEW w \in Workers,
         NEW operation \in Operations, Claim(w, operation)
  PROVE  RowsSound' /\ JobsSound'
<1>1. OwnJob(w) /\ UNCHANGED <<bound, containers, reels>>
  BY OwnJobs DEF Claim, provider
<1>2. PICK e \in Executions : e = job[w].execution
  BY <1>1 DEF OwnJob, TypeOK
<1>3. /\ RowSound(e) /\ execution[e].state # "absent" /\ job[w] \in Jobs
      /\ job \in [Workers -> Jobs] /\ execution \in [Executions -> ExecutionRows]
      /\ execution[e] \in ExecutionRows
  BY <1>1, <1>2 DEF RowsSound, JobsSound, JobSound, Alone, OwnJob, TypeOK
<1>4. ~ job[w].fresh
  BY DEF Claim, JobsSound, JobSound, Fresh
<1>5. CASE ~ Claimable(execution[e], operation)
  <2>1. job'[w].step = "release" /\ job'[w].fresh = job[w].fresh
        /\ UNCHANGED <<execution, overtaken>>
    <3>1. Settle(w, "release") /\ UNCHANGED <<execution, overtaken>>
      BY <1>2, <1>5 DEF Claim
    <3> QED
      BY <1>3, <3>1 DEF Settle, Settled, Jobs
  <2>2. RowSound(e)'
    BY <1>1, <1>3, <2>1 DEF RowSound
  <2>3. Fresh(w)' /\ Announced(w)' /\ Learnt(w)'
    BY <1>4, <2>1 DEF Fresh, Announced, Learnt
  <2> QED
    BY <1>1, <1>2, <1>3, <2>1, <2>2, <2>3, OwnStep
<1>6. CASE Claimable(execution[e], operation)
  <2> DEFINE x == execution[e]
  <2>1. /\ x.state = "publishing" /\ InPhase(x, operation)
        /\ WriteState(x, operation) \in Repeatable
        /\ execution' = [execution EXCEPT ![e] = WithWrite(x, operation, "started")]
        /\ job' = [job EXCEPT ![w] = [job[w] EXCEPT !.step = operation,
                                        !.operation = operation, !.fenced = FALSE]]
        /\ \A d \in Executions \ {e} : d \in overtaken' <=> d \in overtaken
        /\ overtaken \subseteq overtaken'
    BY <1>2, <1>3, <1>6 DEF Claim, Claimable
  <2>2. /\ execution'[e] = WithWrite(x, operation, "started")
        /\ \A d \in Executions \ {e} : execution'[d] = execution[d]
    BY <1>3, <2>1
  <2>3. /\ job'[w].step = operation /\ job'[w].operation = operation
        /\ job'[w].execution = e /\ job'[w].fresh = job[w].fresh
    BY <1>2, <1>3, <2>1 DEF Jobs
  <2>4. RowSound(e)' /\ execution'[e].state = "publishing"
    <3>1. CASE operation = "create"
      BY <1>1, <1>3, <2>1, <2>2, <3>1 DEF RowSound, Settles, WithWrite, InPhase,
         CreatePhase, ExecutionRows
    <3>2. CASE operation = "publish"
      BY <1>1, <1>3, <2>1, <2>2, <3>2 DEF RowSound, Settles, WithWrite, InPhase,
         PublishPhase, WriteState, ExecutionRows
    <3> QED
      BY <3>1, <3>2
  <2>5. Announced(w)'
    <3>1. Count(e, operation) = 0
      BY <1>3, <2>1 DEF Count, RowSound, Settles, WriteState
    <3>2. WriteState(execution'[e], operation) = "started"
      BY <1>3, <2>2 DEF WriteState, WithWrite, ExecutionRows
    <3> QED
      BY <1>1, <2>3, <2>4, <3>1, <3>2 DEF Announced, Count
  <2>6. Fresh(w)' /\ Learnt(w)'
    BY <1>4, <2>3 DEF Fresh, Learnt
  <2> QED
    BY <1>1, <1>2, <2>1, <2>2, <2>4, <2>5, <2>6, OwnStep
<1> QED
  BY <1>5, <1>6

LEMMA WriteStep ==
  ASSUME TypeOK, RowsSound, JobsSound, NEW w \in Workers, ProviderWrite(w)
  PROVE  RowsSound' /\ JobsSound'
<1>1. OwnJob(w) /\ UNCHANGED <<bound, execution, overtaken>> /\ ~ job[w].fresh
  BY OwnJobs DEF ProviderWrite, JobsSound, JobSound, Fresh
<1>2. PICK e \in Executions : e = job[w].execution
  BY <1>1 DEF OwnJob, TypeOK
<1>3. PICK operation \in Operations : operation = job[w].operation
  BY <1>1 DEF OwnJob, TypeOK, Jobs
<1>4. /\ RowSound(e) /\ execution[e].state # "absent" /\ job[w] \in Jobs
      /\ job \in [Workers -> Jobs] /\ Announced(w)
      /\ containers \in [Executions -> Nat] /\ reels \in [Executions -> Nat]
  BY <1>1, <1>2 DEF RowsSound, JobsSound, JobSound, Alone, OwnJob, TypeOK
<1>5. WriteState(execution[e], operation) = "started" /\ Count(e, operation) = 0
  BY <1>2, <1>3, <1>4 DEF Announced, ProviderWrite
<1>6. PICK outcome \in {"succeeded", "failed", "ambiguous"} :
        /\ job' = [job EXCEPT ![w] = [job[w] EXCEPT !.step = "record",
                                                    !.outcome = outcome]]
        /\ \/ /\ outcome # "failed"
              /\ IF operation = "create"
                 THEN containers' = [containers EXCEPT ![e] = @ + 1] /\ UNCHANGED reels
                 ELSE reels' = [reels EXCEPT ![e] = @ + 1] /\ UNCHANGED containers
           \/ outcome # "succeeded" /\ UNCHANGED <<containers, reels>>
  BY <1>2, <1>3, <1>4 DEF ProviderWrite, provider
<1>7. /\ job'[w].step = "record" /\ job'[w].operation = operation
      /\ job'[w].execution = e /\ job'[w].outcome = outcome /\ ~ job'[w].fresh
  BY <1>1, <1>2, <1>3, <1>4, <1>6 DEF Jobs
<1>8. \A d \in Executions \ {e} : containers'[d] = containers[d] /\ reels'[d] = reels[d]
  BY <1>4, <1>6
<1>9. /\ Count(e, operation)' \in {0, 1}
      /\ outcome = "failed" => Count(e, operation)' = 0
      /\ outcome = "succeeded" => Count(e, operation)' = 1
  BY <1>4, <1>5, <1>6 DEF Count
<1>10. RowSound(e)'
  <2>1. CASE operation = "create"
    <3>1. containers'[e] \in {0, 1} /\ reels' = reels /\ execution[e].create = "started"
      BY <1>5, <1>6, <1>9, <2>1 DEF Count, WriteState
    <3> QED
      BY <1>1, <1>4, <3>1 DEF RowSound, Settles
  <2>2. CASE operation = "publish"
    <3>1. reels'[e] \in {0, 1} /\ containers' = containers
          /\ execution[e].publish = "started"
      BY <1>5, <1>6, <1>9, <2>2 DEF Count, WriteState
    <3> QED
      BY <1>1, <1>4, <3>1 DEF RowSound, Settles
  <2> QED
    BY <2>1, <2>2
<1>11. Fresh(w)' /\ Announced(w)' /\ Learnt(w)'
  BY <1>7, <1>9 DEF Fresh, Announced, Learnt, Count
<1> QED
  BY <1>1, <1>2, <1>4, <1>8, <1>10, <1>11, OwnStep

(* What a record makes of a checkpoint agrees with the objects it counts. *)
LEMMA RecordedRow ==
  ASSUME TypeOK, NEW e \in Executions, RowSound(e), NEW operation \in Operations,
         UNCHANGED <<bound, overtaken, containers, reels>>,
         \/ /\ SuccessAccepted(execution[e], operation) /\ Count(e, operation) = 1
            /\ execution'[e] = Succeeded(execution[e], operation)
         \/ /\ FailureAccepted(execution[e], operation) /\ Count(e, operation) = 0
            /\ execution'[e] = Failed(execution[e], operation)
         \/ /\ FailureAccepted(execution[e], operation)
            /\ execution'[e] = Ambiguous(execution[e], operation)
         \/ /\ AbsenceAccepted(execution[e], operation) /\ Count(e, operation) = 0
            /\ execution'[e] = Failed(execution[e], operation)
  PROVE  RowSound(e)' /\ execution'[e].state # "absent"
<1>1. execution[e] \in ExecutionRows
  BY DEF TypeOK
<1>2. CASE operation = "create"
  BY <1>1, <1>2 DEF RowSound, Settles, Count, SuccessAccepted, FailureAccepted,
     AbsenceAccepted, InPhase, CreatePhase, WriteState, Succeeded, Failed, Ambiguous,
     WithWrite, ExecutionRows
<1>3. CASE operation = "publish"
  BY <1>1, <1>3 DEF RowSound, Settles, Count, SuccessAccepted, FailureAccepted,
     AbsenceAccepted, InPhase, PublishPhase, WriteState, Succeeded, Failed, Ambiguous,
     WithWrite, ExecutionRows
<1> QED
  BY <1>2, <1>3

LEMMA RecordStep ==
  ASSUME TypeOK, RowsSound, JobsSound, NEW w \in Workers,
         RecordSucceeded(w) \/ RecordFailed(w) \/ RecordAmbiguous(w) \/ RecordAbsent(w)
  PROVE  RowsSound' /\ JobsSound'
<1>1. OwnJob(w) /\ UNCHANGED <<bound, overtaken, containers, reels>> /\ ~ job[w].fresh
  BY OwnJobs DEF RecordSucceeded, RecordFailed, RecordAmbiguous, RecordAbsent, Record,
     provider, JobsSound, JobSound, Fresh
<1>2. PICK e \in Executions : e = job[w].execution
  BY <1>1 DEF OwnJob, TypeOK
<1>3. PICK operation \in Operations : operation = job[w].operation
  BY <1>1 DEF OwnJob, TypeOK, Jobs
<1>4. /\ RowSound(e) /\ job[w] \in Jobs /\ job \in [Workers -> Jobs] /\ Learnt(w)
      /\ execution \in [Executions -> ExecutionRows]
  BY <1>1, <1>2 DEF RowsSound, JobsSound, JobSound, OwnJob, TypeOK
<1>5. PICK step \in {"next", "release"} : job' = [job EXCEPT ![w] = Settled(job[w], step)]
  BY <1>4 DEF RecordSucceeded, RecordFailed, RecordAmbiguous, RecordAbsent, Record, Settle
<1>6. Fresh(w)' /\ Announced(w)' /\ Learnt(w)'
  BY <1>1, <1>4, <1>5 DEF Settled, Jobs, Fresh, Announced, Learnt
<1>7. /\ \A d \in Executions \ {e} : execution'[d] = execution[d]
      /\ RowSound(e)' /\ execution'[e].state # "absent"
  <2>1. CASE RecordSucceeded(w)
    BY <1>1, <1>2, <1>3, <1>4, <2>1, RecordedRow DEF RecordSucceeded, Record, Learnt
  <2>2. CASE RecordFailed(w)
    BY <1>1, <1>2, <1>3, <1>4, <2>2, RecordedRow DEF RecordFailed, Record, Learnt
  <2>3. CASE RecordAmbiguous(w)
    BY <1>1, <1>2, <1>3, <1>4, <2>3, RecordedRow DEF RecordAmbiguous, Record
  <2>4. CASE RecordAbsent(w)
    BY <1>1, <1>2, <1>3, <1>4, <2>4, RecordedRow DEF RecordAbsent, Record, Learnt
  <2> QED
    BY <2>1, <2>2, <2>3, <2>4
<1> QED
  BY <1>1, <1>2, <1>6, <1>7, OwnStep

(* Steps that leave the callers and the objects alone, and of a row the write
   states: an announced call is still announced. *)
Undisturbed(e) ==
  LET x == execution[e]
      y == execution'[e]
  IN
  /\ y.create = x.create /\ y.publish = x.publish
  /\ x.state # "absent" => y.state # "absent"
  /\ x.state \in {"not_started", "needs_attention", "cancelled"} =>
       y.state \in {"not_started", "needs_attention", "cancelled"}
  /\ /\ x.state \in {"publishing", "needs_attention", "cancelled"}
     /\ x.create = "started" \/ x.publish = "started"
     => /\ y.state \in {"publishing", "needs_attention", "cancelled"}
        /\ y.state = "cancelled" => x.state = "cancelled" \/ e \in overtaken

LEMMA RowsChanged ==
  ASSUME TypeOK, JobsSound, UNCHANGED <<job, overtaken, containers, reels>>,
         \A e \in Executions : RowSound(e)' /\ Undisturbed(e)
  PROVE  RowsSound' /\ JobsSound'
<1>1. RowsSound'
  BY DEF RowsSound
<1>2. ASSUME NEW w \in Workers
      PROVE  JobSound(w)'
  <2>1. JobSound(w)
    BY DEF JobsSound
  <2>2. job[w].step # "idle" =>
          job[w].execution \in Executions /\ Undisturbed(job[w].execution)
    BY DEF TypeOK
  <2>3. Alone(w)'
    BY <2>1, <2>2 DEF JobSound, Alone, Undisturbed
  <2>4. Fresh(w)'
    BY <2>1, <2>2 DEF JobSound, Fresh, Undisturbed
  <2>5. Announced(w)'
    <3>1. CASE job[w].step \in Operations
      BY <2>1, <2>2, <3>1 DEF JobSound, Announced, WriteState, Count, Undisturbed
    <3>2. CASE job[w].step \notin Operations
      BY <3>2 DEF Announced
    <3> QED
      BY <3>1, <3>2
  <2>6. Learnt(w)'
    BY <2>1 DEF JobSound, Learnt, Count
  <2> QED
    BY <2>3, <2>4, <2>5, <2>6 DEF JobSound
<1> QED
  BY <1>1, <1>2 DEF JobsSound

LEMMA ConfirmStep ==
  ASSUME TypeOK, RowsSound, JobsSound, NEW e \in Executions,
         Confirm(e) \/ EndWithoutEvidence(e)
  PROVE  RowsSound' /\ JobsSound'
<1>1. UNCHANGED <<bound, job, overtaken, containers, reels>>
  BY DEF Confirm, EndWithoutEvidence, provider
<1>2. /\ execution \in [Executions -> ExecutionRows] /\ execution[e] \in ExecutionRows
      /\ \A d \in Executions : RowSound(d)
  BY DEF TypeOK, RowsSound
<1>3. PICK state \in ExecutionStates, row \in {"pending", "completed", "dead"} :
        /\ execution' = [execution EXCEPT ![e] =
                          [execution[e] EXCEPT !.state = state, !.row = row]]
        /\ \/ /\ execution[e] = NoExecutionRow /\ state = "not_started"
           \/ /\ execution[e] # NoExecutionRow
              /\ state = IF execution[e].state \in OpenStates
                         THEN "needs_attention" ELSE execution[e].state
  <2>1. CASE Confirm(e)
    <3>1. execution[e] = NoExecutionRow
      BY <1>2, <2>1 DEF Confirm, RowSound
    <3> QED
      BY <1>2, <2>1, <3>1 DEF Confirm
  <2>2. CASE EndWithoutEvidence(e)
    <3>1. execution[e] # NoExecutionRow /\ execution[e].state \in ExecutionStates
      BY <1>2, <2>2 DEF EndWithoutEvidence, NoExecutionRow, ExecutionRows
    <3> QED
      BY <1>2, <2>2, <3>1 DEF EndWithoutEvidence
  <2> QED
    BY <2>1, <2>2
<1>4. /\ \A d \in Executions \ {e} : execution'[d] = execution[d]
      /\ execution'[e] = [execution[e] EXCEPT !.state = state, !.row = row]
  BY <1>2, <1>3
<1>5. state # "absent"
  BY <1>2, <1>3 DEF RowSound
<1>6. RowSound(e)'
  BY <1>1, <1>2, <1>3, <1>4, <1>5 DEF RowSound, NoExecutionRow, ExecutionRows
<1>7. /\ execution'[e].create = execution[e].create
      /\ execution'[e].publish = execution[e].publish
      /\ execution'[e].state = state
  BY <1>2, <1>4 DEF ExecutionRows
<1>8. \A d \in Executions \ {e} : RowSound(d)' /\ Undisturbed(d)
  BY <1>1, <1>2, <1>4 DEF RowSound, Undisturbed
<1>9. Undisturbed(e)
  BY <1>3, <1>5, <1>7 DEF Undisturbed, NoExecutionRow
<1> QED
  BY <1>1, <1>6, <1>8, <1>9, RowsChanged

(* A version is approved while it has no execution. *)
LEMMA ApproveStep ==
  ASSUME TypeOK, RowsSound, JobsSound, NEW v \in Versions, Approve(v)
  PROVE  RowsSound' /\ JobsSound'
<1>1. UNCHANGED <<execution, job, overtaken, containers, reels>>
  BY DEF Approve, provider
<1>2. ASSUME NEW e \in Executions
      PROVE  RowSound(e)' /\ Undisturbed(e)
  <2>1. RowSound(e) /\ (execution[e].publish = "succeeded" => execution[e].state # "absent")
    BY DEF RowsSound, RowSound, NoExecutionRow
  <2>2. execution[e].state # "absent" /\ VersionOf[e] \in bound' => VersionOf[e] \in bound
    BY DEF Approve
  <2>3. RowSound(e)'
    BY <1>1, <2>1, <2>2 DEF RowSound
  <2> QED
    BY <1>1, <2>3 DEF Undisturbed
<1> QED
  BY <1>1, <1>2, RowsChanged

LEMMA NoRow ==
  /\ NoExecutionRow \in ExecutionRows
  /\ NoExecutionRow.state = "absent" /\ NoExecutionRow.row = "absent"
  /\ Erased(NoExecutionRow) = NoExecutionRow
<1>1. NoExecutionRow \in ExecutionRows
  BY DEF NoExecutionRow, ExecutionRows
<1>2. NoExecutionRow.container = FALSE /\ NoExecutionRow.media = FALSE
  BY DEF NoExecutionRow
<1>3. Erased(NoExecutionRow) = NoExecutionRow
  BY <1>1, <1>2 DEF Erased, ExecutionRows
<1> QED
  BY <1>1, <1>3 DEF NoExecutionRow

(* Erasing the provider's ids. *)
LEMMA ErasedRow ==
  ASSUME TypeOK, RowsSound, NEW e \in Executions
  PROVE  LET x == execution[e]
             y == Erased(execution[e])
         IN  /\ y \in ExecutionRows /\ y.state = x.state /\ y.row = x.row
             /\ y.create = x.create /\ y.publish = x.publish
             /\ ~ y.container /\ ~ y.media
             /\ x.state = "absent" => y = x
BY NoRow DEF TypeOK, RowsSound, RowSound, Erased, ExecutionRows

LEMMA ExpireStep ==
  ASSUME TypeOK, RowsSound, JobsSound, ExpireAuthorization
  PROVE  RowsSound' /\ JobsSound'
<1>1. UNCHANGED <<job, overtaken, containers, reels>> /\ bound' = {}
  BY DEF ExpireAuthorization, provider
<1>2. ASSUME NEW e \in Executions
      PROVE  RowSound(e)' /\ Undisturbed(e)
  <2>1. execution'[e] \in {execution[e], Erased(execution[e])} /\ RowSound(e)
    BY DEF ExpireAuthorization, RowsSound
  <2> QED
    BY <1>1, <2>1, ErasedRow DEF RowSound, Undisturbed
<1> QED
  BY <1>1, <1>2, RowsChanged

(* A disconnection that writes what it had read of an execution. *)
LEMMA EndedRow ==
  ASSUME TypeOK, RowsSound, TransactionSound, Disconnect, NEW e \in Executions
  PROVE  LET x == execution[e]
             y == execution'[e]
             end == transaction.ends[e]
         IN  /\ y \in ExecutionRows
             /\ end \in {"none", "cancelled", "needs_attention"}
             /\ y.state = IF end = "none" THEN x.state ELSE end
             /\ y.create = x.create /\ y.publish = x.publish
             /\ \/ y.container = x.container /\ y.media = x.media
                \/ ~ y.container /\ ~ y.media /\ bound' = {}
             /\ x.state = "absent" => y = x
<1>1. PICK x \in {execution[e], Erased(execution[e])} :
        /\ execution'[e] = Ended(x, transaction.ends[e])
        /\ x = execution[e] \/ bound' = {}
  BY DEF Disconnect
<1>2. /\ execution[e] \in ExecutionRows /\ x \in ExecutionRows
      /\ transaction.ends[e] \in {"none", "cancelled", "needs_attention"}
      /\ x.state = execution[e].state /\ x.row = execution[e].row
      /\ x.create = execution[e].create /\ x.publish = execution[e].publish
      /\ x = execution[e] \/ (~ x.container /\ ~ x.media)
      /\ execution[e].state = "absent" => x = execution[e]
  BY <1>1, ErasedRow DEF TypeOK, Transactions
<1>3. execution[e].state = "absent" => transaction.ends[e] = "none"
  BY DEF TransactionSound, EndSound
<1>4. CASE transaction.ends[e] = "none"
  BY <1>1, <1>2, <1>4 DEF Ended
<1>5. CASE transaction.ends[e] # "none"
  <2>1. PICK end \in {"cancelled", "needs_attention"} : end = transaction.ends[e]
    BY <1>2, <1>5
  <2>2. PICK row \in {"absent", "pending", "dead", "completed"} :
          execution'[e] = [x EXCEPT !.state = end, !.row = row]
    BY <1>1, <1>2, <2>1 DEF Ended, ExecutionRows
  <2>3. /\ execution'[e] \in ExecutionRows /\ execution'[e].state = end
        /\ execution'[e].create = x.create /\ execution'[e].publish = x.publish
        /\ execution'[e].container = x.container /\ execution'[e].media = x.media
    BY <1>2, <2>2 DEF ExecutionRows
  <2> QED
    BY <1>1, <1>2, <1>3, <1>5, <2>1, <2>3
<1> QED
  BY <1>4, <1>5

LEMMA DisconnectStep ==
  ASSUME TypeOK, RowsSound, JobsSound, TransactionSound, Disconnect
  PROVE  RowsSound' /\ JobsSound'
<1>1. UNCHANGED <<job, overtaken, containers, reels>> /\ bound' \in {bound, {}}
  BY DEF Disconnect, provider
<1>2. ASSUME NEW e \in Executions
      PROVE  RowSound(e)' /\ Undisturbed(e)
  <2>1. RowSound(e) /\ EndSound(e)
    BY DEF RowsSound, TransactionSound
  <2>2. Undisturbed(e)
    BY <2>1, EndedRow DEF EndSound, Undisturbed
  <2>3. RowSound(e)'
    <3>1. CASE transaction.ends[e] = "none"
      BY <1>1, <2>1, <3>1, EndedRow DEF RowSound
    <3>2. CASE transaction.ends[e] # "none"
      <4>1. VersionOf[e] \notin bound'
        BY <2>1, <3>2 DEF EndSound, Disconnect
      <4> QED
        BY <1>1, <2>1, <3>2, <4>1, EndedRow DEF RowSound, EndSound
    <3> QED
      BY <3>1, <3>2
  <2> QED
    BY <2>2, <2>3
<1> QED
  BY <1>1, <1>2, RowsChanged

LEMMA WorkStep ==
  ASSUME TypeOK, RowsSound, JobsSound, NEW w \in Workers, ReadWork(w)
  PROVE  RowsSound' /\ JobsSound'
<1>1. OwnJob(w) /\ UNCHANGED <<bound, overtaken, containers, reels>>
  BY OwnJobs DEF ReadWork, provider
<1>2. PICK e \in Executions : e = job[w].execution
  BY <1>1 DEF OwnJob, TypeOK
<1>3. /\ RowSound(e) /\ Fresh(w) /\ execution[e].state # "absent"
      /\ job[w] \in Jobs /\ job \in [Workers -> Jobs]
      /\ execution \in [Executions -> ExecutionRows] /\ execution[e] \in ExecutionRows
  BY <1>1, <1>2 DEF RowsSound, JobsSound, JobSound, Alone, OwnJob, TypeOK
<1>4. /\ \A d \in Executions \ {e} : execution'[d] = execution[d]
      /\ \/ execution'[e] = execution[e]
         \/ /\ job[w].fresh
            /\ execution'[e] = [execution[e] EXCEPT !.state = "publishing"]
  BY <1>2, <1>3 DEF ReadWork, ExecutionRows
<1>5. RowSound(e)' /\ execution'[e].state # "absent"
  <2>1. CASE execution'[e] = execution[e]
    BY <1>1, <1>3, <2>1 DEF RowSound
  <2>2. CASE /\ job[w].fresh
             /\ execution'[e] = [execution[e] EXCEPT !.state = "publishing"]
    BY <1>1, <1>2, <1>3, <2>2 DEF RowSound, Fresh, ExecutionRows
  <2> QED
    BY <1>4, <2>1, <2>2
<1>6. ~ job'[w].fresh /\ job'[w].step \in {"idle", "next"}
  BY <1>3 DEF ReadWork, NoJob, Jobs
<1>7. Fresh(w)' /\ Announced(w)' /\ Learnt(w)'
  BY <1>6 DEF Fresh, Announced, Learnt
<1> QED
  BY <1>1, <1>2, <1>4, <1>5, <1>7, OwnStep

LEMMA ReadStep ==
  ASSUME TypeOK, RowsSound, JobsSound, NEW w \in Workers, NEW e \in Executions,
         ReadExecution(w, e)
  PROVE  RowsSound' /\ JobsSound'
<1>1. /\ UNCHANGED <<bound, execution, overtaken, containers, reels>>
      /\ job \in [Workers -> Jobs] /\ RowSound(e)
      /\ execution[e].state \in OpenStates /\ \A v \in Workers : job[v].execution # e
  BY DEF ReadExecution, provider, TypeOK, RowsSound
<1>2. /\ \A v \in Workers : v # w => job'[v] = job[v]
      /\ job'[w].step = "reading" /\ job'[w].execution = e
      /\ job'[w].fresh = (execution[e].state = "not_started")
  <2>1. job'[w] = [NoJob EXCEPT !.step = "reading", !.execution = e,
                                !.fresh = execution[e].state = "not_started"]
    BY <1>1 DEF ReadExecution
  <2> QED
    BY <1>1, <2>1 DEF ReadExecution, NoJob
<1>3. RowsSound'
  BY <1>1 DEF RowsSound, RowSound
<1>4. JobSound(w)'
  <2>1. Alone(w)'
    BY <1>1, <1>2 DEF Alone
  <2>2. Fresh(w)'
    BY <1>1, <1>2 DEF Fresh, RowSound
  <2> QED
    BY <1>2, <2>1, <2>2 DEF JobSound, Announced, Learnt
<1>5. ASSUME NEW v \in Workers, v # w
      PROVE  JobSound(v)'
  <2>1. JobSound(v) /\ job'[v] = job[v] /\ job[v].execution # e
    BY <1>1, <1>2, <1>5 DEF JobsSound
  <2>2. Alone(v)'
    BY <1>1, <1>2, <1>5, <2>1 DEF JobSound, Alone
  <2> QED
    BY <1>1, <2>1, <2>2 DEF JobSound, Fresh, Announced, Learnt, Count
<1> QED
  BY <1>3, <1>4, <1>5 DEF JobsSound

-----------------------------------------------------------------------------
(* One execution of a version is not spent *)

(* The steps of the channel, the provider and the publisher that leave the
   executions and their callers alone. *)
Elsewhere ==
  \/ UNCHANGED vars
  \/ \E v \in Versions : Approve(v)
  \/ ExpireLease
  \/ ReadChannel \/ BeginConnection \/ CompleteConnection \/ DenyConnection
  \/ ReadDisconnection \/ ReadEnds
  \/ Authorize \/ RemoveAtProvider
  \/ \E a \in sent : ReadCallback(a)
  \/ ReceiveDeauthorization

(* The steps of a caller that read its work already. *)
Own(w) ==
  \/ ReadWork(w) \/ ReadCheckpoint(w) \/ ReadContainer(w)
  \/ PassFence(w) \/ FenceRefused(w)
  \/ \E operation \in Operations : Claim(w, operation)
  \/ ProviderWrite(w) \/ Reconcile(w)
  \/ RecordSucceeded(w) \/ RecordFailed(w) \/ RecordAmbiguous(w)
  \/ RecordAbsent(w) \/ RecordRefused(w) \/ Release(w) \/ Crash(w)

LEMMA StepKinds ==
  ASSUME [Next]_vars
  PROVE  \/ Elsewhere
         \/ \E e \in Executions : Confirm(e) \/ EndWithoutEvidence(e)
         \/ \E w \in Workers : \E e \in Executions : ReadExecution(w, e)
         \/ \E w \in Workers : Own(w)
         \/ Disconnect \/ ExpireAuthorization
BY DEF Next, Protocol, Elsewhere, Own

LEMMA ElsewhereLeaves ==
  ASSUME Elsewhere
  PROVE  UNCHANGED <<execution, job, overtaken, containers, reels>>
BY DEF Elsewhere, vars, Approve, ExpireLease, ReadChannel, BeginConnection,
   CompleteConnection, DenyConnection, ReadDisconnection, ReadEnds, Authorize,
   RemoveAtProvider, ReadCallback, ReceiveDeauthorization, provider

(* Of its caller's steps, an execution moves by the end of the read, by a claim that
   is accepted, and by a record of a write that is not settled. *)
LEMMA OwnMoves ==
  ASSUME TypeOK, NEW w \in Workers, Own(w), NEW x \in Executions
  PROVE  \/ execution'[x] = execution[x]
         \/ /\ job[w].step = "reading" /\ job[w].execution = x /\ job[w].fresh
            /\ execution'[x] = [execution[x] EXCEPT !.state = "publishing"]
         \/ /\ job[w].step # "idle" /\ job[w].execution = x
            /\ execution[x].state = "publishing"
            /\ transaction.ends[x] = "cancelled" => x \in overtaken'
            /\ execution'[x].state # "absent"
         \/ /\ job[w].step # "idle" /\ job[w].execution = x
            /\ execution[x].create \in Unsure \/ execution[x].publish \in Unsure
            /\ execution'[x].state # "absent"
<1>1. execution \in [Executions -> ExecutionRows] /\ execution[x] \in ExecutionRows
  BY DEF TypeOK
<1>2. CASE ReadWork(w)
  <2>1. CASE UNCHANGED execution
    BY <2>1
  <2>2. CASE ~ UNCHANGED execution
    <3>1. execution' = [execution EXCEPT ![job[w].execution].state =
                          IF job[w].fresh THEN "publishing" ELSE @]
      BY <1>2, <2>2 DEF ReadWork
    <3>2. CASE job[w].execution # x
      BY <1>1, <3>1, <3>2
    <3>3. CASE job[w].execution = x /\ ~ job[w].fresh
      BY <1>1, <3>1, <3>3 DEF ExecutionRows
    <3>4. CASE job[w].execution = x /\ job[w].fresh
      BY <1>1, <1>2, <3>1, <3>4 DEF ReadWork
    <3> QED
      BY <3>2, <3>3, <3>4
  <2> QED
    BY <2>1, <2>2
<1>3. ASSUME NEW operation \in Operations, Claim(w, operation)
      PROVE  \/ execution'[x] = execution[x]
             \/ /\ job[w].step # "idle" /\ job[w].execution = x
                /\ execution[x].state = "publishing"
                /\ transaction.ends[x] = "cancelled" => x \in overtaken'
                /\ execution'[x].state # "absent"
  <2>1. CASE UNCHANGED execution
    BY <2>1
  <2>2. CASE ~ UNCHANGED execution
    <3> DEFINE e == job[w].execution
    <3>1. /\ Claimable(execution[e], operation) /\ job[w].step # "idle"
          /\ execution' = [execution EXCEPT ![e] = WithWrite(@, operation, "started")]
          /\ transaction.ends[e] = "cancelled" => e \in overtaken'
      BY <1>3, <2>2 DEF Claim
    <3>2. CASE e # x
      BY <1>1, <3>1, <3>2
    <3>3. CASE e = x
      <4>1. execution'[x] = WithWrite(execution[x], operation, "started")
        BY <1>1, <3>1, <3>3
      <4>2. execution[x].state = "publishing"
        BY <3>1, <3>3 DEF Claimable
      <4>3. execution'[x].state = "publishing"
        BY <1>1, <4>1, <4>2 DEF WithWrite, ExecutionRows
      <4> QED
        BY <3>1, <3>3, <4>2, <4>3
    <3> QED
      BY <3>2, <3>3
  <2> QED
    BY <2>1, <2>2
<1>4. ASSUME RecordSucceeded(w) \/ RecordFailed(w) \/ RecordAmbiguous(w) \/ RecordAbsent(w)
      PROVE  \/ execution'[x] = execution[x]
             \/ /\ job[w].step # "idle" /\ job[w].execution = x
                /\ execution[x].create \in Unsure \/ execution[x].publish \in Unsure
                /\ execution'[x].state # "absent"
  <2> DEFINE e == job[w].execution
  <2> DEFINE operation == job[w].operation
  <2>1. PICK y : /\ execution' = [execution EXCEPT ![e] = y]
                 /\ y \in {Succeeded(execution[e], operation),
                          Failed(execution[e], operation),
                          Ambiguous(execution[e], operation)}
                 /\ WriteState(execution[e], operation) \in Unsure
                 /\ job[w].step # "idle"
    BY <1>4 DEF RecordSucceeded, RecordFailed, RecordAmbiguous, RecordAbsent, Record,
       SuccessAccepted, FailureAccepted, AbsenceAccepted
  <2>2. CASE e # x
    BY <1>1, <2>1, <2>2
  <2>3. CASE e = x
    <3>1. execution'[x] = y
      BY <1>1, <2>1, <2>3
    <3>2. y.state # "absent"
      BY <1>1, <2>1, <2>3 DEF Succeeded, Failed, Ambiguous, WithWrite, ExecutionRows
    <3>3. execution[x].create \in Unsure \/ execution[x].publish \in Unsure
      BY <2>1, <2>3 DEF WriteState
    <3> QED
      BY <2>1, <2>3, <3>1, <3>2, <3>3
  <2> QED
    BY <2>2, <2>3
<1>5. CASE \/ ReadCheckpoint(w) \/ ReadContainer(w) \/ PassFence(w) \/ FenceRefused(w)
           \/ ProviderWrite(w) \/ Reconcile(w) \/ RecordRefused(w) \/ Release(w)
           \/ Crash(w)
  BY <1>5 DEF ReadCheckpoint, ReadContainer, PassFence, FenceRefused, ProviderWrite,
     Reconcile, RecordRefused, Release, Crash
<1> QED
  BY <1>2, <1>3, <1>4, <1>5 DEF Own

(* A spent execution keeps its write states, and no caller takes it up. *)
LEMMA SpentStays ==
  ASSUME TypeOK, RowsSound, JobsSound, JobsSound', TransactionSound,
         NEW x \in Executions, Spent(x), [Next]_vars
  PROVE  Spent(x)'
<1>1. /\ execution \in [Executions -> ExecutionRows] /\ execution[x] \in ExecutionRows
      /\ job \in [Workers -> Jobs]
      /\ execution[x].state \in {"failed", "cancelled", "needs_attention"}
      /\ execution[x].create \in Repeatable /\ execution[x].publish \in Repeatable
      /\ \A w \in Workers : job[w].execution = x => ~ job[w].fresh
  BY DEF TypeOK, Spent
<1>2. ASSUME NEW w \in Workers, Own(w)
      PROVE  Spent(x)'
  <2>1. execution'[x] = execution[x]
    <3>1. job[w].step # "idle" /\ job[w].execution = x => ~ job[w].fresh
      BY <1>1
    <3> QED
      BY <1>1, <1>2, <3>1, OwnMoves
  <2>2. OwnJob(w) /\ Fresh(w)'
    BY <1>2, OwnJobs DEF Own, JobsSound, JobSound
  <2>3. ~ job'[w].fresh
    BY <2>2 DEF OwnJob, Fresh, NoJob
  <2>4. \A v \in Workers \ {w} : job'[v] = job[v]
    BY <2>2 DEF OwnJob
  <2> QED
    BY <1>1, <2>1, <2>3, <2>4 DEF Spent
<1>3. ASSUME NEW w \in Workers, NEW e \in Executions, ReadExecution(w, e)
      PROVE  Spent(x)'
  <2>1. execution' = execution /\ e # x
    BY <1>1, <1>3 DEF ReadExecution
  <2>2. job'[w].execution = e /\ \A v \in Workers : v # w => job'[v] = job[v]
    BY <1>1, <1>3 DEF ReadExecution, NoJob
  <2> QED
    BY <1>1, <2>1, <2>2 DEF Spent
<1>4. ASSUME job' = job, execution'[x].state = execution[x].state,
             execution'[x].create = execution[x].create,
             execution'[x].publish = execution[x].publish
      PROVE  Spent(x)'
  BY <1>1, <1>4 DEF Spent
<1>5. ASSUME NEW e \in Executions, Confirm(e) \/ EndWithoutEvidence(e)
      PROVE  Spent(x)'
  <2>1. job' = job
    BY <1>5 DEF Confirm, EndWithoutEvidence
  <2>2. CASE e # x
    BY <1>1, <1>4, <1>5, <2>1, <2>2 DEF Confirm, EndWithoutEvidence
  <2>3. CASE e = x
    <3>1. PICK row \in {"completed", "dead"} : execution' = [execution EXCEPT ![x] =
            [execution[x] EXCEPT !.state = execution[x].state, !.row = row]]
      BY <1>1, <1>5, <2>3 DEF Confirm, EndWithoutEvidence
    <3>2. /\ execution'[x].state = execution[x].state
          /\ execution'[x].create = execution[x].create
          /\ execution'[x].publish = execution[x].publish
      BY <1>1, <3>1 DEF ExecutionRows
    <3> QED
      BY <1>4, <2>1, <3>2
  <2> QED
    BY <2>2, <2>3
<1>6. CASE Disconnect
  BY <1>1, <1>6, EndedRow DEF Disconnect, Spent
<1>7. CASE ExpireAuthorization
  <2>1. execution'[x] \in {execution[x], Erased(execution[x])} /\ job' = job
    BY <1>7 DEF ExpireAuthorization
  <2> QED
    BY <1>4, <2>1, ErasedRow
<1>8. CASE Elsewhere
  BY <1>4, <1>8, ElsewhereLeaves
<1> QED
  BY <1>2, <1>3, <1>5, <1>6, <1>7, <1>8, StepKinds

(* Only a confirmation makes an execution. *)
LEMMA OnlyConfirmed ==
  ASSUME TypeOK, RowsSound, JobsSound, TransactionSound, NEW x \in Executions,
         execution[x].state = "absent", [Next]_vars, ~ Confirm(x)
  PROVE  execution'[x] = execution[x]
<1>1. /\ execution \in [Executions -> ExecutionRows]
      /\ execution[x] = NoExecutionRow
  BY DEF TypeOK, RowsSound, RowSound
<1>2. /\ NoExecutionRow.state = "absent" /\ NoExecutionRow.row = "absent"
      /\ NoExecutionRow.create = "not_started" /\ NoExecutionRow.publish = "not_started"
  BY DEF NoExecutionRow
<1>3. ASSUME NEW e \in Executions, Confirm(e) \/ EndWithoutEvidence(e)
      PROVE  execution'[x] = execution[x]
  <2>1. e # x
    BY <1>1, <1>2, <1>3 DEF EndWithoutEvidence
  <2> QED
    BY <1>1, <1>3, <2>1 DEF Confirm, EndWithoutEvidence
<1>4. ASSUME NEW w \in Workers, Own(w)
      PROVE  execution'[x] = execution[x]
  <2>1. job[w].step # "idle" => job[w].execution # x
    BY DEF JobsSound, JobSound, Alone
  <2> QED
    BY <1>4, <2>1, OwnMoves
<1>5. CASE Disconnect
  BY <1>5, EndedRow
<1>6. CASE ExpireAuthorization
  BY <1>1, <1>6, NoRow DEF ExpireAuthorization
<1>7. CASE Elsewhere \/ \E w \in Workers : \E e \in Executions : ReadExecution(w, e)
  BY <1>7, ElsewhereLeaves DEF ReadExecution
<1> QED
  BY <1>3, <1>4, <1>5, <1>6, <1>7, StepKinds

(* A version is confirmed again only when all of its executions are spent. *)
LEMMA SoleKept ==
  ASSUME TypeOK, RowsSound, JobsSound, JobsSound', TransactionSound, Sole, [Next]_vars
  PROVE  Sole'
<1>1. SUFFICES ASSUME NEW d \in Executions, NEW e \in Executions, d # e,
                      VersionOf[d] = VersionOf[e],
                      execution'[d].state # "absent", execution'[e].state # "absent"
               PROVE  Spent(d)' \/ Spent(e)'
  BY DEF Sole
<1>2. ASSUME NEW x \in Executions, NEW y \in Executions, x # y,
             VersionOf[x] = VersionOf[y], execution[x].state = "absent",
             execution'[x].state # "absent", execution'[y].state # "absent"
      PROVE  Spent(y)'
  <2>1. Confirm(x)
    BY <1>2, OnlyConfirmed
  <2>2. execution'[y] = execution[y] /\ job' = job
    BY <1>2, <2>1 DEF Confirm, TypeOK
  <2>3. Retryable(y)
    BY <1>2, <2>1, <2>2 DEF Confirm
  <2>4. ASSUME NEW w \in Workers, job[w].execution = y
        PROVE  ~ job[w].fresh
    BY <2>3, <2>4 DEF Retryable, JobsSound, JobSound, Fresh
  <2> QED
    BY <2>2, <2>3, <2>4 DEF Retryable, Spent
<1>3. CASE execution[d].state # "absent" /\ execution[e].state # "absent"
  BY <1>1, <1>3, SpentStays DEF Sole
<1> QED
  BY <1>1, <1>2, <1>3

-----------------------------------------------------------------------------
(* Open transactions *)

(* What an execution that is going to be ended was read as remains so, unless a
   claim has overtaken it. *)
LEMMA EndsKept ==
  ASSUME TypeOK, RowsSound, JobsSound, TransactionSound, [Next]_vars, ~ Disconnect,
         NEW e \in Executions, transaction.ends[e] # "none"
  PROVE  /\ execution'[e].state # "absent"
         /\ transaction.ends[e] = "cancelled" /\ e \notin overtaken' =>
              /\ execution'[e].create \notin Unsure
              /\ execution'[e].publish \in Repeatable
<1>1. /\ execution \in [Executions -> ExecutionRows] /\ execution[e] \in ExecutionRows
      /\ execution[e].state # "absent"
      /\ transaction.ends[e] = "cancelled" /\ e \notin overtaken =>
           execution[e].create \notin Unsure /\ execution[e].publish \in Repeatable
  BY DEF TypeOK, TransactionSound, EndSound
<1>2. ASSUME execution'[e].state = "absent" => execution[e].state = "absent",
             overtaken \subseteq overtaken',
             execution'[e].create = execution[e].create,
             execution'[e].publish = execution[e].publish
      PROVE  /\ execution'[e].state # "absent"
             /\ transaction.ends[e] = "cancelled" /\ e \notin overtaken' =>
                  /\ execution'[e].create \notin Unsure
                  /\ execution'[e].publish \in Repeatable
  BY <1>1, <1>2
<1>3. ASSUME NEW d \in Executions, Confirm(d) \/ EndWithoutEvidence(d)
      PROVE  /\ UNCHANGED overtaken
             /\ execution'[e].state = "absent" => execution[e].state = "absent"
             /\ execution'[e].create = execution[e].create
             /\ execution'[e].publish = execution[e].publish
  <2>1. PICK state \in ExecutionStates \ {"absent"},
             row \in {"pending", "completed", "dead"} :
          \/ execution'[e] = execution[e]
          \/ execution'[e] = [execution[e] EXCEPT !.state = state, !.row = row]
    <3>1. execution[e].state \in ExecutionStates \ {"absent"}
      BY <1>1 DEF ExecutionRows
    <3>2. CASE d # e
      BY <1>1, <1>3, <3>1, <3>2 DEF Confirm, EndWithoutEvidence
    <3>3. CASE d = e
      BY <1>1, <1>3, <3>1, <3>3 DEF Confirm, EndWithoutEvidence
    <3> QED
      BY <3>2, <3>3
  <2>2. UNCHANGED overtaken
    BY <1>3 DEF Confirm, EndWithoutEvidence
  <2> QED
    BY <1>1, <2>1, <2>2 DEF ExecutionRows
<1>4. ASSUME NEW w \in Workers, Own(w)
      PROVE  /\ execution'[e].state # "absent"
             /\ transaction.ends[e] = "cancelled" /\ e \notin overtaken' =>
                  /\ execution'[e].create \notin Unsure
                  /\ execution'[e].publish \in Repeatable
  <2>1. overtaken \subseteq overtaken'
    BY <1>4 DEF Own, ReadWork, ReadCheckpoint, ReadContainer, PassFence, FenceRefused,
       Claim, ProviderWrite, Reconcile, RecordSucceeded, RecordFailed, RecordAmbiguous,
       RecordAbsent, Record, RecordRefused, Release, Crash
  <2>2. CASE execution'[e] = execution[e]
    BY <1>2, <2>1, <2>2
  <2>3. CASE execution'[e] = [execution[e] EXCEPT !.state = "publishing"]
    BY <1>1, <1>2, <2>1, <2>3 DEF ExecutionRows
  <2>4. CASE /\ transaction.ends[e] = "cancelled" => e \in overtaken'
             /\ execution'[e].state # "absent"
    BY <2>4
  <2>5. CASE /\ execution[e].create \in Unsure \/ execution[e].publish \in Unsure
             /\ execution'[e].state # "absent"
    BY <1>1, <2>1, <2>5
  <2> QED
    BY <1>4, <2>2, <2>3, <2>4, <2>5, OwnMoves
<1>5. CASE ExpireAuthorization
  <2>1. execution'[e] \in {execution[e], Erased(execution[e])} /\ UNCHANGED overtaken
    BY <1>5 DEF ExpireAuthorization
  <2> QED
    BY <1>2, <2>1, ErasedRow
<1>6. CASE Elsewhere \/ \E w \in Workers : \E d \in Executions : ReadExecution(w, d)
  <2>1. UNCHANGED <<execution, overtaken>>
    BY <1>6, ElsewhereLeaves DEF ReadExecution
  <2> QED
    BY <1>2, <2>1
<1> QED
  BY <1>2, <1>3, <1>4, <1>5, <1>6, StepKinds

LEMMA DisconnectionMoves ==
  ASSUME TypeOK, Disconnect \/ ReadEnds
  PROVE  transaction'.disconnection # transaction.disconnection
BY NoTransactionTyped DEF Disconnect, ReadEnds, Transactions, TypeOK

LEMMA TransactionKept ==
  ASSUME TypeOK, RowsSound, JobsSound, TransactionSound, [Next]_vars
  PROVE  TransactionSound'
<1>1. transaction \in Transactions /\ channel \in ChannelRows
  BY DEF TypeOK
<1>2. /\ transaction.disconnection # "none" => channel.generation < MaxGeneration
      /\ transaction.callback \in sent \cup {0}
      /\ \A e \in Executions : transaction.ends[e] # "none" =>
           /\ transaction.disconnection = "locked" /\ transaction.account
           /\ execution[e].state # "absent"
  BY DEF TransactionSound, EndSound
<1>3. ASSUME ~ Disconnect, ~ ReadEnds, transaction'.ends = transaction.ends,
             transaction.disconnection = "locked" =>
               /\ transaction'.disconnection = transaction.disconnection
               /\ transaction'.account = transaction.account,
             NEW e \in Executions
      PROVE  EndSound(e)'
  BY <1>2, <1>3, EndsKept DEF EndSound
<1>4. ASSUME UNCHANGED transaction, channel'.generation = channel.generation,
             sent \subseteq sent', ~ Disconnect, ~ ReadEnds
      PROVE  TransactionSound'
  BY <1>2, <1>3, <1>4 DEF TransactionSound
<1>5. CASE ReadChannel \/ BeginConnection \/ ReceiveDeauthorization
  <2>1. /\ transaction'.disconnection = transaction.disconnection
        /\ transaction'.account = transaction.account
        /\ transaction'.ends = transaction.ends
        /\ transaction'.callback \in {transaction.callback, 0}
    BY <1>1, <1>5 DEF ReadChannel, BeginConnection, ReceiveDeauthorization, Transactions
  <2>2. channel'.generation = channel.generation /\ sent' = sent
    BY <1>1, <1>5 DEF ReadChannel, BeginConnection, ReceiveDeauthorization, ChannelRows,
       removal
  <2>3. \A e \in Executions : EndSound(e)'
    BY <1>3, <2>1, DisconnectionMoves
  <2> QED
    BY <1>2, <2>1, <2>2, <2>3 DEF TransactionSound
<1>6. ASSUME NEW a \in sent, ReadCallback(a)
      PROVE  TransactionSound'
  <2>1. /\ transaction'.disconnection = transaction.disconnection
        /\ transaction'.account = transaction.account
        /\ transaction'.ends = transaction.ends
        /\ transaction'.callback = a /\ UNCHANGED <<channel, execution, overtaken, sent>>
    BY <1>1, <1>6 DEF ReadCallback, Transactions, removal
  <2> QED
    BY <2>1 DEF TransactionSound, EndSound
<1>7. CASE ReadDisconnection
  <2>1. /\ transaction'.disconnection = "read" /\ transaction'.ends = transaction.ends
        /\ transaction'.callback = transaction.callback
        /\ UNCHANGED <<channel, execution, overtaken, sent>>
        /\ channel.generation < MaxGeneration /\ transaction.disconnection = "none"
    BY <1>1, <1>7 DEF ReadDisconnection, Transactions, removal
  <2>2. \A e \in Executions : transaction.ends[e] = "none"
    BY <1>2, <2>1
  <2> QED
    BY <1>2, <2>1, <2>2 DEF TransactionSound, EndSound
<1>8. CASE ReadEnds
  <2> DEFINE ends == [e \in Executions |->
                       IF transaction.account /\ VersionOf[e] \in bound
                       THEN End(execution[e]) ELSE "none"]
  <2>1. /\ transaction' = [transaction EXCEPT !.disconnection = "locked", !.ends = ends]
        /\ UNCHANGED <<channel, execution, overtaken, sent, bound>>
        /\ transaction.disconnection = "read"
    BY <1>8 DEF ReadEnds, removal
  <2> HIDE DEF ends
  <2>2. /\ transaction'.disconnection = "locked" /\ transaction'.ends = ends
        /\ transaction'.account = transaction.account
        /\ transaction'.callback = transaction.callback
    BY <1>1, <2>1 DEF Transactions
  <2>3. ASSUME NEW e \in Executions
        PROVE  EndSound(e)'
    <3>1. CASE ends[e] = "none"
      BY <2>2, <3>1 DEF EndSound
    <3>2. CASE ends[e] # "none"
      <4>1. /\ transaction.account /\ VersionOf[e] \in bound
            /\ ends[e] = End(execution[e])
        BY <3>2 DEF ends
      <4>2. /\ execution[e].state \in OpenStates
            /\ ends[e] = "cancelled" =>
                 execution[e].create \notin Unsure /\ execution[e].publish \notin Unsure
        BY <3>2, <4>1 DEF End
      <4>3. execution[e].publish # "succeeded" /\ execution[e].publish \in WriteStates
        BY <4>1, <4>2 DEF RowsSound, RowSound, TypeOK, ExecutionRows
      <4> QED
        BY <2>1, <2>2, <4>1, <4>2, <4>3 DEF EndSound
    <3> QED
      BY <3>1, <3>2
  <2> QED
    BY <1>2, <2>1, <2>2, <2>3 DEF TransactionSound
<1>9. CASE Disconnect
  <2>1. /\ transaction' = [NoTransaction EXCEPT !.connection = transaction.connection,
                                                !.callback = transaction.callback]
        /\ sent' = sent
    BY <1>9 DEF Disconnect
  <2>2. /\ transaction'.disconnection = "none" /\ transaction'.ends = NoEnds
        /\ transaction'.callback = transaction.callback
    BY <2>1, NoTransactionTyped DEF Transactions
  <2>3. \A e \in Executions : transaction'.ends[e] = "none"
    BY <2>2 DEF NoEnds
  <2> QED
    BY <1>2, <2>1, <2>2, <2>3 DEF TransactionSound, EndSound
<1>10. CASE \/ UNCHANGED vars
            \/ \E v \in Versions : Approve(v)
            \/ \E e \in Executions : Confirm(e) \/ EndWithoutEvidence(e)
            \/ ExpireLease \/ CompleteConnection \/ DenyConnection \/ Authorize
            \/ RemoveAtProvider \/ ExpireAuthorization
            \/ \E w \in Workers : \E e \in Executions : ReadExecution(w, e)
  <2>1. UNCHANGED transaction /\ sent \subseteq sent'
    BY <1>10 DEF vars, Approve, Confirm, EndWithoutEvidence, ExpireLease,
       CompleteConnection, DenyConnection, Authorize, RemoveAtProvider,
       ExpireAuthorization, ReadExecution, removal
  <2>2. channel'.generation = channel.generation
    BY <1>1, <1>10 DEF vars, Approve, Confirm, EndWithoutEvidence, ExpireLease,
       CompleteConnection, DenyConnection, Authorize, RemoveAtProvider,
       ExpireAuthorization, ReadExecution, WithoutLease, ChannelRows
  <2>3. ~ (Disconnect \/ ReadEnds)
    BY <2>1, DisconnectionMoves
  <2> QED
    BY <1>4, <2>1, <2>2, <2>3
<1>11. ASSUME NEW w \in Workers, Own(w)
       PROVE  TransactionSound'
  <2>1. UNCHANGED transaction /\ sent' = sent
    BY <1>11 DEF Own, ReadWork, ReadCheckpoint, ReadContainer, PassFence, FenceRefused,
       Claim, ProviderWrite, Reconcile, RecordSucceeded, RecordFailed, RecordAmbiguous,
       RecordAbsent, Record, RecordRefused, Release, Crash, removal
  <2>2. \/ UNCHANGED channel
        \/ channel' = WithoutLease(channel)
        \/ \E e \in Executions \cup {NoExecution} :
             channel' = [channel EXCEPT !.lease = e, !.leaseLive = TRUE,
                                        !.leaseGeneration = channel.generation]
    BY <1>11 DEF Own, ReadWork, ReadCheckpoint, ReadContainer, PassFence, FenceRefused,
       Claim, ProviderWrite, Reconcile, RecordSucceeded, RecordFailed, RecordAmbiguous,
       RecordAbsent, Record, RecordRefused, Release, Crash, TypeOK, Jobs
  <2>3. channel'.generation = channel.generation
    BY <1>1, <2>2 DEF WithoutLease, ChannelRows
  <2>4. ~ (Disconnect \/ ReadEnds)
    BY <2>1, DisconnectionMoves
  <2> QED
    BY <1>4, <2>1, <2>3, <2>4
<1> QED
  BY <1>5, <1>6, <1>7, <1>8, <1>9, <1>10, <1>11, StepKinds DEF Elsewhere

-----------------------------------------------------------------------------
(* The provider's grant *)

LEMMA GrantUndisturbed ==
  ASSUME GrantSound, UNCHANGED <<offered, grant, granted, forgotten, sent, receipts>>,
         UNCHANGED transaction,
         channel'.state = channel.state, channel'.held = channel.held,
         channel'.removal = channel.removal, channel'.correlation = channel.correlation
  PROVE  GrantSound'
<1>1. (Misled' <=> Misled) /\ Outstanding' = Outstanding
  BY DEF Misled, Outstanding
<1> QED
  BY <1>1 DEF GrantSound

(* An authorization is removed while no attempt can be misled by it, or the channel
   stays misled; none becomes outstanding but by a disconnection. *)
LEMMA GrantKept ==
  ASSUME TypeOK, TransactionSound, GrantSound, [Next]_vars
  PROVE  GrantSound'
<1>1. /\ channel \in ChannelRows /\ transaction \in Transactions
      /\ granted \in Nat /\ offered \in Nat /\ channel.held \in Nat
      /\ forgotten \subseteq 1..MaxAuthorizations /\ receipts \subseteq sent
      /\ transaction.callback \in sent \cup {0} /\ transaction.callback \in Nat
  BY BoundAssumption DEF TypeOK, TransactionSound, ChannelRows, Transactions
<1>2. /\ grant \in {0, granted} \ sent /\ offered \in 0..granted
      /\ sent \subseteq 1..granted
      /\ transaction.callback # 0 => transaction.callback \notin receipts
      /\ transaction.callback # 0 /\ channel.state = "connecting" =>
           transaction.callback # offered
      /\ channel.held # 0 =>
           /\ transaction.callback = 0
           /\ channel.removal = "not_applicable" /\ channel.correlation = "not_applicable"
      /\ transaction.disconnection # "none" /\ transaction.account =>
           transaction.correlation = "not_applicable"
  BY DEF GrantSound
<1>3. ~ Misled =>
        /\ \A a, b \in Outstanding : a = b
        /\ Outstanding # {} =>
             /\ channel.state = "disconnected" /\ channel.held = 0
             /\ channel.removal = "pending" /\ channel.correlation = "pending"
             /\ transaction.disconnection = "none" /\ ~ transaction.connection
  BY DEF GrantSound
<1>4. ASSUME NEW w \in Workers, Own(w) \/ \E e \in Executions : ReadExecution(w, e)
      PROVE  GrantSound'
  <2>1. UNCHANGED <<transaction, offered, grant, granted, forgotten, sent, receipts>>
    BY <1>4 DEF Own, ReadExecution, ReadWork, ReadCheckpoint, ReadContainer, PassFence,
       FenceRefused, Claim, ProviderWrite, Reconcile, RecordSucceeded, RecordFailed,
       RecordAmbiguous, RecordAbsent, Record, RecordRefused, Release, Crash, removal
  <2>2. \/ UNCHANGED channel
        \/ channel' = WithoutLease(channel)
        \/ \E e \in Executions \cup {NoExecution} :
             channel' = [channel EXCEPT !.lease = e, !.leaseLive = TRUE,
                                        !.leaseGeneration = channel.generation]
    BY <1>4 DEF Own, ReadExecution, ReadWork, ReadCheckpoint, ReadContainer, PassFence,
       FenceRefused, Claim, ProviderWrite, Reconcile, RecordSucceeded, RecordFailed,
       RecordAmbiguous, RecordAbsent, Record, RecordRefused, Release, Crash, TypeOK, Jobs
  <2>3. /\ channel'.state = channel.state /\ channel'.held = channel.held
        /\ channel'.removal = channel.removal
        /\ channel'.correlation = channel.correlation
    BY <1>1, <2>2 DEF WithoutLease, ChannelRows
  <2> QED
    BY <2>1, <2>3, GrantUndisturbed
<1>5. CASE \/ UNCHANGED vars
           \/ \E v \in Versions : Approve(v)
           \/ \E e \in Executions : Confirm(e) \/ EndWithoutEvidence(e)
           \/ ExpireLease
  <2>1. UNCHANGED <<transaction, offered, grant, granted, forgotten, sent, receipts>>
    BY <1>5 DEF vars, Approve, Confirm, EndWithoutEvidence, ExpireLease, removal
  <2>2. /\ channel'.state = channel.state /\ channel'.held = channel.held
        /\ channel'.removal = channel.removal
        /\ channel'.correlation = channel.correlation
    BY <1>1, <1>5 DEF vars, Approve, Confirm, EndWithoutEvidence, ExpireLease, ChannelRows
  <2> QED
    BY <2>1, <2>2, GrantUndisturbed
<1>6. CASE ReadChannel
  <2>1. /\ UNCHANGED <<channel, offered, grant, granted, forgotten, sent, receipts>>
        /\ transaction'.disconnection = transaction.disconnection
        /\ transaction'.account = transaction.account
        /\ transaction'.correlation = transaction.correlation
        /\ transaction'.callback = transaction.callback
        /\ channel.removal # "pending"
    BY <1>1, <1>6 DEF ReadChannel, Connectable, Transactions, removal
  <2>2. (Misled' <=> Misled) /\ Outstanding' = Outstanding
    BY <2>1 DEF Misled, Outstanding
  <2> QED
    BY <1>2, <1>3, <2>1, <2>2 DEF GrantSound
<1>7. CASE BeginConnection
  <2>1. /\ UNCHANGED <<grant, granted, forgotten, sent, receipts>>
        /\ transaction'.disconnection = transaction.disconnection
        /\ transaction'.account = transaction.account
        /\ transaction'.correlation = transaction.correlation
        /\ transaction'.callback = transaction.callback
        /\ transaction.connection
    BY <1>1, <1>7 DEF BeginConnection, Transactions
  <2>2. \/ UNCHANGED <<channel, offered>>
        \/ /\ offered' = 0 /\ channel'.state = "connecting"
           /\ channel'.removal = "not_applicable" /\ channel'.held = channel.held
           /\ channel'.correlation = channel.correlation
    BY <1>1, <1>7 DEF BeginConnection, ChannelRows
  <2>3. (Misled => Misled') /\ Outstanding' = Outstanding
    BY <1>1, <2>1, <2>2 DEF Misled, Outstanding
  <2>4. ~ Misled' => Outstanding' = {}
    BY <1>3, <2>1, <2>3
  <2> QED
    BY <1>1, <1>2, <2>1, <2>2, <2>4 DEF GrantSound
<1>8. CASE CompleteConnection
  <2>1. /\ UNCHANGED <<transaction, grant, granted, sent, receipts>>
        /\ offered' = 0 /\ forgotten' = forgotten \ {offered}
        /\ channel.state = "connecting" /\ transaction.callback = 0 /\ offered # 0
        /\ channel'.state = "connected" /\ channel'.held = offered
        /\ channel'.removal = "not_applicable"
        /\ channel'.correlation = "not_applicable" /\ channel.held = 0
    BY <1>1, <1>8 DEF CompleteConnection, ChannelRows
  <2>2. (Misled' <=> Misled) /\ Outstanding' \subseteq Outstanding
    BY <1>1, <2>1 DEF Misled, Outstanding
  <2>3. ~ Misled' => Outstanding' = {}
    BY <1>3, <2>1, <2>2
  <2> QED
    BY <1>1, <1>2, <2>1, <2>3 DEF GrantSound
<1>9. CASE DenyConnection
  <2>1. /\ UNCHANGED <<transaction, offered, grant, granted, forgotten, sent, receipts>>
        /\ channel.state = "connecting" /\ channel'.state = "not_connected"
        /\ channel'.held = channel.held /\ channel'.removal = channel.removal
        /\ channel'.correlation = channel.correlation
    BY <1>1, <1>9 DEF DenyConnection, removal, ChannelRows
  <2>2. (Misled => Misled') /\ Outstanding' = Outstanding
    BY <2>1 DEF Misled, Outstanding
  <2>3. ~ Misled' => Outstanding' = {}
    BY <1>3, <2>1, <2>2
  <2> QED
    BY <1>2, <2>1, <2>3 DEF GrantSound
<1>10. CASE ReadDisconnection
  <2>1. /\ UNCHANGED <<channel, offered, grant, granted, forgotten, sent, receipts>>
        /\ transaction'.account = (channel.held # 0)
        /\ transaction'.correlation = channel.correlation
        /\ transaction'.callback = transaction.callback
        /\ channel.state # "disconnected"
    BY <1>1, <1>10 DEF ReadDisconnection, Transactions, removal
  <2>2. (Misled' <=> Misled) /\ Outstanding' = Outstanding
    BY <2>1 DEF Misled, Outstanding
  <2>3. ~ Misled' => Outstanding' = {}
    BY <1>3, <2>1, <2>2
  <2> QED
    BY <1>2, <2>1, <2>3 DEF GrantSound
<1>11. CASE ReadEnds
  <2>1. /\ UNCHANGED <<channel, offered, grant, granted, forgotten, sent, receipts>>
        /\ transaction'.account = transaction.account
        /\ transaction'.correlation = transaction.correlation
        /\ transaction'.callback = transaction.callback
        /\ transaction.disconnection = "read"
    BY <1>1, <1>11 DEF ReadEnds, Transactions, removal
  <2>2. (Misled' <=> Misled) /\ Outstanding' = Outstanding
    BY <2>1 DEF Misled, Outstanding
  <2>3. ~ Misled' => Outstanding' = {}
    BY <1>3, <2>1, <2>2
  <2> QED
    BY <1>2, <2>1, <2>3 DEF GrantSound
<1>12. CASE Disconnect
  <2>1. /\ UNCHANGED <<offered, grant, granted, sent, receipts>>
        /\ forgotten' = forgotten \cup Unawaited
        /\ transaction.disconnection = "locked"
        /\ channel'.state = "disconnected" /\ channel'.held = 0
        /\ channel'.removal = Removed(transaction.correlation)
        /\ transaction.correlation # "none" =>
             channel'.correlation = Removed(transaction.correlation)
    BY <1>1, <1>12 DEF Disconnect, WithoutLease, ChannelRows
  <2>2. /\ transaction'.disconnection = "none"
        /\ transaction'.connection = transaction.connection
        /\ transaction'.callback = transaction.callback
    <3>1. transaction' = [NoTransaction EXCEPT !.connection = transaction.connection,
                                              !.callback = transaction.callback]
      BY <1>12 DEF Disconnect
    <3> QED
      BY <3>1, NoTransactionTyped DEF Transactions
  <2>3. Misled => Misled'
    BY <2>1 DEF Misled
  <2>4. ~ Misled' => Outstanding' \subseteq {channel.held}
    <3>1. ~ Misled' => Outstanding = {}
      BY <1>3, <2>1, <2>3
    <3>2. Outstanding' \subseteq Outstanding \cup {channel.held}
      BY <2>1 DEF Outstanding
    <3> QED
      BY <3>1, <3>2
  <2>5. channel.held \in Outstanding' =>
          /\ channel'.removal = "pending" /\ channel'.correlation = "pending"
          /\ ~ transaction'.connection
    <3>1. channel.held \in Outstanding' =>
            channel.held # 0 /\ transaction.account /\ ~ transaction.connection
      BY <1>1, <2>1 DEF Outstanding, Unawaited
    <3>2. transaction.account => transaction.correlation = "not_applicable"
      BY <1>2, <2>1
    <3> QED
      BY <2>1, <2>2, <3>1, <3>2 DEF Removed
  <2> QED
    BY <1>2, <2>1, <2>2, <2>4, <2>5 DEF GrantSound
<1>13. CASE ExpireAuthorization
  <2>1. /\ UNCHANGED <<transaction, offered, grant, granted, sent, receipts>>
        /\ forgotten' = forgotten \cup {channel.held}
        /\ channel.state = "connected" /\ channel.held # 0
        /\ channel'.state = "reauthorization_required" /\ channel'.held = 0
    BY <1>1, <1>13 DEF ExpireAuthorization, WithoutLease, ChannelRows
  <2>2. (Misled => Misled') /\ Outstanding' \subseteq Outstanding
    BY <2>1 DEF Misled, Outstanding
  <2>3. ~ Misled' => Outstanding' = {}
    BY <1>3, <2>1, <2>2
  <2> QED
    BY <1>2, <2>1, <2>3 DEF GrantSound
<1>14. CASE Authorize
  <2>1. /\ UNCHANGED <<channel, transaction, sent, receipts>>
        /\ granted' = granted + 1 /\ grant' = granted'
        /\ offered' \in {offered, granted'}
        /\ forgotten' = forgotten \cup {granted'}
    BY <1>14 DEF Authorize
  <2>2. granted' \notin sent /\ sent \subseteq 1..granted' /\ offered' \in 0..granted'
    BY <1>1, <1>2, <2>1
  <2>3. Misled => Misled'
    BY <2>1, <2>2 DEF Misled
  <2>4. Outstanding' = Outstanding
    BY <1>1, <2>1 DEF Outstanding
  <2>5. transaction.callback # 0 /\ channel.state = "connecting" =>
          transaction.callback # offered'
    BY <1>1, <1>2, <2>1, <2>2
  <2> QED
    BY <1>1, <1>2, <1>3, <2>1, <2>2, <2>3, <2>4, <2>5 DEF GrantSound
<1>15. CASE RemoveAtProvider
  <2>1. /\ UNCHANGED <<channel, transaction, offered, granted, forgotten, receipts>>
        /\ grant = granted /\ granted # 0 /\ grant' = 0 /\ sent' = sent \cup {granted}
    BY <1>2, <1>15 DEF RemoveAtProvider
  <2>2. Misled => Misled'
    BY <2>1 DEF Misled
  <2>3. Outstanding' = Outstanding
    BY <2>1 DEF Outstanding
  <2> QED
    BY <1>1, <1>2, <1>3, <2>1, <2>2, <2>3 DEF GrantSound
<1>16. ASSUME NEW a \in sent, ReadCallback(a)
       PROVE  GrantSound'
  <2>1. /\ UNCHANGED <<channel, offered, grant, granted, forgotten, sent, receipts>>
        /\ transaction'.disconnection = transaction.disconnection
        /\ transaction'.account = transaction.account
        /\ transaction'.correlation = transaction.correlation
        /\ transaction'.connection = transaction.connection
        /\ transaction'.callback = a /\ a \notin receipts
        /\ channel.state = "disconnected" /\ channel.held = 0
    BY <1>1, <1>16 DEF ReadCallback, Transactions, removal
  <2>2. (Misled' <=> Misled) /\ Outstanding' = Outstanding
    BY <2>1 DEF Misled, Outstanding
  <2> QED
    BY <1>2, <1>3, <2>1, <2>2 DEF GrantSound
<1>17. CASE ReceiveDeauthorization
  <2> DEFINE b == transaction.callback
  <2>1. /\ UNCHANGED <<offered, grant, granted, forgotten, sent>>
        /\ b # 0 /\ receipts' = receipts \cup {b}
        /\ channel'.state = channel.state /\ channel'.held = channel.held
        /\ transaction'.disconnection = transaction.disconnection
        /\ transaction'.account = transaction.account
        /\ transaction'.correlation = transaction.correlation
        /\ transaction'.callback = 0
    BY <1>1, <1>17 DEF ReceiveDeauthorization, ChannelRows, Transactions
  <2>2. (Misled' <=> Misled) /\ Outstanding' \subseteq Outstanding
    BY <2>1 DEF Misled, Outstanding
  <2>3. channel.held = 0 /\ b \in sent /\ b \notin receipts /\ b \in 1..granted
    BY <1>1, <1>2, <2>1
  <2>4. ~ Misled => b \notin forgotten
    BY <1>2, <2>1, <2>3 DEF Misled
  <2>5. ~ Misled => Outstanding' = {}
    <3>1. ~ Misled => b \in Outstanding /\ b \notin Outstanding'
      BY <2>1, <2>3, <2>4 DEF Outstanding
    <3> QED
      BY <1>3, <2>2, <3>1
  <2> QED
    BY <1>2, <2>1, <2>2, <2>3, <2>5 DEF GrantSound
<1> QED
  BY <1>4, <1>5, <1>6, <1>7, <1>8, <1>9, <1>10, <1>11, <1>12, <1>13, <1>14, <1>15,
     <1>16, <1>17, StepKinds DEF Elsewhere

-----------------------------------------------------------------------------
(* The invariant *)

LEMMA InitEstablishes ==
  ASSUME Init
  PROVE  IInv
<1>1. TypeOK
  <2>1. 0 \in 0..MaxAuthorizations /\ 0 \in 0..MaxGeneration /\ MaxFaults \in 0..MaxFaults
    BY BoundAssumption
  <2>2. NoExecutionRow \in ExecutionRows
    BY DEF NoExecutionRow, ExecutionRows
  <2>3. channel \in ChannelRows
    BY <2>1 DEF Init, ChannelRows
  <2> QED
    BY <2>1, <2>2, <2>3, NoJobTyped, NoTransactionTyped DEF Init, TypeOK
<1>2. RowsSound
  BY DEF Init, RowsSound, RowSound, NoExecutionRow, Settles
<1>3. JobsSound
  BY DEF Init, JobsSound, JobSound, Alone, Fresh, Announced, Learnt, NoJob
<1>4. Sole
  BY DEF Init, Sole, NoExecutionRow
<1>5. TransactionSound
  BY DEF Init, TransactionSound, EndSound, NoTransaction, NoEnds
<1>6. GrantSound
  <2>1. Outstanding = {}
    BY DEF Init, Outstanding
  <2> QED
    BY <2>1 DEF Init, GrantSound, NoTransaction
<1> QED
  BY <1>1, <1>2, <1>3, <1>4, <1>5, <1>6 DEF IInv

LEMMA TypePreserved ==
  ASSUME TypeOK, TransactionSound, [Next]_vars
  PROVE  TypeOK'
<1>1. CASE UNCHANGED vars
  BY <1>1 DEF TypeOK, vars, provider, removal
<1>2. ASSUME NEW w \in Workers, Own(w) \/ \E e \in Executions : ReadExecution(w, e)
      PROVE  TypeOK'
  BY <1>2, CallerTyped, ReadingTyped DEF Own
<1>3. CASE \/ \E e \in Executions : Confirm(e) \/ EndWithoutEvidence(e)
           \/ Disconnect \/ ExpireAuthorization
  BY <1>3, RowsTyped
<1>4. CASE Elsewhere
  BY <1>1, <1>4, ChannelTyped DEF Elsewhere
<1> QED
  BY <1>2, <1>3, <1>4, StepKinds

LEMMA CheckpointsPreserved ==
  ASSUME TypeOK, RowsSound, JobsSound, TransactionSound, [Next]_vars
  PROVE  RowsSound' /\ JobsSound'
<1>1. ASSUME NEW w \in Workers, Own(w) \/ \E e \in Executions : ReadExecution(w, e)
      PROVE  RowsSound' /\ JobsSound'
  BY <1>1, MemorySteps, ClaimStep, WriteStep, RecordStep, WorkStep, ReadStep DEF Own
<1>2. CASE \/ \E e \in Executions : Confirm(e) \/ EndWithoutEvidence(e)
           \/ Disconnect \/ ExpireAuthorization
  BY <1>2, ConfirmStep, DisconnectStep, ExpireStep
<1>3. CASE \E v \in Versions : Approve(v)
  BY <1>3, ApproveStep
<1>4. CASE Elsewhere /\ ~ \E v \in Versions : Approve(v)
  <2>1. UNCHANGED <<bound, overtaken, execution, job, containers, reels>>
    BY <1>4 DEF Elsewhere, vars, ExpireLease, ReadChannel, BeginConnection,
       CompleteConnection, DenyConnection, ReadDisconnection, ReadEnds, Authorize,
       RemoveAtProvider, ReadCallback, ReceiveDeauthorization, provider
  <2> QED
    BY <2>1 DEF RowsSound, RowSound, JobsSound, JobSound, Alone, Fresh, Announced,
       Learnt, Count
<1> QED
  BY <1>1, <1>2, <1>3, <1>4, StepKinds

LEMMA NextPreserves ==
  ASSUME IInv, [Next]_vars
  PROVE  IInv'
<1>1. TypeOK' /\ RowsSound' /\ JobsSound'
  BY TypePreserved, CheckpointsPreserved DEF IInv
<1>2. TransactionSound' /\ Sole' /\ GrantSound'
  BY <1>1, TransactionKept, SoleKept, GrantKept DEF IInv
<1> QED
  BY <1>1, <1>2 DEF IInv

(* The strengthening is inductive, and so holds in every reachable state. *)
THEOREM Inductive == Spec => []IInv
<1>1. Init => IInv
  BY InitEstablishes
<1>2. IInv /\ [Next]_vars => IInv'
  BY NextPreserves
<1> QED
  BY <1>1, <1>2, PTL DEF Spec

-----------------------------------------------------------------------------
(* What it is for *)

(* Every variable keeps its type: a caller at work always has an execution. *)
THEOREM TypeCorrect == Spec => []TypeOK
<1>1. IInv => TypeOK
  BY DEF IInv
<1> QED
  BY <1>1, Inductive, PTL

(* Nothing exists at the provider that the checkpoint rules out, and what it calls
   done exists: the claims announce a write before it is made, the records take a
   failure only for an object that is not there. *)
THEOREM CheckpointsCover == Spec => []CheckpointCovers
<1>1. IInv => CheckpointCovers
  <2>1. SUFFICES ASSUME IInv, NEW e \in Executions
                 PROVE  LET x == execution[e] IN
                        /\ containers[e] > 0 => x.create \notin Repeatable
                        /\ reels[e] > 0 => x.publish \notin Repeatable
                        /\ x.create = "succeeded" => containers[e] > 0
                        /\ x.publish = "succeeded" => reels[e] > 0
                        /\ x.state = "published" => x.publish = "succeeded"
    BY DEF CheckpointCovers
  <2> QED
    BY <2>1 DEF IInv, RowsSound, RowSound, Settles
<1> QED
  BY <1>1, Inductive, PTL

(* One container and one Reel at most for a version, over all of its executions,
   for any number of callers, crashes, lost answers and further confirmations. *)
THEOREM AtMostOneReel == Spec => []OneReel
<1>1. IInv => OneReel
  <2>1. SUFFICES ASSUME IInv, NEW d \in Executions, NEW e \in Executions
                 PROVE  /\ containers[e] <= 1 /\ reels[e] <= 1
                        /\ d # e /\ VersionOf[d] = VersionOf[e] =>
                             /\ containers[d] = 0 \/ containers[e] = 0
                             /\ reels[d] = 0 \/ reels[e] = 0
    BY DEF OneReel
  <2>2. RowSound(d) /\ RowSound(e)
    BY <2>1 DEF IInv, RowsSound
  <2>3. containers[e] <= 1 /\ reels[e] <= 1
    BY <2>2 DEF RowSound, Settles
  <2>4. ASSUME NEW x \in {d, e}, execution[x].state = "absent" \/ Spent(x)
        PROVE  containers[x] = 0 /\ reels[x] = 0
    BY <2>2, <2>4 DEF RowSound, Settles, Spent, NoExecutionRow
  <2>5. d # e /\ VersionOf[d] = VersionOf[e] =>
          \E x \in {d, e} : execution[x].state = "absent" \/ Spent(x)
    BY <2>1 DEF IInv, Sole
  <2> QED
    BY <2>3, <2>4, <2>5
<1> QED
  BY <1>1, Inductive, PTL

(* What is shown as cancelled or failed is not published, and no caller is about to
   publish it: terminalizeDisconnectedYouTubeExecutions looks at the write states it
   has read. What a claim announced between that read and the update, which names the
   execution's id alone, is the exception. *)
THEOREM NoReelTooLate == Spec => []NoLateReel
<1>1. IInv => NoLateReel
  <2>1. SUFFICES ASSUME IInv, NEW e \in Executions,
                        execution[e].state \in {"cancelled", "failed"}, e \notin overtaken
                 PROVE  /\ reels[e] = 0
                        /\ \A w \in Workers :
                             job[w].execution = e => job[w].step \notin Operations
    BY DEF NoLateReel
  <2>2. reels[e] = 0
    BY <2>1 DEF IInv, RowsSound, RowSound, Settles
  <2>3. ASSUME NEW w \in Workers, job[w].execution = e
        PROVE  job[w].step \notin Operations
    BY <2>1, <2>3 DEF IInv, JobsSound, JobSound, Announced
  <2> QED
    BY <2>2, <2>3
<1> QED
  BY <1>1, Inductive, PTL

(* The provider's removal is called confirmed only when it honours no authorization
   that the channel has kept track of: a connection does not begin while a removal is
   awaited, so a callback that comes late is about the last one. Not kept track of are
   an authorization whose callback failed, one that retention erased, and one whose
   disconnection was overlapped by a completion or by the beginning of an attempt;
   when the provider reports one of those removed, nothing is claimed. *)
THEOREM RemovalConfirmed == Spec => []RemovalIsReal
<1>1. IInv => RemovalIsReal
  <2>1. SUFFICES ASSUME IInv, channel.removal = "confirmed",
                        grant \notin forgotten \cup {0}, forgotten \cap sent = {}
                 PROVE  FALSE
    BY DEF RemovalIsReal
  <2>2. ~ Misled
    BY <2>1 DEF Misled
  <2>3. grant = granted /\ grant \in 1..granted /\ grant \notin receipts
    BY <2>1, BoundAssumption DEF IInv, GrantSound, TypeOK
  <2>4. grant # channel.held
    BY <2>1 DEF IInv, GrantSound
  <2>5. grant \in Outstanding
    BY <2>1, <2>3, <2>4 DEF Outstanding
  <2> QED
    BY <2>1, <2>2, <2>5 DEF IInv, GrantSound
<1> QED
  BY <1>1, Inductive, PTL

-----------------------------------------------------------------------------
(* The trigger *)

(* An execution whose checkpoint the step does not write, or writes as the
   trigger permits. *)
Honours(e) ==
  \/ Checkpoint(e)' = Checkpoint(e)
  \/ Contract!Permitted(Checkpoint(e), Checkpoint(e)')

LEMMA HonouredByAll ==
  ASSUME \A e \in Executions : Honours(e)
  PROVE  [Contract!Next]_Checkpoints
BY DEF Honours, Checkpoints, Contract!Next

LEMMA UnwrittenCheckpoint ==
  ASSUME NEW e \in Executions, execution'[e] = execution[e],
         execution[e].state # "absent" =>
             (VersionOf[e] \in bound' <=> VersionOf[e] \in bound)
  PROVE  Honours(e)
<1>1. CASE execution[e].state = "absent"
  BY <1>1 DEF Honours, Checkpoint
<1>2. CASE execution[e].state # "absent"
  <2>1. (VersionOf[e] \notin bound') = (VersionOf[e] \notin bound)
    BY <1>2
  <2> QED
    BY <1>2, <2>1, Zenon DEF Honours, Checkpoint
<1> QED
  BY <1>1, <1>2

(* The write states and the ids move; the account stays what it is. *)
LEMMA UpdatedCheckpoint ==
  ASSUME NEW e \in Executions, bound' = bound,
         execution[e] \in ExecutionRows, execution'[e] \in ExecutionRows,
         execution[e].state # "absent", execution'[e].state # "absent",
         \/ /\ execution'[e].create = execution[e].create
            /\ execution'[e].publish = execution[e].publish
            /\ execution'[e].container = execution[e].container
            /\ execution'[e].media = execution[e].media
         \/ /\ Contract!Consistent(execution'[e])
            /\ execution[e].container => execution'[e].container
            /\ execution[e].media => execution'[e].media
            /\ Contract!WriteMoves(execution[e].create, execution'[e].create)
            /\ Contract!WriteMoves(execution[e].publish, execution'[e].publish)
  PROVE  Honours(e)
<1>1. PICK b \in BOOLEAN : b = (VersionOf[e] \notin bound)
  OBVIOUS
<1>2. (VersionOf[e] \notin bound') = b
  BY <1>1
<1>3. Checkpoint(e) = [exists |-> TRUE, create |-> execution[e].create,
        publish |-> execution[e].publish, container |-> execution[e].container,
        media |-> execution[e].media, erasable |-> b]
  BY <1>1, Zenon DEF Checkpoint
<1>4. Checkpoint(e)' = [exists |-> TRUE, create |-> execution'[e].create,
        publish |-> execution'[e].publish, container |-> execution'[e].container,
        media |-> execution'[e].media, erasable |-> b]
  BY <1>2, Zenon DEF Checkpoint
<1> QED
  <2>1. CASE /\ execution'[e].create = execution[e].create
             /\ execution'[e].publish = execution[e].publish
             /\ execution'[e].container = execution[e].container
             /\ execution'[e].media = execution[e].media
    BY <1>3, <1>4, <2>1 DEF Honours
  <2>2. CASE /\ Contract!Consistent(execution'[e])
             /\ execution[e].container => execution'[e].container
             /\ execution[e].media => execution'[e].media
             /\ Contract!WriteMoves(execution[e].create, execution'[e].create)
             /\ Contract!WriteMoves(execution[e].publish, execution'[e].publish)
    <3>1. Contract!Update(Checkpoint(e), Checkpoint(e)')
      BY <1>3, <1>4, <2>2 DEF Contract!Update, Contract!Consistent
    <3> QED
      BY <1>3, <1>4, <3>1 DEF Honours, Contract!Permitted
  <2> QED
    BY <2>1, <2>2

(* Neither moves, whatever becomes of the account. *)
LEMMA KeptCheckpoint ==
  ASSUME NEW e \in Executions,
         execution[e].state # "absent", execution'[e].state # "absent",
         execution'[e].create = execution[e].create,
         execution'[e].publish = execution[e].publish,
         execution'[e].container = execution[e].container,
         execution'[e].media = execution[e].media
  PROVE  Honours(e)
<1>1. PICK b, c \in BOOLEAN :
        b = (VersionOf[e] \notin bound) /\ c = (VersionOf[e] \notin bound')
  OBVIOUS
<1>2. Checkpoint(e) = [exists |-> TRUE, create |-> execution[e].create,
        publish |-> execution[e].publish, container |-> execution[e].container,
        media |-> execution[e].media, erasable |-> b]
  BY <1>1, Zenon DEF Checkpoint
<1>3. Checkpoint(e)' = [exists |-> TRUE, create |-> execution'[e].create,
        publish |-> execution'[e].publish, container |-> execution'[e].container,
        media |-> execution'[e].media, erasable |-> c]
  BY <1>1, Zenon DEF Checkpoint
<1>4. Contract!Columns(Checkpoint(e)') = Contract!Columns(Checkpoint(e))
  <2>1. /\ Checkpoint(e).create = execution[e].create
        /\ Checkpoint(e).publish = execution[e].publish
        /\ Checkpoint(e).container = execution[e].container
        /\ Checkpoint(e).media = execution[e].media
    BY <1>2
  <2>2. /\ Checkpoint(e)'.create = execution'[e].create
        /\ Checkpoint(e)'.publish = execution'[e].publish
        /\ Checkpoint(e)'.container = execution'[e].container
        /\ Checkpoint(e)'.media = execution'[e].media
    BY <1>3
  <2> QED
    BY <2>1, <2>2, Zenon DEF Contract!Columns
<1>5. Checkpoint(e).exists /\ Checkpoint(e)'.exists
  BY <1>2, <1>3
<1> QED
  BY <1>4, <1>5 DEF Honours, Contract!Permitted

(* The ids go together with the account. *)
LEMMA ErasedCheckpoint ==
  ASSUME NEW e \in Executions, bound' = {},
         execution[e] \in ExecutionRows, execution'[e] \in ExecutionRows,
         execution[e].state # "absent", execution'[e].state # "absent",
         execution'[e].create = execution[e].create,
         execution'[e].publish = execution[e].publish,
         ~ execution'[e].container, ~ execution'[e].media
  PROVE  Honours(e)
<1>1. PICK b \in BOOLEAN : b = (VersionOf[e] \notin bound)
  OBVIOUS
<1>2. (VersionOf[e] \notin bound') = TRUE
  OBVIOUS
<1>3. Checkpoint(e) = [exists |-> TRUE, create |-> execution[e].create,
        publish |-> execution[e].publish, container |-> execution[e].container,
        media |-> execution[e].media, erasable |-> b]
  BY <1>1, Zenon DEF Checkpoint
<1>4. Checkpoint(e)' = [exists |-> TRUE, create |-> execution'[e].create,
        publish |-> execution'[e].publish, container |-> execution'[e].container,
        media |-> execution'[e].media, erasable |-> TRUE]
  BY <1>2, Zenon DEF Checkpoint
<1>5. CASE execution[e].container \/ execution[e].media
  BY <1>3, <1>4, <1>5 DEF Honours, Contract!Permitted, Contract!Erasure
<1>6. CASE ~ execution[e].container /\ ~ execution[e].media
  <2>1. execution'[e].container = execution[e].container
        /\ execution'[e].media = execution[e].media
    BY <1>6 DEF ExecutionRows
  <2> QED
    BY <2>1, KeptCheckpoint
<1> QED
  BY <1>5, <1>6

LEMMA PublisherHonours ==
  ASSUME TypeOK, RowsSound, TransactionSound,
         \/ \E v \in Versions : Approve(v)
         \/ \E x \in Executions : Confirm(x) \/ EndWithoutEvidence(x)
  PROVE  \A e \in Executions : Honours(e)
<1>1. SUFFICES ASSUME NEW e \in Executions
               PROVE  Honours(e)
  OBVIOUS
<1>2. /\ execution \in [Executions -> ExecutionRows] /\ execution[e] \in ExecutionRows
      /\ RowSound(e)
  BY DEF TypeOK, RowsSound
<1>3. ASSUME NEW v \in Versions, Approve(v)
      PROVE  Honours(e)
  BY <1>3, UnwrittenCheckpoint DEF Approve
<1>4. ASSUME NEW x \in Executions, x # e, Confirm(x) \/ EndWithoutEvidence(x)
      PROVE  Honours(e)
  BY <1>2, <1>4, UnwrittenCheckpoint DEF Confirm, EndWithoutEvidence
<1>5. CASE Confirm(e)
  <2>1. /\ execution[e] = NoExecutionRow /\ bound' = bound
        /\ execution'[e] = [NoExecutionRow EXCEPT !.state = "not_started", !.row = "pending"]
    BY <1>2, <1>5 DEF Confirm, RowSound
  <2>2. Checkpoint(e).exists = FALSE
    BY <2>1 DEF Checkpoint, NoExecutionRow
  <2>3. /\ Checkpoint(e)'.exists = TRUE /\ Checkpoint(e)'.publish = "not_started"
        /\ Checkpoint(e)'.container = FALSE /\ Checkpoint(e)'.media = FALSE
    BY <2>1 DEF Checkpoint, NoExecutionRow
  <2> QED
    BY <2>2, <2>3 DEF Honours, Contract!Permitted, Contract!Consistent
<1>6. CASE EndWithoutEvidence(e)
  <2>1. TypeOK'
    BY <1>6, RowsTyped
  <2>2. PICK state \in ExecutionStates \ {"absent"}, row \in {"completed", "dead"} :
          execution' = [execution EXCEPT ![e] =
                          [execution[e] EXCEPT !.state = state, !.row = row]]
    <3>1. execution[e].state \in ExecutionStates \ {"absent"}
      BY <1>2, <1>6 DEF EndWithoutEvidence, RowSound, NoExecutionRow, ExecutionRows
    <3>2. execution' = [execution EXCEPT ![e] = [execution[e] EXCEPT
            !.state = IF execution[e].state \in OpenStates
                      THEN "needs_attention" ELSE execution[e].state,
            !.row = IF execution[e].state = "published" THEN "completed" ELSE "dead"]]
      BY <1>2, <1>6 DEF EndWithoutEvidence
    <3> QED
      BY <3>1, <3>2
  <2>3. /\ execution'[e] \in ExecutionRows /\ bound' = bound
        /\ execution'[e] = [execution[e] EXCEPT !.state = state, !.row = row]
    BY <1>2, <1>6, <2>1, <2>2 DEF TypeOK, EndWithoutEvidence
  <2>4. execution[e].state # "absent"
    BY <1>2, <1>6 DEF EndWithoutEvidence, RowSound, NoExecutionRow
  <2> QED
    BY <1>2, <2>3, <2>4, UpdatedCheckpoint DEF ExecutionRows
<1> QED
  BY <1>3, <1>4, <1>5, <1>6

(* What a record writes is a move the trigger knows. *)
LEMMA RecordMoves ==
  ASSUME NEW x \in ExecutionRows, NEW operation \in Operations, NEW y,
         \/ SuccessAccepted(x, operation) /\ y = Succeeded(x, operation)
         \/ FailureAccepted(x, operation) /\ y = Failed(x, operation)
         \/ FailureAccepted(x, operation) /\ y = Ambiguous(x, operation)
         \/ AbsenceAccepted(x, operation) /\ y = Failed(x, operation)
         \/ /\ InPhase(x, operation) /\ WriteState(x, operation) \in Repeatable
            /\ x.state = "publishing" /\ y = WithWrite(x, operation, "started")
  PROVE  /\ Contract!Consistent(y)
         /\ x.container => y.container
         /\ x.media => y.media
         /\ Contract!WriteMoves(x.create, y.create)
         /\ Contract!WriteMoves(x.publish, y.publish)
         /\ x.state # "absent" /\ y.state # "absent" /\ y \in ExecutionRows
<1>1. CASE operation = "create"
  BY <1>1 DEF SuccessAccepted, FailureAccepted, AbsenceAccepted, InPhase, CreatePhase,
     WriteState, Succeeded, Failed, Ambiguous, WithWrite, ExecutionRows,
     Contract!Consistent, Contract!WriteMoves
<1>2. CASE operation = "publish"
  BY <1>2 DEF SuccessAccepted, FailureAccepted, AbsenceAccepted, InPhase, PublishPhase,
     WriteState, Succeeded, Failed, Ambiguous, WithWrite, ExecutionRows,
     Contract!Consistent, Contract!WriteMoves
<1> QED
  BY <1>1, <1>2

LEMMA CallerHonours ==
  ASSUME TypeOK, RowsSound, JobsSound, NEW w \in Workers,
         Own(w) \/ \E x \in Executions : ReadExecution(w, x)
  PROVE  \A e \in Executions : Honours(e)
<1>1. SUFFICES ASSUME NEW e \in Executions
               PROVE  Honours(e)
  OBVIOUS
<1>2. /\ execution \in [Executions -> ExecutionRows] /\ execution[e] \in ExecutionRows
      /\ job[w] \in Jobs
  BY DEF TypeOK
<1>3. bound' = bound
  BY DEF Own, ReadExecution, ReadWork, ReadCheckpoint, ReadContainer, PassFence,
     FenceRefused, Claim, ProviderWrite, Reconcile, RecordSucceeded, RecordFailed,
     RecordAmbiguous, RecordAbsent, Record, RecordRefused, Release, Crash
<1>4. ASSUME execution'[e] = execution[e]
      PROVE  Honours(e)
  BY <1>3, <1>4, UnwrittenCheckpoint
<1>5. ASSUME NEW operation \in Operations, NEW row,
             execution' = [execution EXCEPT ![job[w].execution] = row],
             LET x == execution[job[w].execution] IN
               \/ SuccessAccepted(x, operation) /\ row = Succeeded(x, operation)
               \/ FailureAccepted(x, operation) /\ row = Failed(x, operation)
               \/ FailureAccepted(x, operation) /\ row = Ambiguous(x, operation)
               \/ AbsenceAccepted(x, operation) /\ row = Failed(x, operation)
               \/ /\ InPhase(x, operation) /\ WriteState(x, operation) \in Repeatable
                  /\ x.state = "publishing" /\ row = WithWrite(x, operation, "started")
      PROVE  Honours(e)
  <2>1. CASE e # job[w].execution
    BY <1>2, <1>4, <1>5, <2>1
  <2>2. CASE e = job[w].execution
    <3>1. execution'[e] = row
      BY <1>2, <1>5, <2>2
    <3> QED
      BY <1>2, <1>3, <1>5, <2>2, <3>1, RecordMoves, UpdatedCheckpoint
  <2> QED
    BY <2>1, <2>2
<1>6. CASE ReadWork(w)
  <2>1. \/ execution'[e] = execution[e]
        \/ /\ job[w].step = "reading" /\ job[w].execution = e /\ job[w].fresh
           /\ execution'[e] = [execution[e] EXCEPT !.state = "publishing"]
    <3>1. CASE UNCHANGED execution
      BY <3>1
    <3>2. CASE ~ UNCHANGED execution
      <4>1. execution' = [execution EXCEPT ![job[w].execution].state =
                            IF job[w].fresh THEN "publishing" ELSE @]
        BY <1>6, <3>2 DEF ReadWork
      <4> QED
        BY <1>2, <1>6, <4>1 DEF ReadWork, ExecutionRows
    <3> QED
      BY <3>1, <3>2
  <2>2. CASE /\ job[w].step = "reading" /\ job[w].execution = e /\ job[w].fresh
             /\ execution'[e] = [execution[e] EXCEPT !.state = "publishing"]
    <3>1. execution[e].state # "absent"
      BY <2>2 DEF JobsSound, JobSound, Alone
    <3>2. /\ execution'[e] \in ExecutionRows /\ execution'[e].state = "publishing"
          /\ execution'[e].create = execution[e].create
          /\ execution'[e].publish = execution[e].publish
          /\ execution'[e].container = execution[e].container
          /\ execution'[e].media = execution[e].media
      BY <1>2, <2>2 DEF ExecutionRows
    <3> QED
      BY <1>2, <1>3, <3>1, <3>2, UpdatedCheckpoint
  <2> QED
    BY <1>4, <2>1, <2>2
<1>7. ASSUME NEW operation \in Operations, Claim(w, operation)
      PROVE  Honours(e)
  <2>1. CASE UNCHANGED execution
    BY <1>4, <2>1
  <2>2. CASE ~ UNCHANGED execution
    BY <1>5, <1>7, <2>2 DEF Claim, Claimable
  <2> QED
    BY <2>1, <2>2
<1>8. job[w].operation \in Operations
  BY <1>2 DEF Jobs
<1>9. CASE RecordSucceeded(w)
  BY <1>5, <1>8, <1>9 DEF RecordSucceeded, Record
<1>10. CASE RecordFailed(w)
  BY <1>5, <1>8, <1>10 DEF RecordFailed, Record
<1>11. CASE RecordAmbiguous(w)
  BY <1>5, <1>8, <1>11 DEF RecordAmbiguous, Record
<1>12. CASE RecordAbsent(w)
  BY <1>5, <1>8, <1>12 DEF RecordAbsent, Record
<1>13. CASE \/ \E x \in Executions : ReadExecution(w, x)
            \/ ProviderWrite(w) \/ ReadCheckpoint(w) \/ ReadContainer(w)
            \/ PassFence(w) \/ FenceRefused(w) \/ Reconcile(w)
            \/ RecordRefused(w) \/ Release(w) \/ Crash(w)
  BY <1>4, <1>13 DEF ReadExecution, ProviderWrite, ReadCheckpoint, ReadContainer,
     PassFence, FenceRefused, Reconcile, RecordRefused, Release, Crash
<1> QED
  BY <1>6, <1>7, <1>9, <1>10, <1>11, <1>12, <1>13 DEF Own

LEMMA EraseHonours ==
  ASSUME TypeOK, RowsSound, TransactionSound, Disconnect \/ ExpireAuthorization
  PROVE  \A e \in Executions : Honours(e)
<1>1. SUFFICES ASSUME NEW e \in Executions
               PROVE  Honours(e)
  OBVIOUS
<1>2. /\ execution[e] \in ExecutionRows /\ execution'[e] \in ExecutionRows
      /\ execution'[e].create = execution[e].create
      /\ execution'[e].publish = execution[e].publish
      /\ \/ /\ execution'[e].container = execution[e].container
            /\ execution'[e].media = execution[e].media
         \/ /\ ~ execution'[e].container /\ ~ execution'[e].media
            /\ bound' = {}
      /\ execution[e].state = "absent" => execution'[e] = execution[e]
      /\ execution[e].state # "absent" => execution'[e].state # "absent"
  <2>1. CASE Disconnect
    BY <2>1, EndedRow DEF TypeOK, TransactionSound, EndSound
  <2>2. CASE ExpireAuthorization
    <3>1. execution'[e] \in {execution[e], Erased(execution[e])} /\ bound' = {}
      BY <2>2 DEF ExpireAuthorization
    <3>2. execution[e] \in ExecutionRows
      BY DEF TypeOK
    <3>3. CASE execution'[e] = execution[e]
      BY <3>2, <3>3
    <3>4. CASE execution'[e] = Erased(execution[e])
      BY <3>1, <3>2, <3>4, ErasedRow
    <3> QED
      BY <3>1, <3>3, <3>4
  <2> QED
    BY <2>1, <2>2
<1>3. CASE execution[e].state = "absent"
  BY <1>2, <1>3, UnwrittenCheckpoint
<1>4. CASE /\ execution[e].state # "absent"
           /\ execution'[e].container = execution[e].container
           /\ execution'[e].media = execution[e].media
  BY <1>2, <1>4, KeptCheckpoint
<1>5. CASE /\ execution[e].state # "absent" /\ bound' = {}
           /\ ~ execution'[e].container /\ ~ execution'[e].media
  BY <1>2, <1>5, ErasedCheckpoint
<1> QED
  BY <1>2, <1>3, <1>4, <1>5

LEMMA ElsewhereHonours ==
  ASSUME Elsewhere, ~ \E v \in Versions : Approve(v)
  PROVE  \A e \in Executions : Honours(e)
<1>1. UNCHANGED <<bound, execution>>
  BY DEF Elsewhere, vars, ExpireLease, ReadChannel, BeginConnection, CompleteConnection,
     DenyConnection, ReadDisconnection, ReadEnds, Authorize, RemoveAtProvider,
     ReadCallback, ReceiveDeauthorization
<1> QED
  BY <1>1, UnwrittenCheckpoint

(* The protocol, the disconnection and retention write nothing the trigger would
   refuse: Instagram executions implement the contract the database enforces. *)
THEOREM StaysWithinTrigger == Spec => HonoursTrigger
<1>1. Init => Contract!Init
  <2>1. Init => \A e \in Executions : Checkpoint(e) = Contract!NoCheckpoint
    BY NoRow DEF Init, Checkpoint, Contract!NoCheckpoint
  <2> QED
    BY <2>1 DEF Checkpoints, Contract!Init
<1>2. IInv /\ [Next]_vars => [Contract!Next]_Checkpoints
  <2>1. SUFFICES ASSUME IInv, [Next]_vars
                 PROVE  \A e \in Executions : Honours(e)
    BY HonouredByAll
  <2>2. TypeOK /\ RowsSound /\ JobsSound /\ TransactionSound
    BY <2>1 DEF IInv
  <2> QED
    BY <2>1, <2>2, PublisherHonours, CallerHonours, EraseHonours, ElsewhereHonours,
       StepKinds
<1> QED
  BY <1>1, <1>2, Inductive, PTL DEF Spec, HonoursTrigger, Contract!Spec

=============================================================================
