------------------------- MODULE InstagramExecution -------------------------
(***************************************************************************)
(* Publication of Reels through the workspace's Instagram channel. A Reel    *)
(* takes two provider writes, a container and its publication, and neither   *)
(* may be repeated blindly: each is announced in the execution's checkpoint   *)
(* before the call and settled in it afterwards, by the provider's answer or   *)
(* by looking the object up when no answer came. Beside it runs the channel:   *)
(* the user disconnects it in one local transaction, and the provider reports  *)
(* later, by a callback that may be delayed or repeated, that its grant is gone.*)
(*                                                                         *)
(* A transaction that reads and then updates by id what it read is two or more *)
(* actions here: the read of the work, the disconnection, the start of a       *)
(* connection attempt, the removal callback. So is one whose fence, a plain     *)
(* SELECT of the channel, may be overtaken: the claims and the records.         *)
(*                                                                         *)
(* ASSUMED: an execution has one caller at a time (the row's claim, for the   *)
(* other platforms); the deployed worker only ends Instagram rows, and the      *)
(* checkpoint protocol is called by the integration test. A transaction ends     *)
(* within Prisma's five seconds: no attempt that begins during a removal         *)
(* callback's transaction, or while the work is read, comes back from the        *)
(* provider's consent before its end.                                          *)
(***************************************************************************)
EXTENDS Naturals, FiniteSets

CONSTANTS
  Workers,            \* callers of the checkpoint protocol
  Versions,           \* approved Instagram versions
  Executions,         \* identities of executions and their outbox rows
  VersionOf,          \* the version an execution is confirmed for
  MaxFaults,          \* bound on crashes, expired leases and overtaken attempts
  MaxAuthorizations,  \* bound on the user's authorizations
  MaxGeneration,      \* bound on disconnections
  NoExecution

ASSUME VersionAssumption == VersionOf \in [Executions -> Versions]
ASSUME BoundAssumption ==
  /\ MaxFaults \in Nat /\ MaxAuthorizations \in Nat \ {0} /\ MaxGeneration \in Nat
ASSUME NullAssumption == NoExecution \notin Executions

VARIABLES
  bound,       \* versions whose account reference is the connected account
  execution,   \* platform_executions with their checkpoint and outbox row
  channel,     \* the channel row and its callback correlation
  job,         \* what each caller holds in memory
  transaction, \* what open transactions have read and not yet written
  overtaken,   \* history: executions claimed while they were being cancelled
  containers,  \* history: containers the provider made for an execution
  reels,       \* history: Reels the provider published for an execution
  asked,       \* an attempt has sent the user to the provider
  offered,     \* the authorization the latest attempt's callback brings, or 0
  grant,       \* the authorization the provider still honours, 0 for none
  granted,     \* history: how many authorizations the user has given
  forgotten,   \* history: those whose removal no disconnection awaits
  sent,        \* removed authorizations: the provider calls back, and again
  receipts,    \* instagram_callback_receipts: removals that were received
  budget       \* faults that may still happen

provider == <<containers, reels>>
removal == <<asked, offered, grant, granted, forgotten, sent, receipts>>
vars == <<bound, execution, channel, job, transaction, overtaken, provider, removal,
          budget>>

-----------------------------------------------------------------------------
(* States *)

WriteStates == {"not_started", "started", "ambiguous", "succeeded", "failed"}
Unsure == {"started", "ambiguous"}
Repeatable == {"not_started", "failed"}

ExecutionStates == {"absent", "not_started", "publishing", "published",
                    "failed", "needs_attention", "cancelled"}
OpenStates == {"not_started", "publishing"}

ChannelStates == {"not_connected", "connecting", "connected",
                  "reauthorization_required", "disconnected"}
RemovalStates == {"not_applicable", "pending", "confirmed"}

(* The steps of a caller: the values of nextInstagramExecutionAction, the
   provider calls, and the record of what a call or a lookup gave. *)
Steps == {"idle", "reading", "next", "claim_create", "reconcile_create",
          "read_container", "claim_publish", "reconcile_publish", "create", "publish",
          "record", "release"}
Operations == {"create", "publish"}
Outcomes == {"none", "succeeded", "failed", "ambiguous", "absent"}

NoExecutionRow == [state |-> "absent", create |-> "not_started",
                   publish |-> "not_started", container |-> FALSE,
                   media |-> FALSE, row |-> "absent"]
NoJob == [step |-> "idle", execution |-> NoExecution, generation |-> 0,
          operation |-> "create", outcome |-> "none", fresh |-> FALSE,
          fenced |-> FALSE]

NoEnds == [e \in Executions |-> "none"]
NoTransaction == [disconnection |-> "none", account |-> FALSE,
                  correlation |-> "none", ends |-> NoEnds,
                  connection |-> FALSE, callback |-> 0]

-----------------------------------------------------------------------------
(* What the transactions test and write *)

(* platformExecutionRetryable *)
RetryableWithoutWrites(e) ==  \* mutant: the write states are not looked at
  execution[e].state \in {"failed", "needs_attention"} /\ execution[e].row = "dead"
Retryable(e) ==
  LET x == execution[e] IN
  /\ x.state = "failed"
  /\ ~ x.container /\ ~ x.media
  /\ x.create \in Repeatable /\ x.publish \in Repeatable
  /\ x.row = "dead"

(* assertYouTubePublishFence *)
HoldsFence(w) ==
  /\ channel.state = "connected"
  /\ channel.lease = job[w].execution
  /\ channel.generation = job[w].generation
  /\ channel.leaseGeneration = job[w].generation
  /\ channel.leaseLive

WithoutLease(row) ==
  [row EXCEPT !.lease = NoExecution, !.leaseGeneration = 0, !.leaseLive = FALSE]

(* A disconnection updates the channel's row before it reads the executions:
   from then on others who update that row wait for its end. *)
RowFree == transaction.disconnection # "locked"

GoTo(w, step) == job' = [job EXCEPT ![w].step = step]

(* nextInstagramExecutionAction; "complete" leaves for the release. *)
NextAction(x) ==
  CASE x.publish = "succeeded" /\ x.media -> "release"
    [] x.publish \in Unsure -> "reconcile_publish"
    [] x.create \in Repeatable -> "claim_create"
    [] x.create \in Unsure -> "reconcile_create"
    [] OTHER -> IF x.container THEN "read_container" ELSE "release"

(* The condition of the two claims and of the records on the other write. *)
CreatePhase(x) == x.publish = "not_started" /\ ~ x.container /\ ~ x.media
PublishPhase(x) == x.create = "succeeded" /\ x.container /\ ~ x.media
InPhase(x, operation) ==
  IF operation = "create" THEN CreatePhase(x) ELSE PublishPhase(x)

WriteState(x, operation) == IF operation = "create" THEN x.create ELSE x.publish
WithWrite(x, operation, state) ==
  IF operation = "create" THEN [x EXCEPT !.create = state]
                          ELSE [x EXCEPT !.publish = state]

(* pseudonymizePlatformAuthorizedData: the versions lose their account, their
   executions the provider's ids; the write states stay. *)
Erased(x) == [x EXCEPT !.container = FALSE, !.media = FALSE]

Init ==
  /\ bound = {}
  /\ execution = [e \in Executions |-> NoExecutionRow]
  /\ channel = [state |-> "not_connected", generation |-> 0,
                lease |-> NoExecution, leaseGeneration |-> 0, leaseLive |-> FALSE,
                held |-> 0, removal |-> "not_applicable", correlation |-> "none"]
  /\ job = [w \in Workers |-> NoJob]
  /\ transaction = NoTransaction /\ overtaken = {}
  /\ containers = [e \in Executions |-> 0]
  /\ reels = [e \in Executions |-> 0]
  /\ asked = FALSE /\ offered = 0 /\ grant = 0 /\ granted = 0 /\ forgotten = {}
  /\ sent = {} /\ receipts = {}
  /\ budget = MaxFaults

-----------------------------------------------------------------------------
(* The publisher, and the deployed worker *)

(* decideContent approves a version of the connected account; a version whose
   executions lost it is not approved again. *)
Approve(v) ==
  /\ channel.state = "connected"
  /\ v \notin bound
  /\ \A e \in Executions : VersionOf[e] = v => execution[e].state = "absent"
  /\ bound' = bound \cup {v}
  /\ UNCHANGED <<execution, channel, job, transaction, overtaken, provider, removal,
                 budget>>

(* confirmContentPublishing: the first confirmation of the version, or a
   retry of one whose every earlier execution is retryable. *)
Confirm(e) ==
  /\ execution[e].state = "absent"
  /\ VersionOf[e] \in bound
  /\ \A x \in Executions :
       VersionOf[x] = VersionOf[e] /\ execution[x].state # "absent" => Retryable(x)
  /\ channel.state = "connected" /\ channel.removal = "not_applicable"
  /\ execution' = [execution EXCEPT ![e].state = "not_started", ![e].row = "pending"]
  /\ UNCHANGED <<bound, channel, job, transaction, overtaken, provider, removal, budget>>

(* processClaimedPublish on an Instagram row: the execution needs attention
   when it is not at an end, and the row is closed. No lease is asked for. *)
EndWithoutEvidence(e) ==
  /\ execution[e].row = "pending"
  /\ execution' = [execution EXCEPT
       ![e].state = IF @ \in OpenStates THEN "needs_attention" ELSE @,
       ![e].row = IF execution[e].state = "published" THEN "completed" ELSE "dead"]
  /\ UNCHANGED <<bound, channel, job, transaction, overtaken, provider, removal, budget>>

-----------------------------------------------------------------------------
(* The checkpoint protocol *)

(* readInstagramExecutionWorkItem reads the execution, takes the channel's lease
   and makes an execution that it has read as not started publishing, by id. *)
ReadExecution(w, e) ==
  /\ job[w].step = "idle"
  /\ \A x \in Workers : job[x].execution # e
  /\ execution[e].state \in OpenStates
  /\ VersionOf[e] \in bound
  /\ channel.state = "connected" /\ channel.held # 0
  /\ channel.removal = "not_applicable"
  /\ job' = [job EXCEPT ![w] = [NoJob EXCEPT
       !.step = "reading", !.execution = e,
       !.fresh = execution[e].state = "not_started"]]
  /\ UNCHANGED <<bound, execution, channel, transaction, overtaken, provider, removal,
                 budget>>

Leasable(e) == channel.state = "connected" /\ (channel.leaseLive => channel.lease = e)

ReadWork(w) ==
  LET e == job[w].execution IN
  /\ job[w].step = "reading"
  /\ RowFree
  /\ IF Leasable(e)
     THEN /\ channel' = [channel EXCEPT !.lease = e, !.leaseLive = TRUE,
                                        !.leaseGeneration = channel.generation]
          /\ execution' = [execution EXCEPT
               ![e].state = IF job[w].fresh THEN "publishing" ELSE @]
          /\ job' = [job EXCEPT ![w].step = "next", ![w].fresh = FALSE,
                                ![w].generation = channel.generation]
     ELSE /\ job' = [job EXCEPT ![w] = NoJob]
          /\ UNCHANGED <<execution, channel>>
  /\ UNCHANGED <<bound, transaction, overtaken, provider, removal, budget>>

(* readInstagramExecutionCheckpoint, and the decision made from it. *)
ReadCheckpoint(w) ==
  /\ job[w].step = "next"
  /\ GoTo(w, NextAction(execution[job[w].execution]))
  /\ UNCHANGED <<bound, execution, channel, transaction, overtaken, provider, removal,
                 budget>>

(* readContainerStatus: still in progress (or no longer usable) ends the turn. *)
ReadContainer(w) ==
  /\ job[w].step = "read_container"
  /\ \/ GoTo(w, "claim_publish")
     \/ GoTo(w, "release")
  /\ UNCHANGED <<bound, execution, channel, transaction, overtaken, provider, removal,
                 budget>>

(* The claims and the records begin with the fence; what they write after it names
   the execution's state and its checkpoint. *)
FencedSteps == {"claim_create", "claim_publish", "record"}

PassFence(w) ==
  /\ job[w].step \in FencedSteps /\ ~ job[w].fenced
  /\ HoldsFence(w)
  /\ job' = [job EXCEPT ![w].fenced = TRUE]
  /\ UNCHANGED <<bound, execution, channel, transaction, overtaken, provider, removal,
                 budget>>

(* The caller after a fenced transaction, accepted or refused. *)
SettledForgetful(j, step) == [NoJob EXCEPT !.step = step]  \* mutant: the job is lost
Settled(j, step) == [j EXCEPT !.step = step, !.outcome = "none", !.fenced = FALSE]
Settle(w, step) == job' = [job EXCEPT ![w] = Settled(@, step)]

FenceRefused(w) ==
  /\ job[w].step \in FencedSteps /\ ~ job[w].fenced
  /\ ~ HoldsFence(w)
  /\ Settle(w, "release")
  /\ UNCHANGED <<bound, execution, channel, transaction, overtaken, provider, removal,
                 budget>>

(* claimInstagramContainerCreate and claimInstagramMediaPublish: the write is
   announced, or the claim is refused and the caller leaves. *)
ClaimableFirst(x, operation) == TRUE  \* mutant: a started write is claimed again
Claimable(x, operation) ==
  /\ x.state = "publishing"
  /\ InPhase(x, operation)
  /\ WriteState(x, operation) \in Repeatable

Claim(w, operation) ==
  LET e == job[w].execution IN
  /\ job[w].step = IF operation = "create" THEN "claim_create" ELSE "claim_publish"
  /\ job[w].fenced
  /\ IF Claimable(execution[e], operation)
     THEN /\ execution' = [execution EXCEPT ![e] = WithWrite(@, operation, "started")]
          /\ job' = [job EXCEPT ![w].step = operation, ![w].operation = operation,
                                ![w].fenced = FALSE]
          /\ overtaken' = IF transaction.ends[e] = "cancelled"
                          THEN overtaken \cup {e} ELSE overtaken
     ELSE /\ Settle(w, "release")
          /\ UNCHANGED <<execution, overtaken>>
  /\ UNCHANGED <<bound, channel, transaction, provider, removal, budget>>

(* createContainer and publishContainer. The provider is not relied on to
   refuse a second write; an answer that does not come leaves the effect open. *)
ProviderWrite(w) ==
  LET e == job[w].execution
      operation == job[w].operation
      Effect == IF operation = "create"
                THEN containers' = [containers EXCEPT ![e] = @ + 1] /\ UNCHANGED reels
                ELSE reels' = [reels EXCEPT ![e] = @ + 1] /\ UNCHANGED containers
  IN
  /\ job[w].step \in Operations
  /\ \E outcome \in {"succeeded", "failed", "ambiguous"} :
       /\ job' = [job EXCEPT ![w].step = "record", ![w].outcome = outcome]
       /\ \/ outcome # "failed" /\ Effect
          \/ outcome # "succeeded" /\ UNCHANGED provider
  /\ UNCHANGED <<bound, execution, channel, transaction, overtaken, removal, budget>>

(* A lookup at the provider, after a write whose outcome is not known. *)
Reconcile(w) ==
  LET e == job[w].execution
      operation == IF job[w].step = "reconcile_create" THEN "create" ELSE "publish"
      found == IF operation = "create" THEN containers[e] > 0 ELSE reels[e] > 0
  IN
  /\ job[w].step \in {"reconcile_create", "reconcile_publish"}
  /\ job' = [job EXCEPT ![w].step = "record", ![w].operation = operation,
                        ![w].outcome = IF found THEN "succeeded" ELSE "absent"]
  /\ UNCHANGED <<bound, execution, channel, transaction, overtaken, provider, removal,
                 budget>>

(* recordInstagramContainerCreated and recordInstagramMediaPublished *)
SuccessAccepted(x, operation) ==
  /\ x.state \in {"publishing", "needs_attention"}
  /\ InPhase(x, operation) /\ WriteState(x, operation) \in Unsure
Succeeded(x, operation) ==
  IF operation = "create"
  THEN [x EXCEPT !.state = "publishing", !.create = "succeeded", !.container = TRUE]
  ELSE [x EXCEPT !.state = "published", !.publish = "succeeded", !.media = TRUE]

(* recordInstagramWriteFailure: an open outcome needs attention. *)
FailureAccepted(x, operation) ==
  /\ x.state = "publishing"
  /\ InPhase(x, operation) /\ WriteState(x, operation) = "started"
AmbiguousAsFailed(x, operation) ==  \* mutant: an open outcome is a failure
  [WithWrite(x, operation, "failed") EXCEPT !.state = "failed"]
Ambiguous(x, operation) ==
  [WithWrite(x, operation, "ambiguous") EXCEPT !.state = "needs_attention"]
Failed(x, operation) == [WithWrite(x, operation, "failed") EXCEPT !.state = "failed"]

(* recordInstagramAmbiguousWriteAbsent *)
AbsenceAccepted(x, operation) ==
  /\ x.state = "needs_attention"
  /\ InPhase(x, operation) /\ WriteState(x, operation) = "ambiguous"

Record(w, outcomes, Accepted(_, _), Recorded(_, _), step) ==
  LET e == job[w].execution IN
  /\ job[w].step = "record" /\ job[w].outcome \in outcomes
  /\ job[w].fenced
  /\ Accepted(execution[e], job[w].operation)
  /\ execution' = [execution EXCEPT ![e] = Recorded(@, job[w].operation)]
  /\ Settle(w, step)
  /\ UNCHANGED <<bound, channel, transaction, overtaken, provider, removal, budget>>

RecordSucceeded(w) == Record(w, {"succeeded"}, SuccessAccepted, Succeeded, "next")
RecordFailed(w) == Record(w, {"failed"}, FailureAccepted, Failed, "release")
(* Also an object a lookup did not find, where the checkpoint is not ambiguous yet. *)
RecordAmbiguous(w) ==
  Record(w, {"ambiguous", "absent"}, FailureAccepted, Ambiguous, "next")
RecordAbsent(w) == Record(w, {"absent"}, AbsenceAccepted, Failed, "release")

(* A record that is refused leaves the checkpoint as it is. *)
RecordRefused(w) ==
  LET x == execution[job[w].execution]
      operation == job[w].operation
      outcome == job[w].outcome
  IN
  /\ job[w].step = "record" /\ job[w].fenced
  /\ ~ CASE outcome = "succeeded" -> SuccessAccepted(x, operation)
         [] outcome = "absent" -> \/ FailureAccepted(x, operation)
                                  \/ AbsenceAccepted(x, operation)
         [] OTHER -> FailureAccepted(x, operation)
  /\ Settle(w, "release")
  /\ UNCHANGED <<bound, execution, channel, transaction, overtaken, provider, removal,
                 budget>>

(* releaseYouTubeChannelOperationLease *)
Release(w) ==
  /\ job[w].step = "release"
  /\ RowFree
  /\ channel' = IF /\ channel.lease = job[w].execution
                   /\ channel.leaseGeneration = job[w].generation
                THEN WithoutLease(channel) ELSE channel
  /\ job' = [job EXCEPT ![w] = NoJob]
  /\ UNCHANGED <<bound, execution, transaction, overtaken, provider, removal, budget>>

(* The caller's process stops; its lease runs out by itself. *)
Crash(w) ==
  /\ job[w].step # "idle" /\ budget > 0
  /\ job' = [job EXCEPT ![w] = NoJob]
  /\ budget' = budget - 1
  /\ UNCHANGED <<bound, execution, channel, transaction, overtaken, provider, removal>>

(* The five minutes of a lease pass: a fault while its holder is at work. *)
ExpireLease ==
  LET used == \E w \in Workers : job[w].execution = channel.lease IN
  /\ channel.leaseLive
  /\ used => budget > 0
  /\ channel' = [channel EXCEPT !.leaseLive = FALSE]
  /\ budget' = IF used THEN budget - 1 ELSE budget
  /\ UNCHANGED <<bound, execution, job, transaction, overtaken, provider, removal>>

-----------------------------------------------------------------------------
(* The channel *)

(* beginInstagramConnection reads the channel: while the provider's removal of the
   last authorization is awaited, or tokens are left, no attempt may begin. *)
ConnectableAtOnce ==  \* mutant: the pending removal is not waited for
  /\ channel.state \in {"not_connected", "disconnected",
                        "reauthorization_required", "connecting"}
  /\ channel.held = 0
Connectable ==
  /\ channel.state \in {"not_connected", "disconnected",
                        "reauthorization_required", "connecting"}
  /\ channel.held = 0 /\ channel.removal # "pending"

ReadChannel ==
  /\ ~ transaction.connection /\ Connectable
  /\ transaction' = [transaction EXCEPT !.connection = TRUE]
  /\ UNCHANGED <<bound, execution, channel, job, overtaken, provider, removal, budget>>

(* Its update names the row's id alone and takes effect whatever the channel has
   become; the attempt replaces an earlier one. Or the transaction fails. *)
BeginConnection ==
  /\ transaction.connection /\ RowFree
  /\ transaction' = [transaction EXCEPT !.connection = FALSE]
  /\ \/ /\ channel' = [channel EXCEPT !.state = "connecting",
                                        !.removal = "not_applicable"]
        /\ asked' = TRUE /\ offered' = 0
        /\ Connectable \/ budget > 0
        /\ budget' = IF Connectable THEN budget ELSE budget - 1
     \/ UNCHANGED <<channel, asked, offered, budget>>
  /\ UNCHANGED <<bound, execution, job, overtaken, provider, grant, granted, forgotten,
                 sent, receipts>>

(* completeInstagramConnection, by the callback of the latest attempt, if it comes.
   The correlation starts anew. *)
CompleteConnection ==
  /\ channel.state = "connecting" /\ channel.held = 0 /\ offered # 0
  /\ RowFree /\ transaction.callback = 0
  /\ \A w \in Workers : job[w].step # "reading"
  /\ channel' = [channel EXCEPT !.state = "connected", !.held = offered,
                                !.removal = "not_applicable",
                                !.correlation = "not_applicable"]
  /\ offered' = 0
  /\ forgotten' = forgotten \ {offered}
  /\ UNCHANGED <<bound, execution, job, transaction, overtaken, provider, asked, grant,
                 granted, sent, receipts, budget>>

(* denyPlatformConnection *)
DenyConnection ==
  /\ channel.state = "connecting" /\ RowFree
  /\ channel' = [channel EXCEPT !.state = "not_connected"]
  /\ UNCHANGED <<bound, execution, job, transaction, overtaken, provider, removal,
                 budget>>

(* prepareInstagramLocalDisconnect reads the channel with its account and its
   correlation *)
ReadDisconnection ==
  /\ transaction.disconnection = "none"
  /\ channel.state # "disconnected"
  /\ channel.generation < MaxGeneration
  /\ transaction' = [transaction EXCEPT
       !.disconnection = "read", !.account = channel.held # 0,
       !.correlation = channel.correlation]
  /\ UNCHANGED <<bound, execution, channel, job, overtaken, provider, removal, budget>>

(* and updates the channel's row. Then terminalizeDisconnectedYouTubeExecutions
   reads the account's open executions: one with an unsettled write is not to be
   cancelled, it needs attention. *)
EndAsCancelled(x) ==  \* mutant: the write states are not looked at
  IF x.state \in OpenStates THEN "cancelled" ELSE "none"
End(x) ==
  IF x.state \notin OpenStates THEN "none"
  ELSE IF x.create \in Unsure \/ x.publish \in Unsure THEN "needs_attention"
  ELSE "cancelled"

ReadEnds ==
  /\ transaction.disconnection = "read"
  /\ transaction' = [transaction EXCEPT
       !.disconnection = "locked",
       !.ends = [e \in Executions |->
                   IF transaction.account /\ VersionOf[e] \in bound
                   THEN End(execution[e]) ELSE "none"]]
  /\ UNCHANGED <<bound, execution, channel, job, overtaken, provider, removal, budget>>

(* It writes what it has read to the executions, by id, erases the account's data,
   and tells from the correlation it has read what is left to the provider. *)
Ended(x, end) ==
  IF end = "none" THEN x
  ELSE [x EXCEPT !.state = end, !.row = IF @ = "pending" THEN "dead" ELSE @]

Removed(correlation) ==
  CASE correlation = "none" -> "not_applicable"
    [] correlation = "confirmed" -> "confirmed"
    [] OTHER -> "pending"

(* The removal of the authorization that goes is not awaited when the connection
   was completed after the read, nor when an attempt that has read the channel
   before will make it connecting again. *)
Unawaited ==
  IF transaction.connection \/ ~ transaction.account THEN {channel.held} \ {0} ELSE {}

Disconnect ==
  LET removed == Removed(transaction.correlation) IN
  /\ transaction.disconnection = "locked"
  /\ channel' = [WithoutLease(channel) EXCEPT
       !.state = "disconnected", !.generation = channel.generation + 1, !.held = 0,
       !.removal = removed,
       !.correlation = IF transaction.correlation = "none" THEN @ ELSE removed]
  /\ execution' = [e \in Executions |->
       Ended(IF transaction.account /\ VersionOf[e] \in bound
             THEN Erased(execution[e]) ELSE execution[e],
             transaction.ends[e])]
  /\ bound' = IF transaction.account THEN {} ELSE bound
  /\ forgotten' = forgotten \cup Unawaited
  /\ transaction' = [NoTransaction EXCEPT !.connection = transaction.connection,
                                           !.callback = transaction.callback]
  /\ UNCHANGED <<job, overtaken, provider, asked, offered, grant, granted, sent,
                 receipts, budget>>

(* recordExpiredAuthorizedDataDeletion, by the holder of the channel's lease:
   the channel asks for a new authorization, the open executions stay open. *)
ExpireAuthorization ==
  /\ transaction.disconnection = "none"
  /\ channel.state = "connected" /\ channel.held # 0 /\ ~ channel.leaseLive
  /\ channel' = [WithoutLease(channel) EXCEPT !.state = "reauthorization_required",
                                              !.held = 0]
  /\ execution' = [e \in Executions |->
       IF VersionOf[e] \in bound THEN Erased(execution[e]) ELSE execution[e]]
  /\ bound' = {}
  /\ forgotten' = forgotten \cup {channel.held}
  /\ UNCHANGED <<job, transaction, overtaken, provider, asked, offered, grant, granted,
                 sent, receipts, budget>>

-----------------------------------------------------------------------------
(* The provider's side of the authorization *)

(* The user consents, on the page an attempt has led to: the latest one's callback
   may bring the authorization back; the page of an earlier one brings nothing that
   is accepted. Either way the provider honours it from now on. *)
Authorize ==
  LET new == granted + 1 IN
  /\ asked /\ granted < MaxAuthorizations
  /\ granted' = new /\ grant' = new
  /\ offered' \in {offered, new}
  /\ forgotten' = forgotten \cup {new}
  /\ UNCHANGED <<bound, execution, channel, job, transaction, overtaken, provider,
                 asked, sent, receipts, budget>>

(* The user removes the application at the provider, which calls back, now or much
   later. *)
RemoveAtProvider ==
  /\ grant # 0
  /\ grant' = 0 /\ sent' = sent \cup {grant}
  /\ UNCHANGED <<bound, execution, channel, job, transaction, overtaken, provider,
                 asked, offered, granted, forgotten, receipts, budget>>

(* confirmInstagramProviderRemoval finds the channel by the subject of its
   correlation. A callback that was received before is answered and changes
   nothing; a deauthorization the channel is not cleaned up for is refused with
   its receipt, and the provider sends it again. *)
ReadCallback(a) ==
  /\ a \in sent \ receipts
  /\ channel.correlation # "none"
  /\ channel.state = "disconnected" /\ channel.held = 0
  /\ transaction.callback = 0
  /\ transaction' = [transaction EXCEPT !.callback = a]
  /\ UNCHANGED <<bound, execution, channel, job, overtaken, provider, removal, budget>>

(* The correlation and the channel are updated by id. *)
ReceiveDeauthorization ==
  /\ transaction.callback # 0 /\ RowFree
  /\ receipts' = receipts \cup {transaction.callback}
  /\ channel' = [channel EXCEPT !.removal = "confirmed", !.correlation = "confirmed"]
  /\ transaction' = [transaction EXCEPT !.callback = 0]
  /\ UNCHANGED <<bound, execution, job, overtaken, provider, asked, offered, grant,
                 granted, forgotten, sent, budget>>

-----------------------------------------------------------------------------
Protocol(w) ==
  \/ \E e \in Executions : ReadExecution(w, e)
  \/ ReadWork(w)
  \/ ReadCheckpoint(w)
  \/ ReadContainer(w)
  \/ PassFence(w) \/ FenceRefused(w)
  \/ \E operation \in Operations : Claim(w, operation)
  \/ ProviderWrite(w)
  \/ Reconcile(w)
  \/ RecordSucceeded(w) \/ RecordFailed(w) \/ RecordAmbiguous(w)
  \/ RecordAbsent(w) \/ RecordRefused(w)
  \/ Release(w)

Next ==
  \/ \E v \in Versions : Approve(v)
  \/ \E e \in Executions : Confirm(e) \/ EndWithoutEvidence(e)
  \/ \E w \in Workers : Protocol(w) \/ Crash(w)
  \/ ExpireLease
  \/ ReadChannel \/ BeginConnection \/ CompleteConnection \/ DenyConnection
  \/ ReadDisconnection \/ ReadEnds \/ Disconnect \/ ExpireAuthorization
  \/ Authorize \/ RemoveAtProvider
  \/ \E a \in sent : ReadCallback(a)
  \/ ReceiveDeauthorization

Spec == Init /\ [][Next]_vars

-----------------------------------------------------------------------------
(* Properties *)

ChannelRows ==
  [state : ChannelStates, generation : 0..MaxGeneration,
   lease : Executions \cup {NoExecution}, leaseGeneration : 0..MaxGeneration,
   leaseLive : BOOLEAN, held : 0..MaxAuthorizations, removal : RemovalStates,
   correlation : RemovalStates \cup {"none"}]
ExecutionRows ==
  [state : ExecutionStates, create : WriteStates, publish : WriteStates,
   container : BOOLEAN, media : BOOLEAN,
   row : {"absent", "pending", "dead", "completed"}]
Jobs ==
  [step : Steps, execution : Executions \cup {NoExecution},
   generation : 0..MaxGeneration, operation : Operations, outcome : Outcomes,
   fresh : BOOLEAN, fenced : BOOLEAN]
Transactions ==
  [disconnection : {"none", "read", "locked"}, account : BOOLEAN,
   correlation : RemovalStates \cup {"none"},
   ends : [Executions -> {"none", "cancelled", "needs_attention"}],
   connection : BOOLEAN, callback : 0..MaxAuthorizations]

(* Every variable has its type; a caller at work has an execution. *)
TypeOK ==
  /\ bound \subseteq Versions
  /\ execution \in [Executions -> ExecutionRows]
  /\ channel \in ChannelRows
  /\ job \in [Workers -> Jobs]
  /\ \A w \in Workers : job[w].step # "idle" => job[w].execution \in Executions
  /\ transaction \in Transactions /\ overtaken \subseteq Executions
  /\ containers \in [Executions -> Nat]
  /\ reels \in [Executions -> Nat]
  /\ asked \in BOOLEAN /\ offered \in 0..MaxAuthorizations
  /\ grant \in 0..MaxAuthorizations /\ granted \in 0..MaxAuthorizations
  /\ forgotten \subseteq 1..MaxAuthorizations
  /\ sent \subseteq 1..MaxAuthorizations /\ receipts \subseteq sent
  /\ budget \in 0..MaxFaults

(* A version is never published twice, whatever answers are lost, callers
   crash or leases pass, and however often the publisher confirms it again: over
   all its executions the provider makes one container and one Reel at most.
   The claims, the lookups and platformExecutionRetryable together. *)
OneReel ==
  \A d \in Executions, e \in Executions :
    /\ containers[e] <= 1 /\ reels[e] <= 1
    /\ d # e /\ VersionOf[d] = VersionOf[e] =>
         (containers[d] = 0 \/ containers[e] = 0) /\ (reels[d] = 0 \/ reels[e] = 0)

(* Nothing exists at the provider that the checkpoint rules out, and what the
   checkpoint calls done exists: the announcement is committed before the call,
   and a failure is recorded when the object is known not to exist. *)
CheckpointCovers ==
  \A e \in Executions :
    LET x == execution[e] IN
    /\ containers[e] > 0 => x.create \notin Repeatable
    /\ reels[e] > 0 => x.publish \notin Repeatable
    /\ x.create = "succeeded" => containers[e] > 0
    /\ x.publish = "succeeded" => reels[e] > 0
    /\ x.state = "published" => x.publish = "succeeded"

(* What the publisher sees as cancelled or failed is not published, and nobody
   is about to publish it: a disconnection that meets an announced write leaves
   the execution in need of attention. The exception: one that was announced
   after the disconnection had read its checkpoint and before it wrote, by id,
   that it is cancelled. *)
NoLateReel ==
  \A e \in Executions :
    execution[e].state \in {"cancelled", "failed"} /\ e \notin overtaken =>
      /\ reels[e] = 0
      /\ \A w \in Workers : job[w].execution = e => job[w].step \notin Operations

(* The channel calls the provider's removal confirmed only when the provider
   honours no authorization any more, though callbacks come late and more than
   once. What the channel has lost track of is the exception, for itself and for
   whatever its late callback then confirms: an authorization whose callback
   failed, one that retention erased, and one whose disconnection was overlapped
   by the completion of the connection or by the beginning of another. *)
RemovalIsReal ==
  channel.removal = "confirmed" =>
    \/ grant \in forgotten \cup {0}
    \/ forgotten \cap sent # {}

(* What the trigger sees of an execution: the checkpoint columns, and whether the
   version's account reference has been made anonymous. *)
Checkpoint(e) ==
  IF execution[e].state = "absent"
  THEN [exists |-> FALSE, create |-> "not_started", publish |-> "not_started",
        container |-> FALSE, media |-> FALSE, erasable |-> FALSE]
  ELSE [exists |-> TRUE, create |-> execution[e].create,
        publish |-> execution[e].publish, container |-> execution[e].container,
        media |-> execution[e].media, erasable |-> VersionOf[e] \notin bound]
Checkpoints == [e \in Executions |-> Checkpoint(e)]

(* The program stays within what the trigger permits. *)
Contract == INSTANCE InstagramContract WITH rows <- Checkpoints

(* Every statement of the checkpoint protocol, of the disconnection and of
   retention is one the trigger lets pass: no transaction of theirs is thrown out
   for it, in any order they come in. *)
HonoursTrigger == Contract!Spec
=============================================================================
