-------------------------- MODULE PublishExecution --------------------------
(***************************************************************************)
(* The publication of one workspace's contents through one provider        *)
(* channel: the rows a confirmation creates, the worker that executes       *)
(* them, the channel they go through and the user who disconnects it.       *)
(*                                                                         *)
(* Every action is one database transaction, a part of one or one provider  *)
(* call of the code, with the control flow that follows it up to the next    *)
(* one. A row "pending" here is one that waits for a worker, in either       *)
(* transport; the module OutboxRelay has the way of a row through dispatcher *)
(* and broker.                                                              *)
(*                                                                         *)
(* withTenant opens plain READ COMMITTED transactions. One that reads rows   *)
(* and then updates them by id, without naming the state it read, is two     *)
(* actions here, and what it read is kept in between: the read of the work   *)
(* (job), both transactions of a disconnection and the start of a connection *)
(* attempt (transaction). The others are one action: their updates name the  *)
(* state, the claim or the lease they expect, so that an overtaken one       *)
(* writes nothing.                                                          *)
(*                                                                         *)
(* ASSUMED: a transaction ends within Prisma's limit of five seconds, which  *)
(* nothing overrides. A user's way through the provider's consent takes      *)
(* longer, and so do the two minutes of a lease: no read of the work and no  *)
(* erasure outlives the completion of an attempt begun after it, and         *)
(* assertYouTubePublishFence, a plain SELECT, is not followed by its write   *)
(* after the lease it saw has run out and the account been erased.          *)
(***************************************************************************)
EXTENDS Naturals, FiniteSets

CONSTANTS
  Workers,        \* worker processes, one publishing loop each
  Contents,       \* approved revisions, one platform version each
  Executions,     \* identities of platform executions and their outbox rows
  Platform,       \* the platform of the channel and of the versions
  MaxAttempts,    \* a transient failure is final from this attempt (code: 4)
  MaxPolls,       \* TikTok stops polling from this attempt (code: 90)
  Faults,         \* the kinds of fault that may happen
  MaxFaults,      \* bound on the faults of one behaviour
  MaxGeneration,  \* bound on the channel's disconnections
  NoWorker, NoExecution, NoContent

FaultKinds == {"crash", "stall", "heartbeat", "read", "record", "store",
               "reply", "processing"}

ASSUME PlatformAssumption == Platform \in {"youtube", "facebook", "tiktok"}
ASSUME BoundAssumption ==
  /\ MaxAttempts \in Nat /\ MaxPolls \in Nat
  /\ MaxFaults \in Nat /\ MaxGeneration \in Nat
ASSUME FaultAssumption == Faults \subseteq FaultKinds
ASSUME NullAssumption ==
  /\ NoWorker \notin Workers
  /\ NoExecution \notin Executions
  /\ NoContent \notin Contents

VARIABLES
  content,    \* content revisions and their platform version
  execution,  \* platform_executions
  outbox,     \* outbox_messages, one row per execution
  channel,    \* the row of channels for this platform
  job,        \* what each worker process holds in memory
  transaction,  \* what open transactions have read and not yet written
  uploads,    \* history: the objects the provider created for an execution
  overrun,    \* history: executions started by a read that was overtaken
  budget      \* faults that may still happen

histories == <<uploads, overrun>>
vars == <<content, execution, outbox, channel, job, transaction, histories, budget>>

-----------------------------------------------------------------------------
(* States *)

OpenStates == {"not_started", "publishing", "processing"}
DeadStates == {"failed", "needs_attention", "cancelled"}
Settled == {"published"} \cup DeadStates

ChannelStates == {"not_connected", "connecting", "connected",
                  "reauthorization_required", "disconnecting", "disconnected"}

(* failureCategory folds the error codes into the classes the disposition
   functions tell apart: "reauthorize" is a category that needs attention and
   is also in the list requireReauthorization; "final" is a non-retryable one. *)
Categories == {"attention", "reauthorize", "final", "transient"}
NeedsAttention(category) == category \in {"attention", "reauthorize"}
IsTerminal(category, attempt) ==
  category # "transient" \/ attempt >= MaxAttempts

Steps == {"idle", "claimed", "reading", "upload", "uploaded", "resume", "transfer",
          "poll", "failed", "retrying", "finally"}

NoJob == [step |-> "idle", execution |-> NoExecution, generation |-> 0,
          attempt |-> 0, lease |-> 0, state |-> "none", provider |-> FALSE,
          lost |-> FALSE, category |-> "none"]

NoEnds == [e \in Executions |-> "none"]
NoTransaction ==
  [disconnection |-> "none", ends |-> NoEnds, connection |-> FALSE]

-----------------------------------------------------------------------------
(* What the transactions test *)

Bound(e) == \E c \in Contents : execution[e].content = c /\ content[c].bound

(* platformExecutionRetryable: the write states it also reads are Instagram's,
   and a provider URL is stored and cleared together with the id. *)
RetryableFailure(e) ==  \* mutant: the provider's reference is not looked at
  execution[e].state = "failed" /\ outbox[e].state = "dead"
Retryable(e) ==
  /\ execution[e].state = "failed"
  /\ ~ execution[e].provider
  /\ outbox[e].state = "dead"

(* While the read is open, the job's state is the one the read has seen. *)
HasWork(w) == job[w].state # "none" /\ job[w].step # "reading"

(* The compare-and-set that every write to a claimed outbox row makes. *)
HoldsClaimUnchecked(w) == job[w].step # "idle"  \* mutant: plain updates
HoldsClaim(w) ==
  LET row == outbox[job[w].execution] IN
  /\ row.state = "claimed"
  /\ row.owner = w
  /\ row.generation = job[w].generation
  /\ row.live

(* assertYouTubePublishFence *)
HoldsFence(w) ==
  /\ channel.state = "connected"
  /\ channel.lease = job[w].execution
  /\ channel.generation = job[w].lease
  /\ channel.leaseGeneration = job[w].lease
  /\ channel.leaseLive

(* The lease update of readPlatformExecutionWorkItem: the lease's id is the
   execution's id, so the same execution takes its own lease over. *)
LeaseAvailable(e) == ~ channel.leaseLive \/ channel.lease = e

(* prepareYouTubeDisconnect updates the channel's row before it reads the
   executions: until it commits, others who update that row wait. Both
   transactions of a disconnection, and the ending of a failed execution, hold
   the channel's lifecycle lock (key 6) from their beginning. *)
RowFree == transaction.disconnection # "prepare"
LifecycleFree == transaction.disconnection = "none"

Spend(kind) ==
  /\ kind \in Faults
  /\ budget > 0
  /\ budget' = budget - 1

-----------------------------------------------------------------------------
(* What the transactions write *)

Unclaimed(row, state, increment) ==
  [row EXCEPT !.state = state, !.owner = NoWorker, !.live = FALSE,
              !.attempt = row.attempt + increment]

EndClaim(e, state, increment) ==
  outbox' = [outbox EXCEPT ![e] = Unclaimed(@, state, increment)]

ClosedRow(row) == Unclaimed(row, "dead", 0)

(* pseudonymizePlatformAuthorizedData: the versions of the account lose its
   reference, their executions the provider's ids, in every state. *)
ForgetAccount ==
  content' = [c \in Contents |-> [content[c] EXCEPT !.bound = FALSE]]

WithoutLease(row) ==
  [row EXCEPT !.lease = NoExecution, !.leaseGeneration = 0, !.leaseLive = FALSE]

(* The end of a handler's try or catch block: the lease is released in
   "finally" when work was read, and the job is forgotten. *)
LeftForgetful(j) ==  \* mutant: the job is cleared before "finally" runs
  IF j.state = "none" THEN NoJob ELSE [NoJob EXCEPT !.step = "finally"]
Left(j) ==
  IF j.state = "none" THEN NoJob
  ELSE [j EXCEPT !.step = "finally", !.generation = 0, !.attempt = 0,
                 !.provider = FALSE, !.lost = FALSE, !.category = "none"]

Leave(w) == job' = [job EXCEPT ![w] = Left(@)]

(* An exception in the try block. A worker that already noticed the loss of a
   lease writes nothing more: the category is then publish_lease_lost. *)
Thrown(j, category) ==
  IF j.lost THEN Left(j) ELSE [j EXCEPT !.step = "failed", !.category = category]

Throw(w, category) == job' = [job EXCEPT ![w] = Thrown(@, category)]

-----------------------------------------------------------------------------
(* The author and the publisher *)

Init ==
  /\ content = [c \in Contents |->
       [status |-> "draft", bound |-> FALSE, latest |-> NoExecution]]
  /\ execution = [e \in Executions |->
       [state |-> "absent", content |-> NoContent, provider |-> FALSE]]
  /\ outbox = [e \in Executions |->
       [state |-> "absent", owner |-> NoWorker, generation |-> 0,
        live |-> FALSE, attempt |-> 0]]
  /\ channel = [state |-> "connected", generation |-> 0, authorized |-> TRUE,
                lease |-> NoExecution, leaseGeneration |-> 0, leaseLive |-> FALSE]
  /\ job = [w \in Workers |-> NoJob]
  /\ transaction = NoTransaction
  /\ uploads = [e \in Executions |-> 0]
  /\ overrun = {}
  /\ budget = MaxFaults

(* decideContent, of a revision whose version names the connected account. *)
ApproveContent(c) ==
  /\ content[c].status = "draft"
  /\ channel.authorized
  /\ content' = [content EXCEPT ![c].status = "approved", ![c].bound = TRUE]
  /\ UNCHANGED <<execution, outbox, channel, job, transaction, histories, budget>>

(* updateContentDraft: an approved content may be edited at any time; its next
   revision becomes the current one, and this one is never approved again. *)
EditContent(c) ==
  /\ content[c].status = "approved"
  /\ content' = [content EXCEPT ![c].status = "superseded"]
  /\ UNCHANGED <<execution, outbox, channel, job, transaction, histories, budget>>

(* confirmContentPublishing. A repeated confirmation, or one whose latest
   execution is not retryable, returns the existing execution: no change. *)
ConfirmPublishing(c, e) ==
  /\ execution[e].state = "absent"
  /\ content[c].latest # NoExecution => Retryable(content[c].latest)
  /\ content[c].status = "approved"
  /\ content[c].bound
  /\ channel.state = "connected"
  /\ content' = [content EXCEPT ![c].latest = e]
  /\ execution' = [execution EXCEPT ![e].state = "not_started", ![e].content = c]
  /\ outbox' = [outbox EXCEPT ![e].state = "pending"]
  /\ UNCHANGED <<channel, job, transaction, histories, budget>>

-----------------------------------------------------------------------------
(* The worker: claim a row, read the work *)

(* claimNextOutboxMessage, and claimQueuedOutboxMessage for a delivered command:
   any available row, not only the oldest. *)
ClaimablePending(e) == outbox[e].state = "pending"  \* mutant: no takeover
Claimable(e) ==
  \/ outbox[e].state = "pending"
  \/ outbox[e].state = "claimed" /\ ~ outbox[e].live

ClaimedBy(row, w) ==
  [row EXCEPT !.state = "claimed", !.owner = w, !.live = TRUE,
              !.generation = row.generation + 1]

ClaimMessage(w, e) ==
  /\ job[w].step = "idle"
  /\ Claimable(e)
  /\ outbox' = [outbox EXCEPT ![e] = ClaimedBy(@, w)]
  /\ job' = [job EXCEPT ![w] =
       [NoJob EXCEPT !.step = "claimed", !.execution = e,
                     !.generation = outbox[e].generation + 1,
                     !.attempt = outbox[e].attempt]]
  /\ UNCHANGED <<content, execution, channel, transaction, histories, budget>>

Approved(e) == \E c \in Contents :
  execution[e].content = c /\ content[c].status = "approved"

(* The refusals of readPlatformExecutionWorkItem's reads, in their order. For
   TikTok execution_not_authorized is not in the list of non-retryable
   categories. *)
ReadRefusalTrusting(e) ==  \* mutant: a lost upload is not suspected
  IF execution[e].state \in Settled THEN "final"
  ELSE IF ~ Approved(e) THEN IF Platform = "tiktok" THEN "transient" ELSE "final"
  ELSE IF ~ (channel.state = "connected" /\ Bound(e) /\ channel.authorized)
       THEN "reauthorize"
  ELSE "none"
ReadRefusal(e) ==
  IF execution[e].state \in Settled THEN "final"
  ELSE IF execution[e].state = "publishing" /\ ~ execution[e].provider THEN "attention"
  ELSE IF ~ Approved(e) THEN IF Platform = "tiktok" THEN "transient" ELSE "final"
  ELSE IF ~ (channel.state = "connected" /\ Bound(e) /\ channel.authorized)
       THEN "reauthorize"
  ELSE "none"

ReadExecution(w) ==
  LET e == job[w].execution IN
  /\ job[w].step = "claimed"
  /\ ReadRefusal(e) = "none"
  /\ job' = [job EXCEPT ![w] =
       [@ EXCEPT !.step = "reading", !.state = execution[e].state,
                 !.provider = execution[e].provider]]
  /\ UNCHANGED <<content, execution, outbox, channel, transaction, histories, budget>>

(* The update that takes the channel's lease. *)
Leasable(e) == channel.state = "connected" /\ LeaseAvailable(e)

(* The rest of readPlatformExecutionWorkItem: the lease is taken, and an
   execution that was read as not started becomes publishing, whatever it is by
   now, for the update names its id alone. *)
Started(state) == IF state = "not_started" THEN "publishing" ELSE state

FirstStep(state, provider) ==
  CASE ~ provider -> "upload"
    [] provider /\ Platform = "tiktok" /\ state = "publishing" -> "resume"
    [] OTHER -> "poll"

ReadWork(w) ==
  LET e == job[w].execution
      fresh == job[w].state = "not_started"
      state == Started(job[w].state)
  IN
  /\ job[w].step = "reading"
  /\ RowFree
  /\ Leasable(e)
  /\ execution' = [execution EXCEPT ![e].state = IF fresh THEN "publishing" ELSE @]
  /\ overrun' = IF fresh /\ execution[e].state # "not_started"
                THEN overrun \cup {e} ELSE overrun
  /\ channel' = [channel EXCEPT !.lease = e, !.leaseLive = TRUE,
                                !.leaseGeneration = channel.generation]
  /\ job' = [job EXCEPT ![w] =
       [@ EXCEPT !.lease = channel.generation, !.state = state,
                 !.step = FirstStep(state, job[w].provider)]]
  /\ UNCHANGED <<content, outbox, transaction, uploads, budget>>

(* The exception leaves the read: no work in memory. *)
Unread(j) == [j EXCEPT !.state = "none", !.provider = FALSE]
ReadFailed(w, category) ==
  job' = [job EXCEPT ![w] = Thrown(Unread(@), category)]

(* A refusal of the reads, or channel_operation_busy of the update. *)
ReadRefused(w) ==
  /\ \/ /\ job[w].step = "claimed"
        /\ ReadRefusal(job[w].execution) # "none"
        /\ ReadFailed(w, ReadRefusal(job[w].execution))
     \/ /\ job[w].step = "reading"
        /\ RowFree
        /\ ~ Leasable(job[w].execution)
        /\ ReadFailed(w, "transient")
  /\ UNCHANGED <<content, execution, outbox, channel, transaction, histories, budget>>

(* The read's transaction fails for a reason of the database's own:
   internal_error. *)
ReadError(w) ==
  /\ job[w].step \in {"claimed", "reading"}
  /\ Spend("read")
  /\ ReadFailed(w, "transient")
  /\ UNCHANGED <<content, execution, outbox, channel, transaction, histories>>

-----------------------------------------------------------------------------
(* The worker: the provider write and its record *)

(* Tokens, account identity, creator info and the source asset are checked
   before the provider is asked for anything new, by TikTok's worker also before
   it resumes a publication whose id is stored; a failure there, or a provider
   answer that rejects the request, leaves no object behind. Only
   TikTok has a category that needs attention and keeps the authorization
   (creator_info_changed), only YouTube none that is final when polling. *)
AttemptCategories(step) ==
  CASE Platform = "tiktok" -> Categories
    [] Platform = "youtube" /\ step = "poll" -> {"reauthorize", "transient"}
    [] OTHER -> {"reauthorize", "final", "transient"}

AttemptFailed(w) ==
  /\ job[w].step \in {"upload", "resume", "poll"}
  /\ \E category \in AttemptCategories(job[w].step) : Throw(w, category)
  /\ UNCHANGED <<content, execution, outbox, channel, transaction, histories, budget>>

(* uploadPrivateVideo, uploadPageVideo, initializeDirectPost *)
UploadAccepted(w) ==
  /\ job[w].step = "upload"
  /\ uploads' = [uploads EXCEPT ![job[w].execution] = @ + 1]
  /\ job' = [job EXCEPT ![w].step = "uploaded"]
  /\ UNCHANGED <<content, execution, outbox, channel, transaction, overrun, budget>>

(* The call ends without an answer, or with one the client knows not to trust:
   "conflict", whether or not the provider created the object. *)
UploadAmbiguous(w) ==
  LET e == job[w].execution IN
  /\ job[w].step = "upload"
  /\ \E created \in {0, 1} : uploads' = [uploads EXCEPT ![e] = @ + created]
  /\ Throw(w, "attention")
  /\ UNCHANGED <<content, execution, outbox, channel, transaction, overrun, budget>>

(* The provider created the object and the client reports service_unavailable:
   YouTube's and Meta's for an answer of any status whose body is not JSON and
   for a 2xx without an id, TikTok's for a 5xx with a JSON body. *)
UploadMisread(w) ==
  /\ job[w].step = "upload"
  /\ Spend("reply")
  /\ uploads' = [uploads EXCEPT ![job[w].execution] = @ + 1]
  /\ Throw(w, "transient")
  /\ UNCHANGED <<content, execution, outbox, channel, transaction, overrun>>

(* recordYouTubeUploadAccepted, recordTikTokPublishInitialized: the guards on
   the execution's row, and the row and the job after the commit. *)
UploadRecordableAnyway(e) == execution[e].state # "absent"  \* mutant: no state guard
UploadRecordable(e) ==
  /\ execution[e].state = "publishing"
  /\ Platform = "tiktok" => ~ execution[e].provider
UploadRecordedWithoutId(e) ==  \* mutant: the provider's id is not stored
  execution' = [execution EXCEPT ![e].state = "processing"]
UploadRecorded(e) ==
  execution' = [execution EXCEPT ![e].provider = TRUE,
    ![e].state = IF Platform = "tiktok" THEN "publishing" ELSE "processing"]

RecordUpload(w) ==
  LET e == job[w].execution IN
  /\ job[w].step = "uploaded"
  /\ \/ /\ HoldsFence(w) /\ UploadRecordable(e)
        /\ UploadRecorded(e)
        /\ job' = [job EXCEPT ![w].provider = TRUE,
                     ![w].step = IF Platform = "tiktok" THEN "transfer" ELSE "poll"]
     \/ /\ HoldsFence(w) /\ ~ UploadRecordable(e)
        /\ Throw(w, "transient")
        /\ UNCHANGED execution
     \/ /\ ~ HoldsFence(w)
        /\ Leave(w)
        /\ UNCHANGED execution
  /\ UNCHANGED <<content, outbox, channel, transaction, histories, budget>>

(* recordTikTokTransferAccepted, of the publication just accepted or of one that
   an earlier worker left behind. *)
TransferRecordable(e) ==
  execution[e].state = "publishing" /\ execution[e].provider

RecordTransfer(w) ==
  LET e == job[w].execution IN
  /\ job[w].step \in {"resume", "transfer"}
  /\ \/ /\ HoldsFence(w) /\ TransferRecordable(e)
        /\ execution' = [execution EXCEPT ![e].state = "processing"]
        /\ job' = [job EXCEPT ![w].step = "poll"]
     \/ /\ HoldsFence(w) /\ ~ TransferRecordable(e)
        /\ Throw(w, "transient")
        /\ UNCHANGED execution
     \/ /\ ~ HoldsFence(w)
        /\ Leave(w)
        /\ UNCHANGED execution
  /\ UNCHANGED <<content, outbox, channel, transaction, histories, budget>>

(* The recording transaction ends in an error of the database's own, before or
   after its commit: internal_error, and the id is lost with the exception. *)
RecordError(w) ==
  LET e == job[w].execution IN
  /\ job[w].step \in {"uploaded", "resume", "transfer"}
  /\ Spend("record")
  /\ \/ UNCHANGED execution
     \/ /\ job[w].step = "uploaded" /\ HoldsFence(w) /\ UploadRecordable(e)
        /\ UploadRecorded(e)
     \/ /\ job[w].step # "uploaded" /\ HoldsFence(w) /\ TransferRecordable(e)
        /\ execution' = [execution EXCEPT ![e].state = "processing"]
  /\ Throw(w, "transient")
  /\ UNCHANGED <<content, outbox, channel, transaction, histories>>

-----------------------------------------------------------------------------
(* The worker: the provider's status, and the end of the message *)

(* recordYouTubeExecutionFailureAndCompleteOutbox: fails the execution, asks
   for reauthorization when the category does, closes the row; all or nothing.
   requireYouTubeReauthorizationInTransaction erases the authorization. The
   transaction throws execution_failure_superseded when the execution has
   another end, publish_fence_lost or outbox_claim_lost when the worker is
   stale; in the catch block ("failed") every one of them ends the handler. *)
Superseded(e) == execution[e].state \in {"published", "cancelled"}

FailExecution(w, state, reauthorize) ==
  LET e == job[w].execution IN
  execution' = [f \in Executions |->
    [execution[f] EXCEPT
       !.state = IF f = e /\ @ \in OpenStates THEN state ELSE @,
       !.provider = @ /\ ~ (reauthorize /\ Bound(f))]]

RecordFailure(w, state, reauthorize) ==
  LET e == job[w].execution IN
  /\ LifecycleFree
  /\ \/ /\ HoldsFence(w) /\ ~ Superseded(e) /\ HoldsClaim(w)
        /\ FailExecution(w, state, reauthorize)
        /\ EndClaim(e, "dead", 0)
        /\ IF reauthorize
           THEN /\ channel' = [channel EXCEPT !.state = "reauthorization_required",
                                              !.authorized = FALSE]
                /\ ForgetAccount
           ELSE UNCHANGED <<channel, content>>
        /\ Leave(w)
     \/ /\ ~ (HoldsFence(w) /\ ~ Superseded(e) /\ HoldsClaim(w))
        /\ IF HoldsFence(w) /\ Superseded(e) /\ job[w].step # "failed"
           THEN Throw(w, "transient") ELSE Leave(w)
        /\ UNCHANGED <<content, execution, outbox, channel>>

(* finishOutboxMessage with the outcome "retry" *)
FinishRetry(w, increment) ==
  /\ IF HoldsClaim(w) THEN EndClaim(job[w].execution, "pending", increment)
                      ELSE UNCHANGED outbox
  /\ Leave(w)
  /\ UNCHANGED <<content, execution, channel>>

(* recordYouTubeExecutionPublishedAndCompleteOutbox, after a status read that
   says published. *)
PollPublished(w) ==
  LET e == job[w].execution
      ready == execution[e].state \in {"processing", "published"}
  IN
  /\ job[w].step = "poll"
  /\ \/ /\ HoldsFence(w) /\ ready /\ HoldsClaim(w)
        /\ execution' = [execution EXCEPT ![e].state = "published"]
        /\ EndClaim(e, "completed", 0)
        /\ Leave(w)
     \/ /\ HoldsFence(w) /\ ~ ready
        /\ Throw(w, "transient")
        /\ UNCHANGED <<execution, outbox>>
     \/ /\ ~ HoldsFence(w) \/ (ready /\ ~ HoldsClaim(w))
        /\ Leave(w)
        /\ UNCHANGED <<execution, outbox>>
  /\ UNCHANGED <<content, channel, transaction, histories, budget>>

(* A status read that says failed. TikTok's auth_removed also asks for
   reauthorization. *)
PollFailed(w) ==
  /\ job[w].step = "poll"
  /\ \/ RecordFailure(w, "failed", FALSE)
     \/ Platform = "tiktok" /\ RecordFailure(w, "needs_attention", TRUE)
  /\ UNCHANGED <<transaction, histories, budget>>

PollsExhaustedLate(w) == job[w].attempt > MaxPolls  \* mutant: off by one
PollsExhausted(w) == job[w].attempt >= MaxPolls

(* A status read that says processing. YouTube and Facebook poll again without
   counting an attempt, as often as the provider says so (bounded here by the
   budget); TikTok counts one, and gives up at MaxPolls. *)
PollProcessing(w) ==
  /\ job[w].step = "poll"
  /\ \/ /\ Platform # "tiktok"
        /\ Spend("processing")
        /\ FinishRetry(w, 0)
     \/ /\ Platform = "tiktok"
        /\ IF PollsExhausted(w)
           THEN RecordFailure(w, "needs_attention", FALSE)
           ELSE FinishRetry(w, 1)
        /\ UNCHANGED budget
  /\ UNCHANGED <<transaction, histories>>

-----------------------------------------------------------------------------
(* The worker: the catch and finally blocks *)

(* A terminal failure of an attempt that had read its work. *)
FailWithWork(w) ==
  /\ job[w].step = "failed" /\ HasWork(w)
  /\ IsTerminal(job[w].category, job[w].attempt)
  /\ RecordFailure(w, IF NeedsAttention(job[w].category) THEN "needs_attention"
                                                         ELSE "failed",
                   job[w].category = "reauthorize")
  /\ UNCHANGED <<transaction, histories, budget>>

(* recordClaimedYouTubeExecutionFailureAndCompleteOutbox: a terminal failure of
   the read itself, guarded by the outbox claim alone. *)
FailWithoutWork(w) ==
  LET e == job[w].execution
      state == IF NeedsAttention(job[w].category) THEN "needs_attention" ELSE "failed"
  IN
  /\ job[w].step = "failed" /\ ~ HasWork(w)
  /\ IsTerminal(job[w].category, job[w].attempt)
  /\ IF HoldsClaim(w)
     THEN /\ execution' = [execution EXCEPT ![e].state =
                             IF @ \in OpenStates THEN state ELSE @]
          /\ EndClaim(e, IF execution[e].state = "published" THEN "completed"
                                                             ELSE "dead", 0)
     ELSE UNCHANGED <<execution, outbox>>
  /\ Leave(w)
  /\ UNCHANGED <<content, channel, transaction, histories, budget>>

(* shouldResetYouTubeExecutionForRetry *)
ShouldReset(w) == job[w].state = "publishing" /\ ~ job[w].provider

(* resetYouTubeExecutionForRetry; a rejected reset ends the handler. *)
ResetForRetry(w) ==
  LET e == job[w].execution IN
  /\ job[w].step = "failed"
  /\ ~ IsTerminal(job[w].category, job[w].attempt)
  /\ ShouldReset(w)
  /\ IF HoldsFence(w) /\ execution[e].state = "publishing" /\ ~ execution[e].provider
     THEN /\ execution' = [execution EXCEPT ![e].state = "not_started"]
          /\ job' = [job EXCEPT ![w].step = "retrying"]
     ELSE /\ UNCHANGED execution
          /\ Leave(w)
  /\ UNCHANGED <<content, outbox, channel, transaction, histories, budget>>

RetryLater(w) ==
  /\ \/ job[w].step = "retrying"
     \/ /\ job[w].step = "failed" /\ ~ ShouldReset(w)
        /\ ~ IsTerminal(job[w].category, job[w].attempt)
  /\ FinishRetry(w, 1)
  /\ UNCHANGED <<transaction, histories, budget>>

(* releaseYouTubeChannelOperationLease: matched by execution and generation. *)
ReleaseLease(w) ==
  /\ job[w].step = "finally"
  /\ RowFree
  /\ channel' = IF /\ channel.lease = job[w].execution
                   /\ channel.leaseGeneration = job[w].lease
                THEN WithoutLease(channel) ELSE channel
  /\ job' = [job EXCEPT ![w] = NoJob]
  /\ UNCHANGED <<content, execution, outbox, transaction, histories, budget>>

(* The heartbeat finds the claim or the lease gone, or cannot ask: leaseLost.
   A heartbeat that renews both changes nothing here, for a claim that is not
   over stays live until ExpireClaim says otherwise. *)
NoticeLost(w) ==
  /\ job[w].step \in {"claimed", "reading", "upload", "uploaded", "resume",
                      "transfer", "poll"}
  /\ ~ job[w].lost
  /\ \/ /\ ~ HoldsClaim(w) \/ (HasWork(w) /\ ~ HoldsFence(w))
        /\ UNCHANGED budget
     \/ Spend("heartbeat")
  /\ job' = [job EXCEPT ![w].lost = TRUE]
  /\ UNCHANGED <<content, execution, outbox, channel, transaction, histories>>

-----------------------------------------------------------------------------
(* Faults and time *)

(* A transaction of the catch block fails: the exception leaves the handler. *)
StoreError(w) ==
  /\ job[w].step \in {"failed", "retrying"}
  /\ Spend("store")
  /\ Leave(w)
  /\ UNCHANGED <<content, execution, outbox, channel, transaction, histories>>

(* The process dies. Its rows keep their claim and lease until they expire. *)
Crash(w) ==
  /\ job[w].step # "idle"
  /\ Spend("crash")
  /\ job' = [job EXCEPT ![w] = NoJob]
  /\ UNCHANGED <<content, execution, outbox, channel, transaction, histories>>

(* claim_until passes. While its owner runs, a heartbeat renews it every 30
   seconds for two minutes, so that takes a stall of the process; a claim whose
   owner has left it, or died, expires by itself. *)
ExpireClaim(e) ==
  /\ outbox[e].state = "claimed" /\ outbox[e].live
  /\ IF \E w \in Workers : job[w].execution = e /\ outbox[e].owner = w
     THEN Spend("stall") ELSE UNCHANGED budget
  /\ outbox' = [outbox EXCEPT ![e].live = FALSE]
  /\ UNCHANGED <<content, execution, channel, job, transaction, histories>>

(* operation_lease_until passes. *)
ExpireLease ==
  /\ channel.leaseLive
  /\ IF \E w \in Workers : HasWork(w) /\ job[w].execution = channel.lease
     THEN Spend("stall") ELSE UNCHANGED budget
  /\ channel' = [channel EXCEPT !.leaseLive = FALSE]
  /\ UNCHANGED <<content, execution, outbox, job, transaction, histories>>

-----------------------------------------------------------------------------
(* The channel: disconnection and reconnection *)

(* A disconnection reads the executions it ends and then updates them, and
   their rows, by id: an end that a worker gives one of them in between is
   overwritten. *)
ReadEnds(phase, End(_)) ==
  transaction' = [transaction EXCEPT !.disconnection = phase,
                    !.ends = [e \in Executions |-> End(e)]]

CloseDisconnection ==
  transaction' = [transaction EXCEPT !.disconnection = "none", !.ends = NoEnds]

Ended(e) == transaction.ends[e] # "none"
EndedState(e) == IF Ended(e) THEN transaction.ends[e] ELSE execution[e].state

(* prepareYouTubeDisconnect, for a channel that is not yet disconnecting: the
   executions that were not started are cancelled, their rows closed in any
   state. *)
Unstarted(e) ==
  /\ channel.authorized /\ Bound(e)
  /\ execution[e].state = "not_started" /\ ~ execution[e].provider

ReadUnstarted ==
  /\ LifecycleFree
  /\ channel.state \in ChannelStates \ {"disconnecting", "disconnected"}
  /\ channel.generation < MaxGeneration
  /\ ReadEnds("prepare", LAMBDA e : IF Unstarted(e) THEN "cancelled" ELSE "none")
  /\ UNCHANGED <<content, execution, outbox, channel, job, histories, budget>>

PrepareDisconnect ==
  /\ transaction.disconnection = "prepare"
  /\ execution' = [e \in Executions |-> [execution[e] EXCEPT !.state = EndedState(e)]]
  /\ outbox' = [e \in Executions |->
                  IF Ended(e) THEN ClosedRow(outbox[e]) ELSE outbox[e]]
  /\ channel' = [channel EXCEPT !.state = "disconnecting", !.generation = @ + 1]
  /\ CloseDisconnection
  /\ UNCHANGED <<content, job, histories, budget>>

(* The worker's channel_disconnect operation: the provider's authorization is
   revoked and completeYouTubeDisconnect erases it here, once no lease is
   active. terminalizeDisconnectedYouTubeExecutions ends the executions that it
   reads as open; the references of all of the account's are cleared. *)
Terminalized(state) ==
  CASE state \in {"not_started", "publishing"} -> "cancelled"
    [] state = "processing" -> "needs_attention"
    [] OTHER -> "none"

ReadOpen ==
  /\ LifecycleFree
  /\ channel.state = "disconnecting" /\ channel.authorized
  /\ ~ channel.leaseLive
  /\ ReadEnds("erase", LAMBDA e :
       IF Bound(e) THEN Terminalized(execution[e].state) ELSE "none")
  /\ UNCHANGED <<content, execution, outbox, channel, job, histories, budget>>

RevokeAndErase ==
  /\ transaction.disconnection = "erase"
  /\ execution' = [e \in Executions |->
       [execution[e] EXCEPT !.state = EndedState(e), !.provider = @ /\ ~ Bound(e)]]
  /\ outbox' = [e \in Executions |->
       IF Ended(e) /\ outbox[e].state \notin {"completed", "dead"}
       THEN ClosedRow(outbox[e]) ELSE outbox[e]]
  /\ channel' = [WithoutLease(channel) EXCEPT !.authorized = FALSE]
  /\ ForgetAccount
  /\ CloseDisconnection
  /\ UNCHANGED <<job, histories, budget>>

(* completeYouTubeDisconnect, once the token keys are retired. *)
FinishDisconnect ==
  /\ LifecycleFree
  /\ channel.state = "disconnecting" /\ ~ channel.authorized
  /\ ~ channel.leaseLive
  /\ channel' = [WithoutLease(channel) EXCEPT !.state = "disconnected"]
  /\ UNCHANGED <<content, execution, outbox, job, transaction, histories, budget>>

(* beginPlatformConnection: the channel is read, under the lock of connection
   attempts (key 0), which is not that of its lifecycle, and then updated by id,
   whatever it is by now; or the transaction fails, or its update is overwritten
   by one that had read the channel before. *)
ReadChannel ==
  /\ ~ transaction.connection
  /\ channel.state \in {"not_connected", "connecting", "disconnected",
                        "reauthorization_required"}
  /\ ~ channel.authorized
  /\ transaction' = [transaction EXCEPT !.connection = TRUE]
  /\ UNCHANGED <<content, execution, outbox, channel, job, histories, budget>>

BeginConnection ==
  /\ transaction.connection
  /\ RowFree
  /\ channel' \in {channel, [channel EXCEPT !.state = "connecting"]}
  /\ transaction' = [transaction EXCEPT !.connection = FALSE]
  /\ UNCHANGED <<content, execution, outbox, job, histories, budget>>

(* completePlatformConnection and denyPlatformConnection name the state they
   expect. What was open before the attempt began is over when it completes. *)
CompleteConnection ==
  /\ LifecycleFree /\ \A w \in Workers : job[w].step # "reading"
  /\ channel.state = "connecting" /\ ~ channel.authorized
  /\ channel' = [channel EXCEPT !.state = "connected", !.authorized = TRUE]
  /\ UNCHANGED <<content, execution, outbox, job, transaction, histories, budget>>

DenyConnection ==
  /\ RowFree
  /\ channel.state = "connecting"
  /\ channel' = [channel EXCEPT !.state = "not_connected"]
  /\ UNCHANGED <<content, execution, outbox, job, transaction, histories, budget>>

-----------------------------------------------------------------------------
(* The specification *)

Publisher ==
  \/ \E c \in Contents :
       \/ ApproveContent(c)
       \/ EditContent(c)
       \/ \E e \in Executions : ConfirmPublishing(c, e)
  \/ ReadUnstarted
  \/ ReadChannel \/ BeginConnection \/ CompleteConnection \/ DenyConnection

(* What a running worker does of itself. *)
Work(w) ==
  \/ \E e \in Executions : ClaimMessage(w, e)
  \/ ReadExecution(w) \/ ReadWork(w) \/ ReadRefused(w)
  \/ AttemptFailed(w) \/ UploadAccepted(w) \/ UploadAmbiguous(w)
  \/ RecordUpload(w) \/ RecordTransfer(w)
  \/ PollPublished(w) \/ PollFailed(w) \/ PollProcessing(w)
  \/ FailWithWork(w) \/ FailWithoutWork(w)
  \/ ResetForRetry(w) \/ RetryLater(w) \/ ReleaseLease(w)

Disturbance(w) ==
  \/ ReadError(w) \/ UploadMisread(w) \/ RecordError(w)
  \/ StoreError(w) \/ NoticeLost(w) \/ Crash(w)

(* What a disconnection has begun goes on by itself. *)
Disconnector ==
  PrepareDisconnect \/ ReadOpen \/ RevokeAndErase \/ FinishDisconnect

Next ==
  \/ Publisher
  \/ \E w \in Workers : Work(w) \/ Disturbance(w)
  \/ Disconnector
  \/ \E e \in Executions : ExpireClaim(e)
  \/ ExpireLease

Spec == Init /\ [][Next]_vars

(* Both polling loops run until the process is told to stop, every provider
   call has a timeout, and time passes; nobody has to confirm, edit or
   disconnect anything, and no fault has to happen. *)
Fairness ==
  /\ \A w \in Workers : WF_vars(Work(w))
  /\ WF_vars(Disconnector)
  /\ \A e \in Executions : WF_vars(ExpireClaim(e))
  /\ WF_vars(ExpireLease)

FairSpec == Spec /\ Fairness

-----------------------------------------------------------------------------
(* Properties *)

ExecutionRows == [state : {"absent"} \cup OpenStates \cup Settled,
                  content : Contents \cup {NoContent}, provider : BOOLEAN]
OutboxRows == [state : {"absent", "pending", "claimed", "completed", "dead"},
               owner : Workers \cup {NoWorker}, generation : Nat,
               live : BOOLEAN, attempt : Nat]
ChannelRows == [state : ChannelStates, generation : Nat, authorized : BOOLEAN,
                lease : Executions \cup {NoExecution}, leaseGeneration : Nat,
                leaseLive : BOOLEAN]
ContentRows == [status : {"draft", "approved", "superseded"}, bound : BOOLEAN,
                latest : Executions \cup {NoExecution}]
Jobs == [step : Steps, execution : Executions \cup {NoExecution},
         generation : Nat, attempt : Nat, lease : Nat,
         state : {"none"} \cup OpenStates, provider : BOOLEAN,
         lost : BOOLEAN, category : Categories \cup {"none"}]

Transactions == [disconnection : {"none", "prepare", "erase"},
                 ends : [Executions -> {"none", "cancelled", "needs_attention"}],
                 connection : BOOLEAN]

(* The rows and the jobs have the shapes the schema and the worker give them;
   a worker that is not idle has an execution in hand. *)
TypeOK ==
  /\ content \in [Contents -> ContentRows]
  /\ execution \in [Executions -> ExecutionRows]
  /\ outbox \in [Executions -> OutboxRows]
  /\ channel \in ChannelRows
  /\ job \in [Workers -> Jobs]
  /\ \A w \in Workers : job[w].step # "idle" => job[w].execution \in Executions
  /\ transaction \in Transactions
  /\ uploads \in [Executions -> Nat]
  /\ overrun \subseteq Executions
  /\ budget \in Nat

(* An execution and its outbox row end together and the same way: published
   with a completed row, every other end with a dead one, and a row is still
   to be worked on exactly while its execution is open. The one exception: a
   read that stalled after it had seen the execution as not started writes
   "publishing" over whatever another worker has made of it. *)
OutcomeAgreement == \A e \in Executions :
  /\ execution[e].state = "absent" <=> outbox[e].state = "absent"
  /\ e \notin overrun =>
       /\ execution[e].state \in OpenStates <=>
            outbox[e].state \in {"pending", "claimed"}
       /\ execution[e].state = "published" <=> outbox[e].state = "completed"
       /\ execution[e].state \in DeadStates <=> outbox[e].state = "dead"

(* Whatever is retried, confirmed again, expired or crashed, the provider is
   made to create at most one object for a content. *)
OnePublication == \A e, f \in Executions :
  (uploads[e] > 0 /\ uploads[f] > 0 /\ execution[e].content = execution[f].content)
    => e = f /\ uploads[e] = 1

(* What the publishing code expects of the outbox, whichever transport brings
   it the rows: OutboxRelay implements the same contract. *)
Standing(row) ==
  CASE row.state = "pending" -> "waiting"
    [] row.state = "claimed" -> IF row.live THEN "held" ELSE "lapsed"
    [] OTHER -> row.state

Contract == INSTANCE OutboxContract WITH
  Messages <- Executions, Nobody <- NoWorker,
  standing <- [e \in Executions |-> Standing(outbox[e])],
  holder <- [e \in Executions |->
               IF outbox[e].state = "claimed" THEN outbox[e].owner ELSE NoWorker]

(* A worker ends an outbox row or gives it back only while a claim of it is
   live; a lapsed row returns through another claim alone, an ended one never,
   and a disconnection takes back any set of rows in one step. *)
HonoursContract == Contract!Spec

(* The user may confirm a content again only when its failed execution left
   nothing at the provider and no worker is still about to upload for it. *)
RetryIsSafe == \A e \in Executions :
  (Retryable(e) /\ Bound(e)) =>
    /\ uploads[e] = 0
    /\ \A w \in Workers :
         job[w].execution = e => job[w].step \notin {"upload", "uploaded"}

(* Two workers are never uploading for the same execution at once, even after
   one of them lost its claim, its lease or both to the other; unless it stalled
   so early that both had read the execution as not started: the lease lets the
   same execution in and the update that starts it does not name its state. *)
UploadExclusive == \A v, w \in Workers :
  (/\ job[v].step \in {"upload", "uploaded"}
   /\ job[w].step \in {"upload", "uploaded"}
   /\ job[v].execution = job[w].execution) => v = w \/ job[w].execution \in overrun

(* An execution shown as processing or published has an object at the
   provider, and until its account is erased the reference to it. *)
PublishedIsReal == \A e \in Executions :
  execution[e].state \in {"processing", "published"} =>
    uploads[e] > 0 /\ (Bound(e) => execution[e].provider)

(* The retry counter stays within its bound, whoever counts. *)
AttemptBound == \A e \in Executions :
  \/ outbox[e].attempt <= MaxAttempts
  \/ Platform = "tiktok" /\ outbox[e].attempt <= MaxPolls

(* The end of an execution is final: no late worker, retry or recovery changes
   it, or reopens or rewrites its row. Two exceptions: a disconnection gives an
   execution that it had read as open the end it had read for it, over another
   one given meanwhile; and a read that was overtaken starts it again. *)
TerminalIsFinal ==
  [][\A e \in Executions : execution[e].state \in Settled /\ e \notin overrun' =>
       /\ execution'[e].state \in {execution[e].state, transaction.ends[e]}
       /\ outbox'[e] = outbox[e]]_vars

(* Every confirmed execution comes to an end. One that was started by a read
   that was overtaken may stay open, but its row has ended then and nobody works
   on it again. *)
EventuallySettled == \A e \in Executions :
  execution[e].state = "not_started" ~>
    \/ execution[e].state \in Settled
    \/ e \in overrun /\ outbox[e].state \in {"completed", "dead"}

=============================================================================
