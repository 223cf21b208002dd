# TLA+ models of the JINGTANG publishing system

JINGTANG lets a workspace write contents, approve them, and publish them to
YouTube, Facebook, TikTok and Instagram through the provider channel the
workspace connected. A publication happens once, cannot be taken back, and runs
in a worker that may crash, stall or lose its leases at any point. What the
workspace connected, uploaded or is must also end: authorised data is refreshed
or erased at its deadline, a disconnection revokes and destroys, and a deleted
workspace or account leaves nothing. This directory holds the TLA+ models of
both, the TLC runs over them and the TLAPS proofs about them.

All paths below are relative to the repository.

## 1. Inventory of the system

| Component | State it keeps | Operations | Where |
| --- | --- | --- | --- |
| Publishing execution | `platform_executions` (state, provider id), `outbox_messages` (state, claim owner, term, generation, attempt), the worker's variables | `confirmContentPublishing`, claim, `readPlatformExecutionWorkItem`, provider write, `record…`, status poll, retry, failure | `packages/db/src/publishing-repository.ts`, `apps/worker/src/index.ts`, dispositions in `packages/application/src` |
| Dispatch and broker | outbox states `dispatching`/`dispatched`, broker queue, deliveries | `claimNextOutboxForDispatch`, publish, `completeOutboxDispatch`, `releaseOutboxDispatch`, `claimQueuedOutboxMessage`, ack, requeue | `apps/dispatcher/src/index.ts`, `packages/integrations/src/rabbit-command-transport.ts` |
| Channel operation lease | `channels.operation_lease_*`, `operation_generation` | taken by the work read and by retention, renewed, released, expired, read by the disconnection | `publishing-repository.ts`, `lifecycle-repository.ts` |
| Channel connection | `channels`, consent records, `facebook_connection_candidates`, callback digests, token keys | begin, callback, exchange, select, refresh, complete, deny | `repository.ts`, `packages/application/src/youtube.ts`, routes of `apps/platform` |
| Disconnection, retention, key retirement | `channels`, `lifecycle_operations`, key store | prepare, revoke, erase, complete; refresh or erase at the deadline; destroy a key | `lifecycle-repository.ts`, `apps/worker/src/index.ts` |
| Lifecycle control plane | `lifecycle_operations`, `lifecycle_steps` | enqueue, claim, renew, step journal, retry, deadline, purge | `lifecycle-control-repository.ts`, SQL functions in the migrations |
| Instagram checkpoints | create and publish write states of an execution, `instagram_callback_receipts` | claim, record, fail, ambiguous, reconcile, local disconnection, removal callback | `publishing-repository.ts`, `repository.ts`, a trigger in the migrations |
| Workspaces, memberships, accounts | workspaces, memberships, invitations, sessions, users | create, invite, accept, change role, remove, request deletion of an account | `repository.ts`, SQL functions |
| Workspace and account deletion | `data_deletion_requests`, identity provider | deny, drain, revoke, delete objects, delete rows, close the ledger; clean up channels, delete the identity, close the account | `lifecycle-repository.ts`, worker, migrations |
| Source assets | `source_assets`, object store | begin, put, confirm, reject, clean up | `content-repository.ts`, `s3-asset-storage.ts`, worker |
| Content and approval | contents, revisions, decisions | edit, submit, decide | `content-repository.ts` |
| OAuth cookies, identity adapters, token vaults | sealed cookies, external accounts, wrapped keys | seal, open, sign in | `oauth-flow-state.ts`, adapters |
| Web application, configuration, UI, site, infrastructure | none of its own | HTTP requests that call repository transactions | `apps/platform`, `apps/site`, `infra` |

How they interact: the web application and the worker share nothing but the
database; every write is one transaction (`withTenant`). The confirmation puts
an execution and an outbox row into the database together. With the local
transport the worker polls the outbox; with TDMQ a dispatcher turns rows into
broker commands and the worker claims the row a command names. A worker that
owns an outbox claim takes the lease of the channel in the transaction that
reads its work, calls the provider outside any transaction, and records the
result in further transactions fenced by the lease, the claim, or both. Requests
to disconnect, to close an account or to delete a workspace deny first and put a
row into `lifecycle_operations`; the lifecycle loop of the same workers claims
such rows, runs their steps against provider, vault, object store and identity
provider, and tries again until a deadline. A disconnection bumps the channel's
generation, waits for the lease, revokes, erases, and is complete when the keys
of the channel are destroyed.

What is hard, and what correctness means:

* a provider write cannot be undone or made idempotent: at most one object per
  content, and a retry only where there is certainly none;
* claim and lease are two terms with separate clocks and separate heartbeats: a
  worker may own one, both or none between any two of its steps;
* execution and outbox row are two records of one fact and must end together;
* a crash loses the worker's memory but not its claim, lease or upload;
* messages and callbacks are duplicated, delayed and redelivered;
* a token key must be destroyed once it is out of use and never before, whoever
  replaces the tokens, and a certificate of deletion must be true;
* a denial holds against everybody who read the database before it;
* a request is authorised in one transaction and acts in another;
* two requests that each leave the workspace an owner must not together leave it
  none;
* what was confirmed, requested or has expired must come to an end without
  anybody's help.

The hazards this leaves, each at its line and with the properties that cover
it, are listed under `hazards` in `PROJECT.json`.

## 2. The modules

| Module | Content |
| --- | --- |
| `OutboxContract` | abstract: what the publishing code relies on in an outbox row |
| `PublishExecution` | confirmation, worker, lease, connection; refines `OutboxContract` |
| `PublishExecution_proofs` | types, agreement of execution and row, finality |
| `PublishSafety_proofs` | under every fault: exclusive uploads, real publications, bounded attempts, the contract |
| `PublishOnce_proofs` | at-most-once publication and safe retries |
| `OutboxRelay`, `OutboxRelay_proofs` | the transport of a row to a worker, refines `OutboxContract` too; its proofs |
| `LifecycleControl` | the rows of `lifecycle_operations`, their claims and workers; extended by the two groups below |
| `Lifecycle`, `Lifecycle_proofs` | disconnection, retention and key retirement of one channel; its proofs |
| `Membership` | accounts, roles, invitations, sessions; extends `LifecycleControl` |
| `Workspace`, `Workspace_proofs` | source asset, channel, ledger, deletion of workspace and accounts; extends `Membership`; its proofs |
| `InstagramContract` | abstract: what the database's trigger lets anyone write into a checkpoint |
| `InstagramExecution`, `InstagramExecution_proofs` | the checkpoint protocol, the channel and the provider's callbacks; refines `InstagramContract`; its proofs |
| `ChannelConnection`, `ChannelConnection_proofs` | consent attempts, callbacks, envelopes and keys of the four platforms; its proofs |
| `MCPublishExecution`, `MCOutboxRelay`, `MCLifecycle`, `MCInstagram`, `MCConnection`, `MCWorkspace` | instances for TLC |

### PublishExecution

One workspace, one channel, one platform per instance (`Platform`), sets of
workers, contents (an approved revision with its platform version) and
execution identities.

| Variable | Code |
| --- | --- |
| `execution[e]` | row of `platform_executions`: `state`, `content`, `provider` (the provider id is stored) |
| `outbox[e]` | its row of `outbox_messages`: `state`, `owner`, `generation`, `attempt`, and `live` for `claim_until > CURRENT_TIMESTAMP` |
| `channel` | row of `channels`: `state`, operation `generation`, `authorized` (token and account present), `lease`, `leaseGeneration`, `leaseLive` |
| `content[c]` | approval, `bound` (the version still names the connected account), `latest` intent |
| `job[w]` | the local variables of `processClaimedPublish`/`processClaimedTikTokPublish` (`message`, `work`, `providerReferencePersisted`, `leaseLost`, the category in the catch block) and the place between two transactions (`step`) |
| `transaction` | what open transactions have read and not yet written: the ends a disconnection is about to give (`ends`), and an attempt that has read the channel (`connection`) |
| `uploads[e]` | history: objects the provider created for `e` |
| `overrun` | history: executions started by a read of the work that had been overtaken |
| `budget` | faults that may still happen |

`job[w].step` walks through the handler: `claimed` → `reading` → `upload` →
`uploaded` → (`transfer` for TikTok) → `poll`, or `resume` for a TikTok post an
earlier worker left behind; `failed` is the catch block, `retrying` the place
between its two transactions, `finally` the release of the lease. An action is
one transaction, a part of one, or one provider call together with the control
flow up to the next. Error codes are folded into four categories, the ones the
disposition functions and `requireReauthorization` tell apart.

Faults have a kind, so that a run can say which it allows: `crash` (the process
dies), `stall` (a term passes while its owner runs), `heartbeat` (a renewal
fails), `read`, `record`, `store` (a transaction of that phase ends in an error
of the database's own, before or after its commit), `reply` (the provider did
the write but its answer is misread as transient), `processing` (YouTube or
Facebook answer "processing" once more).

Abstractions, all of them deliberate:

* a transaction is one action where its updates name the state, the claim or the
  lease they expect, and more than one where they do not (see below);
* the confirmation is one action: it inserts rows and updates none, and an
  execution whose channel or revision changed between its reads and its insert is
  one that the worker's read then refuses;
* `pending` means "waiting for a worker" whichever transport is used: the
  contract is what links it to `OutboxRelay`;
* revocation at the provider and `completeYouTubeDisconnect` are one step, and
  the retirement of token keys is only the second step `FinishDisconnect`: the
  operation that drives them is `Lifecycle`;
* a status read is merged with the transaction that follows it, heartbeats that
  succeed are invisible;
* `decideContent` is modelled for a version that names the connected account;
* repeated confirmations that return the existing execution change nothing and
  are stutters.

### Transactions that read first and write by id

`withTenant` opens READ COMMITTED transactions: what one has read may have changed
when it writes, unless a lock or the `WHERE` clause of the update prevents it.
These do neither, and are split at that place in every module they occur in:

| Transaction | Actions | What may come in between, and what the properties say of it |
| --- | --- | --- |
| `readPlatformExecutionWorkItem` (`publishing-repository.ts:996`, `:1104`, `:1122`) | `ReadExecution`, `ReadWork` | the claim expires, another worker reads the same execution, for the lease lets it in; both start it. Such an execution is in `overrun`, the exception of `UploadExclusive`, `OutcomeAgreement`, `TerminalIsFinal` and `EventuallySettled` |
| `prepareYouTubeDisconnect` (`lifecycle-repository.ts:782`, `:793`) | `ReadUnstarted`, `PrepareDisconnect` | a worker ends the execution, fenced by its claim alone: the end is overwritten by the one in `ends`, the exception of `TerminalIsFinal`. `RowFree` keeps away whoever must update the channel's row, which this transaction has updated before it reads |
| `completeYouTubeDisconnect` with `terminalizeDisconnectedYouTubeExecutions` (`:398`, `:433`) | `ReadOpen`, `RevokeAndErase` | the same; `LifecycleFree` keeps away who takes the lock of the channel's lifecycle (key 6) |
| `prepareInstagramLocalDisconnect` (`:526`, `:398`, `:433`) | `ReadDisconnection`, `ReadEnds`, `Disconnect`; in `ChannelConnection` `ReadDisconnection`, `DisconnectInstagram` | a publish claim whose fence has passed announces its write: the execution is in `overtaken`, the exception of `NoLateReel`. A completion connects the channel: its key is `lost`, its authorization `forgotten` |
| `assertYouTubePublishFence` before Instagram's claims and records (`publishing-repository.ts:1576`) | `PassFence`, then `Claim` or a record | a plain `SELECT`: the disconnection may read and write after it |
| `beginPlatformConnection` (`repository.ts:415`, `:446`) | `ReadChannel`, `BeginConnection` (`BeginRead`, `BeginWrite` in `ChannelConnection`) | its lock is another one (key 0): a disconnection asked for in between is undone, the exception of `DenialHolds`; a connection is overwritten, that of `TokensOfOwnAttempt` |
| `confirmInstagramProviderRemoval` (`repository.ts:809`, `:858`) | `ReadCallback`, `ReceiveDeauthorization` | the channel is updated by id: an attempt may have made it connecting again |

What bounds this is an assumption that the modules' headers name: Prisma ends an
interactive transaction after five seconds, which nothing in the repository
overrides, while a user's way through a provider's consent page, and a lease of
two or five minutes, take longer. So a transaction may be overtaken by others,
but not by an attempt that begins after it, passes through the provider and
completes before it ends.

### OutboxRelay

`row` is the outbox row with its dispatch states, `desk` the dispatchers'
variables, `hand` a worker's delivery (`attached` while the broker still counts
it as unacknowledged), `ready` the number of copies of a command in the queue.
The broker is external: it keeps unordered copies and takes back deliveries
whose connection ended. The work itself is three outcomes here: the row is given
back, ended, or left claimed.

The history variable `overtaken` marks a weakness of the protocol the models
found: a worker whose connection ended before its claim may claim a row whose
only remaining command another worker then uses up ("busy" is requeued, but the
row may meanwhile have been given back and dispatched under another copy). If
it dies, the row stays `claimed` and no command names it; the dispatcher takes
over expired dispatches only (`claimNextOutboxForDispatch`). `NoLostMessage` and
`EventuallyEnded` state this exception explicitly.

### OutboxContract

A row waits, is held by one worker, lapses when the holder goes silent, is
given back or ended by a worker only while it is held, may be cancelled by the
system together with others, and never leaves an end. It does not say who gives
back or ends a held row: the compare-and-set of the detailed modules does. Both
detailed modules implement it (`HonoursContract`).

### LifecycleControl and Lifecycle

`LifecycleControl` has the rows (`operation`), what each worker serves
(`serving`, with its flag `claimLost`) and the faults left. A claim is named by
its worker: the counters `generation` and `attempt` are left out, for a worker
claims a row again only after its run has ended. `PENDING` and `RETRY` are one
state. The step journal decides nothing but one fact, whether a retention has
erased, and that is the variable `journal`; a record of it that fails is the
fault `journal`, which sends a run that did its step to its catch block.

`Lifecycle` adds the channel (with `cycle`, the envelope that set the expiry
date of the authorised data, and `data`, "fresh", "due" or "past"), the key
store (`vault`: a key is unsealed, sealed, destroyed, or withdrawn by
`persistSealedTokenEnvelope`), and `job`, the variables of `processLifecycleOperation`
between two transactions. The three operations are the rows
`Disconnect(g)`, one for each generation, `Retention(k)`, one for each cycle, and
`Retirement(k)`, one for each key. Publishing workers appear as the lease they
hold. `beginning` says that a connection attempt has read the channel and has not
yet written it: it does so by id, under a lock of its own, and that it meets
another channel than it read is the fault `overtaken`. `committed`, `revoked` and
`certified` are histories.

Two things the models found are in the properties and not hidden in the model:

* `completeYouTubeDisconnect` does not ask which disconnection it completes. If
  an earlier disconnection erased the channel but the record of its end failed
  (its row waits for a retry), and the channel was connected and disconnected
  again, the next run of the earlier one erases the new tokens, revoked or not.
  `ErasedAfterRevocation` names this exception.
* a retirement whose destruction fails once forgets its key
  (`RetirementKeyLost`, under `findings`).

### Membership and Workspace

`Membership` has one workspace and its users: a request is authorised first
(`request`, with a `step`) and acts later; `AlterGuarded` and `AlterUnguarded`
are the two ways `changeMemberRole` and `removeMember` go, decided by a read
before the lock; `CheckSuccessor` and `RequestAccountDeletion` are the two halves
of `request_account_deletion`. `Workspace` adds a source asset with its URL and
object, the cleaner, a channel, the deletion ledger, and the two operations
`WorkspaceDeletion` and `AccountDeletion(u)`, one action for each of their steps.
`slipped` and `leaks` are histories of writes that the locks do not stop; the
properties name them as their exceptions, so that everything else is shown:

* an owner can be lost by the acceptance of an invitation (it sets the role of an
  owner, without the lock), by a change whose membership became an owner's after
  it was read, and by the closing of an account that came to own the workspace
  after its check;
* an invitation, upload, asset row or connection that was authorised before a
  deletion is written after it; the keys of objects that could not be deleted are
  forgotten when the ledger is left waiting for a token key.

### InstagramExecution and InstagramContract

A Reel takes two writes. `execution[e]` has the two write states, the ids and
the outbox state; `job` walks through the read of the work, the
`nextInstagramExecutionAction`, the fence, the claim, the provider call, and
the fence and the record; `containers` and `reels` are what the provider made.
`transaction` holds what an open disconnection, connection attempt or callback
has read. Beside it are the channel and the provider's side of the
authorization. The user's consent (`Authorize`) makes the provider honour an
authorization (`grant`) and may or may not bring the latest attempt its
callback (`offered`), with which `CompleteConnection` stores it
(`channel.held`); a removal at the provider ends it and calls back, late and
repeatedly (`sent`, `receipts`). `forgotten` names the authorizations the
channel has lost track of: it was given and never completed, or retention
erased it, or the disconnection that ended it was overlapped by the completion
of its connection or by the beginning of another attempt. A later disconnection
may reuse the confirmation of an earlier removal for such a one
(`lifecycle-repository.ts:578`), which `RemovalIsReal` excepts by name. The
data-deletion callback leaves its receipt and nothing else, and is left out.
The deployed worker ends Instagram rows without this protocol
(`EndWithoutEvidence`); the protocol's callers are those of the integration
test. `InstagramContract` is the trigger
`enforce_instagram_provider_write_transition`: a statement outside it is thrown
out with its transaction, so that the program must refine it. The trigger sees
the checkpoint's columns only (`Checkpoint`), which is the refinement mapping.

One consequence of the plain fence is visible in the model and breaks no property: a
container that is recorded between the read and the write of a disconnection, or
whose execution needs attention after it, puts the execution back to `publishing`
(`recordInstagramContainerCreated`) though its row is dead and nobody will work on
it again.

### ChannelConnection

Two requests at a time (`request`) begin attempts, come back from the provider,
exchange a code, seal the tokens under a new key (`owner` remembers for which
attempt) and offer the envelope. `candidate` is Facebook's, `flows` the attempts
whose cookie a browser holds, `sibling` a channel of another workspace of the
same Meta user, `deletion` Meta's pending deletion request, `correlation` the row
by which Instagram's callbacks find a channel that was disconnected: until the
removal of the application is confirmed, the connect route refuses a new attempt
(`RemovalPending`). Transactions that read a row without a lock and write it by
its id are two actions (`BeginRead`/`BeginWrite`,
`ReadCandidate`/`CreateCandidate`, `ReadDisconnection`/`DisconnectInstagram`).
`lost` names the keys that such a write covers without retiring them: those of a
candidate that another callback replaces, and that of a connection completed while
Instagram's disconnection is between its read and its write.

A worker that replaces the tokens while it publishes is a request as well: it
reads and seals in `RotateYouTube`, `RotateFacebook` or `RotateTikTok` and offers
the envelope in `CompleteRotation`, for which a live lease is enough; whose lease
it is matters to `PublishExecution`. A member's look at TikTok's creator settings
does the same in `Refresh` and `CompleteRefresh`, and is refused beside any
lease. `RefuseToken` and `ExpireAuthorization` end the authorization, and each
platform has its own disconnection: three deny and leave the erasure to the
lifecycle (`EraseChannel`, `FinishDisconnect`), Instagram's does it all in one
transaction.

### Assumptions

* A transaction is atomic, except where a module splits it (see above), and is
  over within five seconds.
* An Instagram execution has one caller at a time, and a provider write that was
  looked up and not found has no late effect.
* A user has one session; a browser uses the URL of an upload once; one worker
  runs the deletions in `Workspace`, whose steps of loading and resuming, and of
  preparing and completing an account's deletion, are each one action.
* A key that a crash leaves in nobody's hands is counted as lost
  (`ChannelConnection`) or stays sealed outside the row (`Lifecycle`).
* `Workspace` has a YouTube channel, whose keys are abstracted to one that is
  stored, retiring or destroyed: their life is `Lifecycle`'s.

## 3. Properties and runs

| Run | Result | Properties | What it shows |
| --- | --- | --- | --- |
| `PublishRetry` | pass | `TypeOK`, `OnePublication`, `RetryIsSafe`, `PublishedIsReal` | two contents, two executions, two workers on YouTube with one crash, lost heartbeat, failing catch block or prolonged processing, one disconnection and reconnection |
| `PublishDisturbed` | pass | `OutcomeAgreement`, `UploadExclusive`, `AttemptBound`, `TerminalIsFinal` | one TikTok execution, two workers, any two faults, a disconnection and a reconnection, every transaction open to be overtaken |
| `PublishProgress` | pass | `EventuallySettled`, `HonoursContract` | liveness and refinement for one Facebook execution with any one fault |
| `OutboxRelay` | pass | `TypeOK`, `NoLostMessage`, `HonoursContract`, `EventuallyEnded` | one command through two dispatchers, the broker and two workers with three faults |
| `Lifecycle` | pass | `TypeOK`, `NoStrandedKey`, `RetiredKeyUnused`, `CertifiedIsDestroyed`, `ConnectedIsAuthorized`, `ErasedAfterRevocation`, `DenialHolds`, `CompletedIsFinal` | a channel with two envelopes, its disconnection, retention cycles and key retirements, two workers, a publishing worker, a connection attempt that may be overtaken, and one fault of any kind |
| `LifecycleProgress` | pass | `RetentionNotSkipped`, `DisconnectEnds`, `ExpiredDataEnds` | one worker: disconnection and expired data come to an end; a cycle is not closed while it is current |
| `Instagram` | pass | `TypeOK`, `OneReel`, `CheckpointCovers`, `NoLateReel`, `RemovalIsReal`, `HonoursTrigger` | one version confirmed up to twice, two callers, two authorizations, two disconnections, one fault |
| `Connection` | pass | `TypeOK`, `TokensOfOwnAttempt`, `StoredKeysOpen`, `KeyAccounted`, `SupersededIsHarmless` | two attempts on each of the four platforms, two requests or workers, three keys, one fault |
| `Workspace` | pass | `TypeOK`, `OwnerRemains`, `CompleteHasObject`, `DeletedLeavesNothing` | two users, three requests of which two run at once, an upload, a channel, both deletions, two faults |
| `PublishRecordLost` | violation | `OnePublication` | one failing record of an accepted upload leads to a second upload |
| `RetirementKeyLost` | violation | `RetirementKnowsKey` | one failing destruction makes the retirement forget its key |
| `DeletionRefused` | violation | `DeletionAccepted` | a workspace that holds an upload cannot be deleted |

The violations are disagreements of the code with its documents, quoted under
`findings` in `PROJECT.json`. They also mark the envelope inside which the
properties beside them hold.

For `OnePublication` and `RetryIsSafe`, crashes at any point, lost heartbeats
and failing catch blocks are harmless; an error that loses the record (`record`)
or the answer (`reply`) of an accepted upload is not, nor is a read that fails
after a crash (`read`: a failure without work looks retryable), nor a claim that
expires under a worker that goes on (`stall`: the execution is failed, and
confirmable again, under a worker about to upload). `PublishRetry` therefore
leaves these four kinds out, and nothing else; the proof of the same two
properties assumes just that. Adding any of them to `Faults` in
`PublishRetry.cfg` gives the counterexample.

Some documented rules are known to fail and have no run. A disconnection waits for
the publishing worker's lease (docs/OPERATIONS.md:74), but a stale worker's
release matches the lease of its successor for the same execution and generation
(`ReleaseLease` of `PublishExecution`), so that the successor works without one.
Who uploads is decided by the execution's state and not by the lease, so that
`UploadExclusive` does not suffer from it, nor does `DenialHolds`. A
retention whose lease runs out during the refresh persists nothing, and its next
run closes the cycle as superseded though the envelope is the current one
(`RetentionNotSkipped` with the fault `lease`); so does a retention whose claim
passed to another worker, when the release of the first run frees the lease of
the second (the fault `stall`, two workers). Meta's second deletion callback for
a user whose first one is still pending is answered with the pending request, and
what was connected in between stays (`ChannelConnection`).

Bounds. Two workers are enough for every race between an owner and its
successor, and each run has as many executions and contents as its properties
relate: two contents and two executions where retries of one content compete
with another for the channel, one content and two executions for a repeated
confirmation, one where the question is progress. `MaxAttempts = 1` makes both
the retry and the final attempt happen; `MaxPolls` is small for the same reason
(the code's values are 4 and 90). One execution is enough for `PublishDisturbed`,
whose four properties each speak of one execution, its row and its workers; that
another execution competes for the lease shows in `PublishRetry`. In `Instagram`
one fault is a crash, an expired lease or an overtaken attempt, and two
authorizations make a removal and the authorization it must not be taken for.
`MaxGeneration` bounds disconnections,
`MaxFaults` the faults; identities of executions are never reused, so the number
of confirmations is bounded by `Executions`. In `OutboxRelay`, `MaxRetries`
bounds how often work gives a row back. In `Lifecycle` two envelopes make one
rotation or refresh, or one reconnection, happen; `MaxGeneration = 1` keeps the
run short, and the earlier disconnection that `ErasedAfterRevocation` excepts
needs two: with `MaxGeneration = 2` the same properties hold (7.7 million states,
three and a half minutes), and the theorems hold for every value. In `Connection`,
three keys are a connection, its refresh and one more attempt, or Facebook's user
token and two Pages; in `Workspace` three requests are an invitation or promotion
and two that compete for the owner. Processes and interchangeable identities are
symmetric wherever only safety is checked.

Deadlock checking is off: when everything is settled and all faults are spent,
the systems rightly have nothing to do until a user does something.

Fairness. `runResilientPollingLoop` calls its operation again and again and
survives its errors, every provider call has a timeout, an open transaction
goes on by itself, and a consumer receives as long as it is connected: hence
weak fairness of `Work(w)`, `Dispatching(d)`, `Consuming(w)` and `Disconnector`
in the publishing modules, and of `Work(w)` and `EnqueueDue` in `Lifecycle`.
Time passes: weak fairness of the expirations, in `Lifecycle` of what nobody
uses any more (`Abandoned`, `ExpireAbandonedLease`), and of the publishing
worker's release, which its `finally` block or the lease's term brings about. A
claimable lifecycle row is claimed again and again while others may be too:
strong fairness of `ClaimNext` for each row, which the order of the queue by
the time of the next attempt gives, for a failed attempt moves behind those
that wait. Users and faults have no fairness. Faults are finite, which for
`processing` means that a provider does finish a video: the code itself polls
YouTube and Facebook for ever. `LifecycleProgress` leaves out the fault
`destroy`, whose effect is the finding above: a retirement that lost its key
never ends, nor does the disconnection that waits for it; and the faults
`lease` and `stall`, which `RetentionNotSkipped` does not survive (see above;
the theorem `CyclesEnd` leaves out just these two).

Each property has a mutant in `PROJECT.json`: a change of one definition, as a
plausible bug would make it, under which the run finds the property violated.
The mutated forms are the definitions marked `mutant` in the modules.

## 4. Proofs

Every theorem holds for every value of the constants: any number of workers,
dispatchers, contents, executions and rows, any bounds, each platform. They rest
on the named assumptions of the modules alone, which every run evaluates.

| Theorem | Statement | Faults |
| --- | --- | --- |
| `PublishExecution_proofs!TypeCorrect` | `Spec => []TypeOK` | all |
| `…!OutcomesAgree` | `Spec => []OutcomeAgreement` | all |
| `…!EndsAreFinal` | `Spec => TerminalIsFinal` | all |
| `PublishSafety_proofs!ImplementsContract` | `Spec => HonoursContract` | all |
| `…!UploadsAreExclusive` | `Spec => []UploadExclusive` | all |
| `…!PublishedAreReal` | `Spec => []PublishedIsReal` | all |
| `…!AttemptsAreBounded` | `Spec => []AttemptBound` | all |
| `PublishOnce_proofs!PublishedOnce` | `Spec => []OnePublication` | no `stall`, `read`, `record`, `reply` |
| `…!RetriesAreSafe` | `Spec => []RetryIsSafe` | no `stall`, `read`, `record`, `reply` |
| `Lifecycle_proofs!Invariance` | `Spec => []IInv`, the strengthening | all |
| `…!TypeCorrect` | `Spec => []TypeOK` | all |
| `…!NoKeyStranded` | `Spec => []NoStrandedKey` | all |
| `…!UsedKeyKept` | `Spec => []RetiredKeyUnused` | all |
| `…!CertificateTrue` | `Spec => []CertifiedIsDestroyed` | all |
| `…!ConnectedStaysAuthorized` | `Spec => []ConnectedIsAuthorized` | all |
| `…!RevokedFirst` | `Spec => ErasedAfterRevocation` | all |
| `…!Denied` | `Spec => DenialHolds` | all |
| `…!CompletedStays` | `Spec => CompletedIsFinal` | all |
| `…!CyclesEnd` | `Spec => []RetentionNotSkipped` | no `stall`, `lease` |
| `OutboxRelay_proofs!RelayTypeCorrect` | `Spec => []TypeOK` | all |
| `…!NothingIsLost` | `Spec => []NoLostMessage` | all |
| `…!RelayImplementsContract` | `Spec => HonoursContract` | all |
| `InstagramExecution_proofs!Inductive` | `Spec => []IInv`, the strengthening | all |
| `…!TypeCorrect` | `Spec => []TypeOK` | all |
| `…!CheckpointsCover` | `Spec => []CheckpointCovers` | all |
| `…!AtMostOneReel` | `Spec => []OneReel` | all |
| `…!NoReelTooLate` | `Spec => []NoLateReel` | all |
| `…!RemovalConfirmed` | `Spec => []RemovalIsReal` | all |
| `…!StaysWithinTrigger` | `Spec => HonoursTrigger` | all |
| `ChannelConnection_proofs!Inductive` | `Spec => []IInv`, the strengthening | all |
| `…!TypeCorrect` | `Spec => []TypeOK` | all |
| `…!OwnAttempt` | `Spec => []TokensOfOwnAttempt` | all |
| `…!KeysOpen` | `Spec => []StoredKeysOpen` | all |
| `…!KeysAccounted` | `Spec => []KeyAccounted` | all |
| `…!HarmlessWhenSuperseded` | `Spec => SupersededIsHarmless` | all |
| `Workspace_proofs!Inductive` | `Spec => []IInv`, the strengthening | all |
| `…!TypeCorrect` | `Spec => []TypeOK` | all |
| `…!OwnerStays` | `Spec => []OwnerRemains` | all |
| `…!ObjectOfComplete` | `Spec => []CompleteHasObject` | all |
| `…!NothingLeft` | `Spec => []DeletedLeavesNothing` | all |

**Agreement, finality, the contract.** `OutcomeAgreement` is not inductive by
itself: a worker writes the row its job names, so the proof needs that a worker
which is not idle has a job that names an existing row, and the types. A
disconnection writes what it has read, so the proof needs what may have become
of it meanwhile (`Window`): only a worker that had read no work can have ended
such an execution, for the lock of the row, or the channel's state, refuses
every other. `IInv` is the conjunction of `TypeOK`, `OutcomeAgreement`,
`JobsNameRows`, `RowsFree` and `Window`. One lemma per action shows that it
takes `IInv` to `Safe`, which says at once that `IInv` holds again, that no
ended execution or row changed but for the two exceptions (`Final`), and that
the step is a step of the contract or a stutter (`Honoured`). The last holds if
a disconnection meets no completed row (`Spared`); that what it reads has no
reference, and a completed row's execution has one, is known to the second
invariant only, so that `ImplementsContract` is proved there. Lemmas such as
`WorkStep` (an execution moves between open states) and `EndStep` (execution
and row end together under a held claim) do this once for the actions that have
that shape; `ContractMove` translates the update of one row into a move of the
contract. `NextSafe` collects them, and the theorems follow by `PTL`.

**Under every fault.** `SafetyInv` adds three facts to `IInv`. `OneUploader`: a
worker that is uploading, or whose upload failed, holds an execution that was
started, and no two such workers hold the same one. Claims and leases do not
give this, for both can be lost to a successor; the state of the execution
does, because a read starts only what it has seen as `not_started`, and
`resetYouTubeExecutionForRetry` puts one back only in the hands of the worker
that started it and has stopped. It does not give it where the execution was
started between a read and its update, which names the id alone: those
executions are in `overrun`, and the clause and the theorem except them and no
other. `Real`: a stored reference means that there is an object, and an
execution that is processing or published has a reference or an erased account.
`Counted`: a worker that still holds its claim counts from the attempt in the
row; without it two workers that count in turn could pass the bound.
`RealEvolution`, `JobEvolves` and `RowEvolves` say what a step may do to the
executions, a job and a row; `EvolutionSafe` keeps the invariant from these,
and most actions have only to show that they evolve. The work read, the reset
and the confirmation start or put back an execution and are proved directly.

**At most once.** `OnceInv` is what makes a retry safe. `ClaimsKept`: a worker
keeps its claim until it is done, unless a disconnection closes the row.
`Alone`: no two workers are at one execution. With both, no read is overtaken
by a worker (`overrun = {}`), and what one has seen is still so when it takes
the lease. `JobsSound`: at each place of the handler the job's memory agrees
with the database and the provider, and a failure that is not one for the
user's attention is `Harmless`: nothing was uploaded, or its reference is
stored, or the execution has ended. `ExecutionsSound`: an execution has at most
one object, and a failed one that has an object has its reference or an erased
account. `ContentsSound`: all executions of a content but the latest failed
without a trace. The assumption of these theorems, `Faults \cap RiskyFaults =
{}`, leaves out the four kinds of fault that break the properties: `record`
(`PublishRecordLost`: the object exists and the memory of the worker does not
know it), `reply`, `read` (a failure without work is not harmless after a
crash) and `stall` (the claim is not kept).

**Lifecycle operations.** None of the properties of `Lifecycle` is inductive: a
worker that lost its claim goes on with what it read, so the proof needs what a
worker's memory says that is still true. `IInv` is `TypeOK` with four parts.
`RunsSound`: a run that is about to end its row has decided how, one that is
about to persist has sealed a key. `KeysSound`: a committed key is in the row
of the channel or has been retired, never both, and only a retirement destroys.
`AuthorizationSound`: what is revoked was denied first, and no disconnection is
ahead of the channel's generation. `JobsSound`: a sealed key that waits to be
persisted is nobody else's; the key a run is about to revoke is no longer the
one of a connected channel; and a run of the current disconnection that is
about to erase finds no key, or one that is revoked or destroyed, or is past
its deadline. `Evolution` then says what a step may do to rows, vault, keys,
channel and jobs; `EvolutionKeeps` shows that it keeps the invariant, and one
lemma for each action (`…Evolves`) that the action is such an evolution, so
that the invariant is argued about once and not once per action. The action
properties follow from the invariant: `Denied` from `DeniedSteps`, whose one
exception is the update of an attempt that had read the channel before
(`OvertakenNow`), `RevokedFirst` from the last part of `JobsSound` in the one
action that erases for a disconnection.

**The relay.** `NoLostMessage` is about rows that are dispatched, but a row
becomes dispatched some time after its command was sent, when a worker may
already have used the command up. The strengthening `SentKept` says that a
dispatcher which sent its command and still owns the row has not lost the
command: a worker that used it up would have claimed the row, and the dispatcher
would own it no longer. `IInv` is `TypeOK`, `NoLostMessage` and `SentKept`.

**Cycles of a retention.** A run closes its cycle when it finds that it is not
the current one, or that the lease it took is gone; the second is a proof of the
first only for a run that has neither lost its claim nor its lease. Hence the
assumption of `CyclesEnd`, `Faults \cap {"stall", "lease"} = {}`, and an
invariant of three more parts. `ClaimsKept`: a claim lasts as long as its run.
`CyclesSound`: a row of a retention names an envelope that was committed, so that
a cycle which is over never becomes current again (`OverForGood`, from
`CycleMoves`: a step keeps the cycle, ends it, or begins one that was never
committed). `RunCurrent`: while its cycle is current, a run that is about to write
holds the lease, and no run is about to complete. `LeaseKept` shows that nobody
else takes or frees that lease, `WorkingRun` goes through the run's own steps, and
`RowMoves` says once what a step makes of a row.

**Instagram.** `RowsSound` ties each write state to the objects at the
provider: none where the write may be repeated, one where it is done, at most
one in between. `JobsSound` says what a caller may conclude from what it holds:
a call it is about to make was announced and not made before, and what it is
about to record is so; both need that it is alone with its execution. `Sole` is
what makes `OneReel` inductive: of the executions of one version all but one
are spent, failed, cancelled or given up without an object and read by nobody
as not started, and a spent one stays spent. `TransactionSound` says what an
open disconnection has read: what it is about to cancel has no unsettled write,
but for one announced since (`overtaken`), and what a caller has read as not
started has nothing at the provider, whatever became of it (`Fresh`).
`GrantSound` relates the authorization the provider honours to the channel and
to the callbacks on their way, which is where a late callback is told from a
new one: an authorization that is neither forgotten, nor held, nor heard of
(`Outstanding`) is the one whose removal the disconnected channel awaits,
unless the callback of a forgotten one has misled it (`Misled`). The refinement
of `InstagramContract` follows from the first three parts: `Contract`'s moves
are about one row's columns, and each action changes one row, or erases
several.

**Connections.** The strengthening is in three layers. `Typed` is `TypeOK` with
what a request holds at each of its steps, and that the lock lets one
connection begin at a time. `OwnTokens` says for which attempt a key was sealed
wherever an envelope of it is, in the row, in Facebook's candidate, or in a
request that may still store it. `KeysSafe` adds to the two key invariants that
a key which a request may store is nowhere else, and that no other request has
it as the key it replaces: else the refusal of one request would destroy the
tokens of another. A local disconnection that has read the row owns nothing:
its key may meanwhile be another's to replace, but not the candidate's. The
actions are sorted once by what they do to keys (`Still`, `Handled`,
`SealsAnew`, `Dropped`, and `DisconnectInstagram` by itself), and each layer is
argued for these classes.

**Workspaces.** `OwnerRemains` needs that the request which holds the owner lock
has found another owner, who can neither leave nor be demoted while it holds it
(`OwnersSafe`). `CompleteHasObject` needs that a URL is used once, that an expired
upload is claimed before its object is deleted, and that what a confirmation saw
of the object is true until it writes (`AssetSound`, `RequestsSound`).
`DeletedLeavesNothing` needs what a run knows: the run that holds the claim of
the workspace's deletion knows of every object that is left, or will find its
row missed; the ledger knows of what a finished run left; and the run that closes
an account has seen its channels and its identity gone (`Asked`, `ChannelSound`,
`PeopleSound`, `LedgerSound`, `RunsSound`). `Forward` collects what no step takes
back, a deletion that was asked for or done; `OneHolder` says that a claim has one
run. A step is a member's, a request's, one of the data, a worker's, or a turn of
the control plane, and each part is shown for these classes. The theorems assume
finitely many users (`MembershipAssumption`), for the owners are counted.

The strengthenings were checked by TLC on instances like those of the runs
before they were proved.

Only model-checked: liveness under fairness (`EventuallySettled`,
`EventuallyEnded`, `DisconnectEnds`, `ExpiredDataEnds`), which is outside the
prover's reach together with `ENABLED`. Every invariant, action property and
refinement that a passing run checks is proved as well. Where a theorem leaves
out kinds of fault, each of them breaks the property, and TLC shows how.

## 5. Plan

Done, each with its proofs: the publishing core with its transport; the lifecycle
of a channel (disconnection, retention, key retirement); Instagram's checkpoints;
the connection attempts; workspaces, accounts and their deletion.
The order was the cost of a failure: what cannot be undone at a provider first,
then what must end, then what a user could repair.

Left, in this order:

1. The publication rows that a workspace deletion closes, composed with
   `PublishExecution`.
2. `ContentApproval`: submission, decision and edits under the content's lock.

## 6. Not modelled

* Token vaults, secret bundles, OAuth cookies, PKCE: envelope encryption and
  signatures. The models have what their callers can tell apart: a key opens or
  does not, an attempt is the browser's own or is not.
* Identity adapters (Cognito, CIAM, device sign-in): external services whose
  answers `Workspace` abstracts to done, failed, or done and lost.
* Configuration, logging, localisation, error texts, user interface, public
  site: pure functions and presentation. The catalogues and pages are a large
  part of the source's lines and keep no state a transaction could read.
* Infrastructure and release scripts, and the migrations except for the triggers
  and functions that decide a state change, which are modelled where they act.
* The purge of finished operations after their retention, the expiry of
  invitations and the switch of the active workspace: single statements that no
  other actor races with.
* Ingestion details of the providers (upload sessions, chunks, URLs, sizes): the
  callers distinguish outcomes only, and these are modelled.
