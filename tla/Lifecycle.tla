------------------------------ MODULE Lifecycle ------------------------------
(***************************************************************************)
(* The authorisation of one provider channel from its connection to its      *)
(* erasure: the operations that disconnect it, refresh or erase it before    *)
(* its thirty days are over, and destroy the keys of its token envelopes,    *)
(* run by workers that may stall, die or come back late.                     *)
(*                                                                         *)
(* A token envelope is named by its key. The platform is YouTube, Facebook   *)
(* or TikTok: Instagram's local disconnection takes another way.             *)
(*                                                                         *)
(* A transaction that writes the channel takes the advisory lock of its       *)
(* lifecycle (key 6) or names in its WHERE clause what it expects, and is one  *)
(* action. beginPlatformConnection does neither: it takes the lock of          *)
(* connection attempts (key 0) and updates by id what it read, and is two.     *)
(*                                                                         *)
(* ASSUMED: a transaction ends within Prisma's limit of five seconds, in       *)
(* which no attempt that begins during it comes back from the provider's       *)
(* consent: no end of a disconnection or of an authorization meets a           *)
(* connection that was begun after it had read the channel.                    *)
(***************************************************************************)
EXTENDS LifecycleControl

CONSTANTS
  MaxKeys,          \* bound on the token envelopes of a behaviour
  MaxGeneration,    \* bound on the channel's disconnections
  MaxPublications   \* bound on the publishing runs of a behaviour

Keys == 1..MaxKeys
NoKey == 0

(* dedupe keys: a disconnection is named by the generation it denies, a
   retention by the envelope that began the cycle, a retirement by its key. *)
Disconnect(g) == <<"channel_disconnect", g>>
Retention(k) == <<"authorized_data_retention", k>>
Retirement(k) == <<"token_key_retirement", k>>
KindOf(o) == o[1]
SubjectOf(o) == o[2]

ChannelOperations == {Disconnect(g) : g \in 1..MaxGeneration}
  \cup {Retention(k) : k \in Keys} \cup {Retirement(k) : k \in Keys}

Publishing == <<"publishing", 0>>  \* holder of a publishing worker's lease

FaultKinds == {"crash", "stall", "heartbeat", "journal", "vault", "provider",
               "refused", "destroy", "reply", "lease", "overtaken"}

ASSUME LifecycleAssumption ==
  /\ Operations = ChannelOperations
  /\ Referenced = {Retirement(k) : k \in Keys}
  /\ MaxKeys \in Nat /\ MaxGeneration \in Nat /\ MaxPublications \in Nat
  /\ Faults \subseteq FaultKinds
ASSUME NoOperationAssumption == NoOperation = <<"none", 0>>

VARIABLES
  channel,    \* the row of channels
  vault,      \* wrapped keys in the key store
  job,        \* what each lifecycle worker holds in memory
  publications, \* publishing runs that took the channel's lease
  beginning,  \* a connection attempt has read the channel, and writes next
  committed,  \* history: keys that were in the channel's row
  revoked,    \* history: keys whose authorisation the provider has revoked
  journal,    \* retentions whose step delete_expired_authorization is done
  certified   \* history: keys behind the audit event data.retention_deleted

channelVars ==
  <<channel, vault, publications, beginning, committed, revoked, journal,
    certified>>
vars == <<controlVars, channelVars, job>>

-----------------------------------------------------------------------------
(* States *)

ChannelStates == {"not_connected", "connecting", "connected",
                  "reauthorization_required", "disconnecting", "disconnected"}

(* The authorised data is "due" a day before its expiry and "past" after it;
   cycle names the expiry date. A lease past its term is as none: whoever looks
   at it looks at its term too. *)
NewChannel == [state |-> "not_connected", key |-> NoKey, cycle |-> NoKey,
               data |-> "fresh", requested |-> FALSE, generation |-> 0,
               lease |-> NoOperation, leaseGeneration |-> 0]

Steps == {"idle", "load", "revoke", "erase", "refresh", "persist", "delete",
          "release", "complete", "finish", "failed"}
Results == {"none", "completed", "waiting", "failed", "superseded", "lost"}

NoJob == [step |-> "idle", key |-> NoKey, generation |-> 0, sealed |-> NoKey,
          result |-> "none"]

Serves(w, kind, step) ==
  /\ serving[w].operation # NoOperation
  /\ KindOf(serving[w].operation) = kind
  /\ job[w].step = step

(* A step that reads nothing more of what the run holds drops it. *)
GoTo(w, step) == job' = [job EXCEPT ![w].step = step]
Leave(w, step) == job' = [job EXCEPT ![w] = [NoJob EXCEPT !.step = step]]
Fail(w) == Leave(w, "failed")
Return(w, step, result) ==
  job' = [job EXCEPT ![w].step = step, ![w].result = result,
                     ![w].key = NoKey, ![w].sealed = NoKey]

-----------------------------------------------------------------------------
(* What the transactions test and write *)

OverdueAtOnce(w) == TRUE  \* mutant: any failure ends in local erasure
Overdue(w) ==
  HoldsClaim(w) /\ operation[serving[w].operation].overdue

(* deadline_at of a retention is authorized_data_expires_at of its cycle. *)
PastExpiry(k) == channel.cycle = k /\ channel.data = "past"
PastDeadline(w) ==
  HoldsClaim(w) /\ PastExpiry(SubjectOf(serving[w].operation))

ChannelLeaseIsActive == channel.lease # NoOperation

WithoutLease(row) ==
  [row EXCEPT !.lease = NoOperation, !.leaseGeneration = 0]
WithLease(row, holder) ==
  [row EXCEPT !.lease = holder, !.leaseGeneration = row.generation]

HoldsLease(holder, generation) ==
  /\ channel.lease = holder
  /\ channel.generation = generation
  /\ channel.leaseGeneration = generation

(* Replacing or erasing an envelope enqueues the retirement of its key in the
   same transaction. *)
RetiredByRevocation(key) == {}  \* mutant: the key is left to the vault
Retired(key) == IF key = NoKey THEN {} ELSE {Retirement(key)}

NothingPending(rows) == FALSE  \* mutant: the children are not awaited
TokenKeyRetirementPending(rows) ==
  \E k \in Keys : rows[Retirement(k)].state \notin {"absent", "completed"}

Erased(row) ==
  [row EXCEPT !.key = NoKey, !.cycle = NoKey, !.data = "fresh"]

Unsealed == {k \in Keys : vault[k] = "unsealed"}
NextKey == CHOOSE k \in Unsealed : TRUE

Sealed == {k \in Keys : vault[k] = "sealed"}

(* The envelopes that no longer open anything. *)
Destroyed == {k \in Keys : vault[k] \in {"destroyed", "withdrawn"}}

Init ==
  /\ ControlInit
  /\ channel = NewChannel
  /\ vault = [k \in Keys |-> "unsealed"]
  /\ job = [w \in Workers |-> NoJob]
  /\ publications = 0
  /\ beginning = FALSE
  /\ committed = {} /\ revoked = {} /\ journal = {} /\ certified = {}

-----------------------------------------------------------------------------
(* The channel's users *)

(* beginPlatformConnection reads the channel under the lock of connection
   attempts (key 0): an envelope still in the row must go first. Its update
   names the row's id alone, so that it takes effect whatever the channel has
   become since; or it fails, or is overwritten by the end of a disconnection. *)
Connectable ==
  /\ channel.state \in {"not_connected", "connecting", "disconnected",
                        "reauthorization_required"}
  /\ channel.key = NoKey

ReadChannel ==
  /\ ~ beginning /\ Connectable
  /\ beginning' = TRUE
  /\ UNCHANGED <<controlVars, channel, vault, committed, revoked, journal,
                 certified, job, publications>>

BeginConnection ==
  /\ beginning
  /\ beginning' = FALSE
  /\ \/ /\ channel' = [channel EXCEPT !.state = "connecting"]
        /\ IF Connectable THEN UNCHANGED budget ELSE Spend("overtaken")
     \/ UNCHANGED <<channel, budget>>
  /\ UNCHANGED <<operation, serving, vault, committed, revoked, journal,
                 certified, job, publications>>

(* The callback seals the tokens and completePlatformConnection stores them:
   disconnectRequestedAt is cleared, a new cycle begins. *)
CompleteConnection ==
  /\ channel.state = "connecting" /\ channel.key = NoKey
  /\ Unsealed # {}
  /\ vault' = [vault EXCEPT ![NextKey] = "sealed"]
  /\ channel' = [channel EXCEPT !.state = "connected", !.key = NextKey,
                                !.cycle = NextKey, !.data = "fresh",
                                !.requested = FALSE]
  /\ committed' = committed \cup {NextKey}
  /\ UNCHANGED <<controlVars, revoked, journal, certified, job, publications, beginning>>

(* denyPlatformConnection *)
DenyConnection ==
  /\ channel.state = "connecting"
  /\ channel' = [channel EXCEPT !.state = "not_connected"]
  /\ UNCHANGED <<controlVars, vault, committed, revoked, journal, certified,
                 job, publications, beginning>>

(* prepareYouTubeDisconnect. Asked again while the channel is disconnecting,
   it only brings the next attempt of the waiting operation forward. *)
RequestDisconnect ==  \* mutant: the request does not deny
  LET g == channel.generation + 1 IN
  /\ channel.state \notin {"disconnecting", "disconnected"}
  /\ g <= MaxGeneration
  /\ channel' = [channel EXCEPT !.requested = TRUE, !.generation = g]
  /\ operation' = Enqueued({Disconnect(g)})
  /\ UNCHANGED <<serving, budget, vault, committed, revoked, journal,
                 certified, job, publications, beginning>>
PrepareDisconnect ==
  LET g == channel.generation + 1 IN
  /\ channel.state \notin {"disconnecting", "disconnected"}
  /\ g <= MaxGeneration
  /\ channel' = [channel EXCEPT !.state = "disconnecting",
                                !.requested = TRUE, !.generation = g]
  /\ operation' = Enqueued({Disconnect(g)})
  /\ UNCHANGED <<serving, budget, vault, committed, revoked, journal,
                 certified, job, publications, beginning>>

(* Time: the data falls due, then past its expiry. *)
DataAges ==
  /\ channel.cycle # NoKey /\ channel.data # "past"
  /\ channel' = [channel EXCEPT !.data =
                   IF channel.data = "fresh" THEN "due" ELSE "past"]
  /\ UNCHANGED <<controlVars, vault, committed, revoked, journal, certified,
                 job, publications, beginning>>

-----------------------------------------------------------------------------
(* The publishing workers, as far as the channel sees them: all they write is
   fenced by the lease, so the lease stands for the worker. That one of them
   may free the lease of another is in PublishExecution. *)

(* The lease update of readPlatformExecutionWorkItem. *)
TakePublishingLease ==
  /\ channel.state = "connected" /\ channel.key # NoKey
  /\ ~ ChannelLeaseIsActive
  /\ publications < MaxPublications
  /\ publications' = publications + 1
  /\ channel' = WithLease(channel, Publishing)
  /\ UNCHANGED <<controlVars, vault, committed, revoked, journal, certified,
                 job, beginning>>

HoldsPublishingFence ==
  /\ channel.state = "connected"
  /\ HoldsLease(Publishing, channel.generation)

(* updateChannelTokenEnvelope after a refresh at the provider: the expiry date
   of the authorised data stays. *)
RotateAndRetireNew ==  \* mutant: the new key is retired, not the old one
  /\ HoldsPublishingFence
  /\ channel.key \in Sealed
  /\ Unsealed # {}
  /\ vault' = [vault EXCEPT ![NextKey] = "sealed"]
  /\ channel' = [channel EXCEPT !.key = NextKey]
  /\ committed' = committed \cup {NextKey}
  /\ operation' = Enqueued(Retired(NextKey))
  /\ UNCHANGED <<serving, budget, revoked, journal, certified, job,
                 publications, beginning>>
RotateToken ==
  /\ HoldsPublishingFence
  /\ channel.key \in Sealed
  /\ Unsealed # {}
  /\ vault' = [vault EXCEPT ![NextKey] = "sealed"]
  /\ channel' = [channel EXCEPT !.key = NextKey]
  /\ committed' = committed \cup {NextKey}
  /\ operation' = Enqueued(Retired(channel.key))
  /\ UNCHANGED <<serving, budget, revoked, journal, certified, job,
                 publications, beginning>>

(* requireYouTubeReauthorizationInTransaction *)
RequireReauthorization ==
  /\ HoldsPublishingFence
  /\ operation' = Enqueued(Retired(channel.key))
  /\ channel' = [Erased(channel) EXCEPT !.state = "reauthorization_required"]
  /\ UNCHANGED <<serving, budget, vault, committed, revoked, journal,
                 certified, job, publications, beginning>>

(* releaseYouTubeChannelOperationLease *)
ReleasePublishingLease ==
  /\ channel.lease = Publishing
  /\ channel' = WithoutLease(channel)
  /\ UNCHANGED <<controlVars, vault, committed, revoked, journal, certified,
                 job, publications, beginning>>

(* The term of the channel's lease passes: its holder died, or is slower than
   the lease, which no heartbeat of a retention renews. *)
LeaseIsUsed ==
  \E w \in Workers :
    /\ serving[w].operation = channel.lease
    /\ job[w].step \in {"refresh", "persist", "delete", "release"}
ExpireLease ==
  /\ ChannelLeaseIsActive
  /\ IF LeaseIsUsed THEN Spend("lease") ELSE UNCHANGED budget
  /\ channel' = WithoutLease(channel)
  /\ UNCHANGED <<operation, serving, vault, committed, revoked, journal,
                 certified, job, publications, beginning>>

-----------------------------------------------------------------------------
(* The loop of a lifecycle worker *)

(* enqueueDueLifecycleOperations, for the channel *)
EnqueueDueOnce ==  \* mutant: one retention for the life of the channel
  /\ channel.state = "connected" /\ channel.data # "fresh"
  /\ \A k \in Keys : operation[Retention(k)].state = "absent"
  /\ operation' = Enqueued({Retention(channel.cycle)})
  /\ UNCHANGED <<serving, budget, channelVars, job>>
EnqueueDue ==
  /\ channel.state = "connected" /\ channel.data # "fresh"
  /\ operation[Retention(channel.cycle)].state = "absent"
  /\ operation' = Enqueued({Retention(channel.cycle)})
  /\ UNCHANGED <<serving, budget, channelVars, job>>

(* processLifecycleOperation claims a row. A retirement finds its key in the
   row's outcome, if it is still there (tokenKeyReference). *)
ClaimNext(w, o) ==
  /\ ClaimOperation(w, o)
  /\ job' = [job EXCEPT ![w] =
       [NoJob EXCEPT !.step = "load",
                     !.key = IF KindOf(o) = "token_key_retirement"
                                /\ operation[o].outcome
                             THEN SubjectOf(o) ELSE NoKey]]
  /\ UNCHANGED channelVars

FinishRun(w) ==
  /\ job[w].step \in {"finish", "failed"}
  /\ FinishOperation(w, IF job[w].step = "finish" THEN job[w].result
                                                  ELSE "waiting")
  /\ job' = [job EXCEPT ![w] = NoJob]
  /\ UNCHANGED channelVars

(* A fenced step finds the claim gone. A retention that has its lease gives it
   back first. *)
FencedSteps == {"load", "erase", "complete"}
StaleRun(w) ==
  /\ job[w].step \in FencedSteps
  /\ StandDown(w)
  /\ job' = [job EXCEPT ![w] = NoJob]
  /\ UNCHANGED channelVars

StaleRetention(w) ==
  /\ job[w].step \in {"refresh", "persist", "delete"}
  /\ ~ HoldsClaim(w)
  /\ vault' = IF job[w].step = "persist"
              THEN [vault EXCEPT ![job[w].sealed] = "withdrawn"] ELSE vault
  /\ Return(w, "release", "lost")
  /\ UNCHANGED <<controlVars, channel, committed, revoked, journal, certified,
                 publications, beginning>>

Crash(w) ==
  /\ CrashServing(w)
  /\ job' = [job EXCEPT ![w] = NoJob]
  /\ UNCHANGED channelVars

(* lifecycleStep: the step is done and its COMPLETED record fails, so the run
   goes to its catch block as if the step had failed. *)
JournalFails(w) ==
  /\ Spend("journal")
  /\ \/ /\ KindOf(serving[w].operation) = "channel_disconnect"
        /\ job[w].step \in {"revoke", "erase", "finish"}
        /\ Fail(w)
     \/ /\ KindOf(serving[w].operation) = "authorized_data_retention"
        /\ \/ job[w].step = "refresh"
           \/ job[w].step = "release" /\ job[w].result = "none"
        /\ Return(w, "release", "failed")
  /\ UNCHANGED <<operation, serving, channelVars>>

-----------------------------------------------------------------------------
(* processChannelDisconnect *)

(* readYouTubeDisconnectMaterial: only a requested disconnection has material,
   and a live lease is waited for. *)
ReadDisconnectMaterial(w) ==
  /\ Serves(w, "channel_disconnect", "load")
  /\ HoldsClaim(w)
  /\ IF channel.requested /\ ~ ChannelLeaseIsActive
     THEN job' = [job EXCEPT ![w].step = "revoke", ![w].key = channel.key]
     ELSE Fail(w)
  /\ UNCHANGED <<controlVars, channelVars>>

(* vault.open and the provider's revocation. Neither tests the claim: a stale
   worker revokes what it has read. What cannot be opened for good is only
   erased here; what fails for a while is tried again until the deadline. *)
RevokeAuthorization(w) ==
  LET token == job[w].key
      later == IF Overdue(w) THEN "erase" ELSE "failed"
  IN
  /\ Serves(w, "channel_disconnect", "revoke")
  /\ \/ /\ token \notin Sealed
        /\ Leave(w, "erase")
        /\ UNCHANGED <<revoked, budget>>
     \/ /\ token \in Sealed
        /\ revoked' = revoked \cup {token}
        /\ Leave(w, "erase")
        /\ UNCHANGED budget
     \/ /\ token # NoKey
        /\ Spend("vault")
        /\ Leave(w, later)
        /\ UNCHANGED revoked
     \/ /\ token \in Sealed
        /\ Spend("provider")
        /\ revoked' \in {revoked, revoked \cup {token}}
        /\ Leave(w, later)
  /\ UNCHANGED <<operation, serving, channel, vault, committed, journal,
                 certified, publications, beginning>>

(* completeYouTubeDisconnect: erases the authorisation, and ends the
   disconnection once no retirement of a key of the channel is open. *)
DisconnectNow(w) ==
  LET rows == Enqueued(Retired(channel.key))
      row == WithoutLease(Erased(channel))
  IN
  /\ channel.state = "disconnecting" /\ ~ ChannelLeaseIsActive
  /\ operation' = rows
  /\ IF TokenKeyRetirementPending(rows)
     THEN /\ channel' = row
          /\ Return(w, "finish", "waiting")
          /\ UNCHANGED certified
     ELSE /\ channel' = [row EXCEPT !.state = "disconnected"]
          /\ Return(w, "finish", "completed")
          /\ certified' = certified \cup committed

CompleteDisconnect(w) ==
  /\ Serves(w, "channel_disconnect", "erase")
  /\ HoldsClaim(w)
  /\ \/ DisconnectNow(w)
     \/ /\ channel.state = "disconnected"
        /\ Return(w, "finish", "completed")
        /\ UNCHANGED <<operation, channel, certified>>
     \/ /\ \/ channel.state \notin {"disconnecting", "disconnected"}
           \/ channel.state = "disconnecting" /\ ChannelLeaseIsActive
        /\ Fail(w)
        /\ UNCHANGED <<operation, channel, certified>>
  /\ UNCHANGED <<serving, budget, vault, committed, revoked, journal,
                 publications, beginning>>

-----------------------------------------------------------------------------
(* processAuthorizedDataRetention *)

(* The cycle a retention was enqueued for is still the channel's. *)
CurrentOncePast(o) ==  \* mutant: a cycle that is only due counts as over
  channel.state = "connected" /\ channel.key # NoKey /\ PastExpiry(SubjectOf(o))
CycleIsCurrent(o) ==
  /\ channel.state = "connected" /\ channel.key # NoKey
  /\ channel.cycle = SubjectOf(o)

(* readExpiredYouTubeAuthorization takes the channel's lease in the
   operation's name; a lease of the same operation is taken over. *)
ReadExpiredAuthorization(w) ==
  LET o == serving[w].operation
      current == CycleIsCurrent(o)
      free == channel.lease \in {NoOperation, o}
  IN
  /\ Serves(w, "authorized_data_retention", "load")
  /\ HoldsClaim(w)
  /\ \/ /\ current /\ channel.data # "fresh" /\ free
        /\ channel' = WithLease(channel, o)
        /\ job' = [job EXCEPT ![w].step = "refresh",
                              ![w].key = channel.key,
                              ![w].generation = channel.generation]
     \/ /\ current /\ (channel.data = "fresh" \/ ~ free)
        /\ Fail(w)
        /\ UNCHANGED channel
     \/ /\ ~ current
        /\ Leave(w, "complete")
        /\ UNCHANGED channel
  /\ UNCHANGED <<controlVars, vault, committed, revoked, journal, certified,
                 publications, beginning>>

(* Open the envelope and refresh at the provider; the answer is sealed under a
   new key. After the expiry nothing is asked any more. Beyond the bound on
   envelopes the provider refuses. *)
RefreshAtProvider(w) ==
  /\ Serves(w, "authorized_data_retention", "refresh")
  /\ HoldsClaim(w)
  /\ \/ /\ (PastDeadline(w) \/ job[w].key \notin Sealed)
        /\ GoTo(w, "delete")
        /\ UNCHANGED <<vault, budget>>
     \/ /\ ~ PastDeadline(w) /\ job[w].key \in Sealed
        /\ Unsealed # {}
        /\ vault' = [vault EXCEPT ![NextKey] = "sealed"]
        /\ job' = [job EXCEPT ![w].step = "persist", ![w].sealed = NextKey]
        /\ UNCHANGED budget
     \/ /\ ~ PastDeadline(w)
        /\ Spend("refused") \/ (Unsealed = {} /\ UNCHANGED budget)
        /\ GoTo(w, "delete")
        /\ UNCHANGED vault
     \/ /\ ~ PastDeadline(w)
        /\ Spend("vault") \/ Spend("provider")
        /\ Return(w, "release", "failed")
        /\ UNCHANGED vault
  /\ UNCHANGED <<operation, serving, channel, committed, revoked, journal,
                 certified, publications, beginning>>

HoldsLeaseInAnyState(w) ==  \* mutant: the generation is not compared
  channel.lease = serving[w].operation /\ channel.key = job[w].key
HoldsRetentionLease(w) ==
  /\ channel.state = "connected"
  /\ channel.key = job[w].key
  /\ HoldsLease(serving[w].operation, job[w].generation)

(* refreshYouTubeAuthorizedData inside persistSealedTokenEnvelope, which
   destroys the new key when the write fails, or seems to. *)
PersistRefresh(w) ==
  LET new == job[w].sealed
      fits == /\ HoldsRetentionLease(w)
              /\ channel.cycle = SubjectOf(serving[w].operation)
              /\ channel.data # "past"
      commit == /\ channel' = [WithoutLease(channel) EXCEPT
                                 !.key = new, !.cycle = new, !.data = "fresh"]
                /\ committed' = committed \cup {new}
                /\ operation' = Enqueued(Retired(job[w].key))
      withdraw == vault' = [vault EXCEPT ![new] = "withdrawn"]
  IN
  /\ Serves(w, "authorized_data_retention", "persist")
  /\ HoldsClaim(w)
  /\ \/ /\ fits /\ commit
        /\ Return(w, "release", "none")
        /\ UNCHANGED <<vault, budget>>
     \/ /\ fits /\ commit /\ withdraw
        /\ Spend("reply")
        /\ Return(w, "release", "failed")
     \/ /\ ~ fits /\ withdraw
        /\ IF PastDeadline(w) THEN GoTo(w, "delete")
                              ELSE Return(w, "release", "superseded")
        /\ UNCHANGED <<operation, channel, committed, budget>>
  /\ UNCHANGED <<serving, revoked, journal, certified, publications, beginning>>

(* recordExpiredAuthorizedDataDeletion *)
DeleteExpired(w) ==
  LET fits == HoldsRetentionLease(w) IN
  /\ Serves(w, "authorized_data_retention", "delete")
  /\ HoldsClaim(w)
  /\ \/ /\ fits
        /\ channel' = [WithoutLease(Erased(channel)) EXCEPT
                         !.state = "reauthorization_required"]
        /\ operation' = Enqueued(Retired(job[w].key))
        /\ journal' = journal \cup {serving[w].operation}
        /\ Return(w, "release", "none")
     \/ /\ ~ fits
        /\ Return(w, "release", "superseded")
        /\ UNCHANGED <<channel, operation, journal>>
  /\ UNCHANGED <<serving, budget, vault, committed, revoked, certified,
                 publications, beginning>>

(* releaseAuthorizedDataRetentionLease, in the finally block: no claim is
   tested, so the lease may be that of the operation's next run. *)
ReleaseRetentionLease(w) ==
  LET result == job[w].result IN
  /\ Serves(w, "authorized_data_retention", "release")
  /\ channel' = IF HoldsLease(serving[w].operation, job[w].generation)
                THEN WithoutLease(channel) ELSE channel
  /\ IF result = "lost"
     THEN StopServing(w) /\ job' = [job EXCEPT ![w] = NoJob]
     ELSE /\ Leave(w, IF result = "failed" THEN "failed" ELSE "complete")
          /\ UNCHANGED serving
  /\ UNCHANGED <<operation, budget, vault, committed, revoked, journal,
                 certified, publications, beginning>>

(* completeAuthorizedDataRetention, also reached when the refresh was
   superseded: the deletion is certified once no retirement is open. *)
CompleteRetention(w) ==
  /\ Serves(w, "authorized_data_retention", "complete")
  /\ HoldsClaim(w)
  /\ IF TokenKeyRetirementPending(operation)
     THEN Return(w, "finish", "waiting") /\ UNCHANGED certified
     ELSE /\ Return(w, "finish", "completed")
          /\ certified' = IF serving[w].operation \in journal
                          THEN certified \cup (committed \ {channel.key})
                          ELSE certified
  /\ UNCHANGED <<controlVars, channel, vault, committed, revoked, journal,
                 publications, beginning>>

-----------------------------------------------------------------------------
(* Token key retirement *)

(* vault.destroy, idempotent, and the record of its step, either of which may
   fail; without the key's reference the run fails. *)
DestroyTokenKey(w) ==
  LET key == job[w].key IN
  /\ Serves(w, "token_key_retirement", "load")
  /\ HoldsClaim(w)
  /\ \/ /\ key = NoKey
        /\ Fail(w)
        /\ UNCHANGED <<vault, budget>>
     \/ /\ key # NoKey
        /\ vault' = [vault EXCEPT ![key] = "destroyed"]
        /\ Return(w, "finish", "completed")
        /\ UNCHANGED budget
     \/ /\ key # NoKey
        /\ Spend("destroy")
        /\ \/ UNCHANGED vault
           \/ vault' = [vault EXCEPT ![key] = "destroyed"]
        /\ Fail(w)
  /\ UNCHANGED <<operation, serving, channel, committed, revoked, journal,
                 certified, publications, beginning>>

-----------------------------------------------------------------------------
(* Next state *)

Users == ReadChannel \/ BeginConnection \/ CompleteConnection
         \/ DenyConnection \/ PrepareDisconnect

Publisher == TakePublishingLease \/ RotateToken \/ RequireReauthorization
             \/ ReleasePublishingLease

Time ==
  \/ DataAges
  \/ ExpireLease
  \/ \E o \in Operations :
       /\ ExpireClaim(o)
       /\ UNCHANGED <<channelVars, job>>
  \/ \E o \in Operations :
       /\ KindOf(o) = "channel_disconnect"  \* others do not read the flag
       /\ PassDeadline(o)
       /\ UNCHANGED <<channelVars, job>>

Work(w) ==
  \/ ReadDisconnectMaterial(w) \/ RevokeAuthorization(w)
  \/ CompleteDisconnect(w)
  \/ ReadExpiredAuthorization(w) \/ RefreshAtProvider(w) \/ PersistRefresh(w)
  \/ DeleteExpired(w) \/ ReleaseRetentionLease(w) \/ CompleteRetention(w)
  \/ DestroyTokenKey(w)
  \/ FinishRun(w) \/ StaleRun(w) \/ StaleRetention(w)

Failure(w) ==
  \/ Crash(w)
  \/ JournalFails(w)
  \/ HeartbeatFails(w) /\ UNCHANGED <<channelVars, job>>

Next ==
  \/ Users \/ Publisher \/ Time \/ EnqueueDue
  \/ \E w \in Workers :
       Work(w) \/ Failure(w) \/ \E o \in Operations : ClaimNext(w, o)

Spec == Init /\ [][Next]_vars

(* A running worker goes on; the loop polls for due rows; what was abandoned
   runs out. A row is claimed again and again while it is open: the queue
   serves the rows in the order of their next attempt, and a failed attempt
   sends its row behind those that wait. *)
Abandoned(o) ==
  /\ operation[o].state = "claimed"
  /\ serving[operation[o].owner].operation # o
  /\ ExpireClaim(o)
  /\ UNCHANGED <<channelVars, job>>
ExpireAbandonedLease == ~ LeaseIsUsed /\ ExpireLease

Fairness ==
  /\ \A w \in Workers : WF_vars(Work(w))
  /\ WF_vars(EnqueueDue)
  /\ WF_vars(ReleasePublishingLease)
  /\ WF_vars(ExpireAbandonedLease)
  /\ \A o \in Operations :
       /\ WF_vars(Abandoned(o))
       /\ SF_vars(\E w \in Workers : ClaimNext(w, o))

FairSpec == Spec /\ Fairness

-----------------------------------------------------------------------------
(* Properties *)

TypeOK ==
  /\ ControlTypeOK
  /\ channel \in [state : ChannelStates, key : {NoKey} \cup Keys,
                  cycle : {NoKey} \cup Keys, data : {"fresh", "due", "past"},
                  requested : BOOLEAN, generation : 0..MaxGeneration,
                  lease : Operations \cup {NoOperation, Publishing},
                  leaseGeneration : 0..MaxGeneration]
  /\ vault \in [Keys -> {"unsealed", "sealed", "withdrawn", "destroyed"}]
  /\ job \in [Workers ->
       [step : Steps, key : {NoKey} \cup Keys, generation : 0..MaxGeneration,
        sealed : {NoKey} \cup Keys, result : Results]]
  /\ publications \in 0..MaxPublications /\ beginning \in BOOLEAN
  /\ committed \subseteq Keys /\ revoked \subseteq Keys
  /\ certified \subseteq Keys /\ journal \subseteq Operations

(* A key that was in the channel's row is still there, no longer opens
   anything, or is the subject of an open retirement: the claim of
   architecture decision A-15 that a rotation or erasure cannot strand a key.
   The retirement must be enqueued by the transaction that takes the key out
   of the row, whoever races with it. *)
NoStrandedKey ==
  \A k \in committed :
    channel.key = k \/ k \in Destroyed \/ Open(Retirement(k))

(* No retirement destroys the key of the envelope the channel uses. *)
RetiredKeyUnused ==
  channel.key # NoKey => vault[channel.key] # "destroyed"

(* The audit event data.retention_deleted is true: no key behind it opens a
   copy of the envelope, in a backup for instance. *)
CertifiedIsDestroyed == certified \subseteq Destroyed

(* The workers never revoke the authorisation of a connected channel, though
   a stale one revokes what it has read with no claim left. *)
ConnectedIsAuthorized ==
  channel.state = "connected" => channel.key \notin revoked

(* Tokens leave the row of a disconnecting channel only once the provider has
   revoked them, they can no longer be opened, or the deadline of the
   disconnection has passed: a transient failure does not cost the only
   material for a revocation. An earlier disconnection that ended without the
   record of its end is the exception: its next run erases what it finds. *)
ErasedAfterRevocation ==
  [][channel.state = "disconnecting" /\ channel.key # NoKey
       /\ channel'.key = NoKey
     => \/ channel.key \in revoked \cup Destroyed
        \/ operation[Disconnect(channel.generation)].overdue
        \/ \E g \in 1..(channel.generation - 1) : Open(Disconnect(g))]_vars

(* Deny first: a disconnecting channel gets no other token, and no lease, and
   leaves the state by its end alone. The one exception is a connection attempt
   that had read the channel before the disconnection was asked for: its update
   makes the channel connecting again, and nothing else. *)
DenialHolds ==
  [][channel.state = "disconnecting"
     => \/ /\ channel'.state \in {"disconnecting", "disconnected"}
           /\ channel'.key \in {channel.key, NoKey}
           /\ channel'.lease \in {channel.lease, NoOperation}
        \/ /\ beginning /\ ~ beginning'
           /\ channel' = [channel EXCEPT !.state = "connecting"]]_vars

(* A completed operation stays completed, whatever comes back late. *)
CompletedIsFinal ==
  [][\A o \in Operations :
       operation[o].state = "completed" => operation'[o].state = "completed"]_vars

(* Every retirement that is open can still be carried out: the row knows the
   key it is about. *)
RetirementKnowsKey ==
  \A k \in Keys :
    Open(Retirement(k)) => operation[Retirement(k)].outcome

(* A retention ends as completed only when its cycle is over: the data was
   refreshed, erased or disconnected. *)
RetentionNotSkipped ==
  \A k \in Keys :
    operation[Retention(k)].state = "completed"
      => ~ (channel.state = "connected" /\ channel.cycle = k)

(* A disconnection comes to its end, through crashes, stale workers and
   whatever lease a publishing worker left behind. *)
DisconnectEnds ==
  channel.state = "disconnecting" ~> channel.state # "disconnecting"

(* Authorised data that is past its thirty days does not stay in a connected
   channel. *)
ExpiredDataEnds ==
  channel.state = "connected" /\ channel.data = "past"
    ~> channel.state # "connected" \/ channel.data # "past"

=============================================================================
