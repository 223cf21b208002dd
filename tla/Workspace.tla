------------------------------ MODULE Workspace ------------------------------
(***************************************************************************)
(* One workspace with the data it holds, a source asset and a channel, and   *)
(* the two operations that erase: the deletion of the workspace and the      *)
(* deletion of a user's account.                                            *)
(*                                                                         *)
(* The asset is a row of source_assets, an object of the bucket and a URL    *)
(* with which the browser puts the object there. The row is deleted with the *)
(* workspace and the object by its key, which only the row or the deletion   *)
(* ledger knows.                                                            *)
(*                                                                         *)
(* ASSUMED: a transaction is atomic but for the request of an account's      *)
(* deletion. The browser uses its URL once. The channel is of YouTube, whose *)
(* authorisation is all that an account's deletion waits for; its token and  *)
(* its disconnection are Lifecycle's and are one step here.                  *)
(***************************************************************************)
EXTENDS Membership

FaultKinds == {"crash", "stall", "provider", "object", "identity", "presign"}

ASSUME WorkspaceAssumption ==
  /\ Operations = {AccountDeletion(u) : u \in Users} \cup {WorkspaceDeletion}
  /\ Referenced = {}
  /\ Faults \subseteq FaultKinds
ASSUME NoOperationAssumption == NoOperation = <<"none", NoUser>>

VARIABLES
  asset,     \* the row of source_assets, the URL of its upload and the object
  cleaner,   \* cleanupExpiredSourceAssetUploads at work on the row
  channel,   \* the channel, the user who authorised it and the token's key
  ledger,    \* the row of data_deletion_requests
  identity,  \* users who have an account at the identity provider
  job,       \* what each worker holds in memory
  refused,   \* history: a confirmed deletion of the workspace was refused
  leaks      \* history: writes that came too late for a deletion

dataVars == <<asset, cleaner, channel, ledger, identity, job, refused, leaks>>
vars == <<controlVars, membershipVars, dataVars>>

-----------------------------------------------------------------------------
(* States *)

(* "expiring" is failed with upload_expired_cleanup_pending. *)
AssetStatuses == {"none", "pending", "complete", "expiring", "failed"}
NoAsset == [status |-> "none", attached |-> FALSE, url |-> "none",
            object |-> "absent"]

(* "denied" by the deletion of the workspace; "disconnecting" has an operation
   of its own. *)
ChannelStates == {"none", "connected", "denied", "disconnecting"}
NoChannel == [state |-> "none", by |-> NoUser, key |-> "none", busy |-> FALSE]

LedgerStates == {"none", "processing", "failed", "completed"}
Leaks == {"invitation", "connection", "row", "missed", "upload", "forgotten"}

JobSteps == {"idle", "load", "revoke", "objects", "complete",
             "cleanup", "await", "prepare", "identity", "close",
             "finish", "failed"}
NoJob == [step |-> "idle", token |-> FALSE, key |-> FALSE, undeleted |-> FALSE,
          completed |-> FALSE]

Init ==
  /\ ControlInit
  /\ MembershipInit
  /\ asset = NoAsset
  /\ cleaner = "idle"
  /\ channel = NoChannel
  /\ ledger = [state |-> "none", keys |-> FALSE]
  /\ identity = Users
  /\ job = [w \in Workers |-> NoJob]
  /\ refused = FALSE
  /\ leaks = {}

RowExists == asset.status # "none"
Late(what) == leaks' = IF workspace = "deleted" THEN leaks \cup {what} ELSE leaks

-----------------------------------------------------------------------------
(* Uploading and using the source asset *)

(* createPendingSourceAsset looks at nothing; createDirectUpload signs the URL
   of its object. *)
PendingRow == [asset EXCEPT !.status = "pending"]
WithSignedUrl(row) == [row EXCEPT !.url = "issued"]

(* failSourceAsset *)
Failed(row) ==
  IF row.status = "pending" THEN [row EXCEPT !.status = "failed"] ELSE row

(* The route that begins an upload; without a URL the row fails. *)
BeginUpload(r) ==
  /\ Running(r, "upload", "authorized")
  /\ ~ RowExists /\ asset.url = "none"
  /\ \/ asset' = WithSignedUrl(PendingRow) /\ UNCHANGED budget
     \/ /\ Spend("presign")
        /\ asset' = Failed([PendingRow EXCEPT !.url = "used"])
  /\ Late("row")
  /\ Ended(r)
  /\ UNCHANGED <<operation, serving, workspace, member, invited, session,
                 account, begun, ownerLock, slipped, cleaner, channel, ledger,
                 identity, job, refused>>

(* A deletion has gone past the object when it arrives. *)
ObjectsDeleted ==
  \/ workspace = "deleted"
  \/ \E w \in Workers : job[w].step = "complete"

(* The browser's PUT, which may not be what it announced. *)
PutObject(content) ==
  /\ asset.url = "issued"
  /\ asset' = [asset EXCEPT !.url = "used", !.object = content]
  /\ leaks' = IF ObjectsDeleted THEN leaks \cup {"upload"} ELSE leaks
  /\ UNCHANGED <<controlVars, membershipVars, cleaner, channel, ledger, identity,
                 job, refused>>

RequestsOnly(r) ==
  UNCHANGED <<controlVars, workspace, member, invited, session, account, begun,
              ownerLock, slipped, cleaner, channel, ledger, identity, job,
              refused, leaks>>

(* readPendingSourceAssetUpload *)
PendingUpload == asset.status = "pending"

(* The route that confirms an upload asks the bucket for the object. *)
StatUpload(r) ==
  /\ Running(r, "confirm_upload", "authorized")
  /\ IF PendingUpload /\ asset.object # "absent"
     THEN StepTo(r, asset.object) ELSE Ended(r)
  /\ UNCHANGED asset
  /\ RequestsOnly(r)

(* completeSourceAsset, if the row still waits for its upload. *)
CompletedInAnyState(row) ==  \* mutant: the row's status is not asked
  IF row.status = "none" THEN row ELSE [row EXCEPT !.status = "complete"]
Completed(row) ==
  IF row.status = "pending" THEN [row EXCEPT !.status = "complete"] ELSE row

CompleteSourceAsset(r) ==
  /\ Running(r, "confirm_upload", "good")
  /\ asset' = Completed(asset)
  /\ Ended(r)
  /\ RequestsOnly(r)

(* The object does not match: it is deleted and the row fails. *)
RejectUpload(r) ==
  /\ Running(r, "confirm_upload", "bad")
  /\ asset' = Failed([asset EXCEPT !.object = "absent"])
  /\ Ended(r)
  /\ RequestsOnly(r)

(* createContent takes an asset that is complete and in no content. *)
CreateContent(r) ==
  /\ Running(r, "create_content", "authorized")
  /\ asset' = [asset EXCEPT !.attached =
                 asset.attached \/ asset.status = "complete"]
  /\ Ended(r)
  /\ RequestsOnly(r)

-----------------------------------------------------------------------------
(* cleanupExpiredSourceAssetUploads *)

CleanerOnly ==
  UNCHANGED <<membershipVars, operation, serving, channel, ledger, identity,
              job, refused, leaks>>

(* claim_expired_source_asset_upload_cleanup: a row that waits for too long, or
   that an earlier run claimed. *)
ClaimExpiredUpload ==
  /\ cleaner = "idle"
  /\ asset.status \in {"pending", "expiring"} /\ ~ asset.attached
  /\ asset' = [asset EXCEPT !.status = "expiring"]
  /\ cleaner' = "delete"
  /\ UNCHANGED budget
  /\ CleanerOnly

(* assets.delete by the key the claim returned. *)
DeleteExpiredObject ==
  /\ cleaner = "delete"
  /\ \/ /\ asset' = [asset EXCEPT !.object = "absent"]
        /\ cleaner' = "complete"
        /\ UNCHANGED budget
     \/ /\ Spend("object")
        /\ cleaner' = "idle"
        /\ UNCHANGED asset
  /\ CleanerOnly

(* complete_source_asset_upload_cleanup *)
CompleteCleanup ==
  /\ cleaner = "complete"
  /\ asset' = [asset EXCEPT !.status = IF asset.status = "expiring"
                                       THEN "failed" ELSE asset.status]
  /\ cleaner' = "idle"
  /\ UNCHANGED budget
  /\ CleanerOnly

-----------------------------------------------------------------------------
(* The channel, as far as the deletions depend on it *)

ChannelOnly ==
  UNCHANGED <<controlVars, workspace, member, invited, session, account, begun,
              ownerLock, slipped, asset, cleaner, ledger, identity, job, refused>>

(* A callback stores the token of the user who authorised. The deletion of the
   workspace denies the attempt, that of the account does not. *)
Connect(r) ==
  LET u == request[r].user IN
  /\ Running(r, "connect", "authorized")
  /\ IF workspace = "active" /\ channel.state = "none" /\ channel.key = "none"
     THEN /\ channel' = [state |-> "connected", by |-> u, key |-> "stored",
                         busy |-> FALSE]
          /\ leaks' = IF account[u] = "active" THEN leaks
                                               ELSE leaks \cup {"connection"}
     ELSE UNCHANGED <<channel, leaks>>
  /\ Ended(r)
  /\ ChannelOnly

(* A platform operation takes and leaves the channel's lease. *)
UseChannel ==
  /\ channel.state = "connected" \/ channel.busy
  /\ channel' = [channel EXCEPT !.busy = ~ channel.busy]
  /\ UNCHANGED <<request, leaks>>
  /\ ChannelOnly

(* channel_disconnect revokes and erases. *)
DisconnectChannel ==
  /\ channel.state = "disconnecting" /\ ~ channel.busy
  /\ channel' = [channel EXCEPT !.state = "none", !.key = "retiring"]
  /\ UNCHANGED <<request, leaks>>
  /\ ChannelOnly

(* token_key_retirement destroys the key. *)
RetireKey ==
  /\ channel.key = "retiring"
  /\ channel' = [channel EXCEPT !.key = "destroyed", !.by = NoUser]
  /\ UNCHANGED <<request, leaks>>
  /\ ChannelOnly

-----------------------------------------------------------------------------
(* The request of the workspace's deletion *)

(* protect_data_deletion_request refuses a new ledger row that names object
   keys. *)
LedgerRefused == ledger.state = "none" /\ RowExists
LedgerBegun ==
  IF ledger.state = "none" THEN [state |-> "processing", keys |-> RowExists]
                           ELSE ledger

(* The channels are denied to every platform operation. *)
DeniedChannel ==
  IF channel.state = "connected" THEN [channel EXCEPT !.state = "denied"] ELSE channel

(* beginWorkspaceDataDeletion: a refused row takes the transaction with it. The
   deleted workspace has another name than the one confirmed. *)
BeginWorkspaceDataDeletion(r) ==
  /\ Running(r, "delete_workspace", "authorized")
  /\ \/ /\ workspace = "deleted"
        /\ UNCHANGED <<workspace, operation, ledger, channel, refused>>
     \/ /\ workspace # "deleted" /\ LedgerRefused
        /\ refused' = TRUE
        /\ UNCHANGED <<workspace, operation, ledger, channel>>
     \/ /\ workspace # "deleted" /\ ~ LedgerRefused
        /\ workspace' = "deletion_pending"
        /\ operation' = Enqueued({WorkspaceDeletion})
        /\ ledger' = LedgerBegun
        /\ channel' = DeniedChannel
        /\ UNCHANGED refused
  /\ Ended(r)
  /\ UNCHANGED <<serving, budget, member, invited, session, account, begun,
                 ownerLock, slipped, asset, cleaner, identity, job, leaks>>

-----------------------------------------------------------------------------
(* Workers *)

Serves(w, o, step) == serving[w].operation = o /\ job[w].step = step
GoTo(w, step) == job' = [job EXCEPT ![w].step = step]
Fail(w) == job' = [job EXCEPT ![w] = [NoJob EXCEPT !.step = "failed"]]
Return(w, completed) ==
  job' = [job EXCEPT ![w] = [NoJob EXCEPT !.step = "finish",
                                          !.completed = completed]]

Overdue(w) == HoldsClaim(w) /\ operation[serving[w].operation].overdue

Claim(w, o) ==
  /\ ClaimOperation(w, o)
  /\ GoTo(w, IF o = WorkspaceDeletion THEN "load" ELSE "cleanup")
  /\ UNCHANGED <<membershipVars, asset, cleaner, channel, ledger, identity,
                 refused, leaks>>

(* What a step of a run leaves alone. *)
RunOnly ==
  UNCHANGED <<operation, serving, invited, request, begun, ownerLock, slipped,
              cleaner, refused>>
DataOnly ==
  /\ RunOnly
  /\ UNCHANGED <<workspace, member, session, account>>

-----------------------------------------------------------------------------
(* processWorkspaceDeletion *)

(* resumeWorkspaceDataDeletion *)
LedgerResumed ==
  IF ledger.state = "completed" THEN ledger
                                ELSE [ledger EXCEPT !.state = "processing"]

(* readWorkspaceDataDeletionMaterial: the keys the ledger kept, or else those of
   the rows. *)
LoadDeletionMaterial(w) ==
  /\ Serves(w, WorkspaceDeletion, "load") /\ HoldsClaim(w)
  /\ ledger' = LedgerResumed
  /\ IF channel.busy  \* workspace_operations_in_flight
     THEN Fail(w)
     ELSE job' = [job EXCEPT ![w] =
            [NoJob EXCEPT !.step = "revoke", !.token = channel.key = "stored",
                          !.key = ledger.keys \/ RowExists]]
  /\ UNCHANGED <<budget, asset, channel, identity, leaks>>
  /\ DataOnly

(* provider_revoke: a failure stops the run until the deadline. *)
RevokeForDeletion(w) ==
  /\ Serves(w, WorkspaceDeletion, "revoke") /\ HoldsClaim(w)
  /\ \/ GoTo(w, "objects") /\ UNCHANGED budget
     \/ /\ job[w].token /\ Spend("provider")
        /\ IF Overdue(w) THEN GoTo(w, "objects") ELSE Fail(w)
  /\ UNCHANGED <<asset, channel, ledger, identity, leaks>>
  /\ DataOnly

(* object_delete, likewise; past the deadline what was not deleted goes on to
   the ledger. *)
DeleteObjects(w) ==
  /\ Serves(w, WorkspaceDeletion, "objects") /\ HoldsClaim(w)
  /\ \/ /\ asset' = [asset EXCEPT !.object = IF job[w].key THEN "absent" ELSE @]
        /\ GoTo(w, "complete")
        /\ UNCHANGED budget
     \/ /\ job[w].key /\ Spend("object")
        /\ IF Overdue(w)
           THEN job' = [job EXCEPT ![w].step = "complete", ![w].undeleted = TRUE]
           ELSE Fail(w)
        /\ UNCHANGED asset
  /\ UNCHANGED <<channel, ledger, identity, leaks>>
  /\ DataOnly

(* resolveWorkspaceDeletionFallback *)
FallbackSessions ==
  [u \in Users |-> IF session[u] = "here" THEN "outside" ELSE session[u]]

(* completeWorkspaceDataDeletion: what it deletes when the workspace is not yet
   deleted. *)
DeleteLocalData ==
  /\ workspace' = "deleted"
  /\ member' = [u \in Users |-> "none"]
  /\ invited' = [u \in Users |-> {}]
  /\ session' = FallbackSessions
  /\ asset' = [asset EXCEPT !.status = "none", !.attached = FALSE]
  /\ channel' = [channel EXCEPT !.state = "none",
       !.key = IF channel.key = "stored" THEN "retiring" ELSE channel.key]

KeepLocalData ==
  UNCHANGED <<workspace, member, invited, session, asset, channel>>

(* tokenKeyRetirementPending *)
NothingPending(key) == FALSE  \* mutant: the keys are not waited for
TokenKeyRetirementPending(key) == key = "retiring"

MissedRow(w) == workspace # "deleted" /\ RowExists /\ ~ job[w].key

LedgerAfter(w, key) ==
  IF TokenKeyRetirementPending(key) THEN [ledger EXCEPT !.state = "processing"]
  ELSE IF job[w].undeleted THEN [state |-> "failed", keys |-> TRUE]
  ELSE [state |-> "completed", keys |-> FALSE]

CompleteWorkspaceDataDeletion(w) ==
  /\ Serves(w, WorkspaceDeletion, "complete") /\ HoldsClaim(w)
  /\ IF ledger.state = "completed"
     THEN Return(w, TRUE) /\ KeepLocalData /\ UNCHANGED <<ledger, leaks>>
     ELSE IF channel.busy
     THEN Fail(w) /\ KeepLocalData /\ UNCHANGED <<ledger, leaks>>
     ELSE
       /\ IF workspace # "deleted" THEN DeleteLocalData ELSE KeepLocalData
       /\ leaks' = leaks
            \cup (IF MissedRow(w) THEN {"missed"} ELSE {})
            \cup (IF TokenKeyRetirementPending(channel'.key) /\ job[w].undeleted
                  THEN {"forgotten"} ELSE {})
       /\ ledger' = LedgerAfter(w, channel'.key)
       /\ Return(w, ledger'.state = "completed")
  /\ UNCHANGED <<controlVars, account, request, begun, ownerLock, slipped,
                 cleaner, identity, refused>>

-----------------------------------------------------------------------------
(* processAccountDeletion *)

OfAccount(w) == serving[w].operation[2]
ServesAccount(w, step) == Serves(w, AccountDeletion(OfAccount(w)), step)

(* list_account_authorized_channels_for_deletion and prepareYouTubeDisconnect *)
RequestCleanup(w) ==
  /\ ServesAccount(w, "cleanup") /\ HoldsClaim(w)
  /\ channel' = IF workspace = "active" /\ channel.by = OfAccount(w)
                   /\ channel.state = "connected"
                THEN [channel EXCEPT !.state = "disconnecting"] ELSE channel
  /\ GoTo(w, "await")
  /\ UNCHANGED <<budget, asset, ledger, identity, leaks>>
  /\ DataOnly

(* account_authorized_data_deletion_pending: the channel, and the keys that
   still await their retirement. *)
AuthorizedDataPending(u) == channel.by = u

AwaitCleanup(w) ==
  /\ ServesAccount(w, "await") /\ HoldsClaim(w)
  /\ IF AuthorizedDataPending(OfAccount(w)) THEN Fail(w) ELSE GoTo(w, "prepare")
  /\ UNCHANGED <<budget, asset, channel, ledger, identity, leaks>>
  /\ DataOnly

(* prepare_account_identity_deletion commits the loss of the memberships before
   the call that cannot be undone. *)
PrepareIdentityDeletion(w) ==
  LET u == OfAccount(w) IN
  /\ ServesAccount(w, "prepare") /\ HoldsClaim(w)
  /\ OwnsWorkspace(u) => ownerLock = NoRequest
  /\ IF LacksSuccessor(u) \/ account[u] # "deletion_pending"
     THEN Fail(w) /\ UNCHANGED member
     ELSE /\ member' = [member EXCEPT ![u] = "none"]
          /\ GoTo(w, "identity")
  /\ RunOnly
  /\ UNCHANGED <<workspace, session, account, budget, asset, channel, ledger,
                 identity, leaks>>

(* identity.deleteAccount *)
DeleteIdentity(w) ==
  /\ ServesAccount(w, "identity")
  /\ \/ /\ identity' = identity \ {OfAccount(w)}
        /\ GoTo(w, "close")
        /\ UNCHANGED budget
     \/ Spend("identity") /\ Fail(w) /\ UNCHANGED identity
  /\ UNCHANGED <<asset, channel, ledger, leaks>>
  /\ DataOnly

(* complete_account_deletion; false is account_owner_transfer_required. *)
CompleteAccountDeletion(w) ==
  LET u == OfAccount(w) IN
  /\ ServesAccount(w, "close") /\ HoldsClaim(w)
  /\ OwnsWorkspace(u) => ownerLock = NoRequest
  /\ IF LacksSuccessor(u) \/ account[u] # "deletion_pending"
     THEN Fail(w) /\ UNCHANGED <<member, session, account>>
     ELSE /\ member' = [member EXCEPT ![u] = "none"]
          /\ session' = [session EXCEPT ![u] = "none"]
          /\ account' = [account EXCEPT ![u] = "deleted"]
          /\ Return(w, TRUE)
  /\ RunOnly
  /\ UNCHANGED <<workspace, budget, asset, channel, ledger, identity, leaks>>

-----------------------------------------------------------------------------
(* The end of a run, and what may end it early *)

EndOnly ==
  UNCHANGED <<membershipVars, asset, cleaner, channel, identity, refused, leaks>>
DropJob(w) == job' = [job EXCEPT ![w] = NoJob]

Finish(w) ==
  /\ job[w].step = "finish"
  /\ FinishOperation(w, IF job[w].completed THEN "completed" ELSE "waiting")
  /\ DropJob(w)
  /\ UNCHANGED ledger
  /\ EndOnly

(* failWorkspaceDataDeletion *)
FailedLedger(w) ==
  IF /\ serving[w].operation = WorkspaceDeletion /\ HoldsClaim(w)
     /\ ledger.state # "completed"
  THEN [ledger EXCEPT !.state = "failed"] ELSE ledger

(* The catch of processLifecycleOperation: the row waits for another attempt. *)
FinishFailed(w) ==
  /\ job[w].step = "failed"
  /\ ledger' = FailedLedger(w)
  /\ FinishOperation(w, "waiting")
  /\ DropJob(w)
  /\ EndOnly

LoseClaim(w) ==
  /\ serving[w].operation # NoOperation
  /\ job[w].step \notin {"finish", "failed"}
  /\ StandDown(w)
  /\ DropJob(w)
  /\ UNCHANGED ledger
  /\ EndOnly

Crash(w) ==
  /\ CrashServing(w)
  /\ DropJob(w)
  /\ UNCHANGED ledger
  /\ EndOnly

TimePasses(o) ==
  /\ ExpireClaim(o) \/ PassDeadline(o)
  /\ UNCHANGED <<membershipVars, dataVars>>

-----------------------------------------------------------------------------
(* The specification *)

MemberStep ==
  \/ \E r \in Requests :
       \/ BeginMemberRequest(r)
       \/ BeginWorkspaceRequest(r)
       \/ BeginAccountRequest(r)
       \/ ReadMembership(r)
       \/ AlterUnguarded(r)
       \/ AlterGuarded(r)
       \/ CheckSuccessor(r)
  \/ \E u \in Users :
       \/ LogIn(u)
       \/ LogOut(u)
       \/ SelectWorkspace(u)
       \/ CreateWorkspace(u)
       \/ AcceptInvitation(u)

Request(r) ==
  \/ /\ RequestAccountDeletion(r)
     /\ UNCHANGED <<serving, budget, dataVars>>
  \/ /\ CreateInvitation(r)
     /\ Late("invitation")
     /\ UNCHANGED <<controlVars, asset, cleaner, channel, ledger, identity, job,
                    refused>>
  \/ BeginUpload(r)
  \/ StatUpload(r)
  \/ CompleteSourceAsset(r)
  \/ RejectUpload(r)
  \/ CreateContent(r)
  \/ Connect(r)
  \/ BeginWorkspaceDataDeletion(r)

Run(w) ==
  \/ \E o \in Operations : Claim(w, o)
  \/ LoadDeletionMaterial(w)
  \/ RevokeForDeletion(w)
  \/ DeleteObjects(w)
  \/ CompleteWorkspaceDataDeletion(w)
  \/ RequestCleanup(w)
  \/ AwaitCleanup(w)
  \/ PrepareIdentityDeletion(w)
  \/ DeleteIdentity(w)
  \/ CompleteAccountDeletion(w)
  \/ Finish(w)
  \/ FinishFailed(w)
  \/ LoseClaim(w)
  \/ Crash(w)

Next ==
  \/ MemberStep /\ UNCHANGED <<controlVars, dataVars>>
  \/ \E r \in Requests : Request(r)
  \/ \E content \in {"good", "bad"} : PutObject(content)
  \/ ClaimExpiredUpload
  \/ DeleteExpiredObject
  \/ CompleteCleanup
  \/ UseChannel
  \/ DisconnectChannel
  \/ RetireKey
  \/ \E w \in Workers : Run(w)
  \/ \E o \in Operations : TimePasses(o)

Spec == Init /\ [][Next]_vars

-----------------------------------------------------------------------------
(* Properties *)

(* Every variable keeps its type, a worker holds something in memory only while
   it runs an operation, and the owner lock outlasts a step only in the request
   to close an account. *)
TypeOK ==
  /\ ControlTypeOK
  /\ MembershipTypeOK
  /\ asset \in [status : AssetStatuses, attached : BOOLEAN,
                url : {"none", "issued", "used"},
                object : {"absent", "good", "bad"}]
  /\ cleaner \in {"idle", "delete", "complete"}
  /\ channel \in [state : ChannelStates, by : Users \cup {NoUser},
                  key : {"none", "stored", "retiring", "destroyed"},
                  busy : BOOLEAN]
  /\ ledger \in [state : LedgerStates, keys : BOOLEAN]
  /\ identity \subseteq Users
  /\ job \in [Workers -> [step : JobSteps, token : BOOLEAN, key : BOOLEAN,
                          undeleted : BOOLEAN, completed : BOOLEAN]]
  /\ refused \in BOOLEAN
  /\ leaks \subseteq Leaks
  /\ \A w \in Workers : serving[w].operation = NoOperation => job[w] = NoJob
  /\ ownerLock # NoRequest => Running(ownerLock, "close_account", "checked")

(* An active workspace has an owner who can log in: lockOwnerInvariant and
   countEligibleOwners keep two demotions, removals or account deletions from
   taking the last two owners at once. The exception is a write that takes an
   owner away without the lock: the acceptance of an invitation by an owner, a
   change decided on a membership read before it became an owner's, and the
   closing of an account that came to own the workspace after its check. *)
OwnerRemains ==
  workspace = "active" /\ ~ slipped =>
    \E u \in Users : member[u] = Owner /\ account[u] = "active"

(* A complete source asset has its object as long as its workspace is not being
   deleted: the confirmation of an upload, its rejection and the cleanup of
   expired uploads look at the object and write the row in separate steps. *)
CompleteHasObject ==
  asset.status = "complete" /\ workspace = "active" => asset.object = "good"

WorkspaceErased ==
  /\ workspace = "deleted"
  /\ channel.state = "none" /\ channel.key \in {"none", "destroyed"}
  /\ leaks \cap {"row", "missed", "upload", "forgotten"} = {} =>
       asset.status = "none" /\ asset.object = "absent"
  /\ "invitation" \notin leaks =>
       \A u \in Users : member[u] = "none" /\ invited[u] = {} /\ session[u] # "here"

AccountErased(u) ==
  /\ u \notin identity
  /\ member[u] = "none" /\ session[u] = "none"
  /\ "connection" \notin leaks => channel.by # u

(* The deletion the ledger calls complete has erased the workspace: its people,
   its data, the objects in the bucket and the key of its token; and an account
   marked deleted has no identity, membership or authorised channel left,
   whatever failed or was repeated on the way. The exceptions are the writes
   that were authorised before the deletion and made after it, and the object
   keys a run forgets when it finds a token key still to be retired. *)
DeletedLeavesNothing ==
  /\ ledger.state = "completed" => WorkspaceErased
  /\ \A u \in Users : account[u] = "deleted" => AccountErased(u)

(* An owner's confirmed deletion of a workspace is accepted, recorded and denies
   access at once (docs/OPERATIONS.md). *)
DeletionAccepted == ~ refused

=============================================================================
