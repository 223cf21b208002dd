-------------------------- MODULE Workspace_proofs --------------------------
(***************************************************************************)
(* Theorems about Workspace for every number of users, requests, workers and *)
(* faults.                                                                 *)
(*                                                                         *)
(* The strengthening has a part for each of the three invariants. The owner   *)
(* lock is held by a request that has found another owner (OwnersSafe). What  *)
(* a confirmation saw of an object stays so while its row waits (AssetSound,  *)
(* RequestsSound). And a deletion that may end as complete knows of every      *)
(* object that is left, of the token's key and of the people (Asked to         *)
(* RunsSound), whichever run of it stopped where.                            *)
(***************************************************************************)
EXTENDS Workspace, FiniteSetTheorems, TLAPS

(* The request that holds the owner lock has found another owner. *)
OwnersSafe ==
  /\ OwnerRemains
  /\ ownerLock # NoRequest => workspace # "absent"
  /\ ownerLock # NoRequest /\ workspace = "active" /\ ~ slipped =>
       \E v \in Users : Succeeds(request[ownerLock].user, v)

(* A URL is used once, an expired upload is claimed before its object is deleted,
   and what a confirmation saw of the object is so while the row waits. *)
AssetSound ==
  /\ asset.url = "none" => asset.status = "none" /\ asset.object = "absent"
  /\ asset.url = "issued" => asset.object = "absent"
  /\ workspace = "absent" => asset.url = "none"
  /\ workspace # "deleted" /\ asset.url # "none" => RowExists
  /\ cleaner # "idle" => asset.url # "none" /\ asset.status \notin {"pending", "complete"}
  /\ CompleteHasObject

RequestsSound ==
  \A r \in Requests :
    /\ request[r].kind \notin {"none", "close_account"} => workspace # "absent"
    /\ Running(r, "confirm_upload", "bad") =>
         asset.url = "used" /\ asset.object \in {"bad", "absent"}
    /\ Running(r, "confirm_upload", "good") =>
         /\ asset.url = "used"
         /\ asset.status = "pending" /\ workspace = "active" => asset.object = "good"

(* A deletion that runs was asked for. *)
Asked ==
  /\ ledger.state = "none" <=> workspace \in {"absent", "active"}
  /\ operation[WorkspaceDeletion].state # "absent" => ledger.state # "none"
  /\ \A u \in Users : operation[AccountDeletion(u)].state # "absent" =>
         account[u] # "active"
  /\ \A w \in Workers : serving[w].operation # NoOperation =>
       operation[serving[w].operation].state # "absent"

(* The channel of a deleted workspace is gone, and its key on its way. *)
ChannelSound ==
  /\ channel.state = "none" => ~ channel.busy /\ channel.key # "stored"
  /\ workspace = "deleted" => channel.state = "none"
  /\ ledger.state = "completed" =>
       workspace = "deleted" /\ channel.key \in {"none", "destroyed"} /\ ~ ledger.keys

PeopleSound ==
  /\ workspace = "deleted" /\ "invitation" \notin leaks =>
       \A u \in Users : member[u] = "none" /\ invited[u] = {} /\ session[u] # "here"
  /\ \A u \in Users : account[u] = "deleted" => AccountErased(u)

(* No write has come too late for the object's deletion. *)
Clean == leaks \cap {"row", "missed", "upload", "forgotten"} = {}

(* An object that is still there is known to the ledger. *)
LedgerSound ==
  workspace = "deleted" /\ Clean =>
    /\ asset.status = "none"
    /\ asset.object # "absent" => ledger.keys

(* The run that holds the claim of the workspace's deletion knows the object, or
   will find its row missed. *)
RunSound(w) ==
  /\ job[w].step \in {"revoke", "objects", "complete"} /\ asset.object # "absent" =>
       job[w].key \/ (workspace # "deleted" /\ RowExists)
  /\ job[w].step = "complete" /\ ~ job[w].undeleted /\ asset.object # "absent" =>
       ~ job[w].key

(* The run of an account's deletion has waited for its channel, and does not close
   the account before its identity is gone. *)
AccountRunSound(w, u) ==
  /\ job[w].step = "close" => u \notin identity
  /\ job[w].step \in {"prepare", "identity", "close"} /\ "connection" \notin leaks =>
       channel.by # u

WorkspaceRunSound(w) ==
  serving[w].operation = WorkspaceDeletion /\ HoldsClaim(w) /\ Clean => RunSound(w)
AccountRunsSound(w) ==
  \A u \in Users : serving[w].operation = AccountDeletion(u) => AccountRunSound(w, u)
RunsSound == \A w \in Workers : WorkspaceRunSound(w) /\ AccountRunsSound(w)

IInv ==
  /\ TypeOK /\ OwnersSafe /\ AssetSound /\ RequestsSound /\ Asked /\ ChannelSound
  /\ PeopleSound /\ LedgerSound /\ RunsSound

USE DEF AssetStatuses, ChannelStates, LedgerStates, JobSteps, OperationStates,
        WorkspaceStates, AccountStates, Places, Kinds, RequestSteps, AllRoles, Owner

-----------------------------------------------------------------------------
(* Types *)

OperationRows == [state : OperationStates, owner : Workers \cup {Nobody},
                  live : BOOLEAN, overdue : BOOLEAN, outcome : BOOLEAN]
ServingRows == [operation : Operations \cup {NoOperation}, lost : BOOLEAN]
RequestRows == [kind : Kinds, user : Users \cup {NoUser}, target : Users \cup {NoUser},
                role : Roles, step : RequestSteps]
AssetRows == [status : AssetStatuses, attached : BOOLEAN,
              url : {"none", "issued", "used"}, object : {"absent", "good", "bad"}]
ChannelRows == [state : ChannelStates, by : Users \cup {NoUser},
                key : {"none", "stored", "retiring", "destroyed"}, busy : BOOLEAN]
LedgerRows == [state : LedgerStates, keys : BOOLEAN]
JobRows == [step : JobSteps, token : BOOLEAN, key : BOOLEAN, undeleted : BOOLEAN,
            completed : BOOLEAN]

ControlTyped ==
  /\ operation \in [Operations -> OperationRows]
  /\ serving \in [Workers -> ServingRows]
  /\ budget \in 0..MaxFaults
MembersTyped ==
  /\ workspace \in WorkspaceStates
  /\ member \in [Users -> Roles \cup {"none", "removed"}]
  /\ invited \in [Users -> SUBSET Roles]
  /\ session \in [Users -> Places]
  /\ account \in [Users -> AccountStates]
  /\ slipped \in BOOLEAN
RequestsTyped ==
  /\ request \in [Requests -> RequestRows]
  /\ begun \in 0..MaxRequests
  /\ ownerLock \in Requests \cup {NoRequest}
  /\ ownerLock # NoRequest => Running(ownerLock, "close_account", "checked")
DataTyped ==
  /\ asset \in AssetRows /\ cleaner \in {"idle", "delete", "complete"}
  /\ channel \in ChannelRows /\ ledger \in LedgerRows
  /\ identity \subseteq Users /\ refused \in BOOLEAN /\ leaks \subseteq Leaks
JobsTyped ==
  /\ job \in [Workers -> JobRows]
  /\ \A w \in Workers : serving[w].operation = NoOperation => job[w] = NoJob

LEMMA TypeParts ==
  TypeOK <=> ControlTyped /\ MembersTyped /\ RequestsTyped /\ DataTyped /\ JobsTyped
BY DEF TypeOK, ControlTypeOK, MembershipTypeOK, ControlTyped, MembersTyped, RequestsTyped,
   DataTyped, JobsTyped, OperationRows, ServingRows, RequestRows, AssetRows, ChannelRows,
   LedgerRows, JobRows

LEMMA TypePartsPrimed ==
  TypeOK' <=> ControlTyped' /\ MembersTyped' /\ RequestsTyped' /\ DataTyped' /\ JobsTyped'
BY DEF TypeOK, ControlTypeOK, MembershipTypeOK, ControlTyped, MembersTyped, RequestsTyped,
   DataTyped, JobsTyped, OperationRows, ServingRows, RequestRows, AssetRows, ChannelRows,
   LedgerRows, JobRows

LEMMA Unchanged ==
  /\ ControlTyped /\ UNCHANGED controlVars => ControlTyped'
  /\ MembersTyped /\ UNCHANGED <<workspace, member, invited, session, account, slipped>>
       => MembersTyped'
  /\ RequestsTyped /\ UNCHANGED <<request, begun, ownerLock>> => RequestsTyped'
  /\ DataTyped /\ UNCHANGED <<asset, cleaner, channel, ledger, identity, refused, leaks>>
       => DataTyped'
  /\ JobsTyped /\ UNCHANGED <<serving, job>> => JobsTyped'
BY DEF ControlTyped, MembersTyped, RequestsTyped, DataTyped, JobsTyped, controlVars,
   Running

(* The names of the operations. *)
LEMMA Named ==
  /\ WorkspaceDeletion \in Operations /\ WorkspaceDeletion # NoOperation
  /\ \A u \in Users : AccountDeletion(u) \in Operations
  /\ \A u : AccountDeletion(u) # WorkspaceDeletion /\ AccountDeletion(u) # NoOperation
  /\ \A u, v : AccountDeletion(u) = AccountDeletion(v) => u = v
  /\ \A o \in Operations : AccountDeletion(o[2]) = o => o[2] \in Users
BY WorkspaceAssumption, NoOperationAssumption, MembershipAssumption
   DEF AccountDeletion, WorkspaceDeletion

(* A request that goes on or ends; it is not the one that holds the lock. *)
LEMMA RequestMoves ==
  ASSUME RequestsTyped, NEW r \in Requests, NEW step \in RequestSteps,
         StepTo(r, step) \/ Ended(r)
  PROVE  /\ request' \in [Requests -> RequestRows]
         /\ \A other \in Requests \ {r} : request'[other] = request[other]
         /\ StepTo(r, step) => request'[r] = [request[r] EXCEPT !.step = step]
         /\ Ended(r) => request'[r] = NoRequestYet
         /\ /\ UNCHANGED <<begun, ownerLock>> /\ ownerLock # r
            => RequestsTyped'
<1>1. request \in [Requests -> RequestRows] /\ request[r] \in RequestRows
  BY DEF RequestsTyped
<1>2. NoRequestYet \in RequestRows
  BY MembershipAssumption DEF NoRequestYet, RequestRows
<1>3. [request[r] EXCEPT !.step = step] \in RequestRows
  BY <1>1 DEF RequestRows
<1>4. /\ StepTo(r, step) =>
             request' = [request EXCEPT ![r] = [request[r] EXCEPT !.step = step]]
      /\ Ended(r) => request' = [request EXCEPT ![r] = NoRequestYet]
  BY <1>1 DEF StepTo, Ended
<1>5. /\ request' \in [Requests -> RequestRows]
      /\ \A other \in Requests \ {r} : request'[other] = request[other]
      /\ StepTo(r, step) => request'[r] = [request[r] EXCEPT !.step = step]
      /\ Ended(r) => request'[r] = NoRequestYet
  BY <1>1, <1>2, <1>3, <1>4
<1>6. ASSUME UNCHANGED <<begun, ownerLock>>, ownerLock # r
      PROVE  RequestsTyped'
  BY <1>5, <1>6 DEF RequestsTyped, Running
<1> QED
  BY <1>5, <1>6

(* A new request takes a free slot. *)
LEMMA NewRequestTyped ==
  ASSUME RequestsTyped, NEW r \in Requests, NEW kind \in Kinds, NEW u \in Users,
         NEW target \in Users \cup {NoUser}, NEW role \in Roles,
         NewRequest(r, kind, u, target, role)
  PROVE  /\ RequestsTyped'
         /\ \A other \in Requests \ {r} : request'[other] = request[other]
         /\ request'[r].kind = kind /\ request'[r].step = "authorized"
<1> DEFINE new == [kind |-> kind, user |-> u, target |-> target, role |-> role,
                   step |-> "authorized"]
<1>1. new \in RequestRows /\ request' = [request EXCEPT ![r] = new]
  BY DEF NewRequest, RequestRows
<1>2. begun' \in 0..MaxRequests
  BY MembershipAssumption DEF NewRequest, RequestsTyped
<1>3. /\ request' \in [Requests -> RequestRows] /\ request'[r] = new
      /\ \A other \in Requests \ {r} : request'[other] = request[other]
  BY <1>1 DEF RequestsTyped
<1>4. ownerLock # r /\ ownerLock' = ownerLock
  BY MembershipAssumption DEF NewRequest, Idle, RequestsTyped, Running
<1> QED
  BY <1>2, <1>3, <1>4 DEF RequestsTyped, Running

LEMMA BeginTyped ==
  ASSUME TypeOK, NEW r \in Requests,
         BeginMemberRequest(r) \/ BeginWorkspaceRequest(r) \/ BeginAccountRequest(r)
  PROVE  /\ RequestsTyped'
         /\ \A other \in Requests \ {r} : request'[other] = request[other]
         /\ request'[r].step = "authorized" /\ request[r].kind = "none"
         /\ request'[r].kind = "close_account" \/ workspace = "active"
         /\ UNCHANGED <<workspace, member, invited, session, account, ownerLock, slipped>>
<1>1. RequestsTyped
  BY TypeParts
<1>2. PICK u \in Users, kind \in Kinds, target \in Users \cup {NoUser}, role \in Roles :
        /\ NewRequest(r, kind, u, target, role)
        /\ kind = "close_account" \/ Authorized(u, kind)
  BY MembershipAssumption DEF BeginMemberRequest, BeginWorkspaceRequest, BeginAccountRequest
<1>3. kind = "close_account" \/ workspace = "active"
  BY <1>2 DEF Authorized, MembershipRole
<1> QED
  BY <1>1, <1>2, <1>3, NewRequestTyped DEF NewRequest, Idle

LEMMA AlteredTyped ==
  ASSUME MembersTyped, RequestsTyped, NEW r \in Requests
  PROVE  /\ AlteredMembers(request[r]) \in [Users -> Roles \cup {"none", "removed"}]
         /\ MovedSessions(request[r]) \in [Users -> Places]
<1>1. request[r].role \in Roles
  BY DEF RequestsTyped, RequestRows
<1> QED
  BY <1>1 DEF MembersTyped, AlteredMembers, MovedSessions

LEMMA MemberTyped ==
  ASSUME TypeOK, MemberStep, UNCHANGED <<controlVars, dataVars>>
  PROVE  TypeOK'
<1>1. ControlTyped /\ MembersTyped /\ RequestsTyped /\ DataTyped /\ JobsTyped
  BY TypeParts
<1>2. ControlTyped' /\ DataTyped' /\ JobsTyped'
  BY <1>1, Unchanged DEF controlVars, dataVars
<1>3. SUFFICES MembersTyped' /\ RequestsTyped'
  BY <1>2, TypePartsPrimed
<1>4. ASSUME NEW r \in Requests,
             BeginMemberRequest(r) \/ BeginWorkspaceRequest(r) \/ BeginAccountRequest(r)
      PROVE  MembersTyped' /\ RequestsTyped'
  BY <1>1, <1>4, BeginTyped, Unchanged
<1>5. ASSUME NEW r \in Requests, ReadMembership(r)
      PROVE  MembersTyped' /\ RequestsTyped'
  <2>1. ownerLock # r
    BY <1>1, <1>5, MembershipAssumption DEF ReadMembership, RequestsTyped, Running
  <2> QED
    BY <1>1, <1>5, <2>1, RequestMoves, Unchanged DEF ReadMembership
<1>6. ASSUME NEW r \in Requests, AlterUnguarded(r) \/ AlterGuarded(r)
      PROVE  MembersTyped' /\ RequestsTyped'
  <2>1. ownerLock # r /\ Ended(r) /\ UNCHANGED <<begun, ownerLock>>
    BY <1>1, <1>6, MembershipAssumption DEF AlterUnguarded, AlterGuarded, RequestsTyped,
       Running
  <2>2. MembersTyped'
    BY <1>1, <1>6, AlteredTyped DEF AlterUnguarded, AlterGuarded, MembersTyped
  <2> QED
    BY <1>1, <2>1, <2>2, RequestMoves
<1>7. ASSUME NEW r \in Requests, CheckSuccessor(r)
      PROVE  MembersTyped' /\ RequestsTyped'
  <2>1. ownerLock # r /\ UNCHANGED begun
    BY <1>1, <1>7, MembershipAssumption DEF CheckSuccessor, RequestsTyped, Running
  <2>2. CASE UNCHANGED ownerLock
    BY <1>1, <1>7, <2>1, <2>2, RequestMoves, Unchanged DEF CheckSuccessor
  <2>3. CASE ownerLock' = r /\ StepTo(r, "checked")
    <3>1. /\ request' \in [Requests -> RequestRows]
          /\ request'[r] = [request[r] EXCEPT !.step = "checked"]
          /\ request[r] \in RequestRows /\ request[r].kind = "close_account"
      BY <1>1, <1>7, <2>3, RequestMoves DEF CheckSuccessor, Running, RequestsTyped
    <3>2. Running(r, "close_account", "checked")'
      BY <3>1 DEF Running, RequestRows
    <3>3. RequestsTyped'
      BY <1>1, <2>1, <2>3, <3>1, <3>2 DEF RequestsTyped
    <3> QED
      BY <1>1, <1>7, <3>3, Unchanged DEF CheckSuccessor
  <2> QED
    BY <1>7, <2>2, <2>3 DEF CheckSuccessor
<1>8. ASSUME NEW u \in Users,
             LogIn(u) \/ LogOut(u) \/ SelectWorkspace(u) \/ CreateWorkspace(u)
      PROVE  MembersTyped' /\ RequestsTyped'
  BY <1>1, <1>8, MembershipAssumption, Unchanged DEF LogIn, LogOut, SelectWorkspace,
     CreateWorkspace, MembersTyped
<1>9. ASSUME NEW u \in Users, AcceptInvitation(u)
      PROVE  MembersTyped' /\ RequestsTyped'
  <2>1. PICK role \in invited[u] :
          /\ invited' = [invited EXCEPT ![u] = @ \ {role}]
          /\ member' = [member EXCEPT ![u] = role]
    BY <1>9 DEF AcceptInvitation
  <2>2. role \in Roles
    BY <1>1, <2>1 DEF MembersTyped
  <2> QED
    BY <1>1, <1>9, <2>1, <2>2, Unchanged DEF AcceptInvitation, MembersTyped
<1> QED
  BY <1>4, <1>5, <1>6, <1>7, <1>8, <1>9 DEF MemberStep

(* Enqueuing, as beginWorkspaceDataDeletion and request_account_deletion do. *)
LEMMA EnqueuedRows ==
  ASSUME ControlTyped, NEW rows
  PROVE  /\ Enqueued(rows) \in [Operations -> OperationRows]
         /\ \A o \in Operations :
              /\ operation[o].state # "absent" => Enqueued(rows)[o] = operation[o]
              /\ o \notin rows => Enqueued(rows)[o] = operation[o]
              /\ o \in rows /\ operation[o].state = "absent" =>
                   Enqueued(rows)[o].state = "waiting"
<1>1. ASSUME NEW o \in Operations
      PROVE  NewRow(o) \in OperationRows /\ NewRow(o).state = "waiting"
  <2>1. (o \in Referenced) \in BOOLEAN
    OBVIOUS
  <2>2. \A b \in BOOLEAN :
          LET row == [Absent EXCEPT !.state = "waiting", !.outcome = b] IN
          row \in OperationRows /\ row.state = "waiting"
    BY DEF Absent, OperationRows
  <2> QED
    BY <2>1, <2>2, Zenon DEF NewRow
<1>2. \A o \in Operations : operation[o] \in OperationRows
  BY DEF ControlTyped
<1> QED
  BY <1>1, <1>2 DEF Enqueued

(* The requests that act on the data, one by one what they leave alone. *)
LEMMA RequestTyped ==
  ASSUME TypeOK, NEW r \in Requests, Request(r)
  PROVE  TypeOK'
<1>1. ControlTyped /\ MembersTyped /\ RequestsTyped /\ DataTyped /\ JobsTyped
  BY TypeParts
<1>2. CASE RequestAccountDeletion(r) /\ UNCHANGED <<serving, budget, dataVars>>
  <2>1. ControlTyped'
    BY <1>1, <1>2, EnqueuedRows DEF RequestAccountDeletion, ControlTyped
  <2>2. MembersTyped'
    BY <1>1, <1>2 DEF RequestAccountDeletion, MembersTyped
  <2>3. RequestsTyped'
    <3>1. /\ request' \in [Requests -> RequestRows]
          /\ \A other \in Requests \ {r} : request'[other] = request[other]
      BY <1>1, <1>2, RequestMoves DEF RequestAccountDeletion
    <3>2. ownerLock' = (IF ownerLock = r THEN NoRequest ELSE ownerLock) /\ begun' = begun
      BY <1>2 DEF RequestAccountDeletion
    <3> QED
      BY <1>1, <3>1, <3>2 DEF RequestsTyped, Running
  <2>4. DataTyped' /\ JobsTyped'
    BY <1>1, <1>2, Unchanged DEF dataVars
  <2> QED
    BY <2>1, <2>2, <2>3, <2>4, TypePartsPrimed
<1>3. CASE ~ (RequestAccountDeletion(r) /\ UNCHANGED <<serving, budget, dataVars>>)
  <2>1. /\ StepTo(r, "good") \/ StepTo(r, "bad") \/ Ended(r)
        /\ UNCHANGED <<begun, ownerLock>>
    BY <1>1, <1>3 DEF Request, CreateInvitation, BeginUpload, StatUpload, DataTyped,
       AssetRows, CompleteSourceAsset, RejectUpload, CreateContent, Connect,
       BeginWorkspaceDataDeletion, RequestsOnly, ChannelOnly, membershipVars
  <2>2. ownerLock # r
    BY <1>1, <1>3, MembershipAssumption DEF Request, CreateInvitation, BeginUpload,
       StatUpload, CompleteSourceAsset, RejectUpload, CreateContent, Connect,
       BeginWorkspaceDataDeletion, RequestsTyped, Running
  <2>3. RequestsTyped'
    BY <1>1, <2>1, <2>2, RequestMoves
  <2>4. JobsTyped'
    BY <1>1, <1>3, Unchanged DEF Request, CreateInvitation, BeginUpload, StatUpload,
       CompleteSourceAsset, RejectUpload, CreateContent, Connect,
       BeginWorkspaceDataDeletion, RequestsOnly, ChannelOnly, controlVars
  <2>5. ControlTyped'
    <3>1. CASE BeginUpload(r)
      BY <1>1, <3>1, ControlAssumption DEF BeginUpload, ControlTyped, Spend
    <3>2. CASE BeginWorkspaceDataDeletion(r)
      BY <1>1, <3>2, EnqueuedRows DEF BeginWorkspaceDataDeletion, ControlTyped
    <3> QED
      BY <1>1, <1>3, <3>1, <3>2, Unchanged DEF Request, CreateInvitation, StatUpload,
         CompleteSourceAsset, RejectUpload, CreateContent, Connect, RequestsOnly,
         ChannelOnly
  <2>6. MembersTyped'
    <3>1. CASE CreateInvitation(r)
      <4>1. request[r].role \in Roles
        BY <1>1 DEF RequestsTyped, RequestRows
      <4> QED
        BY <1>1, <3>1, <4>1 DEF CreateInvitation, MembersTyped
    <3>2. CASE BeginWorkspaceDataDeletion(r)
      BY <1>1, <3>2 DEF BeginWorkspaceDataDeletion, MembersTyped
    <3> QED
      BY <1>1, <1>3, <3>1, <3>2, Unchanged DEF Request, BeginUpload, StatUpload,
         CompleteSourceAsset, RejectUpload, CreateContent, Connect, RequestsOnly,
         ChannelOnly
  <2>7. DataTyped'
    <3>0. asset \in AssetRows /\ channel \in ChannelRows /\ ledger \in LedgerRows
      BY <1>1 DEF DataTyped
    <3>1. CASE CreateInvitation(r)
      BY <1>1, <1>3, <3>1 DEF Request, CreateInvitation, DataTyped, Late, Leaks,
         BeginUpload, StatUpload, CompleteSourceAsset, RejectUpload, CreateContent,
         Connect, BeginWorkspaceDataDeletion, Running
    <3>2. CASE BeginUpload(r)
      <4>1. asset' \in AssetRows
        BY <3>0, <3>2 DEF BeginUpload, PendingRow, WithSignedUrl, Failed, AssetRows
      <4> QED
        BY <1>1, <3>2, <4>1 DEF BeginUpload, DataTyped, Late, Leaks
    <3>3. CASE StatUpload(r) \/ CompleteSourceAsset(r) \/ RejectUpload(r)
      <4>1. asset' \in AssetRows
        BY <3>0, <3>3 DEF StatUpload, CompleteSourceAsset, RejectUpload, Completed,
           Failed, AssetRows
      <4> QED
        BY <1>1, <3>3, <4>1 DEF StatUpload, CompleteSourceAsset, RejectUpload,
           RequestsOnly, DataTyped
    <3>4. CASE CreateContent(r)
      <4>1. (asset.attached \/ asset.status = "complete") \in BOOLEAN
        OBVIOUS
      <4>2. \A b \in BOOLEAN : [asset EXCEPT !.attached = b] \in AssetRows
        BY <3>0 DEF AssetRows
      <4>3. asset' \in AssetRows
        BY <3>4, <4>1, <4>2, Zenon DEF CreateContent
      <4> QED
        BY <1>1, <3>4, <4>3 DEF CreateContent, RequestsOnly, DataTyped
    <3>5. CASE Connect(r)
      <4>1. request[r].user \in Users \cup {NoUser}
        BY <1>1 DEF RequestsTyped, RequestRows
      <4>2. \A u \in Users \cup {NoUser} :
              [state |-> "connected", by |-> u, key |-> "stored", busy |-> FALSE]
                \in ChannelRows
        BY DEF ChannelRows
      <4>3. \/ channel' = channel
            \/ channel' = [state |-> "connected", by |-> request[r].user,
                           key |-> "stored", busy |-> FALSE]
        BY <3>5 DEF Connect
      <4>4. channel' \in ChannelRows
        BY <3>0, <4>1, <4>2, <4>3, Zenon
      <4> QED
        BY <1>1, <3>5, <4>4 DEF Connect, ChannelOnly, DataTyped, Leaks
    <3>6. CASE BeginWorkspaceDataDeletion(r)
      <4>1. channel' \in ChannelRows
        BY <3>0, <3>6 DEF BeginWorkspaceDataDeletion, DeniedChannel, ChannelRows
      <4>2. ledger' \in LedgerRows
        <5>1. RowExists \in BOOLEAN
          BY DEF RowExists
        <5>2. \A b \in BOOLEAN : [state |-> "processing", keys |-> b] \in LedgerRows
          BY DEF LedgerRows
        <5> QED
          BY <3>0, <3>6, <5>1, <5>2, Zenon DEF BeginWorkspaceDataDeletion, LedgerBegun
      <4> QED
        BY <1>1, <3>6, <4>1, <4>2 DEF BeginWorkspaceDataDeletion, DataTyped
    <3> QED
      BY <1>3, <3>1, <3>2, <3>3, <3>4, <3>5, <3>6 DEF Request
  <2> QED
    BY <2>3, <2>4, <2>5, <2>6, <2>7, TypePartsPrimed
<1> QED
  BY <1>2, <1>3 DEF Request

(* What the control plane does to its rows, whatever the operation is. *)
LEMMA ControlMovesTyped ==
  ASSUME ControlTyped,
         \/ \E o \in Operations : ExpireClaim(o) \/ PassDeadline(o)
         \/ \E w \in Workers :
              \/ StandDown(w) \/ CrashServing(w)
              \/ \E o \in Operations : ClaimOperation(w, o)
              \/ \E state \in {"waiting", "completed"} : FinishOperation(w, state)
  PROVE  ControlTyped'
<1> USE DEF ControlTyped
<1>1. /\ operation \in [Operations -> OperationRows]
      /\ serving \in [Workers -> ServingRows] /\ budget \in 0..MaxFaults
  OBVIOUS
<1>2. NotServing \in ServingRows
  BY DEF NotServing, ServingRows
<1>3. ASSUME NEW w \in Workers, NEW o \in Operations, ClaimOperation(w, o)
      PROVE  ControlTyped'
  <2>1. operation' = [operation EXCEPT ![o] =
                         [operation[o] EXCEPT !.state = "claimed", !.owner = w, !.live = TRUE]]
    BY <1>1, <1>3 DEF ClaimOperation
  <2>2. operation[o] \in OperationRows
    BY <1>1
  <2>3. operation' \in [Operations -> OperationRows]
    BY <1>1, <2>1, <2>2 DEF OperationRows
  <2>4. serving' \in [Workers -> ServingRows]
    BY <1>1, <1>3 DEF ClaimOperation, ServingRows
  <2> QED
    BY <1>1, <1>3, <2>3, <2>4 DEF ClaimOperation
<1>4. ASSUME NEW w \in Workers, NEW state \in {"waiting", "completed"},
             FinishOperation(w, state)
      PROVE  ControlTyped'
  <2>1. ASSUME serving[w].operation # NoOperation
        PROVE  FinishedRow(operation[serving[w].operation], state) \in OperationRows
    <3>1. operation[serving[w].operation] \in OperationRows
      BY <1>1, <2>1 DEF ServingRows
    <3> QED
      BY <3>1 DEF OperationRows, FinishedRow
  <2> QED
    BY <1>1, <1>2, <1>4, <2>1 DEF FinishOperation, StopServing, HoldsClaim
<1>5. ASSUME NEW w \in Workers, StandDown(w)
      PROVE  ControlTyped'
  BY <1>1, <1>2, <1>5 DEF StandDown, StopServing
<1>6. ASSUME NEW o \in Operations, ExpireClaim(o)
      PROVE  ControlTyped'
  <2>1. operation' \in [Operations -> OperationRows]
    BY <1>1, <1>6 DEF ExpireClaim, OperationRows
  <2>2. budget' \in 0..MaxFaults
    BY <1>1, <1>6, ControlAssumption DEF ExpireClaim, Spend
  <2> QED
    BY <1>1, <1>6, <2>1, <2>2 DEF ExpireClaim
<1>7. ASSUME NEW w \in Workers, CrashServing(w)
      PROVE  ControlTyped'
  BY <1>1, <1>2, <1>7, ControlAssumption DEF CrashServing, StopServing, Spend
<1>8. ASSUME NEW o \in Operations, PassDeadline(o)
      PROVE  ControlTyped'
  BY <1>1, <1>8 DEF PassDeadline, OperationRows
<1> QED
  BY <1>3, <1>4, <1>5, <1>6, <1>7, <1>8

LEMMA DataStepTyped ==
  ASSUME TypeOK,
         \/ \E content \in {"good", "bad"} : PutObject(content)
         \/ ClaimExpiredUpload \/ DeleteExpiredObject \/ CompleteCleanup
         \/ UseChannel \/ DisconnectChannel \/ RetireKey
         \/ \E o \in Operations : TimePasses(o)
  PROVE  TypeOK'
<1>1. ControlTyped /\ MembersTyped /\ RequestsTyped /\ DataTyped /\ JobsTyped
  BY TypeParts
<1>2. asset \in AssetRows /\ channel \in ChannelRows /\ ledger \in LedgerRows
  BY <1>1 DEF DataTyped
<1>3. MembersTyped' /\ RequestsTyped' /\ UNCHANGED <<serving, job>>
  BY <1>1, Unchanged DEF PutObject, ClaimExpiredUpload, DeleteExpiredObject,
     CompleteCleanup, UseChannel, DisconnectChannel, RetireKey, TimePasses, CleanerOnly,
     ChannelOnly, ExpireClaim, PassDeadline, membershipVars, dataVars, controlVars
<1>4. JobsTyped'
  BY <1>1, <1>3, Unchanged
<1>5. ASSUME NEW content \in {"good", "bad"}, PutObject(content)
      PROVE  TypeOK'
  <2>1. asset' \in AssetRows
    BY <1>2, <1>5 DEF PutObject, AssetRows
  <2> QED
    BY <1>1, <1>3, <1>4, <1>5, <2>1, Unchanged, TypePartsPrimed DEF PutObject, DataTyped,
       Leaks
<1>6. CASE ClaimExpiredUpload \/ DeleteExpiredObject \/ CompleteCleanup
  <2>1. asset' \in AssetRows
    BY <1>2, <1>6 DEF ClaimExpiredUpload, DeleteExpiredObject, CompleteCleanup, AssetRows
  <2>2. DataTyped'
    BY <1>1, <1>6, <2>1 DEF ClaimExpiredUpload, DeleteExpiredObject, CompleteCleanup,
       CleanerOnly, DataTyped
  <2>3. ControlTyped'
    BY <1>1, <1>6, ControlAssumption DEF ClaimExpiredUpload, DeleteExpiredObject,
       CompleteCleanup, CleanerOnly, ControlTyped, Spend
  <2> QED
    BY <1>3, <1>4, <2>2, <2>3, TypePartsPrimed
<1>7. CASE UseChannel \/ DisconnectChannel \/ RetireKey
  <2>1. channel' \in ChannelRows
    BY <1>2, <1>7 DEF UseChannel, DisconnectChannel, RetireKey, ChannelRows
  <2>2. DataTyped'
    BY <1>1, <1>7, <2>1 DEF UseChannel, DisconnectChannel, RetireKey, ChannelOnly,
       DataTyped
  <2>3. ControlTyped'
    BY <1>1, <1>7, Unchanged DEF UseChannel, DisconnectChannel, RetireKey, ChannelOnly
  <2> QED
    BY <1>3, <1>4, <2>2, <2>3, TypePartsPrimed
<1>8. ASSUME NEW o \in Operations, TimePasses(o)
      PROVE  TypeOK'
  BY <1>1, <1>3, <1>4, <1>8, ControlMovesTyped, Unchanged, TypePartsPrimed
     DEF TimePasses, dataVars
<1> QED
  BY <1>5, <1>6, <1>7, <1>8

(* The memory of a run, after the moves the steps share. *)
LEMMA JobMoves ==
  ASSUME JobsTyped, NEW w \in Workers, NEW step \in JobSteps, NEW completed \in BOOLEAN
  PROVE  /\ \A v \in Workers \ {w} :
              GoTo(w, step) \/ Fail(w) \/ Return(w, completed) \/ DropJob(w)
                => job'[v] = job[v]
         /\ GoTo(w, step) => job'[w] = [job[w] EXCEPT !.step = step]
                             /\ job' \in [Workers -> JobRows]
         /\ Fail(w) => job'[w].step = "failed" /\ job' \in [Workers -> JobRows]
         /\ Return(w, completed) => job'[w].step = "finish" /\ job' \in [Workers -> JobRows]
         /\ DropJob(w) => job'[w] = NoJob /\ job' \in [Workers -> JobRows]
<1>1. job \in [Workers -> JobRows] /\ job[w] \in JobRows
  BY DEF JobsTyped
<1>2. /\ NoJob \in JobRows
      /\ [NoJob EXCEPT !.step = "failed"] \in JobRows
      /\ [NoJob EXCEPT !.step = "failed"].step = "failed"
      /\ [NoJob EXCEPT !.step = "finish", !.completed = completed] \in JobRows
      /\ [NoJob EXCEPT !.step = "finish", !.completed = completed].step = "finish"
  BY DEF NoJob, JobRows
<1>3. [job[w] EXCEPT !.step = step] \in JobRows
  BY <1>1 DEF JobRows
<1>4. GoTo(w, step) => job' = [job EXCEPT ![w] = [job[w] EXCEPT !.step = step]]
  BY <1>1 DEF GoTo
<1> QED
  BY <1>1, <1>2, <1>3, <1>4 DEF Fail, Return, DropJob

(* The steps of a run, between its claim and its end. *)
Works(w) ==
  \/ LoadDeletionMaterial(w) \/ RevokeForDeletion(w) \/ DeleteObjects(w)
  \/ CompleteWorkspaceDataDeletion(w) \/ RequestCleanup(w) \/ AwaitCleanup(w)
  \/ PrepareIdentityDeletion(w) \/ DeleteIdentity(w) \/ CompleteAccountDeletion(w)

LEMMA WorksAlone ==
  ASSUME TypeOK, NEW w \in Workers, Works(w)
  PROVE  /\ serving[w].operation # NoOperation
         /\ job' \in [Workers -> JobRows]
         /\ \A v \in Workers \ {w} : job'[v] = job[v]
         /\ UNCHANGED <<operation, serving, request, begun, ownerLock, slipped, cleaner,
                        refused>>
<1>1. JobsTyped /\ job \in [Workers -> JobRows] /\ job[w] \in JobRows
  BY TypeParts DEF JobsTyped
<1>2. serving[w].operation # NoOperation
  BY Named DEF Works, LoadDeletionMaterial, RevokeForDeletion, DeleteObjects,
     CompleteWorkspaceDataDeletion, RequestCleanup, AwaitCleanup, PrepareIdentityDeletion,
     DeleteIdentity, CompleteAccountDeletion, Serves, ServesAccount
<1>3. UNCHANGED <<operation, serving, request, begun, ownerLock, slipped, cleaner, refused>>
  BY DEF Works, LoadDeletionMaterial, RevokeForDeletion, DeleteObjects, RequestCleanup,
     AwaitCleanup, PrepareIdentityDeletion, DeleteIdentity, CompleteAccountDeletion,
     CompleteWorkspaceDataDeletion, DataOnly, RunOnly, controlVars
<1>4. /\ job' \in [Workers -> JobRows]
      /\ \A v \in Workers \ {w} : job'[v] = job[v]
  <2> DEFINE Moved == /\ job' \in [Workers -> JobRows]
                      /\ \A v \in Workers \ {w} : job'[v] = job[v]
  <2>1. ASSUME NEW held \in JobRows, job' = [job EXCEPT ![w] = held]
        PROVE  Moved
    BY <1>1, <2>1
  <2>2. ASSUME \/ \E step \in JobSteps : GoTo(w, step)
               \/ Fail(w) \/ \E completed \in BOOLEAN : Return(w, completed)
        PROVE  Moved
    <3>1. ASSUME NEW step \in JobSteps, GoTo(w, step)
          PROVE  Moved
      <4>1. job' = [job EXCEPT ![w] = [job[w] EXCEPT !.step = step]]
        BY <1>1, <3>1 DEF GoTo
      <4>2. [job[w] EXCEPT !.step = step] \in JobRows
        BY <1>1 DEF JobRows
      <4> QED
        BY <2>1, <4>1, <4>2
    <3>2. ASSUME NEW completed \in BOOLEAN, Return(w, completed)
          PROVE  Moved
      <4>1. [NoJob EXCEPT !.step = "finish", !.completed = completed] \in JobRows
        BY DEF NoJob, JobRows
      <4> QED
        BY <2>1, <3>2, <4>1 DEF Return
    <3>3. CASE Fail(w)
      <4>1. "idle" \in JobSteps /\ TRUE \in BOOLEAN
        OBVIOUS
      <4> QED
        BY <1>1, <3>3, <4>1, JobMoves
    <3> QED
      BY <2>2, <3>1, <3>2, <3>3
  <2>3. CASE LoadDeletionMaterial(w)
    <3>1. /\ (channel.key = "stored") \in BOOLEAN
          /\ (ledger.keys \/ RowExists) \in BOOLEAN
      OBVIOUS
    <3>2. \A token \in BOOLEAN, key \in BOOLEAN :
            [NoJob EXCEPT !.step = "revoke", !.token = token, !.key = key] \in JobRows
      BY DEF NoJob, JobRows
    <3>3. Fail(w) \/ job' = [job EXCEPT ![w] =
            [NoJob EXCEPT !.step = "revoke", !.token = (channel.key = "stored"),
                          !.key = (ledger.keys \/ RowExists)]]
      BY <2>3 DEF LoadDeletionMaterial
    <3>4. CASE Fail(w)
      BY <2>2, <3>4
    <3>5. CASE ~ Fail(w)
      <4>1. [NoJob EXCEPT !.step = "revoke", !.token = (channel.key = "stored"),
                          !.key = (ledger.keys \/ RowExists)] \in JobRows
        BY <3>1, <3>2, Zenon
      <4> QED
        BY <2>1, <3>3, <3>5, <4>1, Zenon
    <3> QED
      BY <3>4, <3>5
  <2>4. CASE RevokeForDeletion(w)
    BY <2>2, <2>4 DEF RevokeForDeletion
  <2>5. CASE DeleteObjects(w)
    <3>1. [job[w] EXCEPT !.step = "complete", !.undeleted = TRUE] \in JobRows
      BY <1>1 DEF JobRows
    <3>2. \/ GoTo(w, "complete") \/ Fail(w)
          \/ job' = [job EXCEPT ![w] = [job[w] EXCEPT !.step = "complete", !.undeleted = TRUE]]
      BY <1>1, <2>5 DEF DeleteObjects
    <3> QED
      BY <2>1, <2>2, <3>1, <3>2
  <2>6. CASE CompleteWorkspaceDataDeletion(w)
    <3>1. (ledger'.state = "completed") \in BOOLEAN
      OBVIOUS
    <3>2. Return(w, TRUE) \/ Fail(w) \/ Return(w, ledger'.state = "completed")
      BY <2>6, Zenon DEF CompleteWorkspaceDataDeletion
    <3> QED
      BY <2>2, <3>1, <3>2, Zenon
  <2>7. CASE RequestCleanup(w) \/ AwaitCleanup(w) \/ PrepareIdentityDeletion(w)
             \/ DeleteIdentity(w) \/ CompleteAccountDeletion(w)
    BY <2>2, <2>7 DEF RequestCleanup, AwaitCleanup, PrepareIdentityDeletion,
       DeleteIdentity, CompleteAccountDeletion
  <2> QED
    BY <2>3, <2>4, <2>5, <2>6, <2>7 DEF Works
<1> QED
  BY <1>2, <1>3, <1>4

LEMMA WorkTyped ==
  ASSUME TypeOK, NEW w \in Workers, Works(w)
  PROVE  TypeOK'
<1>1. ControlTyped /\ MembersTyped /\ RequestsTyped /\ DataTyped /\ JobsTyped
  BY TypeParts
<1>2. /\ serving[w].operation # NoOperation
      /\ job' \in [Workers -> JobRows]
      /\ \A v \in Workers \ {w} : job'[v] = job[v]
      /\ UNCHANGED <<operation, serving, request, begun, ownerLock, slipped, cleaner,
                     refused>>
  BY WorksAlone
<1>3. JobsTyped' /\ RequestsTyped'
  BY <1>1, <1>2, Unchanged DEF JobsTyped
<1>4. ControlTyped'
  <2>1. UNCHANGED budget \/ \E kind : Spend(kind)
    BY DEF Works, LoadDeletionMaterial, RevokeForDeletion, DeleteObjects,
       CompleteWorkspaceDataDeletion, RequestCleanup, AwaitCleanup,
       PrepareIdentityDeletion, DeleteIdentity, CompleteAccountDeletion, controlVars
  <2>2. budget' \in 0..MaxFaults
    BY <1>1, <2>1, ControlAssumption DEF ControlTyped, Spend
  <2> QED
    BY <1>1, <1>2, <2>2 DEF ControlTyped
<1>5. MembersTyped'
  <2>1. CASE CompleteWorkspaceDataDeletion(w)
    <3>1. UNCHANGED <<account, slipped>> /\ (DeleteLocalData \/ KeepLocalData)
      BY <2>1 DEF CompleteWorkspaceDataDeletion
    <3>2. CASE DeleteLocalData
      <4>1. FallbackSessions \in [Users -> Places]
        BY <1>1 DEF FallbackSessions, MembersTyped
      <4> QED
        BY <1>1, <3>1, <3>2, <4>1 DEF DeleteLocalData, MembersTyped
    <3>3. CASE KeepLocalData
      BY <1>1, <3>1, <3>3 DEF KeepLocalData, MembersTyped
    <3> QED
      BY <3>1, <3>2, <3>3
  <2>2. CASE PrepareIdentityDeletion(w) \/ CompleteAccountDeletion(w)
    BY <1>1, <1>2, <2>2 DEF PrepareIdentityDeletion, CompleteAccountDeletion, RunOnly,
       MembersTyped
  <2> QED
    BY <1>1, <2>1, <2>2, Unchanged DEF Works, LoadDeletionMaterial, RevokeForDeletion,
       DeleteObjects, RequestCleanup, AwaitCleanup, DeleteIdentity, DataOnly, RunOnly
<1>6. DataTyped'
  <2>0. asset \in AssetRows /\ channel \in ChannelRows /\ ledger \in LedgerRows
    BY <1>1 DEF DataTyped
  <2>1. CASE LoadDeletionMaterial(w)
    <3>1. ledger' \in LedgerRows
      BY <2>0, <2>1 DEF LoadDeletionMaterial, LedgerResumed, LedgerRows
    <3> QED
      BY <1>1, <1>2, <2>1, <3>1 DEF LoadDeletionMaterial, DataTyped
  <2>2. CASE DeleteObjects(w)
    <3>1. asset' \in AssetRows
      BY <2>0, <2>2 DEF DeleteObjects, AssetRows
    <3> QED
      BY <1>1, <1>2, <2>2, <3>1 DEF DeleteObjects, DataTyped
  <2>3. CASE CompleteWorkspaceDataDeletion(w)
    <3>1. asset' \in AssetRows /\ channel' \in ChannelRows
      BY <2>0, <2>3 DEF CompleteWorkspaceDataDeletion, DeleteLocalData, KeepLocalData,
         AssetRows, ChannelRows
    <3>2. ledger' \in LedgerRows
      <4>1. UNCHANGED ledger \/ ledger' = LedgerAfter(w, channel'.key)
        BY <2>3 DEF CompleteWorkspaceDataDeletion
      <4>2. /\ [ledger EXCEPT !.state = "processing"] \in LedgerRows
            /\ [state |-> "failed", keys |-> TRUE] \in LedgerRows
            /\ [state |-> "completed", keys |-> FALSE] \in LedgerRows
        BY <2>0 DEF LedgerRows
      <4> QED
        BY <2>0, <4>1, <4>2 DEF LedgerAfter
    <3>3. leaks' \subseteq Leaks
      BY <1>1, <2>3 DEF CompleteWorkspaceDataDeletion, DataTyped, Leaks
    <3> QED
      BY <1>1, <1>2, <2>3, <3>1, <3>2, <3>3 DEF CompleteWorkspaceDataDeletion, DataTyped
  <2>4. CASE RequestCleanup(w)
    <3>1. channel' \in ChannelRows
      BY <2>0, <2>4 DEF RequestCleanup, ChannelRows
    <3> QED
      BY <1>1, <1>2, <2>4, <3>1 DEF RequestCleanup, DataTyped
  <2>5. CASE RevokeForDeletion(w) \/ AwaitCleanup(w) \/ PrepareIdentityDeletion(w)
             \/ DeleteIdentity(w) \/ CompleteAccountDeletion(w)
    BY <1>1, <1>2, <2>5 DEF RevokeForDeletion, AwaitCleanup, PrepareIdentityDeletion,
       DeleteIdentity, CompleteAccountDeletion, DataTyped
  <2> QED
    BY <2>1, <2>2, <2>3, <2>4, <2>5 DEF Works
<1> QED
  BY <1>3, <1>4, <1>5, <1>6, TypePartsPrimed

(* A claim, and the ends of a run. *)
Turns(w) ==
  \/ \E o \in Operations : Claim(w, o)
  \/ Finish(w) \/ FinishFailed(w) \/ LoseClaim(w) \/ Crash(w)

LEMMA TurnsAlone ==
  ASSUME TypeOK, NEW w \in Workers, Turns(w)
  PROVE  /\ ControlTyped' /\ JobsTyped'
         /\ UNCHANGED <<membershipVars, asset, cleaner, channel, identity, refused, leaks>>
         /\ \A v \in Workers \ {w} : job'[v] = job[v] /\ serving'[v] = serving[v]
         /\ \/ job'[w] = NoJob /\ serving'[w] = NotServing
            \/ /\ job'[w].step \in {"load", "cleanup"}
               /\ \E o \in Operations : ClaimOperation(w, o)
<1>1. ControlTyped /\ JobsTyped
  BY TypeParts
<1>2. ControlTyped'
  BY <1>1, ControlMovesTyped DEF Turns, Claim, Finish, FinishFailed, LoseClaim, Crash
<1>3. UNCHANGED <<membershipVars, asset, cleaner, channel, identity, refused, leaks>>
  BY DEF Turns, Claim, Finish, FinishFailed, LoseClaim, Crash, EndOnly
<1>4. \A v \in Workers \ {w} : job'[v] = job[v] /\ serving'[v] = serving[v]
  <2>1. \A v \in Workers \ {w} : job'[v] = job[v]
    BY <1>1 DEF Turns, Claim, Finish, FinishFailed, LoseClaim, Crash, GoTo, DropJob,
       JobsTyped
  <2>2. \A v \in Workers \ {w} : serving'[v] = serving[v]
    BY <1>1 DEF Turns, Claim, Finish, FinishFailed, LoseClaim, Crash, ClaimOperation,
       FinishOperation, StandDown, CrashServing, StopServing, ControlTyped
  <2> QED
    BY <2>1, <2>2
<1>5. CASE \E o \in Operations : Claim(w, o)
  <2>1. PICK o \in Operations, step \in {"load", "cleanup"} :
          ClaimOperation(w, o) /\ GoTo(w, step)
    BY <1>5 DEF Claim
  <2>2. job'[w].step = step /\ job' \in [Workers -> JobRows]
    <3>1. step \in JobSteps /\ TRUE \in BOOLEAN /\ job[w] \in JobRows
      BY <1>1 DEF JobsTyped
    <3>2. job'[w] = [job[w] EXCEPT !.step = step] /\ job' \in [Workers -> JobRows]
      BY <1>1, <2>1, <3>1, JobMoves
    <3> QED
      BY <3>1, <3>2 DEF JobRows
  <2>3. serving'[w].operation # NoOperation
    BY <1>1, <2>1, ControlAssumption DEF ClaimOperation, ControlTyped
  <2>4. JobsTyped'
    BY <1>1, <1>4, <2>2, <2>3 DEF JobsTyped
  <2> QED
    BY <1>2, <1>3, <1>4, <2>1, <2>2, <2>4
<1>6. CASE Finish(w) \/ FinishFailed(w) \/ LoseClaim(w) \/ Crash(w)
  <2>1. DropJob(w) /\ StopServing(w)
    BY <1>6 DEF Finish, FinishFailed, LoseClaim, Crash, FinishOperation, StandDown,
       CrashServing
  <2>2. job'[w] = NoJob /\ job' \in [Workers -> JobRows]
    BY <1>1, <2>1, JobMoves
  <2>3. serving'[w] = NotServing
    BY <1>1, <2>1 DEF StopServing, ControlTyped
  <2>4. JobsTyped'
    BY <1>1, <1>4, <2>2 DEF JobsTyped
  <2> QED
    BY <1>2, <1>3, <1>4, <2>2, <2>3, <2>4
<1> QED
  BY <1>5, <1>6 DEF Turns

LEMMA TurnTyped ==
  ASSUME TypeOK, NEW w \in Workers, Turns(w)
  PROVE  TypeOK'
<1>1. ControlTyped /\ MembersTyped /\ RequestsTyped /\ DataTyped /\ JobsTyped
  BY TypeParts
<1>2. /\ ControlTyped' /\ JobsTyped'
      /\ UNCHANGED <<membershipVars, asset, cleaner, channel, identity, refused, leaks>>
  BY TurnsAlone
<1>3. ledger' \in LedgerRows
  <2>1. ledger \in LedgerRows
    BY <1>1 DEF DataTyped
  <2> QED
    BY <2>1 DEF Turns, Claim, Finish, FinishFailed, LoseClaim, Crash, FailedLedger,
       LedgerRows
<1>4. MembersTyped' /\ RequestsTyped' /\ DataTyped'
  BY <1>1, <1>2, <1>3, Unchanged DEF membershipVars, DataTyped
<1> QED
  BY <1>2, <1>4, TypePartsPrimed

(* Every step is one of these. *)
LEMMA RunSteps ==
  ASSUME NEW w \in Workers, Run(w)
  PROVE  Works(w) \/ Turns(w)
BY DEF Run, Works, Turns

LEMMA TypePreserved ==
  ASSUME TypeOK, [Next]_vars
  PROVE  TypeOK'
<1>1. CASE UNCHANGED vars
  <2>1. UNCHANGED <<controlVars, workspace, member, invited, session, account, slipped,
                    request, begun, ownerLock, asset, cleaner, channel, ledger, identity,
                    refused, leaks, serving, job>>
    BY <1>1 DEF vars, membershipVars, dataVars, controlVars
  <2> QED
    BY <2>1, TypeParts, TypePartsPrimed, Unchanged
<1>2. CASE MemberStep /\ UNCHANGED <<controlVars, dataVars>>
  BY <1>2, MemberTyped
<1>3. ASSUME NEW r \in Requests, Request(r)
      PROVE  TypeOK'
  BY <1>3, RequestTyped
<1>4. ASSUME NEW w \in Workers, Run(w)
      PROVE  TypeOK'
  BY <1>4, RunSteps, WorkTyped, TurnTyped
<1> QED
  BY <1>1, <1>2, <1>3, <1>4, DataStepTyped DEF Next


-----------------------------------------------------------------------------
(* The beginning, and what no step takes back *)

LEMMA InitSound ==
  ASSUME Init
  PROVE  IInv
<1> USE DEF Init, ControlInit, MembershipInit
<1>1. TypeOK
  <2>1. Absent \in OperationRows /\ NotServing \in ServingRows /\ NoAsset \in AssetRows
        /\ NoChannel \in ChannelRows /\ NoJob \in JobRows
    BY DEF Absent, OperationRows, NotServing, ServingRows, NoAsset, AssetRows, NoChannel,
       ChannelRows, NoJob, JobRows
  <2>2. NoRequestYet \in RequestRows /\ 0 \in 0..MaxRequests /\ MaxFaults \in 0..MaxFaults
    BY MembershipAssumption, ControlAssumption DEF NoRequestYet, RequestRows
  <2>3. ControlTyped /\ MembersTyped /\ RequestsTyped /\ JobsTyped
    BY <2>1, <2>2 DEF ControlTyped, MembersTyped, RequestsTyped, JobsTyped
  <2>4. DataTyped
    BY <2>1 DEF DataTyped, LedgerRows
  <2> QED
    BY <2>3, <2>4, TypeParts
<1>2. \A r \in Requests : request[r].kind = "none" /\ request[r].step = "idle"
  BY DEF NoRequestYet
<1>3. \A o \in Operations : operation[o].state = "absent"
  BY DEF Absent
<1>4. \A w \in Workers : serving[w].operation = NoOperation /\ job[w].step = "idle"
  BY DEF NotServing, NoJob
<1>5. OwnersSafe
  BY DEF OwnersSafe, OwnerRemains
<1>6. AssetSound /\ RequestsSound
  BY <1>2 DEF AssetSound, RequestsSound, CompleteHasObject, NoAsset, RowExists, Running
<1>7. Asked
  BY <1>3, <1>4, Named DEF Asked
<1>8. ChannelSound /\ PeopleSound /\ LedgerSound
  BY DEF ChannelSound, PeopleSound, LedgerSound, NoChannel
<1>9. RunsSound
  BY <1>4, Named DEF RunsSound, WorkspaceRunSound, AccountRunsSound, HoldsClaim
<1> QED
  BY <1>1, <1>5, <1>6, <1>7, <1>8, <1>9 DEF IInv

(* What no step takes back: an identity that is gone, an account that is closed, a row
   of an operation, a deletion. *)
Forward ==
  /\ identity' \subseteq identity
  /\ leaks \subseteq leaks'
  /\ \A u \in Users : account[u] # "active" => account'[u] # "active"
  /\ \A o \in Operations : operation[o].state # "absent" => operation'[o].state # "absent"
  /\ workspace = "deleted" => workspace' = "deleted"
  /\ workspace' \in {"absent", "active"} =>
       workspace' = workspace \/ workspace = "absent"

(* A claim that lives after a step of the control plane lived before it, or is taken by
   it; so far as it is not of the worker itself, a step only ends claims. *)
ControlForward ==
  /\ \A o \in Operations : operation'[o].state # "absent" <=> operation[o].state # "absent"
  /\ \A w \in Workers :
       \/ serving'[w] = serving[w]
       \/ serving'[w] = NotServing
       \/ \E o \in Operations : ClaimOperation(w, o)
  /\ \A w \in Workers : HoldsClaim(w)' =>
       HoldsClaim(w) \/ \E o \in Operations : ClaimOperation(w, o)

ControlMoves ==
  \/ \E o \in Operations : ExpireClaim(o) \/ PassDeadline(o)
  \/ \E w \in Workers :
       \/ StandDown(w) \/ CrashServing(w)
       \/ \E o \in Operations : ClaimOperation(w, o)
       \/ \E state \in {"waiting", "completed"} : FinishOperation(w, state)

LEMMA ControlMovesForward ==
  ASSUME ControlTyped, ControlMoves
  PROVE  ControlForward
<1> USE DEF ControlTyped
<1>1. /\ operation \in [Operations -> OperationRows] /\ serving \in [Workers -> ServingRows]
      /\ \A o \in Operations : operation[o] \in OperationRows
      /\ \A w \in Workers : serving[w] \in ServingRows
  OBVIOUS
<1>2. ASSUME NEW w \in Workers, NEW o \in Operations, ClaimOperation(w, o)
      PROVE  ControlForward
  <2>1. operation' = [operation EXCEPT ![o] =
                         [operation[o] EXCEPT !.state = "claimed", !.owner = w, !.live = TRUE]]
    BY <1>1, <1>2 DEF ClaimOperation
  <2>2. /\ operation'[o].state = "claimed" /\ operation'[o].owner = w
        /\ operation[o].state # "absent"
        /\ \A p \in Operations \ {o} : operation'[p] = operation[p]
    BY <1>1, <1>2, <2>1 DEF OperationRows, ClaimOperation, Claimable
  <2>3. \A v \in Workers \ {w} : serving'[v] = serving[v]
    BY <1>1, <1>2 DEF ClaimOperation
  <2>4. ASSUME NEW v \in Workers \ {w}, HoldsClaim(v)'
        PROVE  HoldsClaim(v)
    BY <1>1, <2>2, <2>3, <2>4 DEF HoldsClaim, ServingRows
  <2> QED
    BY <1>2, <2>2, <2>3, <2>4 DEF ControlForward
<1>3. ASSUME NEW w \in Workers, NEW state \in {"waiting", "completed"},
             FinishOperation(w, state)
      PROVE  ControlForward
  <2> DEFINE o == serving[w].operation
  <2>1. /\ serving'[w] = NotServing
        /\ \A v \in Workers \ {w} : serving'[v] = serving[v]
    BY <1>1, <1>3 DEF FinishOperation, StopServing
  <2>2. CASE operation' = operation
    <3>1. \A v \in Workers : HoldsClaim(v)' => HoldsClaim(v)
      BY <2>1, <2>2 DEF HoldsClaim, NotServing
    <3> QED
      BY <2>1, <2>2, <3>1 DEF ControlForward
  <2>3. CASE /\ HoldsClaim(w)
             /\ operation' = [operation EXCEPT ![o] = FinishedRow(operation[o], state)]
    <3>1. o \in Operations /\ operation[o] \in OperationRows
          /\ operation[o].state = "claimed"
      BY <1>1, <2>3 DEF HoldsClaim, ServingRows
    <3>2. FinishedRow(operation[o], state).state = state
      BY <3>1 DEF FinishedRow, OperationRows
    <3>3. /\ operation'[o].state # "absent" /\ operation'[o].state # "claimed"
          /\ \A p \in Operations \ {o} : operation'[p] = operation[p]
      BY <1>1, <2>3, <3>1, <3>2
    <3>4. \A v \in Workers : HoldsClaim(v)' => HoldsClaim(v)
      BY <1>1, <2>1, <3>3 DEF HoldsClaim, NotServing, ServingRows
    <3> QED
      BY <2>1, <3>1, <3>3, <3>4 DEF ControlForward
  <2> QED
    BY <1>1, <1>3, <2>2, <2>3 DEF FinishOperation
<1>4. ASSUME NEW w \in Workers, StandDown(w) \/ CrashServing(w)
      PROVE  ControlForward
  <2>1. /\ serving'[w] = NotServing /\ UNCHANGED operation
        /\ \A v \in Workers \ {w} : serving'[v] = serving[v]
    BY <1>1, <1>4 DEF StandDown, CrashServing, StopServing
  <2>2. \A v \in Workers : HoldsClaim(v)' => HoldsClaim(v)
    BY <2>1 DEF HoldsClaim, NotServing
  <2> QED
    BY <2>1, <2>2 DEF ControlForward
<1>5. ASSUME NEW o \in Operations, ExpireClaim(o) \/ PassDeadline(o)
      PROVE  ControlForward
  <2>1. /\ UNCHANGED serving
        /\ \A p \in Operations :
             /\ operation'[p].state = operation[p].state
             /\ operation'[p].owner = operation[p].owner
             /\ operation'[p].live => operation[p].live
    BY <1>1, <1>5 DEF ExpireClaim, PassDeadline, OperationRows
  <2>2. \A v \in Workers : HoldsClaim(v)' => HoldsClaim(v)
    BY <1>1, <2>1 DEF HoldsClaim, ServingRows
  <2> QED
    BY <2>1, <2>2 DEF ControlForward
<1> QED
  BY <1>2, <1>3, <1>4, <1>5 DEF ControlMoves

(* What each kind of step leaves alone, once and for all. *)
LEMMA MemberStepLeaves ==
  ASSUME TypeOK, MemberStep, UNCHANGED <<controlVars, dataVars>>
  PROVE  Forward
<1>1. UNCHANGED <<operation, identity, leaks, account>>
  BY DEF MemberStep, dataVars, controlVars, BeginMemberRequest, BeginWorkspaceRequest,
     BeginAccountRequest, NewRequest, ReadMembership, AlterUnguarded, AlterGuarded,
     CheckSuccessor, LogIn, LogOut, SelectWorkspace, CreateWorkspace, AcceptInvitation
<1>2. workspace' = workspace \/ (workspace = "absent" /\ workspace' = "active")
  BY DEF MemberStep, BeginMemberRequest, BeginWorkspaceRequest, BeginAccountRequest,
     NewRequest, ReadMembership, AlterUnguarded, AlterGuarded, CheckSuccessor, LogIn,
     LogOut, SelectWorkspace, CreateWorkspace, AcceptInvitation
<1> QED
  BY <1>1, <1>2 DEF Forward

(* A request changes its own slot, and the history. *)
LEMMA RequestLeaves ==
  ASSUME TypeOK, NEW r \in Requests, Request(r)
  PROVE  /\ Forward
         /\ UNCHANGED <<serving, cleaner, identity, job>>
         /\ \A other \in Requests \ {r} : request'[other] = request[other]
         /\ request[r].kind # "none"
         /\ \/ request'[r] = NoRequestYet
            \/ StatUpload(r) /\ PendingUpload /\ asset.object # "absent"
               /\ request'[r] = [request[r] EXCEPT !.step = asset.object]
         /\ \A o \in Operations :
              operation[o].state # "absent" => operation'[o] = operation[o]
<1>1. ControlTyped /\ RequestsTyped /\ DataTyped /\ JobsTyped /\ MembersTyped
  BY TypeParts
<1>2. UNCHANGED <<serving, cleaner, identity, job>> /\ leaks \subseteq leaks'
  BY DEF Request, RequestAccountDeletion, CreateInvitation, BeginUpload, StatUpload,
     CompleteSourceAsset, RejectUpload, CreateContent, Connect,
     BeginWorkspaceDataDeletion, RequestsOnly, ChannelOnly, controlVars, dataVars, Late
<1>3. /\ request[r].kind # "none"
      /\ \/ Ended(r)
         \/ StatUpload(r) /\ PendingUpload /\ asset.object # "absent"
            /\ StepTo(r, asset.object)
  BY DEF Request, RequestAccountDeletion, CreateInvitation, BeginUpload, StatUpload,
     CompleteSourceAsset, RejectUpload, CreateContent, Connect,
     BeginWorkspaceDataDeletion, Running
<1>4. asset.object # "absent" => asset.object \in RequestSteps
  BY <1>1 DEF DataTyped, AssetRows
<1>5. /\ \A other \in Requests \ {r} : request'[other] = request[other]
      /\ \/ request'[r] = NoRequestYet
         \/ StatUpload(r) /\ PendingUpload /\ asset.object # "absent"
            /\ request'[r] = [request[r] EXCEPT !.step = asset.object]
  <2>1. CASE Ended(r)
    <3>1. "idle" \in RequestSteps
      OBVIOUS
    <3> QED
      BY <1>1, <2>1, <3>1, RequestMoves
  <2>2. CASE /\ StatUpload(r) /\ PendingUpload /\ asset.object # "absent"
             /\ StepTo(r, asset.object)
    <3>1. asset.object \in RequestSteps
      BY <1>4, <2>2
    <3>2. request' = [request EXCEPT ![r] = [request[r] EXCEPT !.step = asset.object]]
      BY <1>1, <2>2 DEF StepTo, RequestsTyped
    <3> QED
      BY <1>1, <2>2, <3>2 DEF RequestsTyped
  <2> QED
    BY <1>3, <2>1, <2>2
<1>6. \A o \in Operations : operation[o].state # "absent" => operation'[o] = operation[o]
  <2>1. CASE RequestAccountDeletion(r)
    BY <1>1, <2>1, EnqueuedRows DEF RequestAccountDeletion
  <2>2. CASE BeginWorkspaceDataDeletion(r)
    BY <1>1, <2>2, EnqueuedRows DEF BeginWorkspaceDataDeletion
  <2> QED
    BY <2>1, <2>2 DEF Request, CreateInvitation, BeginUpload, StatUpload,
       CompleteSourceAsset, RejectUpload, CreateContent, Connect, RequestsOnly,
       ChannelOnly, controlVars
<1>7. \A u \in Users : account[u] # "active" => account'[u] # "active"
  <2>1. CASE RequestAccountDeletion(r)
    BY <1>1, <2>1 DEF RequestAccountDeletion, MembersTyped
  <2> QED
    BY <2>1 DEF Request, CreateInvitation, BeginUpload, StatUpload,
       CompleteSourceAsset, RejectUpload, CreateContent, Connect, RequestsOnly,
       ChannelOnly, membershipVars, BeginWorkspaceDataDeletion
<1>8. workspace' = workspace \/ (workspace # "deleted" /\ workspace' = "deletion_pending")
  BY DEF Request, RequestAccountDeletion, CreateInvitation, BeginUpload, StatUpload,
     CompleteSourceAsset, RejectUpload, CreateContent, Connect,
     BeginWorkspaceDataDeletion, RequestsOnly, ChannelOnly, membershipVars
<1>9. Forward
  BY <1>2, <1>6, <1>7, <1>8 DEF Forward
<1> QED
  BY <1>2, <1>3, <1>5, <1>6, <1>9

(* The steps that nobody asks for: the browser's, the cleanup's, the channel's, time's. *)
DataStep ==
  \/ \E content \in {"good", "bad"} : PutObject(content)
  \/ ClaimExpiredUpload \/ DeleteExpiredObject \/ CompleteCleanup
  \/ UseChannel \/ DisconnectChannel \/ RetireKey
  \/ \E o \in Operations : TimePasses(o)

LEMMA DataStepLeaves ==
  ASSUME TypeOK, DataStep
  PROVE  /\ Forward /\ ControlForward
         /\ UNCHANGED <<membershipVars, serving, ledger, identity, job>>
<1>1. ControlTyped
  BY TypeParts
<1>2. UNCHANGED <<membershipVars, serving, ledger, identity, job>> /\ leaks \subseteq leaks'
  BY DEF DataStep, PutObject, ClaimExpiredUpload, DeleteExpiredObject, CompleteCleanup,
     UseChannel, DisconnectChannel, RetireKey, TimePasses, CleanerOnly, ChannelOnly,
     ExpireClaim, PassDeadline, membershipVars, dataVars, controlVars
<1>3. ControlForward
  <2>1. CASE UNCHANGED <<operation, serving>>
    BY <2>1 DEF ControlForward, HoldsClaim
  <2>2. ASSUME NEW o \in Operations, TimePasses(o)
        PROVE  ControlForward
    BY <1>1, <2>2, ControlMovesForward DEF TimePasses, ControlMoves
  <2> QED
    BY <2>1, <2>2 DEF DataStep, PutObject, ClaimExpiredUpload, DeleteExpiredObject,
       CompleteCleanup, UseChannel, DisconnectChannel, RetireKey, CleanerOnly,
       ChannelOnly, controlVars
<1> QED
  BY <1>2, <1>3 DEF Forward, ControlForward, membershipVars

LEMMA WorkLeaves ==
  ASSUME TypeOK, NEW w \in Workers, Works(w)
  PROVE  Forward
<1>1. ControlTyped /\ MembersTyped
  BY TypeParts
<1>2. UNCHANGED operation
  BY WorksAlone
<1>3. identity' \subseteq identity /\ leaks \subseteq leaks'
  BY DEF Works, LoadDeletionMaterial, RevokeForDeletion, DeleteObjects,
     CompleteWorkspaceDataDeletion, RequestCleanup, AwaitCleanup, PrepareIdentityDeletion,
     DeleteIdentity, CompleteAccountDeletion
<1>4. \A u \in Users : account[u] # "active" => account'[u] # "active"
  <2>1. CASE CompleteAccountDeletion(w)
    BY <1>1, <2>1 DEF CompleteAccountDeletion, MembersTyped
  <2> QED
    BY <2>1 DEF Works, LoadDeletionMaterial, RevokeForDeletion, DeleteObjects,
       CompleteWorkspaceDataDeletion, RequestCleanup, AwaitCleanup,
       PrepareIdentityDeletion, DeleteIdentity, DataOnly
<1>5. workspace' = workspace \/ workspace' = "deleted"
  BY DEF Works, LoadDeletionMaterial, RevokeForDeletion, DeleteObjects,
     CompleteWorkspaceDataDeletion, DeleteLocalData, KeepLocalData, RequestCleanup,
     AwaitCleanup, PrepareIdentityDeletion, DeleteIdentity, CompleteAccountDeletion,
     DataOnly
<1> QED
  BY <1>2, <1>3, <1>4, <1>5 DEF Forward

LEMMA TurnLeaves ==
  ASSUME TypeOK, NEW w \in Workers, Turns(w)
  PROVE  Forward /\ ControlForward
<1>1. ControlTyped
  BY TypeParts
<1>2. ControlForward
  BY <1>1, ControlMovesForward DEF Turns, Claim, Finish, FinishFailed, LoseClaim, Crash,
     ControlMoves
<1>3. UNCHANGED <<workspace, account, identity, leaks>>
  BY TurnsAlone DEF membershipVars
<1> QED
  BY <1>2, <1>3 DEF Forward, ControlForward

(* The kinds of step. *)
LEMMA StepKinds ==
  ASSUME [Next]_vars
  PROVE  \/ UNCHANGED vars
         \/ MemberStep /\ UNCHANGED <<controlVars, dataVars>>
         \/ \E r \in Requests : Request(r)
         \/ DataStep
         \/ \E w \in Workers : Works(w)
         \/ \E w \in Workers : Turns(w)
BY RunSteps DEF Next, DataStep

-----------------------------------------------------------------------------
(* Owners *)

(* A step that takes no owner, or leaves a mark if it does. *)
LEMMA OwnersKept ==
  ASSUME TypeOK, OwnersSafe, UNCHANGED ownerLock,
         ownerLock # NoRequest => request'[ownerLock].user = request[ownerLock].user,
         slipped => slipped',
         workspace' = "active" => workspace = "active",
         workspace # "absent" => workspace' # "absent",
         workspace' = "active" /\ ~ slipped' =>
           \A u \in Users : member[u] = Owner /\ account[u] = "active" =>
                              member'[u] = Owner /\ account'[u] = "active"
  PROVE  OwnersSafe'
BY DEF OwnersSafe, OwnerRemains, Succeeds

LEMMA OwnersMember ==
  ASSUME IInv, MemberStep, UNCHANGED <<controlVars, dataVars>>
  PROVE  OwnersSafe'
<1>1. TypeOK /\ OwnersSafe /\ MembersTyped /\ RequestsTyped
  BY TypeParts DEF IInv
<1>2. ASSUME NEW r \in Requests,
             BeginMemberRequest(r) \/ BeginWorkspaceRequest(r) \/ BeginAccountRequest(r)
      PROVE  OwnersSafe'
  <2>1. ownerLock # NoRequest => request'[ownerLock] = request[ownerLock]
    BY <1>1, <1>2, BeginTyped DEF RequestsTyped, Running
  <2>2. UNCHANGED <<workspace, member, invited, session, account, ownerLock, slipped>>
    BY <1>1, <1>2, BeginTyped
  <2> QED
    BY <1>1, <2>1, <2>2, OwnersKept
<1>3. ASSUME NEW r \in Requests, ReadMembership(r) \/ AlterUnguarded(r)
      PROVE  OwnersSafe'
  <2>1. /\ UNCHANGED <<workspace, account, ownerLock>> /\ (slipped => slipped')
        /\ StepTo(r, "guarded") \/ StepTo(r, "plain") \/ Ended(r)
        /\ ownerLock # NoRequest => ownerLock # r
    <3>1. UNCHANGED <<workspace, account, ownerLock>>
      BY <1>3 DEF ReadMembership, AlterUnguarded
    <3>4. slipped => slipped'
      BY <1>3, Zenon DEF ReadMembership, AlterUnguarded
    <3>2. StepTo(r, "guarded") \/ StepTo(r, "plain") \/ Ended(r)
      BY <1>3, Zenon DEF ReadMembership, AlterUnguarded
    <3>3. ownerLock # NoRequest => ownerLock # r
      BY <1>1, <1>3 DEF ReadMembership, AlterUnguarded, RequestsTyped, Running
    <3> QED
      BY <3>1, <3>2, <3>3, <3>4
  <2>2. ownerLock # NoRequest => request'[ownerLock] = request[ownerLock]
    BY <1>1, <2>1, RequestMoves DEF RequestsTyped
  <2>3. workspace = "active" /\ ~ slipped' =>
          \A u \in Users : member[u] = Owner /\ account[u] = "active" =>
                             member'[u] = Owner /\ account'[u] = "active"
    BY <1>3, <2>1 DEF ReadMembership, AlterUnguarded, TakesOwner, EligibleOwners
  <2> QED
    BY <1>1, <2>1, <2>2, <2>3, OwnersKept
<1>4. ASSUME NEW r \in Requests, AlterGuarded(r)
      PROVE  OwnersSafe'
  <2>1. ownerLock = NoRequest /\ UNCHANGED <<workspace, account, ownerLock, slipped>>
    BY <1>4 DEF AlterGuarded, OwnerLockTaken
  <2>2. CASE UNCHANGED member
    BY <1>1, <2>1, <2>2, OwnersKept
  <2>3. CASE /\ ~ Cardinality(EligibleOwners(member, account)) <= 1
             /\ member' = AlteredMembers(request[r])
    <3> DEFINE eligible == EligibleOwners(member, account)
               target == request[r].target
    <3>1. IsFiniteSet(eligible)
      BY MembershipAssumption, FS_Subset DEF EligibleOwners
    <3>2. ~ eligible \subseteq {target}
      <4>1. IsFiniteSet({target}) /\ Cardinality({target}) = 1
        BY FS_Singleton
      <4>2. eligible \subseteq {target} => Cardinality(eligible) <= 1
        BY <4>1, FS_Subset
      <4> QED
        BY <2>3, <4>2
    <3>3. PICK v \in eligible : v # target
      BY <3>2
    <3>4. v \in Users /\ member'[v] = Owner /\ account'[v] = "active"
      BY <1>1, <2>1, <2>3, <3>3 DEF EligibleOwners, AlteredMembers, MembersTyped
    <3> QED
      BY <2>1, <3>4 DEF OwnersSafe, OwnerRemains
  <2> QED
    BY <1>4, <2>2, <2>3 DEF AlterGuarded
<1>5. ASSUME NEW r \in Requests, CheckSuccessor(r)
      PROVE  OwnersSafe'
  <2> DEFINE u == request[r].user
  <2>1. /\ UNCHANGED <<workspace, member, account, slipped>>
        /\ \E step \in RequestSteps : StepTo(r, step) \/ Ended(r)
        /\ ownerLock # NoRequest => ownerLock # r
    BY <1>1, <1>5 DEF CheckSuccessor, RequestsTyped, Running
  <2>2. ownerLock # NoRequest => request'[ownerLock] = request[ownerLock]
    BY <1>1, <2>1, RequestMoves DEF RequestsTyped
  <2>3. CASE UNCHANGED ownerLock
    BY <1>1, <2>1, <2>2, <2>3, OwnersKept
  <2>4. CASE /\ OwnsWorkspace(u) /\ ~ LacksSuccessor(u)
             /\ StepTo(r, "checked") /\ ownerLock' = r
    <3>1. request'[r] = [request[r] EXCEPT !.step = "checked"] /\ request[r] \in RequestRows
      BY <1>1, <2>4, RequestMoves DEF RequestsTyped
    <3>2. request'[r].user = u
      BY <3>1 DEF RequestRows
    <3>3. PICK v \in Users : Succeeds(u, v)
      BY <2>4 DEF LacksSuccessor
    <3> QED
      BY <1>1, <2>1, <2>4, <3>2, <3>3 DEF OwnersSafe, OwnerRemains, Succeeds,
         OwnsWorkspace
  <2> QED
    BY <1>5, <2>3, <2>4 DEF CheckSuccessor
<1>6. ASSUME NEW u \in Users, LogIn(u) \/ LogOut(u) \/ SelectWorkspace(u)
      PROVE  OwnersSafe'
  <2>1. UNCHANGED <<workspace, member, account, request, ownerLock, slipped>>
    BY <1>6 DEF LogIn, LogOut, SelectWorkspace
  <2> QED
    BY <1>1, <2>1, OwnersKept
<1>7. ASSUME NEW u \in Users, CreateWorkspace(u)
      PROVE  OwnersSafe'
  <2>1. /\ workspace = "absent" /\ UNCHANGED <<account, ownerLock>>
        /\ member'[u] = Owner /\ account[u] = "active"
    BY <1>1, <1>7 DEF CreateWorkspace, Authenticated, MembersTyped
  <2>2. ownerLock' = NoRequest
    BY <1>1, <2>1 DEF OwnersSafe
  <2> QED
    BY <2>1, <2>2 DEF OwnersSafe, OwnerRemains
<1>8. ASSUME NEW u \in Users, AcceptInvitation(u)
      PROVE  OwnersSafe'
  <2>1. /\ UNCHANGED <<workspace, account, request, ownerLock>>
        /\ slipped' = (slipped \/ TakesOwner(member', account))
    BY <1>8 DEF AcceptInvitation
  <2>2. workspace = "active" /\ ~ slipped' =>
          \A v \in Users : member[v] = Owner /\ account[v] = "active" =>
                             member'[v] = Owner /\ account'[v] = "active"
    BY <2>1 DEF TakesOwner, EligibleOwners
  <2> QED
    BY <1>1, <2>1, <2>2, OwnersKept
<1> QED
  BY <1>2, <1>3, <1>4, <1>5, <1>6, <1>7, <1>8 DEF MemberStep

LEMMA OwnersRequest ==
  ASSUME IInv, NEW r \in Requests, Request(r)
  PROVE  OwnersSafe'
<1>1. TypeOK /\ OwnersSafe /\ MembersTyped /\ RequestsTyped
  BY TypeParts DEF IInv
<1>2. \A other \in Requests \ {r} : request'[other] = request[other]
  BY <1>1, RequestLeaves
<1>3. CASE RequestAccountDeletion(r)
  <2> DEFINE u == request[r].user
  <2>1. /\ UNCHANGED <<workspace, member>>
        /\ account' = [account EXCEPT ![u] = "deletion_pending"]
        /\ ownerLock' = IF ownerLock = r THEN NoRequest ELSE ownerLock
        /\ slipped' = (slipped \/ (ownerLock # r /\ TakesOwner(member, account')))
    BY <1>3 DEF RequestAccountDeletion
  <2>2. CASE ownerLock = r
    <3>1. ownerLock' = NoRequest /\ (workspace' = "active" => workspace = "active")
      BY <2>1, <2>2
    <3>2. ~ slipped' => ~ slipped
      BY <2>1, Zenon
    <3>3. ASSUME workspace = "active", ~ slipped
          PROVE  \E v \in Users : member'[v] = Owner /\ account'[v] = "active"
      <4>1. PICK v \in Users : Succeeds(u, v)
        BY <1>1, <2>2, <3>3, MembershipAssumption DEF OwnersSafe
      <4>2. member'[v] = Owner /\ account'[v] = "active"
        BY <1>1, <2>1, <4>1 DEF Succeeds, MembersTyped
      <4> QED
        BY <4>2
    <3> QED
      BY <3>1, <3>2, <3>3 DEF OwnersSafe, OwnerRemains
  <2>3. CASE ownerLock # r
    <3>1. UNCHANGED ownerLock
      BY <2>1, <2>3
    <3>2. ownerLock # NoRequest => request'[ownerLock] = request[ownerLock]
      BY <1>1, <1>2, <2>3 DEF RequestsTyped
    <3>3. slipped => slipped'
      BY <2>1, Zenon
    <3>4. workspace = "active" /\ ~ slipped' =>
            \A v \in Users : member[v] = Owner /\ account[v] = "active" =>
                               member'[v] = Owner /\ account'[v] = "active"
      <4>1. ~ slipped' => ~ TakesOwner(member, account')
        BY <2>1, <2>3, Zenon
      <4> QED
        BY <2>1, <4>1 DEF TakesOwner, EligibleOwners
    <3> QED
      BY <1>1, <2>1, <3>1, <3>2, <3>3, <3>4, OwnersKept
  <2> QED
    BY <2>2, <2>3
<1>4. CASE ~ RequestAccountDeletion(r)
  <2>1. /\ UNCHANGED <<member, account, ownerLock, slipped>>
        /\ workspace' = workspace \/ workspace' = "deletion_pending"
    BY <1>4 DEF Request, CreateInvitation, BeginUpload, StatUpload, CompleteSourceAsset,
       RejectUpload, CreateContent, Connect, BeginWorkspaceDataDeletion, RequestsOnly,
       ChannelOnly, membershipVars
  <2>2. ownerLock # NoRequest => ownerLock # r
    BY <1>1, <1>4 DEF Request, CreateInvitation, BeginUpload, StatUpload,
       CompleteSourceAsset, RejectUpload, CreateContent, Connect,
       BeginWorkspaceDataDeletion, RequestsTyped, Running
  <2>3. ownerLock # NoRequest => request'[ownerLock] = request[ownerLock]
    BY <1>1, <1>2, <2>2 DEF RequestsTyped
  <2> QED
    BY <1>1, <2>1, <2>3, OwnersKept
<1> QED
  BY <1>3, <1>4

LEMMA OwnersWork ==
  ASSUME IInv, NEW w \in Workers, Works(w)
  PROVE  OwnersSafe'
<1>1. TypeOK /\ OwnersSafe /\ MembersTyped
  BY TypeParts DEF IInv
<1>2. UNCHANGED <<request, ownerLock, slipped>>
  BY <1>1, WorksAlone
<1>3. CASE PrepareIdentityDeletion(w) \/ CompleteAccountDeletion(w)
  <2> DEFINE u == OfAccount(w)
  <2>1. UNCHANGED workspace
    BY <1>3 DEF PrepareIdentityDeletion, CompleteAccountDeletion
  <2>2. \/ UNCHANGED <<member, account>>
        \/ /\ account[u] = "deletion_pending"
           /\ member' = [member EXCEPT ![u] = "none"]
           /\ account' = account \/ account' = [account EXCEPT ![u] = "deleted"]
    BY <1>3 DEF PrepareIdentityDeletion, CompleteAccountDeletion
  <2>3. \A v \in Users : member[v] = Owner /\ account[v] = "active" =>
                           member'[v] = Owner /\ account'[v] = "active"
    BY <1>1, <2>2 DEF MembersTyped
  <2> QED
    BY <1>1, <1>2, <2>1, <2>3, OwnersKept
<1>4. CASE ~ (PrepareIdentityDeletion(w) \/ CompleteAccountDeletion(w))
  <2>1. workspace' = "deleted" \/ UNCHANGED <<workspace, member, account>>
    BY <1>4 DEF Works, LoadDeletionMaterial, RevokeForDeletion, DeleteObjects,
       CompleteWorkspaceDataDeletion, DeleteLocalData, KeepLocalData, RequestCleanup,
       AwaitCleanup, DeleteIdentity, DataOnly
  <2> QED
    BY <1>1, <1>2, <2>1, OwnersKept
<1> QED
  BY <1>3, <1>4

LEMMA OwnersPreserved ==
  ASSUME IInv, [Next]_vars
  PROVE  OwnersSafe'
<1>1. TypeOK /\ OwnersSafe
  BY DEF IInv
<1>2. CASE UNCHANGED vars \/ DataStep \/ \E w \in Workers : Turns(w)
  <2>1. UNCHANGED membershipVars
    BY <1>1, <1>2, DataStepLeaves, TurnsAlone DEF vars
  <2> QED
    BY <1>1, <2>1, OwnersKept DEF membershipVars
<1> QED
  BY <1>2, StepKinds, OwnersMember, OwnersRequest, OwnersWork

-----------------------------------------------------------------------------
(* The asset and the requests that confirm it *)

(* A step of a request that saw nothing of the object. *)
Blind(r) ==
  \/ request'[r] = request[r]
  \/ /\ request'[r].step \notin {"good", "bad"}
     /\ request'[r].kind \notin {"none", "close_account"} => workspace' # "absent"

LEMMA AssetKept ==
  ASSUME AssetSound, RequestsSound, UNCHANGED <<asset, cleaner>>,
         workspace # "absent" => workspace' # "absent",
         workspace' # "deleted" => workspace # "deleted",
         workspace' \in {"absent", "active"} => workspace' = workspace,
         \A r \in Requests : Blind(r)
  PROVE  AssetSound' /\ RequestsSound'
<1>1. AssetSound'
  BY DEF AssetSound, CompleteHasObject, RowExists
<1>2. RequestsSound'
  BY DEF RequestsSound, Running, Blind
<1> QED
  BY <1>1, <1>2

LEMMA AssetMember ==
  ASSUME IInv, MemberStep, UNCHANGED <<controlVars, dataVars>>
  PROVE  AssetSound' /\ RequestsSound'
<1>1. TypeOK /\ AssetSound /\ RequestsSound /\ RequestsTyped
  BY TypeParts DEF IInv
<1>2. UNCHANGED <<asset, cleaner>>
  BY DEF dataVars
<1>3. ASSUME NEW r \in Requests,
             BeginMemberRequest(r) \/ BeginWorkspaceRequest(r) \/ BeginAccountRequest(r)
      PROVE  AssetSound' /\ RequestsSound'
  <2>1. /\ UNCHANGED workspace
        /\ \A other \in Requests \ {r} : request'[other] = request[other]
        /\ request'[r].step = "authorized"
        /\ request'[r].kind = "close_account" \/ workspace = "active"
    BY <1>1, <1>3, BeginTyped
  <2>2. \A s \in Requests : Blind(s)
    BY <2>1 DEF Blind
  <2> QED
    BY <1>1, <1>2, <2>1, <2>2, AssetKept
<1>4. ASSUME NEW r \in Requests,
             ReadMembership(r) \/ AlterUnguarded(r) \/ AlterGuarded(r) \/ CheckSuccessor(r)
      PROVE  AssetSound' /\ RequestsSound'
  <2>1. UNCHANGED workspace /\ request[r].kind # "none"
    BY <1>4 DEF ReadMembership, AlterUnguarded, AlterGuarded, CheckSuccessor, Running
  <2>2. PICK step \in {"guarded", "plain", "checked"} : StepTo(r, step) \/ Ended(r)
    BY <1>4, Zenon DEF ReadMembership, AlterUnguarded, AlterGuarded, CheckSuccessor
  <2>3. /\ \A other \in Requests \ {r} : request'[other] = request[other]
        /\ \/ request'[r] = [request[r] EXCEPT !.step = step]
           \/ request'[r] = NoRequestYet
        /\ request[r] \in RequestRows
    BY <1>1, <2>2, RequestMoves DEF RequestsTyped
  <2>4. \A s \in Requests : Blind(s)
    BY <1>1, <2>1, <2>3 DEF Blind, NoRequestYet, RequestRows, RequestsSound
  <2> QED
    BY <1>1, <1>2, <2>1, <2>4, AssetKept
<1>5. ASSUME NEW u \in Users,
             LogIn(u) \/ LogOut(u) \/ SelectWorkspace(u) \/ AcceptInvitation(u)
      PROVE  AssetSound' /\ RequestsSound'
  <2>1. UNCHANGED <<workspace, request>>
    BY <1>5 DEF LogIn, LogOut, SelectWorkspace, AcceptInvitation
  <2>2. \A s \in Requests : Blind(s)
    BY <2>1 DEF Blind
  <2> QED
    BY <1>1, <1>2, <2>1, <2>2, AssetKept
<1>6. ASSUME NEW u \in Users, CreateWorkspace(u)
      PROVE  AssetSound' /\ RequestsSound'
  <2>1. UNCHANGED request /\ workspace = "absent" /\ workspace' = "active"
    BY <1>6 DEF CreateWorkspace
  <2>2. asset.url = "none" /\ asset.status = "none"
    BY <1>1, <2>1 DEF AssetSound
  <2>3. AssetSound'
    BY <1>1, <1>2, <2>1, <2>2 DEF AssetSound, CompleteHasObject
  <2>4. RequestsSound'
    BY <1>1, <1>2, <2>1, <2>2 DEF RequestsSound, Running
  <2> QED
    BY <2>3, <2>4
<1> QED
  BY <1>3, <1>4, <1>5, <1>6 DEF MemberStep

LEMMA AssetRequest ==
  ASSUME IInv, NEW r \in Requests, Request(r)
  PROVE  AssetSound' /\ RequestsSound'
<1>1. TypeOK /\ AssetSound /\ RequestsSound /\ RequestsTyped /\ asset \in AssetRows
  BY TypeParts DEF IInv, DataTyped
<1>2. /\ \A other \in Requests \ {r} : request'[other] = request[other]
      /\ UNCHANGED cleaner /\ request[r].kind # "none"
      /\ \/ request'[r] = NoRequestYet
         \/ StatUpload(r) /\ PendingUpload /\ asset.object # "absent"
            /\ request'[r] = [request[r] EXCEPT !.step = asset.object]
  BY <1>1, RequestLeaves
<1>3. request[r] \in RequestRows
  BY <1>1 DEF RequestsTyped
<1>4. NoRequestYet.kind = "none" /\ NoRequestYet.step = "idle"
  BY DEF NoRequestYet
<1>5. CASE UNCHANGED <<asset, workspace>> /\ request'[r] = NoRequestYet
  <2>1. \A s \in Requests : Blind(s)
    BY <1>2, <1>4, <1>5 DEF Blind
  <2> QED
    BY <1>1, <1>2, <1>5, <2>1, AssetKept
<1>6. CASE /\ StatUpload(r) /\ PendingUpload /\ asset.object # "absent"
           /\ request'[r] = [request[r] EXCEPT !.step = asset.object]
  <2>1. UNCHANGED <<asset, workspace>> /\ asset.url = "used"
        /\ asset.object \in {"good", "bad"}
    BY <1>1, <1>6 DEF StatUpload, RequestsOnly, AssetSound, AssetRows
  <2>2. /\ request'[r].kind = "confirm_upload" /\ request[r].kind = "confirm_upload"
        /\ request'[r].step = asset.object
    BY <1>3, <1>6 DEF StatUpload, Running, RequestRows
  <2>3. AssetSound'
    BY <1>1, <1>2, <2>1 DEF AssetSound, CompleteHasObject, RowExists
  <2>4. RequestsSound'
    BY <1>1, <1>2, <2>1, <2>2 DEF RequestsSound, Running
  <2> QED
    BY <2>3, <2>4
<1>7. CASE BeginWorkspaceDataDeletion(r)
  <2>1. /\ UNCHANGED <<asset, cleaner>> /\ request'[r] = NoRequestYet
        /\ workspace' = workspace
           \/ (workspace # "deleted" /\ workspace' = "deletion_pending")
    BY <1>2, <1>7 DEF BeginWorkspaceDataDeletion, StatUpload, Running
  <2>2. \A s \in Requests : Blind(s)
    BY <1>2, <1>4, <2>1 DEF Blind
  <2> QED
    BY <1>1, <2>1, <2>2, AssetKept
<1>8. CASE /\ BeginUpload(r) \/ CompleteSourceAsset(r) \/ RejectUpload(r)
              \/ CreateContent(r)
           /\ request'[r] = NoRequestYet
  <2>1. UNCHANGED workspace /\ workspace # "absent"
    BY <1>1, <1>8 DEF BeginUpload, CompleteSourceAsset, RejectUpload, CreateContent,
       RequestsOnly, RequestsSound, Running
  <2>2. CASE BeginUpload(r)
    <3>1. asset.status = "none" /\ asset.url = "none" /\ asset.object = "absent"
      BY <1>1, <2>2 DEF BeginUpload, RowExists, AssetSound
    <3>2. /\ asset'.url \in {"issued", "used"} /\ asset'.object = "absent"
          /\ asset'.status \in {"pending", "failed"}
      BY <1>1, <2>2, <3>1 DEF BeginUpload, WithSignedUrl, PendingRow, Failed, AssetRows
    <3>3. AssetSound'
      BY <1>1, <1>2, <2>1, <3>1, <3>2 DEF AssetSound, CompleteHasObject, RowExists
    <3>4. RequestsSound'
      BY <1>1, <1>2, <1>4, <1>8, <2>1, <3>1 DEF RequestsSound, Running
    <3> QED
      BY <3>3, <3>4
  <2>3. CASE CompleteSourceAsset(r)
    <3>1. /\ asset.url = "used"
          /\ asset.status = "pending" /\ workspace = "active" => asset.object = "good"
      BY <1>1, <2>3 DEF CompleteSourceAsset, RequestsSound
    <3>2. /\ asset'.url = asset.url /\ asset'.object = asset.object
          /\ asset'.status = IF asset.status = "pending" THEN "complete" ELSE asset.status
      BY <1>1, <2>3 DEF CompleteSourceAsset, Completed, AssetRows
    <3>3. AssetSound'
      BY <1>1, <1>2, <2>1, <3>1, <3>2 DEF AssetSound, CompleteHasObject, RowExists
    <3>4. RequestsSound'
      BY <1>1, <1>2, <1>4, <1>8, <2>1, <3>1, <3>2 DEF RequestsSound, Running
    <3> QED
      BY <3>3, <3>4
  <2>4. CASE RejectUpload(r)
    <3>1. asset.url = "used" /\ asset.object \in {"bad", "absent"}
      BY <1>1, <2>4 DEF RejectUpload, RequestsSound
    <3>2. /\ asset'.url = asset.url /\ asset'.object = "absent"
          /\ asset'.status = IF asset.status = "pending" THEN "failed" ELSE asset.status
      BY <1>1, <2>4 DEF RejectUpload, Failed, AssetRows
    <3>3. AssetSound'
      BY <1>1, <1>2, <2>1, <3>1, <3>2 DEF AssetSound, CompleteHasObject, RowExists
    <3>4. RequestsSound'
      BY <1>1, <1>2, <1>4, <1>8, <2>1, <3>1, <3>2 DEF RequestsSound, Running
    <3> QED
      BY <3>3, <3>4
  <2>5. CASE CreateContent(r)
    <3>1. /\ asset'.url = asset.url /\ asset'.object = asset.object
          /\ asset'.status = asset.status
      BY <1>1, <2>5 DEF CreateContent, AssetRows
    <3>2. AssetSound'
      BY <1>1, <1>2, <2>1, <3>1 DEF AssetSound, CompleteHasObject, RowExists
    <3>3. RequestsSound'
      BY <1>1, <1>2, <1>4, <1>8, <2>1, <3>1 DEF RequestsSound, Running
    <3> QED
      BY <3>2, <3>3
  <2> QED
    BY <1>8, <2>2, <2>3, <2>4, <2>5
<1>9. CASE RequestAccountDeletion(r) /\ UNCHANGED dataVars
  BY <1>2, <1>5, <1>9 DEF RequestAccountDeletion, dataVars, StatUpload, Running
<1>10. CASE CreateInvitation(r) /\ UNCHANGED asset
  BY <1>2, <1>5, <1>10 DEF CreateInvitation, StatUpload, Running
<1>11. CASE StatUpload(r) /\ request'[r] = NoRequestYet
  BY <1>5, <1>11 DEF StatUpload, RequestsOnly
<1>12. CASE Connect(r)
  BY <1>2, <1>5, <1>12 DEF Connect, ChannelOnly, StatUpload, Running
<1>13. request'[r] = NoRequestYet \/ StatUpload(r)
  BY <1>2
<1> QED
  BY <1>2, <1>6, <1>7, <1>8, <1>9, <1>10, <1>11, <1>12, <1>13
     DEF Request, dataVars, StatUpload, BeginUpload, CompleteSourceAsset, RejectUpload,
     CreateContent, Running

LEMMA AssetData ==
  ASSUME IInv, DataStep
  PROVE  AssetSound' /\ RequestsSound'
<1>1. TypeOK /\ AssetSound /\ RequestsSound /\ asset \in AssetRows
  BY TypeParts DEF IInv, DataTyped
<1>2. UNCHANGED <<workspace, request>>
  BY <1>1, DataStepLeaves DEF membershipVars
<1>3. CASE UNCHANGED <<asset, cleaner>>
  BY <1>1, <1>2, <1>3, AssetKept DEF Blind
<1>4. ASSUME NEW content \in {"good", "bad"}, PutObject(content)
      PROVE  AssetSound' /\ RequestsSound'
  <2>1. /\ asset.url = "issued" /\ asset'.url = "used" /\ UNCHANGED cleaner
        /\ asset'.status = asset.status
    BY <1>1, <1>4 DEF PutObject, AssetRows
  <2>2. AssetSound'
    BY <1>1, <1>2, <2>1 DEF AssetSound, CompleteHasObject, RowExists
  <2>3. RequestsSound'
    BY <1>1, <1>2, <2>1 DEF RequestsSound, Running
  <2> QED
    BY <2>2, <2>3
<1>5. CASE ClaimExpiredUpload
  <2>1. /\ asset.status # "none" /\ asset'.status = "expiring"
        /\ asset'.url = asset.url /\ asset'.object = asset.object
    BY <1>1, <1>5 DEF ClaimExpiredUpload, AssetRows
  <2>2. AssetSound'
    BY <1>1, <1>2, <2>1 DEF AssetSound, CompleteHasObject, RowExists
  <2>3. RequestsSound'
    BY <1>1, <1>2, <2>1 DEF RequestsSound, Running
  <2> QED
    BY <2>2, <2>3
<1>6. CASE DeleteExpiredObject \/ CompleteCleanup
  <2>1. /\ cleaner # "idle" /\ asset'.url = asset.url
        /\ asset'.status = asset.status
           \/ (asset.status = "expiring" /\ asset'.status = "failed")
        /\ asset'.object \in {asset.object, "absent"}
    BY <1>1, <1>6 DEF DeleteExpiredObject, CompleteCleanup, AssetRows
  <2>2. AssetSound'
    BY <1>1, <1>2, <2>1 DEF AssetSound, CompleteHasObject, RowExists
  <2>3. RequestsSound'
    BY <1>1, <1>2, <2>1 DEF RequestsSound, Running, AssetSound
  <2> QED
    BY <2>2, <2>3
<1> QED
  BY <1>3, <1>4, <1>5, <1>6 DEF DataStep, UseChannel, DisconnectChannel, RetireKey,
     TimePasses, ChannelOnly, dataVars

(* A run of the workspace's deletion has a deletion that was asked for. *)
LEMMA DeletionAsked ==
  ASSUME TypeOK, Asked, NEW w \in Workers, serving[w].operation = WorkspaceDeletion
  PROVE  ledger.state # "none" /\ workspace \notin {"absent", "active"}
BY Named DEF Asked

LEMMA AccountAsked ==
  ASSUME TypeOK, Asked, NEW w \in Workers, NEW u \in Users,
         serving[w].operation = AccountDeletion(u)
  PROVE  account[u] # "active"
BY Named DEF Asked

LEMMA AssetWork ==
  ASSUME IInv, NEW w \in Workers, Works(w)
  PROVE  AssetSound' /\ RequestsSound'
<1>1. TypeOK /\ AssetSound /\ RequestsSound /\ Asked /\ asset \in AssetRows
  BY TypeParts DEF IInv, DataTyped
<1>2. UNCHANGED <<request, cleaner>>
  BY <1>1, WorksAlone
<1>3. CASE UNCHANGED <<asset, workspace>>
  BY <1>1, <1>2, <1>3, AssetKept DEF Blind
<1>4. CASE DeleteObjects(w)
  <2>1. workspace \notin {"absent", "active"} /\ UNCHANGED workspace
    BY <1>1, <1>4, DeletionAsked DEF DeleteObjects, Serves, DataOnly
  <2>2. /\ asset'.url = asset.url /\ asset'.status = asset.status
        /\ asset'.object \in {asset.object, "absent"}
    BY <1>1, <1>4 DEF DeleteObjects, AssetRows
  <2>3. AssetSound'
    BY <1>1, <1>2, <2>1, <2>2 DEF AssetSound, CompleteHasObject, RowExists
  <2>4. RequestsSound'
    BY <1>1, <1>2, <2>1, <2>2 DEF RequestsSound, Running
  <2> QED
    BY <2>3, <2>4
<1>5. CASE DeleteLocalData
  <2>1. /\ workspace' = "deleted" /\ asset'.status = "none"
        /\ asset'.url = asset.url /\ asset'.object = asset.object
    BY <1>1, <1>5 DEF DeleteLocalData, AssetRows
  <2>2. AssetSound'
    BY <1>1, <1>2, <2>1 DEF AssetSound, CompleteHasObject, RowExists
  <2>3. RequestsSound'
    BY <1>1, <1>2, <2>1 DEF RequestsSound, Running
  <2> QED
    BY <2>2, <2>3
<1> QED
  BY <1>3, <1>4, <1>5 DEF Works, LoadDeletionMaterial, RevokeForDeletion,
     CompleteWorkspaceDataDeletion, KeepLocalData, RequestCleanup, AwaitCleanup,
     PrepareIdentityDeletion, DeleteIdentity, CompleteAccountDeletion, DataOnly

LEMMA AssetPreserved ==
  ASSUME IInv, [Next]_vars
  PROVE  AssetSound' /\ RequestsSound'
<1>1. TypeOK /\ AssetSound /\ RequestsSound
  BY DEF IInv
<1>2. CASE UNCHANGED vars \/ \E w \in Workers : Turns(w)
  <2>1. UNCHANGED <<membershipVars, asset, cleaner>>
    BY <1>1, <1>2, TurnsAlone DEF vars, dataVars
  <2> QED
    BY <1>1, <2>1, AssetKept DEF membershipVars, Blind
<1> QED
  BY <1>2, StepKinds, AssetMember, AssetRequest, AssetData, AssetWork

-----------------------------------------------------------------------------
(* What was asked for *)

LEMMA AskedPreserved ==
  ASSUME IInv, [Next]_vars
  PROVE  Asked'
<1>1. TypeOK /\ Asked /\ ControlTyped /\ ledger \in LedgerRows /\ MembersTyped
  BY TypeParts DEF IInv, DataTyped
<1>2. ASSUME UNCHANGED workspace, ledger'.state = "none" <=> ledger.state = "none",
             Forward, ControlForward
      PROVE  Asked'
  <2>1. \A w \in Workers : serving'[w].operation # NoOperation =>
          /\ serving'[w].operation \in Operations
          /\ operation[serving'[w].operation].state # "absent"
    <3>1. ASSUME NEW w \in Workers, NEW o \in Operations, ClaimOperation(w, o)
          PROVE  serving'[w].operation = o /\ operation[o].state # "absent"
      BY <1>1, <3>1 DEF ClaimOperation, Claimable, ControlTyped
    <3> QED
      BY <1>1, <1>2, <3>1 DEF ControlForward, NotServing, Asked, ControlTyped, ServingRows
  <2>2. \A o \in Operations : operation'[o].state # "absent" <=> operation[o].state # "absent"
    BY <1>2 DEF ControlForward
  <2>3. \A u \in Users : operation'[AccountDeletion(u)].state # "absent" =>
            account'[u] # "active"
    BY <1>1, <1>2, <2>2, Named DEF Asked, Forward
  <2>4. operation'[WorkspaceDeletion].state # "absent" => ledger'.state # "none"
    BY <1>1, <1>2, <2>2, Named DEF Asked
  <2>5. \A w \in Workers : serving'[w].operation # NoOperation =>
          operation'[serving'[w].operation].state # "absent"
    BY <2>1, <2>2
  <2>6. ledger'.state = "none" <=> workspace' \in {"absent", "active"}
    BY <1>1, <1>2 DEF Asked
  <2> QED
    BY <2>3, <2>4, <2>5, <2>6 DEF Asked
<1>3. CASE UNCHANGED vars
  BY <1>1, <1>3 DEF Asked, vars, controlVars, membershipVars, dataVars
<1>4. CASE MemberStep /\ UNCHANGED <<controlVars, dataVars>>
  <2>1. UNCHANGED <<operation, serving, ledger>>
    BY <1>4 DEF controlVars, dataVars
  <2>2. Forward
    BY <1>1, <1>4, MemberStepLeaves
  <2>3. workspace' = workspace \/ (workspace = "absent" /\ workspace' = "active")
    BY <1>4 DEF MemberStep, BeginMemberRequest, BeginWorkspaceRequest, BeginAccountRequest,
       NewRequest, ReadMembership, AlterUnguarded, AlterGuarded, CheckSuccessor, LogIn,
       LogOut, SelectWorkspace, CreateWorkspace, AcceptInvitation
  <2> QED
    BY <1>1, <2>1, <2>2, <2>3 DEF Asked, Forward
<1>5. ASSUME NEW r \in Requests, Request(r)
      PROVE  Asked'
  <2>1. /\ Forward /\ UNCHANGED serving
        /\ \A o \in Operations : operation[o].state # "absent" =>
               operation'[o] = operation[o]
    BY <1>1, <1>5, RequestLeaves
  <2>2. \A w \in Workers : serving'[w].operation # NoOperation =>
          operation'[serving'[w].operation].state # "absent"
    BY <1>1, <2>1 DEF Asked, ControlTyped, ServingRows, Forward
  <2>3. CASE RequestAccountDeletion(r) /\ UNCHANGED dataVars
    <3>1. UNCHANGED <<workspace, ledger>>
      BY <2>3 DEF RequestAccountDeletion, dataVars
    <3>2. operation'[WorkspaceDeletion] = operation[WorkspaceDeletion]
      BY <1>1, <2>3, EnqueuedRows, Named DEF RequestAccountDeletion
    <3>3. ASSUME NEW u \in Users, operation'[AccountDeletion(u)].state # "absent"
          PROVE  account'[u] # "active"
      <4>1. CASE u = request[r].user
        BY <1>1, <2>3, <4>1 DEF RequestAccountDeletion, MembersTyped
      <4>2. CASE u # request[r].user
        <5>1. operation'[AccountDeletion(u)] = operation[AccountDeletion(u)]
          BY <1>1, <2>3, <4>2, EnqueuedRows, Named DEF RequestAccountDeletion
        <5> QED
          BY <1>1, <2>1, <3>3, <5>1 DEF Asked, Forward
      <4> QED
        BY <4>1, <4>2
    <3> QED
      BY <1>1, <2>2, <3>1, <3>2, <3>3 DEF Asked
  <2>4. CASE BeginWorkspaceDataDeletion(r)
    <3>1. \A u \in Users : operation'[AccountDeletion(u)] = operation[AccountDeletion(u)]
      BY <1>1, <2>4, EnqueuedRows, Named DEF BeginWorkspaceDataDeletion
    <3>2. \/ UNCHANGED <<workspace, operation, ledger>>
          \/ workspace' = "deletion_pending" /\ ledger'.state # "none"
      BY <1>1, <2>4 DEF BeginWorkspaceDataDeletion, LedgerBegun
    <3>3. \A u \in Users : operation'[AccountDeletion(u)].state # "absent" =>
              account'[u] # "active"
      BY <1>1, <2>1, <3>1 DEF Asked, Forward
    <3> QED
      BY <1>1, <2>2, <3>2, <3>3 DEF Asked
  <2>5. CASE UNCHANGED <<workspace, operation, ledger>>
    BY <1>1, <2>1, <2>2, <2>5 DEF Asked, Forward
  <2> QED
    BY <1>5, <2>3, <2>4, <2>5 DEF Request, CreateInvitation, BeginUpload, StatUpload,
       CompleteSourceAsset, RejectUpload, CreateContent, Connect, RequestsOnly,
       ChannelOnly, membershipVars, controlVars
<1>6. CASE DataStep
  BY <1>1, <1>2, <1>6, DataStepLeaves DEF membershipVars
<1>7. ASSUME NEW w \in Workers, Works(w)
      PROVE  Asked'
  <2>1. Forward /\ UNCHANGED <<operation, serving>>
    BY <1>1, <1>7, WorkLeaves, WorksAlone
  <2>2. CASE UNCHANGED <<workspace, ledger>>
    BY <1>1, <2>1, <2>2 DEF Asked, Forward
  <2>3. CASE LoadDeletionMaterial(w) \/ CompleteWorkspaceDataDeletion(w)
    <3>1. ledger.state # "none" /\ workspace \notin {"absent", "active"}
      BY <1>1, <2>3, DeletionAsked DEF LoadDeletionMaterial,
         CompleteWorkspaceDataDeletion, Serves
    <3>2. workspace' = workspace \/ workspace' = "deleted"
      BY <2>3 DEF LoadDeletionMaterial, CompleteWorkspaceDataDeletion, DataOnly,
         DeleteLocalData, KeepLocalData
    <3>3. ledger'.state # "none"
      <4>1. CASE LoadDeletionMaterial(w)
        BY <1>1, <3>1, <4>1 DEF LoadDeletionMaterial, LedgerResumed, LedgerRows
      <4>2. CASE CompleteWorkspaceDataDeletion(w)
        <5>1. UNCHANGED ledger \/ ledger' = LedgerAfter(w, channel'.key)
          BY <4>2 DEF CompleteWorkspaceDataDeletion
        <5> QED
          BY <1>1, <3>1, <5>1 DEF LedgerAfter, LedgerRows
      <4> QED
        BY <2>3, <4>1, <4>2
    <3> QED
      BY <1>1, <2>1, <3>1, <3>2, <3>3 DEF Asked, Forward
  <2> QED
    BY <1>7, <2>2, <2>3 DEF Works, RevokeForDeletion, DeleteObjects, RequestCleanup,
       AwaitCleanup, PrepareIdentityDeletion, DeleteIdentity, CompleteAccountDeletion,
       DataOnly
<1>8. ASSUME NEW w \in Workers, Turns(w)
      PROVE  Asked'
  <2>1. Forward /\ ControlForward /\ UNCHANGED workspace
    BY <1>1, <1>8, TurnLeaves, TurnsAlone DEF membershipVars
  <2>2. ledger'.state = "none" <=> ledger.state = "none"
    <3>1. CASE UNCHANGED ledger
      BY <3>1
    <3>2. CASE /\ serving[w].operation = WorkspaceDeletion
               /\ ledger' = [ledger EXCEPT !.state = "failed"]
      BY <1>1, <3>2, DeletionAsked DEF LedgerRows
    <3> QED
      BY <1>8, <3>1, <3>2 DEF Turns, Claim, Finish, FinishFailed, LoseClaim, Crash,
         FailedLedger
  <2> QED
    BY <1>2, <2>1, <2>2
<1> QED
  BY <1>3, <1>4, <1>5, <1>6, <1>7, <1>8, StepKinds

-----------------------------------------------------------------------------
(* The channel *)

LEMMA ChannelKept ==
  ASSUME ChannelSound, UNCHANGED channel,
         workspace' = "deleted" <=> workspace = "deleted",
         ledger'.state = "completed" => ledger' = ledger
  PROVE  ChannelSound'
BY DEF ChannelSound

LEMMA ChannelPreserved ==
  ASSUME IInv, [Next]_vars
  PROVE  ChannelSound'
<1>1. TypeOK /\ ChannelSound /\ Asked /\ channel \in ChannelRows /\ ledger \in LedgerRows
  BY TypeParts DEF IInv, DataTyped
<1>2. CASE UNCHANGED vars
  BY <1>1, <1>2, ChannelKept DEF vars, dataVars, membershipVars
<1>3. CASE MemberStep /\ UNCHANGED <<controlVars, dataVars>>
  <2>1. workspace' = "deleted" <=> workspace = "deleted"
    BY <1>3 DEF MemberStep, BeginMemberRequest, BeginWorkspaceRequest,
       BeginAccountRequest, NewRequest, ReadMembership, AlterUnguarded, AlterGuarded,
       CheckSuccessor, LogIn, LogOut, SelectWorkspace, CreateWorkspace, AcceptInvitation
  <2> QED
    BY <1>1, <1>3, <2>1, ChannelKept DEF dataVars
<1>4. ASSUME NEW r \in Requests, Request(r)
      PROVE  ChannelSound'
  <2>1. CASE Connect(r)
    <3>1. UNCHANGED <<workspace, ledger>>
      BY <2>1 DEF Connect, ChannelOnly
    <3>2. channel' = channel \/ (workspace = "active" /\ channel'.state = "connected")
      BY <2>1 DEF Connect
    <3> QED
      BY <1>1, <3>1, <3>2 DEF ChannelSound
  <2>2. CASE BeginWorkspaceDataDeletion(r)
    <3>1. \/ UNCHANGED <<workspace, ledger, channel>>
          \/ /\ workspace # "deleted" /\ workspace' = "deletion_pending"
             /\ ledger' = LedgerBegun /\ channel' = DeniedChannel
      BY <2>2 DEF BeginWorkspaceDataDeletion
    <3>2. workspace # "deleted" => LedgerBegun.state # "completed"
      BY <1>1 DEF LedgerBegun, ChannelSound
    <3>3. DeniedChannel.state = "none" =>
            channel.state = "none" /\ DeniedChannel.busy = channel.busy
            /\ DeniedChannel.key = channel.key
      BY <1>1 DEF DeniedChannel, ChannelRows
    <3>4. CASE UNCHANGED <<workspace, ledger, channel>>
      BY <1>1, <3>4, ChannelKept
    <3> QED
      BY <1>1, <3>1, <3>2, <3>3, <3>4 DEF ChannelSound
  <2>3. CASE UNCHANGED <<workspace, ledger, channel>>
    BY <1>1, <2>3, ChannelKept
  <2> QED
    BY <1>4, <2>1, <2>2, <2>3 DEF Request, RequestAccountDeletion, CreateInvitation,
       BeginUpload, StatUpload, CompleteSourceAsset, RejectUpload, CreateContent,
       RequestsOnly, dataVars
<1>5. CASE DataStep
  <2>1. UNCHANGED <<workspace, ledger>>
    BY <1>1, <1>5, DataStepLeaves DEF membershipVars
  <2>2. CASE UNCHANGED channel
    BY <1>1, <2>1, <2>2, ChannelKept
  <2>3. CASE UseChannel
    <3>1. channel.state # "none" /\ channel'.state = channel.state
          /\ channel'.key = channel.key
      BY <1>1, <2>3 DEF UseChannel, ChannelRows, ChannelSound
    <3> QED
      BY <1>1, <2>1, <3>1 DEF ChannelSound
  <2>4. CASE DisconnectChannel
    <3>1. /\ channel.state = "disconnecting" /\ ~ channel.busy
          /\ channel'.state = "none" /\ channel'.key = "retiring"
          /\ channel'.busy = channel.busy
      BY <1>1, <2>4 DEF DisconnectChannel, ChannelRows
    <3> QED
      BY <1>1, <2>1, <3>1 DEF ChannelSound
  <2>5. CASE RetireKey
    <3>1. /\ channel.key = "retiring" /\ channel'.key = "destroyed"
          /\ channel'.state = channel.state /\ channel'.busy = channel.busy
      BY <1>1, <2>5 DEF RetireKey, ChannelRows
    <3> QED
      BY <1>1, <2>1, <3>1 DEF ChannelSound
  <2> QED
    BY <1>5, <2>2, <2>3, <2>4, <2>5 DEF DataStep, PutObject, ClaimExpiredUpload,
       DeleteExpiredObject, CompleteCleanup, CleanerOnly, TimePasses, dataVars
<1>6. ASSUME NEW w \in Workers, Works(w)
      PROVE  ChannelSound'
  <2>1. CASE LoadDeletionMaterial(w)
    <3>1. UNCHANGED <<workspace, channel>> /\ ledger' = LedgerResumed
      BY <2>1 DEF LoadDeletionMaterial, DataOnly
    <3>2. LedgerResumed.state = "completed" => LedgerResumed = ledger
      BY <1>1 DEF LedgerResumed, LedgerRows
    <3> QED
      BY <1>1, <3>1, <3>2, ChannelKept
  <2>2. CASE CompleteWorkspaceDataDeletion(w)
    <3>1. CASE UNCHANGED <<workspace, channel, ledger>>
      BY <1>1, <3>1, ChannelKept
    <3>2. CASE /\ ~ channel.busy /\ ledger' = LedgerAfter(w, channel'.key)
               /\ IF workspace # "deleted" THEN DeleteLocalData ELSE KeepLocalData
      <4>1. /\ workspace' = "deleted" /\ channel'.state = "none"
            /\ channel'.key # "stored" /\ ~ channel'.busy
            /\ channel'.key \in {"none", "retiring", "destroyed"}
        BY <1>1, <3>2 DEF DeleteLocalData, KeepLocalData, ChannelSound, ChannelRows
      <4>2. ledger'.state = "completed" => channel'.key # "retiring" /\ ~ ledger'.keys
        BY <1>1, <3>2 DEF LedgerAfter, TokenKeyRetirementPending, LedgerRows
      <4> QED
        BY <4>1, <4>2 DEF ChannelSound
    <3> QED
      BY <2>2, <3>1, <3>2 DEF CompleteWorkspaceDataDeletion, KeepLocalData
  <2>3. CASE RequestCleanup(w)
    <3>1. UNCHANGED <<workspace, ledger>>
      BY <2>3 DEF RequestCleanup, DataOnly
    <3>2. \/ channel' = channel
          \/ /\ workspace = "active" /\ channel'.state = "disconnecting"
             /\ channel'.key = channel.key
      BY <1>1, <2>3 DEF RequestCleanup, ChannelRows
    <3> QED
      BY <1>1, <3>1, <3>2 DEF ChannelSound
  <2>4. CASE UNCHANGED <<workspace, channel, ledger>>
    BY <1>1, <2>4, ChannelKept
  <2> QED
    BY <1>6, <2>1, <2>2, <2>3, <2>4 DEF Works, RevokeForDeletion, DeleteObjects,
       AwaitCleanup, PrepareIdentityDeletion, DeleteIdentity, CompleteAccountDeletion,
       DataOnly
<1>7. ASSUME NEW w \in Workers, Turns(w)
      PROVE  ChannelSound'
  <2>1. UNCHANGED <<workspace, channel>>
    BY <1>1, <1>7, TurnsAlone DEF membershipVars
  <2>2. ledger'.state = "completed" => ledger' = ledger
    BY <1>1, <1>7 DEF Turns, Claim, Finish, FinishFailed, LoseClaim, Crash, FailedLedger,
       LedgerRows
  <2> QED
    BY <1>1, <2>1, <2>2, ChannelKept
<1> QED
  BY <1>2, <1>3, <1>4, <1>5, <1>6, <1>7, StepKinds

-----------------------------------------------------------------------------
(* The people *)

(* Steps that give nobody anything. *)
LEMMA PeopleKept ==
  ASSUME TypeOK, PeopleSound, Forward,
         workspace' = "deleted" => workspace = "deleted",
         \A u \in Users :
           /\ member'[u] \in {member[u], "none"}
              \/ (member[u] # "none" /\ account[u] # "deleted")
           /\ invited'[u] \subseteq invited[u]
           /\ session'[u] \in {session[u], "none", "outside"}
           /\ session[u] = "none" => session'[u] = "none"
           /\ account'[u] = "deleted" => account[u] = "deleted"
           /\ account'[u] = "deleted" => channel'.by # u \/ channel'.by = channel.by
  PROVE  PeopleSound'
<1>1. \A u \in Users : invited'[u] \subseteq invited[u] /\ invited[u] = {} =>
          invited'[u] = {}
  OBVIOUS
<1>2. ASSUME workspace' = "deleted", "invitation" \notin leaks', NEW u \in Users
      PROVE  member'[u] = "none" /\ invited'[u] = {} /\ session'[u] # "here"
  BY <1>1, <1>2 DEF PeopleSound, Forward
<1>3. ASSUME NEW u \in Users, account'[u] = "deleted"
      PROVE  AccountErased(u)'
  BY <1>3 DEF PeopleSound, Forward, AccountErased
<1> QED
  BY <1>2, <1>3 DEF PeopleSound

LEMMA PeopleMember ==
  ASSUME IInv, MemberStep, UNCHANGED <<controlVars, dataVars>>
  PROVE  PeopleSound'
<1>1. TypeOK /\ PeopleSound /\ MembersTyped
  BY TypeParts DEF IInv
<1>2. Forward /\ UNCHANGED <<channel, leaks, identity>>
  BY <1>1, MemberStepLeaves DEF dataVars
<1>3. CASE UNCHANGED <<workspace, member, invited, session, account>>
  BY <1>1, <1>2, <1>3, PeopleKept
<1>4. ASSUME NEW r \in Requests, AlterUnguarded(r) \/ AlterGuarded(r)
      PROVE  PeopleSound'
  <2> DEFINE q == request[r]
  <2>1. /\ UNCHANGED <<workspace, invited, account>>
        /\ \/ UNCHANGED <<member, session>>
           \/ member' = AlteredMembers(q) /\ session' = MovedSessions(q)
    BY <1>4 DEF AlterUnguarded, AlterGuarded
  <2>2. CASE member' = AlteredMembers(q) /\ session' = MovedSessions(q)
    <3>1. \A u \in Users : member'[u] = member[u] \/ member[u] # "none"
      BY <1>1, <2>2 DEF AlteredMembers, MembersTyped
    <3>2. \A u \in Users :
            session'[u] = session[u] \/ (session[u] = "here" /\ session'[u] = "outside")
      BY <1>1, <2>2 DEF MovedSessions, MembersTyped
    <3>3. \A u \in Users : account[u] = "deleted" => member[u] = "none"
      BY <1>1 DEF PeopleSound, AccountErased
    <3> QED
      BY <1>1, <1>2, <2>1, <3>1, <3>2, <3>3, PeopleKept
  <2> QED
    BY <1>3, <2>1, <2>2
<1>5. ASSUME NEW u \in Users, LogIn(u)
      PROVE  PeopleSound'
  <2>1. /\ UNCHANGED <<workspace, member, invited, account>> /\ account[u] = "active"
        /\ workspace = "deleted" => session'[u] = "outside"
        /\ \A v \in Users \ {u} : session'[v] = session[v]
    BY <1>1, <1>5 DEF LogIn, SessionAllowed, Listed, MembersTyped
  <2> QED
    BY <1>1, <1>2, <2>1 DEF PeopleSound, AccountErased
<1>6. ASSUME NEW u \in Users, LogOut(u)
      PROVE  PeopleSound'
  <2>1. /\ UNCHANGED <<workspace, member, invited, account>>
        /\ \A v \in Users : session'[v] \in {session[v], "none"}
    BY <1>1, <1>6 DEF LogOut, MembersTyped
  <2> QED
    BY <1>1, <1>2, <2>1, PeopleKept
<1>7. ASSUME NEW u \in Users, SelectWorkspace(u)
      PROVE  PeopleSound'
  <2>1. /\ UNCHANGED <<workspace, member, invited, account>> /\ account[u] = "active"
        /\ member[u] # "none"
        /\ \A v \in Users \ {u} : session'[v] = session[v]
    BY <1>1, <1>7 DEF SelectWorkspace, ActiveMember, Authenticated, MembersTyped
  <2> QED
    BY <1>1, <1>2, <2>1 DEF PeopleSound, AccountErased
<1>8. ASSUME NEW u \in Users, CreateWorkspace(u)
      PROVE  PeopleSound'
  <2>1. /\ UNCHANGED <<invited, account>> /\ account[u] = "active" /\ workspace' = "active"
        /\ \A v \in Users \ {u} : session'[v] = session[v] /\ member'[v] = member[v]
    BY <1>1, <1>8 DEF CreateWorkspace, Authenticated, MembersTyped
  <2> QED
    BY <1>1, <1>2, <2>1 DEF PeopleSound, AccountErased
<1>9. ASSUME NEW u \in Users, AcceptInvitation(u)
      PROVE  PeopleSound'
  <2>1. /\ UNCHANGED <<workspace, account>> /\ account[u] = "active" /\ invited[u] # {}
        /\ \A v \in Users \ {u} : session'[v] = session[v] /\ member'[v] = member[v]
    BY <1>1, <1>9 DEF AcceptInvitation, Authenticated, MembersTyped
  <2> QED
    BY <1>1, <1>2, <2>1 DEF PeopleSound, AccountErased
<1> QED
  BY <1>3, <1>4, <1>5, <1>6, <1>7, <1>8, <1>9 DEF MemberStep, BeginMemberRequest,
     BeginWorkspaceRequest, BeginAccountRequest, NewRequest, ReadMembership, CheckSuccessor

LEMMA PeopleRequest ==
  ASSUME IInv, NEW r \in Requests, Request(r)
  PROVE  PeopleSound'
<1>1. TypeOK /\ PeopleSound /\ MembersTyped
  BY TypeParts DEF IInv
<1>2. Forward /\ UNCHANGED identity
  BY <1>1, RequestLeaves
<1>3. CASE /\ UNCHANGED <<member, invited, session, account, channel>>
           /\ workspace' = "deleted" => workspace = "deleted"
  BY <1>1, <1>2, <1>3, PeopleKept
<1>4. CASE CreateInvitation(r) /\ Late("invitation") /\ UNCHANGED channel
  <2>1. UNCHANGED <<workspace, member, session, account>>
    BY <1>4 DEF CreateInvitation
  <2>2. workspace = "deleted" => "invitation" \in leaks'
    BY <1>4 DEF Late
  <2> QED
    BY <1>1, <1>2, <1>4, <2>1, <2>2 DEF PeopleSound, AccountErased, Forward
<1>5. CASE RequestAccountDeletion(r) /\ UNCHANGED dataVars
  <2>1. /\ UNCHANGED <<workspace, member, invited, channel>>
        /\ \A u \in Users : /\ session'[u] \in {session[u], "none"}
                            /\ account'[u] = "deleted" => account[u] = "deleted"
    BY <1>1, <1>5 DEF RequestAccountDeletion, MembersTyped, dataVars
  <2> QED
    BY <1>1, <1>2, <2>1, PeopleKept
<1>6. CASE Connect(r)
  <2>1. UNCHANGED <<workspace, member, invited, session, account>>
    BY <1>6 DEF Connect, ChannelOnly
  <2>2. CASE UNCHANGED channel
    BY <1>3, <2>1, <2>2
  <2>3. CASE channel' # channel
    <3>1. /\ workspace = "active" /\ channel'.by = request[r].user
          /\ account[request[r].user] # "active" => "connection" \in leaks'
      BY <1>6, <2>3 DEF Connect
    <3>2. \A u \in Users : account'[u] = "deleted" => AccountErased(u)'
      BY <1>1, <1>2, <2>1, <3>1 DEF PeopleSound, AccountErased, Forward
    <3> QED
      BY <2>1, <3>1, <3>2 DEF PeopleSound
  <2> QED
    BY <2>2, <2>3
<1>7. CASE BeginWorkspaceDataDeletion(r)
  <2>1. /\ UNCHANGED <<member, invited, session, account>>
        /\ workspace' = "deleted" => workspace = "deleted"
        /\ channel' = channel \/ channel' = DeniedChannel
    BY <1>7 DEF BeginWorkspaceDataDeletion
  <2>2. channel'.by = channel.by
    BY <1>1, <2>1, TypeParts DEF DeniedChannel, DataTyped, ChannelRows
  <2> QED
    BY <1>1, <1>2, <2>1, <2>2, PeopleKept
<1> QED
  BY <1>3, <1>4, <1>5, <1>6, <1>7 DEF Request, BeginUpload, StatUpload,
     CompleteSourceAsset, RejectUpload, CreateContent, RequestsOnly, membershipVars,
     dataVars

LEMMA PeopleData ==
  ASSUME IInv, DataStep
  PROVE  PeopleSound'
<1>1. TypeOK /\ PeopleSound /\ channel \in ChannelRows
  BY TypeParts DEF IInv, DataTyped
<1>2. Forward /\ UNCHANGED <<workspace, member, invited, session, account>>
  BY <1>1, DataStepLeaves DEF membershipVars
<1>3. channel'.by = channel.by \/ channel'.by = NoUser
  BY <1>1 DEF DataStep, PutObject, ClaimExpiredUpload, DeleteExpiredObject,
     CompleteCleanup, CleanerOnly, TimePasses, dataVars, UseChannel, DisconnectChannel,
     RetireKey, ChannelRows
<1>4. NoUser \notin Users
  BY MembershipAssumption
<1> QED
  BY <1>1, <1>2, <1>3, <1>4, PeopleKept

LEMMA OfAccountNamed ==
  ASSUME TypeOK, NEW w \in Workers, NEW step, ServesAccount(w, step)
  PROVE  /\ OfAccount(w) \in Users
         /\ serving[w].operation = AccountDeletion(OfAccount(w))
         /\ job[w].step = step
<1>1. serving[w].operation \in Operations \cup {NoOperation}
  BY TypeParts DEF ControlTyped, ServingRows
<1>2. serving[w].operation = AccountDeletion(OfAccount(w)) /\ job[w].step = step
  BY DEF ServesAccount, Serves
<1> QED
  BY <1>1, <1>2, Named DEF OfAccount

LEMMA PeopleWork ==
  ASSUME IInv, NEW w \in Workers, Works(w)
  PROVE  PeopleSound'
<1>1. TypeOK /\ PeopleSound /\ RunsSound /\ MembersTyped /\ channel \in ChannelRows
  BY TypeParts DEF IInv, DataTyped
<1>2. Forward
  BY <1>1, WorkLeaves
<1>3. CASE /\ UNCHANGED <<workspace, member, invited, session, account>>
           /\ channel'.by = channel.by
  BY <1>1, <1>2, <1>3, PeopleKept
<1>4. CASE RequestCleanup(w)
  <2>1. UNCHANGED <<workspace, member, invited, session, account>>
        /\ channel'.by = channel.by
    BY <1>1, <1>4 DEF RequestCleanup, DataOnly, RunOnly, ChannelRows
  <2> QED
    BY <1>3, <2>1
<1>5. CASE CompleteWorkspaceDataDeletion(w)
  <2>1. CASE KeepLocalData
    BY <1>3, <1>5, <2>1 DEF KeepLocalData, CompleteWorkspaceDataDeletion
  <2>2. CASE DeleteLocalData /\ UNCHANGED account
    <3>1. channel'.by = channel.by
      BY <1>1, <2>2 DEF DeleteLocalData, ChannelRows
    <3>2. \A u \in Users :
            /\ member'[u] = "none" /\ invited'[u] = {} /\ session'[u] # "here"
            /\ session[u] = "none" => session'[u] = "none"
      BY <1>1, <2>2 DEF DeleteLocalData, FallbackSessions, MembersTyped
    <3> QED
      BY <1>1, <1>2, <2>2, <3>1, <3>2 DEF PeopleSound, AccountErased, Forward
  <2> QED
    BY <1>5, <2>1, <2>2 DEF CompleteWorkspaceDataDeletion
<1>6. CASE PrepareIdentityDeletion(w)
  <2>1. /\ UNCHANGED <<workspace, invited, session, account, channel>>
        /\ \A u \in Users : member'[u] \in {member[u], "none"}
    BY <1>1, <1>6 DEF PrepareIdentityDeletion, RunOnly, MembersTyped
  <2> QED
    BY <1>1, <1>2, <2>1, PeopleKept
<1>7. CASE CompleteAccountDeletion(w)
  <2> DEFINE u == OfAccount(w)
  <2>1. UNCHANGED <<workspace, invited, channel, identity, leaks>>
    BY <1>7 DEF CompleteAccountDeletion, RunOnly
  <2>2. CASE UNCHANGED <<member, session, account>>
    BY <1>3, <2>1, <2>2
  <2>3. CASE /\ member' = [member EXCEPT ![u] = "none"]
             /\ session' = [session EXCEPT ![u] = "none"]
             /\ account' = [account EXCEPT ![u] = "deleted"]
    <3>1. u \in Users /\ serving[w].operation = AccountDeletion(u) /\ job[w].step = "close"
      BY <1>1, <1>7, OfAccountNamed DEF CompleteAccountDeletion
    <3>2. u \notin identity /\ ("connection" \notin leaks => channel.by # u)
      BY <1>1, <3>1 DEF RunsSound, AccountRunsSound, AccountRunSound
    <3>3. member'[u] = "none" /\ session'[u] = "none"
      BY <1>1, <2>3, <3>1 DEF MembersTyped
    <3>4. \A v \in Users \ {u} :
            member'[v] = member[v] /\ session'[v] = session[v] /\ account'[v] = account[v]
      BY <1>1, <2>3 DEF MembersTyped
    <3>5. \A v \in Users : account'[v] = "deleted" => AccountErased(v)'
      BY <1>1, <2>1, <3>2, <3>3, <3>4 DEF PeopleSound, AccountErased
    <3>6. \A v \in Users :
            member'[v] \in {member[v], "none"} /\ session'[v] \in {session[v], "none"}
      BY <3>3, <3>4
    <3> QED
      BY <1>1, <2>1, <3>5, <3>6 DEF PeopleSound
  <2> QED
    BY <1>7, <2>2, <2>3 DEF CompleteAccountDeletion
<1> QED
  BY <1>3, <1>4, <1>5, <1>6, <1>7 DEF Works, LoadDeletionMaterial, RevokeForDeletion,
     DeleteObjects, AwaitCleanup, DeleteIdentity, DataOnly, RunOnly

LEMMA PeoplePreserved ==
  ASSUME IInv, [Next]_vars
  PROVE  PeopleSound'
<1>1. TypeOK /\ PeopleSound
  BY DEF IInv
<1>2. CASE UNCHANGED vars \/ \E w \in Workers : Turns(w)
  <2>1. UNCHANGED <<membershipVars, channel, identity, leaks>>
    BY <1>1, <1>2, TurnsAlone DEF vars, dataVars
  <2> QED
    BY <1>1, <2>1 DEF membershipVars, PeopleSound, AccountErased
<1> QED
  BY <1>2, StepKinds, PeopleMember, PeopleRequest, PeopleData, PeopleWork

-----------------------------------------------------------------------------
(* The ledger and the runs *)

LEMMA CleanBefore ==
  ASSUME Forward, Clean'
  PROVE  Clean
BY DEF Forward, Clean

LEMMA LedgerKept ==
  ASSUME LedgerSound, Forward,
         workspace' = "deleted" => workspace = "deleted",
         Clean' /\ asset.status = "none" => asset'.status = "none",
         Clean' /\ asset'.object # "absent" => asset.object # "absent",
         ledger'.keys = ledger.keys
  PROVE  LedgerSound'
BY CleanBefore DEF LedgerSound

LEMMA WorkspaceRunKept ==
  ASSUME NEW w \in Workers, WorkspaceRunSound(w), Forward,
         HoldsClaim(w)' => HoldsClaim(w), serving'[w] = serving[w], job'[w] = job[w],
         Clean' /\ asset'.object # "absent" => asset.object # "absent",
         workspace # "deleted" /\ RowExists => workspace' # "deleted" /\ RowExists'
  PROVE  WorkspaceRunSound(w)'
<1>1. SUFFICES ASSUME serving'[w].operation = WorkspaceDeletion, HoldsClaim(w)', Clean'
               PROVE  RunSound(w)'
  BY DEF WorkspaceRunSound, WorkspaceDeletion
<1>2. RunSound(w)
  BY <1>1, CleanBefore DEF WorkspaceRunSound, WorkspaceDeletion
<1> QED
  BY <1>1, <1>2 DEF RunSound

LEMMA AccountRunKept ==
  ASSUME TypeOK, Asked, NEW w \in Workers, AccountRunsSound(w), Forward,
         serving'[w] = serving[w], job'[w] = job[w],
         \A u \in Users :
           account[u] # "active" /\ channel'.by = u /\ "connection" \notin leaks' =>
             channel.by = u
  PROVE  AccountRunsSound(w)'
<1>1. SUFFICES ASSUME NEW u \in Users, serving'[w].operation = AccountDeletion(u)
               PROVE  AccountRunSound(w, u)'
  BY DEF AccountRunsSound, AccountDeletion
<1>2. AccountRunSound(w, u) /\ account[u] # "active"
  BY <1>1, AccountAsked DEF AccountRunsSound
<1> QED
  BY <1>2 DEF AccountRunSound, Forward

LEMMA LedgerRunsMember ==
  ASSUME IInv, MemberStep, UNCHANGED <<controlVars, dataVars>>
  PROVE  LedgerSound' /\ RunsSound'
<1>1. TypeOK /\ Asked /\ LedgerSound /\ RunsSound
  BY DEF IInv
<1>2. Forward /\ UNCHANGED <<operation, serving, asset, channel, ledger, leaks, job>>
  BY <1>1, MemberStepLeaves DEF dataVars, controlVars
<1>3. workspace' = "deleted" => workspace = "deleted"
  BY DEF MemberStep, BeginMemberRequest, BeginWorkspaceRequest, BeginAccountRequest,
     NewRequest, ReadMembership, AlterUnguarded, AlterGuarded, CheckSuccessor, LogIn,
     LogOut, SelectWorkspace, CreateWorkspace, AcceptInvitation
<1>4. LedgerSound'
  BY <1>1, <1>2, <1>3, LedgerKept
<1>5. ASSUME NEW w \in Workers
      PROVE  WorkspaceRunSound(w)' /\ AccountRunsSound(w)'
  <2>1. (HoldsClaim(w)' => HoldsClaim(w)) /\ (RowExists => RowExists')
    BY <1>2 DEF HoldsClaim, RowExists
  <2> QED
    BY <1>1, <1>2, <1>3, <2>1, WorkspaceRunKept, AccountRunKept DEF RunsSound
<1> QED
  BY <1>4, <1>5 DEF RunsSound

LEMMA LedgerRunsRequest ==
  ASSUME IInv, NEW r \in Requests, Request(r)
  PROVE  LedgerSound' /\ RunsSound'
<1>1. /\ TypeOK /\ Asked /\ LedgerSound /\ RunsSound /\ AssetSound /\ ControlTyped
      /\ asset \in AssetRows /\ ledger \in LedgerRows
  BY TypeParts DEF IInv, DataTyped
<1>2. /\ Forward /\ UNCHANGED <<serving, job>>
      /\ \A o \in Operations : operation[o].state # "absent" => operation'[o] = operation[o]
  BY <1>1, RequestLeaves
<1>3. /\ Clean' /\ asset.status = "none" /\ workspace = "deleted" => asset'.status = "none"
      /\ asset'.object # "absent" => asset.object # "absent"
      /\ RowExists => RowExists'
  <2>1. CASE UNCHANGED asset
    BY <2>1 DEF RowExists
  <2>2. CASE BeginUpload(r)
    <3>1. asset'.object = asset.object /\ ~ RowExists
      BY <1>1, <2>2 DEF BeginUpload, WithSignedUrl, PendingRow, Failed, AssetRows
    <3>2. workspace = "deleted" => ~ Clean'
      BY <2>2 DEF BeginUpload, Late, Clean
    <3> QED
      BY <3>1, <3>2
  <2>3. CASE CompleteSourceAsset(r)
    BY <1>1, <2>3 DEF CompleteSourceAsset, Completed, AssetRows, RowExists
  <2>4. CASE RejectUpload(r)
    BY <1>1, <2>4 DEF RejectUpload, Failed, AssetRows, RowExists
  <2>5. CASE CreateContent(r)
    BY <1>1, <2>5 DEF CreateContent, AssetRows, RowExists
  <2> QED
    BY <2>1, <2>2, <2>3, <2>4, <2>5 DEF Request, CreateInvitation, StatUpload, Connect,
       BeginWorkspaceDataDeletion, ChannelOnly, dataVars
<1>4. /\ workspace' = "deleted" => workspace = "deleted"
      /\ workspace = "deleted" => ledger' = ledger
  BY DEF Request, RequestAccountDeletion, CreateInvitation, BeginUpload, StatUpload,
     CompleteSourceAsset, RejectUpload, CreateContent, Connect,
     BeginWorkspaceDataDeletion, RequestsOnly, ChannelOnly, membershipVars, dataVars
<1>5. LedgerSound'
  BY <1>1, <1>2, <1>3, <1>4, CleanBefore DEF LedgerSound
<1>6. \A u \in Users :
        account[u] # "active" /\ channel'.by = u /\ "connection" \notin leaks' =>
          channel.by = u
  <2>1. CASE Connect(r)
    BY <2>1 DEF Connect
  <2>2. CASE BeginWorkspaceDataDeletion(r)
    <3>1. channel \in ChannelRows
      BY <1>1, TypeParts DEF DataTyped
    <3> QED
      BY <2>2, <3>1 DEF BeginWorkspaceDataDeletion, DeniedChannel, ChannelRows
  <2> QED
    BY <2>1, <2>2 DEF Request, RequestAccountDeletion, CreateInvitation, BeginUpload,
       StatUpload, CompleteSourceAsset, RejectUpload, CreateContent, RequestsOnly, dataVars
<1>7. ASSUME NEW w \in Workers
      PROVE  WorkspaceRunSound(w)' /\ AccountRunsSound(w)'
  <2>1. HoldsClaim(w)' => HoldsClaim(w)
    BY <1>1, <1>2 DEF HoldsClaim, Asked, ControlTyped, ServingRows
  <2> QED
    BY <1>1, <1>2, <1>3, <1>4, <1>6, <2>1, WorkspaceRunKept, AccountRunKept DEF RunsSound
<1> QED
  BY <1>5, <1>7 DEF RunsSound

LEMMA LedgerRunsData ==
  ASSUME IInv, DataStep
  PROVE  LedgerSound' /\ RunsSound'
<1>1. /\ TypeOK /\ Asked /\ LedgerSound /\ RunsSound /\ AssetSound /\ ControlTyped
      /\ asset \in AssetRows /\ channel \in ChannelRows
  BY TypeParts DEF IInv, DataTyped
<1>2. Forward /\ ControlForward /\ UNCHANGED <<workspace, account, serving, ledger, job>>
  BY <1>1, DataStepLeaves DEF membershipVars
<1>3. /\ asset.status = "none" => asset'.status = "none"
      /\ RowExists => RowExists'
  BY <1>1 DEF DataStep, PutObject, ClaimExpiredUpload, DeleteExpiredObject,
     CompleteCleanup, UseChannel, DisconnectChannel, RetireKey, ChannelOnly, TimePasses,
     dataVars, AssetRows, RowExists
<1>4. \A u \in Users : channel'.by = u => channel.by = u
  BY <1>1, MembershipAssumption DEF DataStep, PutObject, ClaimExpiredUpload,
     DeleteExpiredObject, CompleteCleanup, CleanerOnly, TimePasses, dataVars, UseChannel,
     DisconnectChannel, RetireKey, ChannelRows
<1>5. \A w \in Workers : HoldsClaim(w)' => HoldsClaim(w)
  <2>1. ASSUME NEW w \in Workers, NEW o \in Operations, ClaimOperation(w, o)
        PROVE  serving'[w] # serving[w]
    BY <1>1, <2>1, ControlAssumption DEF ClaimOperation, ControlTyped, ServingRows
  <2> QED
    BY <1>2, <2>1 DEF ControlForward
<1>6. \A w \in Workers : AccountRunsSound(w)'
  BY <1>1, <1>2, <1>4, AccountRunKept DEF RunsSound
<1>7. CASE ~ \E content \in {"good", "bad"} : PutObject(content)
  <2>1. asset'.object # "absent" => asset.object # "absent"
    BY <1>1, <1>7 DEF DataStep, ClaimExpiredUpload, DeleteExpiredObject, CompleteCleanup,
       UseChannel, DisconnectChannel, RetireKey, ChannelOnly, TimePasses, dataVars,
       AssetRows
  <2>2. LedgerSound'
    BY <1>1, <1>2, <1>3, <2>1, LedgerKept
  <2>3. \A w \in Workers : WorkspaceRunSound(w)'
    BY <1>1, <1>2, <1>3, <1>5, <2>1, WorkspaceRunKept DEF RunsSound
  <2> QED
    BY <1>6, <2>2, <2>3 DEF RunsSound
<1>8. ASSUME NEW content \in {"good", "bad"}, PutObject(content)
      PROVE  LedgerSound' /\ RunsSound'
  <2>1. Clean' => workspace # "deleted" /\ \A w \in Workers : job[w].step # "complete"
    BY <1>8 DEF PutObject, ObjectsDeleted, Clean
  <2>2. LedgerSound'
    BY <1>2, <2>1 DEF LedgerSound
  <2>3. workspace # "deleted" => RowExists
    BY <1>1, <1>8 DEF PutObject, AssetSound
  <2>4. ASSUME NEW w \in Workers, Clean'
        PROVE  RunSound(w)'
    BY <1>2, <1>3, <2>1, <2>3, <2>4 DEF RunSound
  <2> QED
    BY <1>6, <2>2, <2>4 DEF RunsSound, WorkspaceRunSound
<1> QED
  BY <1>7, <1>8

(* At most one run of the workspace's deletion holds its claim. *)
LEMMA OneHolder ==
  ASSUME NEW w \in Workers, NEW v \in Workers, HoldsClaim(w), HoldsClaim(v),
         serving[w].operation = serving[v].operation
  PROVE  w = v
BY DEF HoldsClaim

LEMMA LedgerWork ==
  ASSUME IInv, NEW w \in Workers, Works(w)
  PROVE  LedgerSound'
<1>1. /\ TypeOK /\ LedgerSound /\ RunsSound /\ asset \in AssetRows /\ ledger \in LedgerRows
      /\ job[w] \in JobRows
  BY TypeParts DEF IInv, DataTyped, JobsTyped
<1>2. Forward
  BY <1>1, WorkLeaves
<1>3. CASE UNCHANGED <<workspace, asset, ledger>>
  BY <1>1, <1>2, <1>3, LedgerKept
<1>4. CASE LoadDeletionMaterial(w)
  <2>1. UNCHANGED <<workspace, asset>> /\ ledger'.keys = ledger.keys
    BY <1>1, <1>4 DEF LoadDeletionMaterial, LedgerResumed, DataOnly, LedgerRows
  <2> QED
    BY <1>1, <1>2, <2>1, LedgerKept
<1>5. CASE DeleteObjects(w)
  <2>1. /\ UNCHANGED <<workspace, ledger>> /\ asset'.status = asset.status
        /\ asset'.object \in {asset.object, "absent"}
    BY <1>1, <1>5 DEF DeleteObjects, DataOnly, AssetRows
  <2> QED
    BY <1>1, <1>2, <2>1, LedgerKept
<1>6. CASE CompleteWorkspaceDataDeletion(w)
  <2>1. CASE KeepLocalData /\ UNCHANGED ledger
    BY <1>3, <2>1 DEF KeepLocalData
  <2>2. CASE /\ IF workspace # "deleted" THEN DeleteLocalData ELSE KeepLocalData
             /\ ledger' = LedgerAfter(w, channel'.key)
             /\ leaks' = leaks
                  \cup (IF MissedRow(w) THEN {"missed"} ELSE {})
                  \cup (IF TokenKeyRetirementPending(channel'.key) /\ job[w].undeleted
                        THEN {"forgotten"} ELSE {})
    <3>1. SUFFICES ASSUME Clean'
                   PROVE  /\ asset'.status = "none"
                          /\ asset'.object # "absent" => ledger'.keys
      BY DEF LedgerSound
    <3>2. Clean /\ ~ MissedRow(w)
          /\ ~ (TokenKeyRetirementPending(channel'.key) /\ job[w].undeleted)
      BY <1>2, <2>2, <3>1, CleanBefore DEF Clean
    <3>3. asset'.status = "none" /\ asset'.object = asset.object
      BY <1>1, <2>2, <3>2 DEF DeleteLocalData, KeepLocalData, LedgerSound, AssetRows
    <3>4. RunSound(w) /\ job[w].step = "complete"
      BY <1>1, <1>6, <3>2 DEF CompleteWorkspaceDataDeletion, RunsSound, WorkspaceRunSound,
         Serves
    <3>5. ASSUME asset.object # "absent"
          PROVE  job[w].undeleted
      BY <3>2, <3>4, <3>5 DEF RunSound, MissedRow
    <3>6. job[w].undeleted => ledger'.keys
      BY <2>2, <3>2 DEF LedgerAfter
    <3> QED
      BY <3>3, <3>5, <3>6
  <2> QED
    BY <1>6, <2>1, <2>2 DEF CompleteWorkspaceDataDeletion
<1> QED
  BY <1>3, <1>4, <1>5, <1>6 DEF Works, RevokeForDeletion, RequestCleanup, AwaitCleanup,
     PrepareIdentityDeletion, DeleteIdentity, CompleteAccountDeletion, DataOnly

(* The other workers' runs. *)
LEMMA RunsBeside ==
  ASSUME IInv, NEW w \in Workers, Works(w), NEW v \in Workers \ {w}
  PROVE  WorkspaceRunSound(v)' /\ AccountRunsSound(v)'
<1>1. /\ TypeOK /\ Asked /\ RunsSound /\ asset \in AssetRows /\ channel \in ChannelRows
  BY TypeParts DEF IInv, DataTyped
<1>2. Forward /\ UNCHANGED <<operation, serving>> /\ job'[v] = job[v]
  BY <1>1, WorkLeaves, WorksAlone
<1>3. HoldsClaim(v)' => HoldsClaim(v)
  BY <1>2 DEF HoldsClaim
<1>4. channel'.by = channel.by
  BY <1>1 DEF Works, LoadDeletionMaterial, RevokeForDeletion, DeleteObjects,
     CompleteWorkspaceDataDeletion, DeleteLocalData, KeepLocalData, RequestCleanup,
     AwaitCleanup, PrepareIdentityDeletion, DeleteIdentity, CompleteAccountDeletion,
     ChannelRows
<1>5. AccountRunsSound(v)'
  BY <1>1, <1>2, <1>4, AccountRunKept DEF RunsSound
<1>6. CASE UNCHANGED <<workspace, asset>>
  BY <1>1, <1>2, <1>3, <1>5, <1>6, WorkspaceRunKept DEF RunsSound, RowExists
<1>7. CASE DeleteObjects(w)
  <2>1. /\ UNCHANGED workspace /\ asset'.status = asset.status
        /\ asset'.object \in {asset.object, "absent"}
    BY <1>1, <1>7 DEF DeleteObjects, DataOnly, AssetRows
  <2> QED
    BY <1>1, <1>2, <1>3, <1>5, <2>1, WorkspaceRunKept DEF RunsSound, RowExists
<1>8. CASE CompleteWorkspaceDataDeletion(w)
  <2>1. HoldsClaim(w) /\ serving[w].operation = WorkspaceDeletion
    BY <1>8 DEF CompleteWorkspaceDataDeletion, Serves
  <2>2. ~ (serving'[v].operation = WorkspaceDeletion /\ HoldsClaim(v)')
    BY <1>2, <1>3, <2>1, OneHolder
  <2> QED
    BY <1>5, <2>2 DEF WorkspaceRunSound, WorkspaceDeletion
<1> QED
  BY <1>6, <1>7, <1>8 DEF Works, LoadDeletionMaterial, RevokeForDeletion, RequestCleanup,
     AwaitCleanup, PrepareIdentityDeletion, DeleteIdentity, CompleteAccountDeletion,
     DataOnly

LEMMA OwnWorkspaceRun ==
  ASSUME IInv, NEW w \in Workers, Works(w)
  PROVE  WorkspaceRunSound(w)'
<1>1. /\ TypeOK /\ AssetSound /\ LedgerSound /\ RunsSound /\ asset \in AssetRows
      /\ job \in [Workers -> JobRows] /\ job[w] \in JobRows
  BY TypeParts DEF IInv, DataTyped, JobsTyped
<1>2. Forward /\ UNCHANGED <<operation, serving>>
  BY <1>1, WorkLeaves, WorksAlone
<1>3. SUFFICES ASSUME serving[w].operation = WorkspaceDeletion, HoldsClaim(w), Clean'
               PROVE  RunSound(w)'
  BY <1>2 DEF WorkspaceRunSound, HoldsClaim, WorkspaceDeletion
<1>4. Clean /\ RunSound(w)
  BY <1>1, <1>2, <1>3, CleanBefore DEF RunsSound, WorkspaceRunSound
<1>5. CASE job'[w].step \notin {"revoke", "objects", "complete"}
  BY <1>5 DEF RunSound
<1>6. Fail(w) => job'[w].step = "failed"
  BY <1>1 DEF Fail, NoJob
<1>7. \A step \in JobSteps : GoTo(w, step) => job'[w] = [job[w] EXCEPT !.step = step]
  BY <1>1 DEF GoTo
<1>8. CASE LoadDeletionMaterial(w) /\ ~ Fail(w)
  <2>1. UNCHANGED <<workspace, asset>>
    BY <1>8 DEF LoadDeletionMaterial, DataOnly
  <2>2. job'[w] = [NoJob EXCEPT !.step = "revoke", !.token = (channel.key = "stored"),
                                !.key = (ledger.keys \/ RowExists)]
    BY <1>1, <1>8, Zenon DEF LoadDeletionMaterial
  <2>3. job'[w].step = "revoke" /\ (job'[w].key <=> ledger.keys \/ RowExists)
    BY <2>2 DEF NoJob
  <2>4. asset.object # "absent" => ledger.keys \/ (workspace # "deleted" /\ RowExists)
    BY <1>1, <1>4 DEF LedgerSound, AssetSound
  <2> QED
    BY <2>1, <2>3, <2>4 DEF RunSound
<1>9. CASE RevokeForDeletion(w) /\ ~ Fail(w)
  <2>1. UNCHANGED <<workspace, asset>> /\ GoTo(w, "objects") /\ job[w].step = "revoke"
    BY <1>9 DEF RevokeForDeletion, DataOnly, Serves
  <2>2. "objects" \in JobSteps
    OBVIOUS
  <2>3. job'[w].step = "objects" /\ job'[w].key = job[w].key
    BY <1>1, <1>7, <2>1, <2>2 DEF JobRows
  <2> QED
    BY <1>4, <2>1, <2>3 DEF RunSound, RowExists
<1>10. CASE DeleteObjects(w) /\ ~ Fail(w)
  <2>1. /\ UNCHANGED workspace /\ job[w].step = "objects"
        /\ asset'.status = asset.status
    BY <1>1, <1>10 DEF DeleteObjects, DataOnly, Serves, AssetRows
  <2>2. CASE /\ asset' = [asset EXCEPT !.object = IF job[w].key THEN "absent" ELSE @]
             /\ GoTo(w, "complete")
    <3>1. "complete" \in JobSteps
      OBVIOUS
    <3>2. job'[w].key = job[w].key
      BY <1>1, <1>7, <2>2, <3>1 DEF JobRows
    <3>3. asset'.object # "absent" => ~ job[w].key /\ asset.object # "absent"
      BY <1>1, <2>2 DEF AssetRows
    <3> QED
      BY <1>4, <2>1, <3>2, <3>3 DEF RunSound, RowExists
  <2>3. CASE /\ UNCHANGED asset
             /\ job' = [job EXCEPT ![w].step = "complete", ![w].undeleted = TRUE]
    <3>1. job'[w].key = job[w].key /\ job'[w].undeleted
      BY <1>1, <2>3 DEF JobRows
    <3> QED
      BY <1>4, <2>1, <2>3, <3>1 DEF RunSound, RowExists
  <2> QED
    BY <1>10, <2>2, <2>3 DEF DeleteObjects
<1>11. CASE CompleteWorkspaceDataDeletion(w)
  <2>1. Fail(w) \/ Return(w, TRUE) \/ Return(w, ledger'.state = "completed")
    BY <1>11, Zenon DEF CompleteWorkspaceDataDeletion
  <2>2. job'[w].step \in {"failed", "finish"}
    BY <1>1, <2>1 DEF Fail, Return, NoJob
  <2> QED
    BY <1>5, <2>2
<1>12. CASE RequestCleanup(w) \/ AwaitCleanup(w) \/ PrepareIdentityDeletion(w)
              \/ DeleteIdentity(w) \/ CompleteAccountDeletion(w)
  BY <1>3, <1>12, Named DEF RequestCleanup, AwaitCleanup, PrepareIdentityDeletion,
     DeleteIdentity, CompleteAccountDeletion, ServesAccount, Serves
<1> QED
  BY <1>5, <1>6, <1>8, <1>9, <1>10, <1>11, <1>12 DEF Works

LEMMA OwnAccountRun ==
  ASSUME IInv, NEW w \in Workers, Works(w)
  PROVE  AccountRunsSound(w)'
<1>1. TypeOK /\ RunsSound /\ job \in [Workers -> JobRows] /\ job[w] \in JobRows
  BY TypeParts DEF IInv, JobsTyped
<1>2. Forward /\ UNCHANGED serving
  BY <1>1, WorkLeaves, WorksAlone
<1>3. SUFFICES ASSUME NEW u \in Users, serving[w].operation = AccountDeletion(u)
               PROVE  AccountRunSound(w, u)'
  BY <1>2 DEF AccountRunsSound, AccountDeletion
<1>4. AccountRunSound(w, u)
  BY <1>1, <1>3 DEF RunsSound, AccountRunsSound
<1>5. OfAccount(w) = u
  BY <1>3 DEF OfAccount, AccountDeletion
<1>6. CASE job'[w].step \notin {"prepare", "identity", "close"}
  BY <1>6 DEF AccountRunSound
<1>7. Fail(w) => job'[w].step = "failed"
  BY <1>1 DEF Fail, NoJob
<1>8. \A step \in JobSteps : GoTo(w, step) => job'[w].step = step
  BY <1>1 DEF GoTo, JobRows
<1>9. CASE RequestCleanup(w)
  <2>1. "await" \in JobSteps /\ GoTo(w, "await")
    BY <1>9 DEF RequestCleanup
  <2> QED
    BY <1>6, <1>8, <2>1
<1>10. CASE AwaitCleanup(w) /\ ~ Fail(w)
  <2>1. channel.by # u /\ UNCHANGED channel /\ GoTo(w, "prepare") /\ "prepare" \in JobSteps
    BY <1>5, <1>10 DEF AwaitCleanup, AuthorizedDataPending
  <2> QED
    BY <1>8, <2>1 DEF AccountRunSound
<1>11. CASE PrepareIdentityDeletion(w) /\ ~ Fail(w)
  <2>1. /\ UNCHANGED <<channel, leaks>> /\ GoTo(w, "identity") /\ "identity" \in JobSteps
        /\ job[w].step = "prepare"
    BY <1>11 DEF PrepareIdentityDeletion, ServesAccount, Serves
  <2> QED
    BY <1>4, <1>8, <2>1 DEF AccountRunSound
<1>12. CASE DeleteIdentity(w) /\ ~ Fail(w)
  <2>1. /\ UNCHANGED <<channel, leaks>> /\ GoTo(w, "close") /\ "close" \in JobSteps
        /\ job[w].step = "identity" /\ identity' = identity \ {u}
    BY <1>5, <1>12 DEF DeleteIdentity, ServesAccount, Serves
  <2>2. u \notin identity'
    BY <2>1
  <2> QED
    BY <1>4, <1>8, <2>1, <2>2 DEF AccountRunSound
<1>13. CASE CompleteAccountDeletion(w) /\ ~ Fail(w)
  <2>1. Return(w, TRUE)
    BY <1>13 DEF CompleteAccountDeletion
  <2>2. job'[w].step = "finish"
    BY <1>1, <2>1 DEF Return, NoJob
  <2> QED
    BY <1>6, <2>2
<1>14. CASE LoadDeletionMaterial(w) \/ RevokeForDeletion(w) \/ DeleteObjects(w)
              \/ CompleteWorkspaceDataDeletion(w)
  BY <1>3, <1>14, Named DEF LoadDeletionMaterial, RevokeForDeletion, DeleteObjects,
     CompleteWorkspaceDataDeletion, Serves
<1> QED
  BY <1>6, <1>7, <1>9, <1>10, <1>11, <1>12, <1>13, <1>14 DEF Works

LEMMA LedgerRunsTurn ==
  ASSUME IInv, NEW w \in Workers, Turns(w)
  PROVE  LedgerSound' /\ RunsSound'
<1>1. /\ TypeOK /\ Asked /\ LedgerSound /\ RunsSound /\ ControlTyped
      /\ ledger \in LedgerRows
  BY TypeParts DEF IInv, DataTyped
<1>2. /\ Forward /\ ControlForward
      /\ UNCHANGED <<workspace, account, asset, channel, leaks>>
      /\ \A v \in Workers \ {w} : job'[v] = job[v] /\ serving'[v] = serving[v]
      /\ job'[w] = NoJob \/ job'[w].step \in {"load", "cleanup"}
  BY <1>1, TurnLeaves, TurnsAlone DEF membershipVars
<1>3. ledger'.keys = ledger.keys
  BY <1>1 DEF Turns, Claim, Finish, FinishFailed, LoseClaim, Crash, FailedLedger, LedgerRows
<1>4. LedgerSound'
  BY <1>1, <1>2, <1>3, LedgerKept
<1>5. WorkspaceRunSound(w)' /\ AccountRunsSound(w)'
  <2>1. job'[w].step \in {"idle", "load", "cleanup"}
    BY <1>2 DEF NoJob
  <2>2. RunSound(w)'
    BY <2>1 DEF RunSound
  <2>3. \A u \in Users : AccountRunSound(w, u)'
    BY <2>1 DEF AccountRunSound
  <2> QED
    BY <2>2, <2>3 DEF WorkspaceRunSound, AccountRunsSound
<1>6. ASSUME NEW v \in Workers \ {w}
      PROVE  WorkspaceRunSound(v)' /\ AccountRunsSound(v)'
  <2>1. serving'[v] = serving[v] /\ job'[v] = job[v]
    BY <1>2
  <2>2. HoldsClaim(v)' => HoldsClaim(v)
    <3>1. ASSUME NEW o \in Operations, ClaimOperation(v, o)
          PROVE  serving'[v] # serving[v]
      BY <1>1, <3>1, ControlAssumption DEF ClaimOperation, ControlTyped, ServingRows
    <3> QED
      BY <1>2, <2>1, <3>1 DEF ControlForward
  <2>3. RowExists => RowExists'
    BY <1>2 DEF RowExists
  <2> QED
    BY <1>1, <1>2, <2>1, <2>2, <2>3, WorkspaceRunKept, AccountRunKept DEF RunsSound
<1> QED
  BY <1>4, <1>5, <1>6 DEF RunsSound

LEMMA LedgerRunsPreserved ==
  ASSUME IInv, [Next]_vars
  PROVE  LedgerSound' /\ RunsSound'
<1>1. TypeOK /\ LedgerSound /\ RunsSound
  BY DEF IInv
<1>2. CASE UNCHANGED vars
  BY <1>1, <1>2 DEF vars, controlVars, membershipVars, dataVars, LedgerSound, RunsSound,
     WorkspaceRunSound, AccountRunsSound, RunSound, AccountRunSound, Clean, HoldsClaim,
     RowExists
<1>3. ASSUME NEW w \in Workers, Works(w)
      PROVE  LedgerSound' /\ RunsSound'
  <2>1. \A v \in Workers \ {w} : WorkspaceRunSound(v)' /\ AccountRunsSound(v)'
    BY <1>3, RunsBeside
  <2> QED
    BY <1>3, <2>1, LedgerWork, OwnWorkspaceRun, OwnAccountRun DEF RunsSound
<1> QED
  BY <1>2, <1>3, StepKinds, LedgerRunsMember, LedgerRunsRequest, LedgerRunsData,
     LedgerRunsTurn

-----------------------------------------------------------------------------
(* The theorems *)

(* The strengthening holds in every reachable state of workspaces, people, assets and
   deletions, for every number of users, requests, workers and faults. *)
THEOREM Inductive == Spec => []IInv
<1>1. Init => IInv
  BY InitSound
<1>2. IInv /\ [Next]_vars => IInv'
  <2>1. SUFFICES ASSUME IInv, [Next]_vars
                 PROVE  IInv'
    OBVIOUS
  <2>2. TypeOK'
    BY <2>1, TypePreserved DEF IInv
  <2> QED
    BY <2>1, <2>2, OwnersPreserved, AssetPreserved, AskedPreserved, ChannelPreserved,
       PeoplePreserved, LedgerRunsPreserved DEF IInv
<1> QED
  BY <1>1, <1>2, PTL DEF Spec

(* Every variable of the workspace's repository and workers keeps its type; a worker
   holds deletion material only while it runs an operation, and the owner lock outlasts
   a step only in the request to close an account. *)
THEOREM TypeCorrect == Spec => []TypeOK
<1>1. IInv => TypeOK
  BY DEF IInv
<1> QED
  BY <1>1, Inductive, PTL

(* lockOwnerInvariant and countEligibleOwners keep an owner who can log in in every
   active workspace, but for the writes that take one without the lock. *)
THEOREM OwnerStays == Spec => []OwnerRemains
<1>1. IInv => OwnerRemains
  BY DEF IInv, OwnersSafe
<1> QED
  BY <1>1, Inductive, PTL

(* A source asset that its confirmation called complete has its object until its
   workspace is being deleted, however confirmations and the cleanup interleave. *)
THEOREM ObjectOfComplete == Spec => []CompleteHasObject
<1>1. IInv => CompleteHasObject
  BY DEF IInv, AssetSound
<1> QED
  BY <1>1, Inductive, PTL

(* A completed ledger row has erased the workspace and a deleted account the person,
   whatever failed, crashed, stalled or was repeated on the way, but for the named late
   writes and the object keys a run forgets. *)
THEOREM NothingLeft == Spec => []DeletedLeavesNothing
<1>1. IInv => DeletedLeavesNothing
  <2>1. SUFFICES ASSUME IInv
                 PROVE  DeletedLeavesNothing
    OBVIOUS
  <2>2. ChannelSound /\ PeopleSound /\ LedgerSound
    BY <2>1 DEF IInv
  <2>3. ledger.state = "completed" => WorkspaceErased
    BY <2>2 DEF ChannelSound, PeopleSound, LedgerSound, Clean, WorkspaceErased
  <2> QED
    BY <2>2, <2>3 DEF DeletedLeavesNothing, PeopleSound
<1> QED
  BY <1>1, Inductive, PTL

=============================================================================
