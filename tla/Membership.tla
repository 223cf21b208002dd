----------------------------- MODULE Membership -----------------------------
(***************************************************************************)
(* The people of one workspace: their accounts and sessions, invitations,    *)
(* roles and the invariant that an active workspace has an owner who can     *)
(* still log in.                                                            *)
(*                                                                         *)
(* A request of the web application is authorised first and acts later, so   *)
(* what authorised it may no longer hold. The transactions that count owners *)
(* take the workspace's owner lock (advisory key 0); those that do not can   *)
(* run between the check and the write of one that does.                     *)
(*                                                                         *)
(* ASSUMED: one session for each user; other workspaces of a user are the    *)
(* place "outside".                                                         *)
(***************************************************************************)
EXTENDS LifecycleControl

CONSTANTS
  Users,
  Requests,     \* slots of requests under way at once
  Roles,        \* the roles that requests name
  MaxRequests,  \* bound on the requests of a behaviour
  NoUser, NoRequest

AllRoles == {"owner_admin", "editor", "approver_publisher", "viewer"}
Owner == "owner_admin"

ASSUME MembershipAssumption ==
  /\ Owner \in Roles /\ Roles \subseteq AllRoles
  /\ NoUser \notin Users /\ NoRequest \notin Requests
  /\ IsFiniteSet(Users)
  /\ MaxRequests \in Nat

VARIABLES
  workspace,  \* lifecycle_state of the row of workspaces
  member,     \* memberships: the role of an active one
  invited,    \* roles of each user's pending invitations
  session,    \* sessions and the workspace each has selected
  account,    \* lifecycle_state of the rows of users
  request,    \* requests under way
  begun,      \* number of requests begun
  ownerLock,  \* request that holds the owner lock over a step
  slipped     \* history: a write without the lock took an owner

membershipVars == <<workspace, member, invited, session, account, request,
                    begun, ownerLock, slipped>>

-----------------------------------------------------------------------------
(* States *)

WorkspaceStates == {"absent", "active", "deletion_pending", "deleted"}
AccountStates == {"active", "deletion_pending", "deleted"}
Places == {"none", "outside", "here"}

Kinds == {"none", "invite", "change_role", "remove", "close_account", "upload",
          "confirm_upload", "create_content", "connect", "delete_workspace"}

(* A request that must hold the owner lock for its write is "guarded". *)
RequestSteps == {"idle", "authorized", "plain", "guarded", "checked", "good", "bad"}

NoRequestYet == [kind |-> "none", user |-> NoUser, target |-> NoUser,
                 role |-> Owner, step |-> "idle"]

AccountDeletion(u) == <<"account_deletion", u>>
WorkspaceDeletion == <<"workspace_data_deletion", NoUser>>

MembershipInit ==
  /\ workspace = "absent"
  /\ member = [u \in Users |-> "none"]
  /\ invited = [u \in Users |-> {}]
  /\ session = [u \in Users |-> "none"]
  /\ account = [u \in Users |-> "active"]
  /\ request = [r \in Requests |-> NoRequestYet]
  /\ begun = 0
  /\ ownerLock = NoRequest
  /\ slipped = FALSE

MembershipTypeOK ==
  /\ workspace \in WorkspaceStates
  /\ member \in [Users -> Roles \cup {"none", "removed"}]
  /\ invited \in [Users -> SUBSET Roles]
  /\ session \in [Users -> Places]
  /\ account \in [Users -> AccountStates]
  /\ request \in [Requests ->
       [kind : Kinds, user : Users \cup {NoUser}, target : Users \cup {NoUser},
        role : Roles, step : RequestSteps]]
  /\ begun \in 0..MaxRequests
  /\ ownerLock \in Requests \cup {NoRequest}
  /\ slipped \in BOOLEAN

-----------------------------------------------------------------------------
(* Authorisation *)

Permissions == {"member.invite", "member.role.assign", "member.remove",
                "channel.connect", "content.create", "data.delete"}
permissionMatrix == [role \in AllRoles |->
  CASE role = Owner -> Permissions
    [] role = "editor" -> {"content.create"}
    [] OTHER -> {}]

PermissionOf(kind) ==
  CASE kind = "invite" -> "member.invite"
    [] kind = "change_role" -> "member.role.assign"
    [] kind = "remove" -> "member.remove"
    [] kind = "connect" -> "channel.connect"
    [] kind = "delete_workspace" -> "data.delete"
    [] OTHER -> "content.create"

ActiveMember(u) == member[u] \in AllRoles

(* requestSession, readSession *)
Authenticated(u) == session[u] # "none" /\ account[u] = "active"

(* getMembershipRole gives a role only in an active workspace, to an active
   member whose account is active. *)
MembershipRole(u) ==
  IF account[u] = "active" /\ workspace = "active" /\ ActiveMember(u)
  THEN {member[u]} ELSE {}

(* authorize *)
Authorized(u, kind) ==
  /\ Authenticated(u)
  /\ session[u] = "here"
  /\ \E role \in MembershipRole(u) : PermissionOf(kind) \in permissionMatrix[role]

Idle(r) == request[r].kind = "none"
Running(r, kind, step) == request[r].kind = kind /\ request[r].step = step
Ended(r) == request' = [request EXCEPT ![r] = NoRequestYet]
StepTo(r, step) == request' = [request EXCEPT ![r].step = step]

NewRequest(r, kind, u, target, role) ==
  /\ Idle(r)
  /\ begun < MaxRequests
  /\ begun' = begun + 1
  /\ request' = [request EXCEPT ![r] =
       [kind |-> kind, user |-> u, target |-> target, role |-> role,
        step |-> "authorized"]]
  /\ UNCHANGED <<workspace, member, invited, session, account, ownerLock,
                 slipped>>

(* The routes that name a member and a role. *)
BeginMemberRequest(r) ==
  \E u, target \in Users, role \in Roles,
     kind \in {"invite", "change_role", "remove"} :
    /\ Authorized(u, kind)
    /\ kind = "remove" => role = Owner  \* names no role
    /\ NewRequest(r, kind, u, target, role)

(* The routes of content, channels and data deletion. *)
BeginWorkspaceRequest(r) ==
  \E u \in Users, kind \in {"upload", "confirm_upload", "create_content",
                            "connect", "delete_workspace"} :
    /\ Authorized(u, kind)
    /\ NewRequest(r, kind, u, NoUser, Owner)

(* The account-deletion route asks for a session only. *)
BeginAccountRequest(r) ==
  \E u \in Users :
    /\ Authenticated(u)
    /\ NewRequest(r, "close_account", u, NoUser, Owner)

-----------------------------------------------------------------------------
(* Sessions *)

(* listUserWorkspaces *)
Listed(u) == workspace = "active" /\ ActiveMember(u)

(* createSession *)
SessionAllowed(u) == account[u] = "active"

(* POST login: a session, with the user's one workspace selected if it is
   listed. *)
LogIn(u) ==
  /\ session[u] = "none" /\ SessionAllowed(u)
  /\ session' = [session EXCEPT ![u] = IF Listed(u) THEN "here" ELSE "outside"]
  /\ UNCHANGED <<workspace, member, invited, account, request, begun, ownerLock,
                 slipped>>

(* deleteSession, or its term passes. *)
LogOut(u) ==
  /\ session[u] # "none"
  /\ session' = [session EXCEPT ![u] = "none"]
  /\ UNCHANGED <<workspace, member, invited, account, request, begun, ownerLock,
                 slipped>>

(* selectWorkspace asks for an active membership, not an active workspace. *)
SelectWorkspace(u) ==
  /\ Authenticated(u) /\ session[u] = "outside" /\ ActiveMember(u)
  /\ session' = [session EXCEPT ![u] = "here"]
  /\ UNCHANGED <<workspace, member, invited, account, request, begun, ownerLock,
                 slipped>>

(* createWorkspace *)
CreateWorkspace(u) ==
  /\ Authenticated(u) /\ workspace = "absent"
  /\ workspace' = "active"
  /\ member' = [member EXCEPT ![u] = Owner]
  /\ session' = [session EXCEPT ![u] = "here"]
  /\ UNCHANGED <<invited, account, request, begun, ownerLock, slipped>>

-----------------------------------------------------------------------------
(* Members *)

(* countEligibleOwners *)
EligibleOwners(members, accounts) ==
  {u \in Users : members[u] = Owner /\ accounts[u] = "active"}

TakesOwner(members, accounts) ==
  /\ workspace = "active"
  /\ ~ EligibleOwners(member, account) \subseteq EligibleOwners(members, accounts)

(* createInvitation looks at nothing. *)
CreateInvitation(r) ==
  /\ Running(r, "invite", "authorized")
  /\ invited' = [invited EXCEPT ![request[r].target] = @ \cup {request[r].role}]
  /\ Ended(r)
  /\ UNCHANGED <<workspace, member, session, account, begun, ownerLock, slipped>>

(* acceptInvitation: one transaction that claims the invitation and sets the
   role, of a member who has one too, without the owner lock. *)
AcceptInvitation(u) ==
  /\ Authenticated(u)
  /\ \E role \in invited[u] :
       /\ invited' = [invited EXCEPT ![u] = @ \ {role}]
       /\ member' = [member EXCEPT ![u] = role]
  /\ session' = [session EXCEPT ![u] = "here"]
  /\ slipped' = (slipped \/ TakesOwner(member', account))
  /\ UNCHANGED <<workspace, account, request, begun, ownerLock>>

(* changeMemberRole and removeMember read the membership first; what they read
   decides whether they take the owner lock. *)
ReadMembership(r) ==
  LET q == request[r] IN
  /\ q.kind \in {"change_role", "remove"} /\ q.step = "authorized"
  /\ IF ~ ActiveMember(q.target) THEN Ended(r)
     ELSE IF member[q.target] = Owner /\ (q.kind = "remove" \/ q.role # Owner)
     THEN StepTo(r, "guarded")
     ELSE StepTo(r, "plain")
  /\ UNCHANGED <<workspace, member, invited, session, account, begun, ownerLock,
                 slipped>>

NothingLocked(r) == TRUE  \* mutant: the owner lock is not taken
OwnerLockTaken(r) == ownerLock = NoRequest

(* The write is by the row's id. It fails when an account or workspace deletion
   has deleted the row, and a removed membership stays removed. *)
AlteredMembers(q) ==
  IF member[q.target] \in {"none", "removed"} THEN member
  ELSE [member EXCEPT ![q.target] = IF q.kind = "remove" THEN "removed" ELSE q.role]

(* removeMember moves the sessions of the member to another workspace. *)
MovedSessions(q) ==
  IF q.kind = "remove" /\ member[q.target] # "none" /\ session[q.target] = "here"
  THEN [session EXCEPT ![q.target] = "outside"]
  ELSE session

AlterUnguarded(r) ==
  LET q == request[r] IN
  /\ q.kind \in {"change_role", "remove"} /\ q.step = "plain"
  /\ member' = AlteredMembers(q)
  /\ session' = MovedSessions(q)
  /\ slipped' = (slipped \/ TakesOwner(member', account))
  /\ Ended(r)
  /\ UNCHANGED <<workspace, invited, account, begun, ownerLock>>

AlterGuarded(r) ==
  LET q == request[r] IN
  /\ q.kind \in {"change_role", "remove"} /\ q.step = "guarded"
  /\ OwnerLockTaken(r)
  /\ IF Cardinality(EligibleOwners(member, account)) <= 1  \* last_owner
     THEN UNCHANGED <<member, session>>
     ELSE /\ member' = AlteredMembers(q)
          /\ session' = MovedSessions(q)
  /\ Ended(r)
  /\ UNCHANGED <<workspace, invited, account, begun, ownerLock, slipped>>

-----------------------------------------------------------------------------
(* Closing an account *)

Succeeds(u, v) == v # u /\ member[v] = Owner /\ account[v] = "active"
OwnsWorkspace(u) == workspace = "active" /\ member[u] = Owner
LacksSuccessor(u) == OwnsWorkspace(u) /\ ~ \E v \in Users : Succeeds(u, v)

(* request_account_deletion: its check. It locks the workspaces the user owns
   when it starts; a lock on the user (key 19) keeps a second one out. *)
CheckSuccessor(r) ==
  LET u == request[r].user IN
  /\ Running(r, "close_account", "authorized")
  /\ ~ \E other \in Requests :
          Running(other, "close_account", "checked") /\ request[other].user = u
  /\ OwnsWorkspace(u) => ownerLock = NoRequest
  /\ IF account[u] # "active" \/ LacksSuccessor(u)
     THEN Ended(r) /\ UNCHANGED ownerLock
     ELSE /\ StepTo(r, "checked")
          /\ ownerLock' = IF OwnsWorkspace(u) THEN r ELSE ownerLock
  /\ UNCHANGED <<workspace, member, invited, session, account, begun, slipped>>

(* Its writes. The workspace is not locked when the user came to own it after
   the check. *)
RequestAccountDeletion(r) ==
  LET u == request[r].user IN
  /\ Running(r, "close_account", "checked")
  /\ account' = [account EXCEPT ![u] = "deletion_pending"]
  /\ session' = [session EXCEPT ![u] = "none"]
  /\ ownerLock' = IF ownerLock = r THEN NoRequest ELSE ownerLock
  /\ slipped' = (slipped \/ (ownerLock # r /\ TakesOwner(member, account')))
  /\ operation' = Enqueued({AccountDeletion(u)})
  /\ Ended(r)
  /\ UNCHANGED <<workspace, member, invited, begun>>

=============================================================================
