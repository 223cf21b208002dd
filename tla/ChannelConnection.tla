-------------------------- MODULE ChannelConnection --------------------------
(***************************************************************************)
(* How a channel comes by its tokens. A member begins a connection, which  *)
(* supersedes an unfinished one; the provider sends the browser back to a  *)
(* callback, which may come twice, late, or after the attempt was          *)
(* superseded; Facebook's callback stores a candidate, and a second        *)
(* request selects the Page. Requests run side by side on several servers: *)
(* each exchanges a code, seals the tokens under a key of their own and    *)
(* offers the envelope to the row, and a key whose envelope is not taken   *)
(* is destroyed. Once connected, the tokens are replaced by TikTok's       *)
(* refresh and by a worker that publishes, and end by disconnection or     *)
(* retention. Workers are requests here too.                               *)
(*                                                                         *)
(* A transaction runs at read committed: one that reads a row it does not  *)
(* lock and writes it afterwards is two steps here. A consent record is    *)
(* made for every attempt and names it: attempts are numbered, and         *)
(* "consent" in a row is the number of its attempt.                        *)
(*                                                                         *)
(* ASSUMED: a transaction ends within Prisma's limit of five seconds, in   *)
(* which no attempt begun during it comes back from the provider's         *)
(* consent. The ends of an authorization by a worker are therefore one     *)
(* step: the lease or the state they have read keeps every other new key   *)
(* out of the row.                                                         *)
(***************************************************************************)
EXTENDS Naturals, FiniteSets

CONSTANTS
  Platforms,    \* the platforms a behaviour may be about
  Requests,     \* requests the servers and the workers have under way
  MaxAttempts,  \* bound on the connections begun
  MaxKeys,      \* bound on the keys sealed
  Faults,       \* the kinds of fault that may happen
  MaxFaults     \* bound on the faults of one behaviour

AllPlatforms == {"youtube", "facebook", "tiktok", "instagram"}
FaultKinds == {"crash", "destroy", "reply"}

ASSUME PlatformAssumption == Platforms \subseteq AllPlatforms
ASSUME BoundAssumption == MaxAttempts \in Nat /\ MaxKeys \in Nat /\ MaxFaults \in Nat
ASSUME FaultAssumption == Faults \subseteq FaultKinds

VARIABLES
  platform,   \* the platform of the channel, which never changes
  channel,    \* the row of channels
  sibling,    \* the state of another workspace's channel of the same Meta user
  deletion,   \* channel_ids of the pending row of provider_data_deletion_requests
  correlation,  \* the state of the row of instagram_callback_correlations
  candidate,  \* the channel's row of facebook_connection_candidates
  request,    \* what each request holds in memory
  begun,      \* connections begun so far
  flows,      \* attempts whose sealed state a browser holds in its cookie
  owner,      \* history: the attempt whose authorization a sealed key protects
  destroyed,  \* keys the vault has destroyed
  retiring,   \* keys with an unfinished retirement operation
  lost,       \* history: keys a crash, a failing vault or an overwrite left to nobody
  unheard,    \* history: keys whose envelope was stored, the answer not heard
  overtaken,  \* history: keys of a connection that a Begin overwrote
  budget      \* faults that may still happen

keys == <<owner, destroyed, retiring, lost, unheard, overtaken>>
removal == <<sibling, deletion, correlation>>
vars == <<platform, channel, removal, candidate, request, begun, flows, keys, budget>>

-----------------------------------------------------------------------------
(* States *)

NoKey == 0
NoAttempt == 0

ChannelStates == {"not_connected", "connecting", "connected",
                  "reauthorization_required", "disconnecting", "disconnected"}
Leases == {"none", "live", "past"}
Correlations == {"absent", "not_applicable", "pending_user_action", "confirmed"}

NewChannel == [state |-> "not_connected", consent |-> NoAttempt, digest |-> FALSE,
               key |-> NoKey, subject |-> FALSE, lease |-> "none"]
NoCandidate == [consent |-> NoAttempt, key |-> NoKey, live |-> FALSE]

Kinds == {"begin", "callback", "select", "refresh", "rotate", "disconnect"}
Steps == {"idle", "write", "exchange", "persist", "store", "discard", "deny",
          "disconnect", "destroy"}
NoRequest == [kind |-> "callback", step |-> "idle", attempt |-> NoAttempt,
              key |-> NoKey, old |-> NoKey, removal |-> "absent"]

(* The platforms whose callback claims a digest that is used up by it. *)
Claimed == {"facebook", "tiktok", "instagram"}

SealedKeys == DOMAIN owner
NextKey == Cardinality(SealedKeys) + 1

(* vault.seal: a fresh key for every envelope. *)
Seal(attempt) ==
  /\ NextKey <= MaxKeys
  /\ owner' = [k \in SealedKeys \cup {NextKey} |->
                 IF k = NextKey THEN attempt ELSE owner[k]]

Opens(key) == key # NoKey /\ key \notin destroyed  \* vault.open

(* What a request holds changes, or is forgotten. *)
Move(r, record) == request' = [request EXCEPT ![r] = record]
Finished(r) == Move(r, NoRequest)

Spend(kind) == kind \in Faults /\ budget > 0 /\ budget' = budget - 1

Init ==
  /\ platform \in Platforms
  /\ channel = NewChannel
  /\ sibling = "disconnected" /\ deletion = {} /\ correlation = "absent"
  /\ candidate = NoCandidate
  /\ request = [r \in Requests |-> NoRequest]
  /\ begun = 0
  /\ flows = {}
  /\ owner = <<>>
  /\ destroyed = {} /\ retiring = {}
  /\ lost = {} /\ unheard = {} /\ overtaken = {}
  /\ budget = MaxFaults

-----------------------------------------------------------------------------
(* The connection *)

(* recordConsent: every attempt has a record of its own. *)
NextConsent == begun + 1

(* beginPlatformConnection: an unfinished attempt is superseded; a row that
   still holds tokens is not connected again. The lock keeps two of these apart,
   but nothing else takes it, and the row is read without a lock of its own. *)
BeginRead(r) ==
  /\ request[r].step = "idle"
  /\ \A q \in Requests : request[q].step # "write"
  /\ begun < MaxAttempts
  /\ channel.state \in {"not_connected", "disconnected",
                        "reauthorization_required", "connecting"}
  /\ channel.key = NoKey
  /\ Move(r, [NoRequest EXCEPT !.kind = "begin", !.step = "write"])
  /\ UNCHANGED <<platform, removal, channel, candidate, begun, flows, keys, budget>>

(* The connect route of each platform; Instagram's connection waits until the
   user has removed the application there. *)
RemovalPending ==
  channel.state = "disconnected" /\ correlation = "pending_user_action"

BeginYouTube(r) == platform = "youtube" /\ BeginRead(r)
BeginFacebook(r) == platform = "facebook" /\ BeginRead(r)
BeginTikTok(r) == platform = "tiktok" /\ BeginRead(r)
BeginInstagram(r) == platform = "instagram" /\ ~ RemovalPending /\ BeginRead(r)

(* The sealed state goes to the browser in a cookie; an earlier one of the same
   browser is replaced. It is opened by the session it was sealed for alone. *)
SealFlow(attempt) == \E kept \in {flows, {}} : flows' = kept \cup {attempt}
OpensFlow(attempt) == attempt \in flows

(* The answer to a callback clears the cookie, ten minutes have passed, or the
   session is not the one that the state is bound to any more. *)
LapseFlow(attempt) ==
  /\ attempt \in flows
  /\ flows' = flows \ {attempt}
  /\ UNCHANGED <<platform, removal, channel, candidate, request, begun, keys,
                 budget>>

(* The row is written by its id alone. A request that cannot send the browser
   to the provider afterwards denies the attempt. *)
BeginWrite(r) ==
  /\ request[r].step = "write"
  /\ begun' = NextConsent
  /\ channel' = [channel EXCEPT !.state = "connecting", !.consent = NextConsent,
                                !.digest = platform \in Claimed, !.subject = FALSE]
  /\ overtaken' = overtaken \cup ({channel.key} \ {NoKey})
  /\ \/ SealFlow(NextConsent) /\ Finished(r)
     \/ /\ Move(r, [request[r] EXCEPT !.step = "deny", !.attempt = NextConsent])
        /\ UNCHANGED flows
  /\ UNCHANGED <<platform, removal, candidate, owner, destroyed, retiring, lost,
                 unheard, budget>>

(* denyPlatformConnection, which is about one attempt. *)
DeniedAnyAttempt(attempt) ==  \* mutant: the consent is not compared
  IF channel.state = "connecting"
  THEN [channel EXCEPT !.state = "not_connected", !.digest = FALSE]
  ELSE channel
Denied(attempt) ==
  IF channel.state = "connecting" /\ channel.consent = attempt
  THEN [channel EXCEPT !.state = "not_connected", !.digest = FALSE]
  ELSE channel

(* claimFacebookOAuthCallback and its likes, which use the digest up. *)
ClaimCallback(attempt) ==
  /\ channel.state = "connecting" /\ channel.consent = attempt /\ channel.digest
  /\ channel' = [channel EXCEPT !.digest = FALSE]

(* A callback with the cookie of its attempt, once or more often. All but
   YouTube's are claimed; one that was used or superseded is refused, and denies
   nothing. *)
Callback(r, attempt) ==
  /\ request[r].step = "idle"
  /\ OpensFlow(attempt)
  /\ IF platform \in Claimed THEN ClaimCallback(attempt) ELSE UNCHANGED channel
  /\ Move(r, [NoRequest EXCEPT !.step = "exchange", !.attempt = attempt])
  /\ UNCHANGED <<platform, removal, candidate, begun, flows, keys, budget>>

(* exchangeAuthorizationCode and the identity it reads, then the seal; a
   provider's refusal, a wrong grant or a failing vault goes to the denial. Every
   provider has its own way to the tokens. *)
Exchange(r) ==
  /\ request[r].step = "exchange"
  /\ \/ /\ Seal(request[r].attempt)
        /\ Move(r, [request[r] EXCEPT !.step = "persist", !.key = NextKey])
     \/ /\ Move(r, [request[r] EXCEPT !.step = "deny"])
        /\ UNCHANGED owner
  /\ UNCHANGED <<platform, removal, channel, candidate, begun, flows, destroyed,
                 retiring, lost, unheard, overtaken, budget>>

ExchangeGoogle(r) == platform = "youtube" /\ Exchange(r)
ExchangeMeta(r) == platform = "facebook" /\ Exchange(r)
ExchangeTikTok(r) == platform = "tiktok" /\ Exchange(r)
ExchangeInstagram(r) == platform = "instagram" /\ Exchange(r)

(* The condition of completePlatformConnection and completeFacebookConnection. *)
AcceptsAnyAttempt(attempt) ==  \* mutant: the consent is not compared
  channel.state = "connecting" /\ channel.key = NoKey
Accepts(attempt) ==
  /\ channel.state = "connecting"
  /\ channel.consent = attempt
  /\ channel.key = NoKey

Connected(key) == [channel EXCEPT !.state = "connected", !.key = key]

(* createFacebookConnectionCandidate tests the state and the consent alone. *)
AcceptsCandidate(attempt) ==
  channel.state = "connecting" /\ channel.consent = attempt

(* The transaction of a request has stored its envelope: the key it replaced
   is destroyed next. When the commit's answer is lost, the request takes the
   commit for a failure. *)
Committed(r, old) ==
  \/ /\ Move(r, IF old = NoKey THEN NoRequest
                 ELSE [NoRequest EXCEPT !.step = "destroy", !.old = old])
     /\ UNCHANGED <<unheard, overtaken, budget>>
  \/ /\ Spend("reply")
     /\ unheard' = unheard \cup {request[r].key}
     /\ Move(r, [request[r] EXCEPT !.step = "discard"])
RetireNull(key) == retiring' = retiring \cup {key}  \* mutant: a null is queued
Retire(key) == retiring' = retiring \cup ({key} \ {NoKey})

CompleteConnection(r) ==
  /\ request[r].step = "persist" /\ request[r].kind = "callback"
  /\ platform # "facebook"
  /\ Accepts(request[r].attempt)
  /\ channel' = Connected(request[r].key)
  /\ correlation' = IF platform = "instagram" THEN "not_applicable" ELSE correlation
  /\ Committed(r, NoKey)
  /\ UNCHANGED <<platform, sibling, deletion, candidate, begun, flows, owner,
                 destroyed, retiring, lost, overtaken>>

(* It reads the key of the candidate it will replace, too. *)
ReadCandidate(r) ==
  /\ request[r].step = "persist" /\ request[r].kind = "callback"
  /\ platform = "facebook"
  /\ AcceptsCandidate(request[r].attempt)
  /\ Move(r, [request[r] EXCEPT !.step = "store", !.old = candidate.key])
  /\ UNCHANGED <<platform, removal, channel, candidate, begun, flows, keys, budget>>

(* The upsert keeps one candidate; the key it read is queued for retirement in
   the same transaction, and destroyed by the request. A candidate another
   callback stored meanwhile is overwritten, and its key in nobody's hands. *)
StoredCandidate(r) ==
  [consent |-> request[r].attempt, key |-> request[r].key, live |-> TRUE]
CreateCandidateOver(r) ==  \* mutant: the replaced key is not queued
  /\ request[r].step = "store"
  /\ candidate' = StoredCandidate(r)
  /\ Finished(r)
  /\ UNCHANGED <<platform, removal, channel, begun, flows, keys, budget>>
CreateCandidate(r) ==
  /\ request[r].step = "store"
  /\ candidate' = StoredCandidate(r)
  /\ lost' = lost \cup ({candidate.key} \ {NoKey, request[r].old})
  /\ Retire(request[r].old)
  /\ Committed(r, request[r].old)
  /\ UNCHANGED <<platform, removal, channel, begun, flows, owner, destroyed,
                 overtaken>>

(* The Page selection reads the candidate, opens it and seals the Page's
   tokens: channels/facebook/select. *)
Select(r) ==
  /\ request[r].step = "idle"
  /\ candidate.live /\ Opens(candidate.key)
  /\ Seal(owner[candidate.key])
  /\ Move(r, [NoRequest EXCEPT !.kind = "select", !.step = "persist",
                               !.attempt = candidate.consent, !.key = NextKey])
  /\ UNCHANGED <<platform, removal, channel, candidate, begun, flows, destroyed,
                 retiring, lost, unheard, overtaken, budget>>

(* completeFacebookConnection *)
SelectAccepted(r) ==
  /\ candidate.live /\ candidate.consent = request[r].attempt
  /\ Accepts(request[r].attempt)

CompleteSelectionKeeping(r) ==  \* mutant: the candidate is not deleted
  /\ request[r].step = "persist" /\ request[r].kind = "select"
  /\ SelectAccepted(r)
  /\ channel' = [Connected(request[r].key) EXCEPT !.digest = FALSE, !.subject = TRUE]
  /\ Retire(candidate.key)
  /\ Committed(r, candidate.key)
  /\ UNCHANGED <<platform, removal, candidate, begun, flows, owner, destroyed, lost,
                 overtaken>>
CompleteSelection(r) ==
  /\ request[r].step = "persist" /\ request[r].kind = "select"
  /\ SelectAccepted(r)
  /\ channel' = [Connected(request[r].key) EXCEPT !.digest = FALSE, !.subject = TRUE]
  /\ candidate' = NoCandidate
  /\ Retire(candidate.key)
  /\ Committed(r, candidate.key)
  /\ UNCHANGED <<platform, removal, begun, flows, owner, destroyed, lost,
                 overtaken>>

(* A candidate lives ten minutes; enqueue_due_lifecycle_operations queues its
   key and deletes it. *)
LapseCandidate ==
  /\ candidate.live
  /\ candidate' = [candidate EXCEPT !.live = FALSE]
  /\ UNCHANGED <<platform, removal, channel, request, begun, flows, keys, budget>>

SweepCandidate ==
  /\ candidate.key # NoKey /\ ~ candidate.live
  /\ candidate' = NoCandidate
  /\ Retire(candidate.key)
  /\ UNCHANGED <<platform, removal, channel, request, begun, flows, owner,
                 destroyed, lost, unheard, overtaken, budget>>

-----------------------------------------------------------------------------
(* New tokens for a connected channel *)

(* readConnectedChannelAuthorization, and the envelope it reads is opened. *)
StoredAuthorization == channel.state = "connected" /\ Opens(channel.key)

(* The provider renews the tokens that were read, and they are sealed anew. *)
Renewed(r, kind) ==
  /\ request[r].step = "idle"
  /\ StoredAuthorization
  /\ Seal(owner[channel.key])
  /\ Move(r, [NoRequest EXCEPT !.kind = kind, !.step = "persist",
                               !.key = NextKey, !.old = channel.key])
  /\ UNCHANGED <<platform, removal, channel, candidate, begun, flows, destroyed,
                 retiring, lost, unheard, overtaken, budget>>

(* readFreshTikTokChannelAuthorization, for a member who looks at the creator's
   settings. *)
Refresh(r) == platform = "tiktok" /\ Renewed(r, "refresh")

(* accessToken, facebookAuthorization and tikTokAuthorization of a worker that
   holds the channel's lease; whose lease it is matters to PublishExecution, not
   here. *)
RotateYouTube(r) ==
  platform = "youtube" /\ channel.lease = "live" /\ Renewed(r, "rotate")
RotateFacebook(r) ==
  platform = "facebook" /\ channel.lease = "live" /\ Renewed(r, "rotate")
RotateTikTok(r) ==
  platform = "tiktok" /\ channel.lease = "live" /\ Renewed(r, "rotate")

(* refreshConnectedChannelTokenEnvelope: never beside a lease, not even one
   whose term has passed. *)
RefreshAccepted(r) ==
  /\ channel.state = "connected"
  /\ channel.key = request[r].old
  /\ channel.lease = "none"

CompleteRefresh(r) ==
  /\ request[r].step = "persist" /\ request[r].kind = "refresh"
  /\ RefreshAccepted(r)
  /\ channel' = [channel EXCEPT !.key = request[r].key]
  /\ Retire(request[r].old)
  /\ Committed(r, request[r].old)
  /\ UNCHANGED <<platform, removal, candidate, begun, flows, owner, destroyed, lost,
                 overtaken>>

(* updateChannelTokenEnvelope, under the worker's lease; the replaced key is
   left to the operation that is queued for it. *)
RotationAccepted(r) ==
  /\ channel.state = "connected"
  /\ channel.lease = "live"
  /\ channel.key = request[r].old

CompleteRotation(r) ==
  /\ request[r].step = "persist" /\ request[r].kind = "rotate"
  /\ RotationAccepted(r)
  /\ channel' = [channel EXCEPT !.key = request[r].key]
  /\ Retire(request[r].old)
  /\ Committed(r, NoKey)
  /\ UNCHANGED <<platform, removal, candidate, begun, flows, owner, destroyed, lost,
                 overtaken>>

-----------------------------------------------------------------------------
(* The end of a request *)

(* The transaction of a request refuses its envelope. *)
Refused(r) ==
  /\ request[r].step = "persist"
  /\ CASE request[r].kind = "refresh" -> ~ RefreshAccepted(r)
       [] request[r].kind = "rotate" -> ~ RotationAccepted(r)
       [] request[r].kind = "select" -> ~ SelectAccepted(r)
       [] platform = "facebook" -> ~ AcceptsCandidate(request[r].attempt)
       [] OTHER -> ~ Accepts(request[r].attempt)
  /\ Move(r, [request[r] EXCEPT !.step = "discard"])
  /\ UNCHANGED <<platform, removal, channel, candidate, begun, flows, keys, budget>>

(* persistSealedTokenEnvelope destroys the key it sealed; the callback denies
   its attempt after it, the selection and the refresh leave. *)
AfterDiscard(r) ==
  Move(r, IF request[r].kind = "callback"
          THEN [request[r] EXCEPT !.step = "deny", !.key = NoKey] ELSE NoRequest)

Discard(r) ==
  /\ request[r].step = "discard"
  /\ AfterDiscard(r)
  /\ \/ /\ destroyed' = destroyed \cup {request[r].key}
        /\ UNCHANGED <<lost, overtaken, budget>>
     \/ /\ Spend("destroy")
        /\ lost' = lost \cup {request[r].key}
        /\ UNCHANGED destroyed
  /\ UNCHANGED <<platform, removal, channel, candidate, begun, flows, owner,
                 retiring, unheard, overtaken>>

Deny(r) ==
  /\ request[r].step = "deny"
  /\ channel' = Denied(request[r].attempt)
  /\ Finished(r)
  /\ UNCHANGED <<platform, removal, candidate, begun, flows, keys, budget>>

(* The replaced key is destroyed at once when the vault answers; the
   operation that was queued for it destroys it otherwise. *)
DestroyOld(r) ==
  /\ request[r].step = "destroy"
  /\ destroyed' \in {destroyed, destroyed \cup {request[r].old}}
  /\ Finished(r)
  /\ UNCHANGED <<platform, removal, channel, candidate, begun, flows, owner,
                 retiring, lost, unheard, overtaken, budget>>

(* The server stops; the key the request had sealed is in nobody's hands. *)
Crash(r) ==
  /\ request[r].step # "idle"
  /\ Spend("crash")
  /\ lost' = lost \cup ({request[r].key} \ {NoKey})
  /\ Finished(r)
  /\ UNCHANGED <<platform, removal, channel, candidate, begun, flows, owner,
                 destroyed, retiring, unheard, overtaken>>

-----------------------------------------------------------------------------
(* The worker *)

TakeLease ==
  /\ channel.state = "connected" /\ channel.lease # "live"
  /\ channel' = [channel EXCEPT !.lease = "live"]
  /\ UNCHANGED <<platform, removal, candidate, request, begun, flows, keys, budget>>

(* releaseYouTubeChannelOperationLease, or a worker that never comes to it. *)
EndLease ==
  /\ channel.lease = "live"
  /\ \E lease \in {"none", "past"} : channel' = [channel EXCEPT !.lease = lease]
  /\ UNCHANGED <<platform, removal, candidate, request, begun, flows, keys, budget>>

(* The row of a channel whose authorization has come to its end. *)
Unauthorized ==
  [channel EXCEPT !.state = "reauthorization_required", !.key = NoKey,
                  !.subject = FALSE]

(* requireYouTubeReauthorization by a worker whose token the provider no longer
   takes; its lease ends with its work. *)
RefuseToken ==
  /\ channel.state = "connected" /\ channel.lease = "live"
  /\ channel' = Unauthorized
  /\ Retire(channel.key)
  /\ UNCHANGED <<platform, removal, candidate, request, begun, flows, owner,
                 destroyed, lost, unheard, overtaken, budget>>

(* recordExpiredAuthorizedDataDeletion, which ends the retention's own lease. *)
ExpireAuthorization ==
  /\ channel.state = "connected" /\ channel.lease = "live"
  /\ channel' = [Unauthorized EXCEPT !.lease = "none"]
  /\ Retire(channel.key)
  /\ UNCHANGED <<platform, removal, candidate, request, begun, flows, owner,
                 destroyed, lost, unheard, overtaken, budget>>

(* prepareYouTubeDisconnect, which the routes of three platforms call. *)
Disconnect ==
  /\ begun > 0
  /\ channel.state \notin {"disconnecting", "disconnected"}
  /\ channel' = [channel EXCEPT !.state = "disconnecting"]
  /\ UNCHANGED <<platform, removal, candidate, request, begun, flows, keys, budget>>

DisconnectYouTube == platform = "youtube" /\ Disconnect
DisconnectFacebook == platform = "facebook" /\ Disconnect
DisconnectTikTok == platform = "tiktok" /\ Disconnect

(* request_facebook_authorized_data_deletion, for Meta's signed callbacks: it
   denies the channels of the subject, unless a request of the same subject is
   pending, and then answers with that one. *)
Subjects ==
  (IF channel.subject THEN {"channel"} ELSE {})
    \cup (IF sibling # "disconnected" THEN {"sibling"} ELSE {})

DenySubjects ==
  /\ deletion' = Subjects
  /\ channel' = IF channel.subject
                THEN [channel EXCEPT !.state = "disconnecting"] ELSE channel
  /\ sibling' = IF sibling = "connected" THEN "disconnecting" ELSE sibling

(* The route of the data deletion callback; the deauthorization's does the same. *)
RequestDeletion ==
  /\ platform = "facebook" /\ begun > 0
  /\ IF deletion # {} THEN UNCHANGED <<deletion, channel, sibling>> ELSE DenySubjects
  /\ UNCHANGED <<platform, correlation, candidate, request, begun, flows, keys, budget>>

(* The last of its channels to be disconnected completes a request. *)
Remaining(disconnected, others) ==
  IF disconnected \in deletion /\ deletion \cap others = {} THEN {} ELSE deletion

(* The other channel's connection and its disconnection, which a callback or a
   member of its workspace asks for. *)
MoveSibling ==
  /\ platform = "facebook"
  /\ \/ sibling = "disconnected" /\ sibling' = "connected" /\ UNCHANGED deletion
     \/ sibling = "connected" /\ sibling' = "disconnecting" /\ UNCHANGED deletion
     \/ /\ sibling = "disconnecting" /\ sibling' = "disconnected"
        /\ deletion' = Remaining("sibling", IF channel.state = "disconnected"
                                            THEN {} ELSE {"channel"})
  /\ UNCHANGED <<platform, correlation, channel, candidate, request, begun, flows,
                 keys, budget>>

(* completeYouTubeDisconnect erases first, and ends once no key of the channel
   waits for its retirement. *)
EraseChannel ==
  /\ channel.state = "disconnecting" /\ channel.lease # "live"
  /\ channel.key # NoKey
  /\ channel' = [channel EXCEPT !.key = NoKey, !.subject = FALSE, !.lease = "none"]
  /\ Retire(channel.key)
  /\ UNCHANGED <<platform, removal, candidate, request, begun, flows, owner,
                 destroyed, lost, unheard, overtaken, budget>>

FinishDisconnect ==
  /\ channel.state = "disconnecting" /\ channel.lease # "live"
  /\ channel.key = NoKey
  /\ retiring = {}
  /\ channel' = [channel EXCEPT !.state = "disconnected", !.consent = NoAttempt,
                                !.subject = FALSE, !.lease = "none"]
  /\ deletion' = Remaining("channel", IF sibling = "disconnected"
                                      THEN {} ELSE {"sibling"})
  /\ UNCHANGED <<platform, sibling, correlation, candidate, request, begun, flows,
                 keys, budget>>

(* prepareInstagramLocalDisconnect erases in the request's own transaction. It
   reads the row and the correlation under the lock of the channel's lifecycle,
   which no connection takes, *)
ReadDisconnection(r) ==
  /\ request[r].step = "idle"
  /\ \A q \in Requests : request[q].step # "disconnect"
  /\ platform = "instagram" /\ begun > 0
  /\ channel.state # "disconnected"
  /\ Move(r, [NoRequest EXCEPT !.kind = "disconnect", !.step = "disconnect",
                               !.old = channel.key, !.removal = correlation])
  /\ UNCHANGED <<platform, removal, channel, candidate, begun, flows, keys, budget>>

(* and writes the row by its id: the key it read is queued, and one that a
   connection completed in between has put there is in nobody's hands. The
   application is still to be removed at Instagram, unless it was already. The
   route destroys the key that was read as well. *)
RemovalAfter(read) ==
  IF read = "not_applicable" THEN "pending_user_action" ELSE read

DisconnectInstagram(r) ==
  /\ request[r].step = "disconnect"
  /\ channel' = [NewChannel EXCEPT !.state = "disconnected"]
  /\ lost' = lost \cup ({channel.key} \ {NoKey, request[r].old})
  /\ Retire(request[r].old)
  /\ correlation' = IF request[r].removal = "absent" THEN correlation
                    ELSE RemovalAfter(request[r].removal)
  /\ Move(r, IF request[r].old = NoKey THEN NoRequest
             ELSE [NoRequest EXCEPT !.step = "destroy", !.old = request[r].old])
  /\ UNCHANGED <<platform, sibling, deletion, candidate, begun, flows, owner,
                 destroyed, unheard, overtaken, budget>>

(* confirmInstagramProviderRemoval, for Instagram's deauthorization callback. *)
ConfirmRemoval ==
  /\ platform = "instagram" /\ correlation # "absent"
  /\ channel.state = "disconnected" /\ channel.key = NoKey
  /\ correlation' = "confirmed"
  /\ UNCHANGED <<platform, sibling, deletion, channel, candidate, request, begun,
                 flows, keys, budget>>

(* processTokenKeyRetirement, at any time after it was queued. *)
RetireKey(key) ==
  /\ key \in retiring
  /\ destroyed' = destroyed \cup {key}
  /\ retiring' = retiring \ {key}
  /\ UNCHANGED <<platform, removal, channel, candidate, request, begun, flows,
                 owner, lost, unheard, overtaken, budget>>

-----------------------------------------------------------------------------
Serve(r) ==
  \/ ExchangeGoogle(r) \/ ExchangeMeta(r) \/ ExchangeTikTok(r)
  \/ ExchangeInstagram(r)
  \/ BeginWrite(r)
  \/ CompleteConnection(r) \/ ReadCandidate(r) \/ CreateCandidate(r)
  \/ CompleteSelection(r) \/ CompleteRefresh(r) \/ CompleteRotation(r)
  \/ Refused(r) \/ Discard(r) \/ Deny(r) \/ DestroyOld(r)

Next ==
  \/ \E r \in Requests :
       \/ BeginYouTube(r) \/ BeginFacebook(r) \/ BeginTikTok(r) \/ BeginInstagram(r)
       \/ \E attempt \in flows : Callback(r, attempt)
       \/ Select(r) \/ Refresh(r)
       \/ RotateYouTube(r) \/ RotateFacebook(r) \/ RotateTikTok(r)
       \/ ReadDisconnection(r) \/ DisconnectInstagram(r)
       \/ Serve(r) \/ Crash(r)
  \/ \E attempt \in flows : LapseFlow(attempt)
  \/ LapseCandidate \/ SweepCandidate
  \/ TakeLease \/ EndLease \/ RefuseToken \/ ExpireAuthorization
  \/ DisconnectYouTube \/ DisconnectFacebook \/ DisconnectTikTok
  \/ EraseChannel \/ FinishDisconnect
  \/ RequestDeletion \/ MoveSibling \/ ConfirmRemoval
  \/ \E key \in retiring : RetireKey(key)

Spec == Init /\ [][Next]_vars

-----------------------------------------------------------------------------
(* Properties *)

Channels ==
  [state : ChannelStates, consent : 0..MaxAttempts, digest : BOOLEAN,
   key : 0..MaxKeys, subject : BOOLEAN, lease : Leases]
Candidates == [consent : 0..MaxAttempts, key : 0..MaxKeys, live : BOOLEAN]
RequestRecords ==
  [kind : Kinds, step : Steps, attempt : 0..MaxAttempts, key : 0..MaxKeys,
   old : 0..MaxKeys, removal : Correlations]

(* Every variable has its type, and every key named anywhere was sealed. *)
TypeOK ==
  /\ platform \in Platforms
  /\ channel \in Channels
  /\ sibling \in {"connected", "disconnecting", "disconnected"}
  /\ deletion \subseteq {"channel", "sibling"}
  /\ correlation \in Correlations
  /\ candidate \in Candidates
  /\ request \in [Requests -> RequestRecords]
  /\ begun \in 0..MaxAttempts
  /\ flows \subseteq 1..begun
  /\ \E n \in 0..MaxKeys : owner \in [1..n -> 0..MaxAttempts]
  /\ destroyed \cup retiring \cup lost \cup unheard \cup overtaken \subseteq SealedKeys
  /\ budget \in 0..MaxFaults

(* The row's tokens are those of the very attempt its consent record is about,
   and are there only while it is connected or being disconnected, however the
   callbacks, selections and refreshes of several attempts overtake each other:
   no superseded request gets its tokens in. The one exception is a connection
   that a Begin wrote over, having read the row before. *)
TokensOfOwnAttempt ==
  /\ channel.key # NoKey =>
       \/ /\ channel.key \in SealedKeys
          /\ owner[channel.key] = channel.consent
          /\ channel.state \in {"connected", "disconnecting"}
       \/ channel.key \in overtaken
  /\ channel.state = "connected" => channel.key # NoKey

(* Tokens that can still be used are sealed under a key that is neither
   destroyed nor queued for it, though every request destroys keys: its own
   when it is refused, the replaced one when it is not. The one exception is a
   commit whose answer was lost, which persistSealedTokenEnvelope cannot tell
   from a failure. *)
StoredKeysOpen ==
  \A key \in (IF channel.state = "connected" THEN {channel.key} ELSE {})
            \cup (IF candidate.live THEN {candidate.key} ELSE {}) :
    key \in unheard \/ key \notin destroyed \cup retiring

(* No sealed key is forgotten: it is in the row or in the candidate, destroyed,
   queued for retirement, or in the hands of a request; else its request crashed,
   the vault did not answer, or a candidate's upsert or a disconnection of
   Instagram's overwrote it unread. *)
KeyAccounted ==
  \A key \in SealedKeys :
    \/ key \in {channel.key, candidate.key} \cup destroyed \cup retiring \cup lost
    \/ \E r \in Requests : request[r].key = key

(* What a request of a superseded attempt does leaves the channel alone: a late
   failure does not end the connection its user began after it. *)
SupersededIsHarmless ==
  [][\A r \in Requests :
       request[r] # request'[r] /\ request[r].attempt \notin {NoAttempt, channel.consent}
       => channel' = channel]_vars
=============================================================================
