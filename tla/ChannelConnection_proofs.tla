----------------------- MODULE ChannelConnection_proofs -----------------------
(***************************************************************************)
(* Theorems about ChannelConnection for every number of requests, attempts, *)
(* keys and faults.                                                         *)
(*                                                                         *)
(* The strengthening is in three layers: what a request holds at each step  *)
(* (Typed), whose authorization a key protects wherever it is (OwnTokens),  *)
(* and that a key which a request may still store is nowhere else           *)
(* (Custody). The actions are classified once by what they do to the keys   *)
(* (Still, Handled, SealsAnew, Dropped); those that store an envelope,      *)
(* retire one of the candidate or disconnect Instagram's channel are        *)
(* classes of their own.                                                    *)
(***************************************************************************)
EXTENDS ChannelConnection, TLAPS, FiniteSetTheorems

(* The steps at which a request holds the key it sealed, and the requests that
   renew the tokens of a connected channel. *)
Holding == {"persist", "store", "discard"}
Renewals == {"refresh", "rotate"}

(* What one request holds in memory. *)
Shape(held) ==
  /\ held.step = "idle" => held = NoRequest
  /\ held.key # NoKey <=> held.step \in Holding
  /\ held.step = "write" => held.kind = "begin" /\ held.attempt = NoAttempt
  /\ held.step = "exchange" => held.kind = "callback"
  /\ held.step = "disconnect" => held.attempt = NoAttempt
  /\ held.step = "store" => held.kind = "callback"
  /\ held.kind \in Renewals =>
       /\ held.attempt = NoAttempt
       /\ held.step = "persist" => held.old # NoKey

Shapes == \A r \in Requests : Shape(request[r])

(* Every key that is named anywhere was sealed. *)
KeysSealed ==
  /\ {channel.key, candidate.key} \subseteq SealedKeys \cup {NoKey}
  /\ \A r \in Requests :
       {request[r].key, request[r].old} \subseteq SealedKeys \cup {NoKey}

(* The advisory lock lets one connection begin at a time; what is destroyed in
   a request was queued for it. *)
Guarded ==
  /\ \A r \in Requests :
       request[r].step = "write" =>
         /\ begun < MaxAttempts
         /\ \A q \in Requests : request[q].step = "write" => q = r
  /\ \A r \in Requests :
       request[r].step = "destroy" => request[r].old \in destroyed \cup retiring

Typed == TypeOK /\ KeysSealed /\ Shapes /\ Guarded

(* Whose authorization a key protects: the row's, the candidate's, and that of
   a request that may still store it. *)
OwnTokens ==
  /\ channel.key # NoKey =>
       \/ channel.key \in overtaken
       \/ /\ owner[channel.key] = channel.consent
          /\ channel.state \in {"connected", "disconnecting"}
  /\ channel.state = "connected" =>
       channel.key # NoKey /\ owner[channel.key] = channel.consent
  /\ candidate.key # NoKey => owner[candidate.key] = candidate.consent
  /\ \A r \in Requests :
       request[r].step \in {"persist", "store"} =>
         owner[request[r].key] =
           IF request[r].kind \in Renewals THEN owner[request[r].old]
                                           ELSE request[r].attempt

(* A key that no row and no operation names, nor another request as the key it
   replaces. *)
InHand(key) ==
  /\ key \notin destroyed \cup retiring \cup {channel.key, candidate.key}
  /\ \A q \in Requests : request[q].old # key

Custody ==
  /\ channel.key # NoKey => channel.key # candidate.key
  /\ \A r, q \in Requests :
       r # q /\ request[r].key # NoKey => request[r].key # request[q].key
  /\ \A r \in Requests :
       request[r].step \in {"persist", "store"} => InHand(request[r].key)
  /\ \A r \in Requests :
       request[r].step = "discard" =>
         request[r].key \in unheard \/ InHand(request[r].key)
  /\ \A r \in Requests :
       request[r].step = "store" /\ request[r].old # NoKey =>
         request[r].old # channel.key
  /\ \A r \in Requests :
       request[r].step = "disconnect" /\ request[r].old # NoKey =>
         request[r].old # candidate.key

KeysSafe == Custody /\ StoredKeysOpen /\ KeyAccounted

IInv == Typed /\ OwnTokens /\ KeysSafe

-----------------------------------------------------------------------------
(* What the actions do to the keys *)

QuietChannel ==
  /\ channel' \in Channels /\ channel'.key = channel.key
  /\ channel'.key # NoKey =>
       \/ channel.key \in overtaken'
       \/ /\ channel'.consent = channel.consent
          /\ channel'.state \in {channel.state, "disconnecting"}
  /\ channel'.state = "connected" =>
       channel.state = "connected" /\ channel'.consent = channel.consent

(* No key moves. *)
Still ==
  /\ QuietChannel
  /\ candidate' \in Candidates
  /\ candidate'.key = candidate.key /\ candidate'.consent = candidate.consent
  /\ candidate'.live => candidate.live
  /\ UNCHANGED <<request, begun, keys>>

(* A request moves on without storing anything: it keeps the key it sealed
   until it discards it, or has it destroyed, or loses it. *)
HandledAs(r, held) ==
  /\ Move(r, held) /\ held \in RequestRecords /\ Shape(held)
  /\ held.step \notin {"persist", "store", "destroy"}
  /\ held.step = "discard" => request[r].step = "persist"
  /\ held.key \in {request[r].key, NoKey}
  /\ held.old \in {request[r].old, NoKey, channel.key}
  /\ held.step = "disconnect" => held.old = channel.key
  /\ held.key = NoKey => request[r].key \in {NoKey} \cup destroyed' \cup lost'
  /\ held.step = "write" =>
       begun < MaxAttempts /\ \A q \in Requests : request[q].step # "write"

Handled(r) ==
  /\ QuietChannel
  /\ \E held \in RequestRecords : HandledAs(r, held)
  /\ begun' \in 0..MaxAttempts
  /\ begun' # begun => request[r].step = "write"
  /\ begun' # begun => request'[r].step # "write"
  /\ destroyed \subseteq destroyed' /\ lost \subseteq lost'
  /\ overtaken \subseteq overtaken'
  /\ destroyed' \cup lost' \cup overtaken' \subseteq SealedKeys
  /\ \A k \in destroyed' \ destroyed :
       k \in retiring \/ (request[r].step = "discard" /\ k = request[r].key)
  /\ UNCHANGED <<candidate, owner, retiring, unheard>>

(* New tokens are sealed under the next key, which the request holds. *)
SealedAs(r, held) ==
  /\ Move(r, held) /\ held \in RequestRecords /\ Shape(held)
  /\ held.step = "persist" /\ held.key = NextKey
  /\ held.old \in {request[r].old, channel.key, NoKey}
  /\ Seal(IF held.kind \in Renewals THEN owner[held.old] ELSE held.attempt)

SealsAnew(r) ==
  /\ request[r].key = NoKey
  /\ \E held \in RequestRecords : SealedAs(r, held)
  /\ UNCHANGED <<channel, candidate, begun, destroyed, retiring, lost, unheard, overtaken>>

(* The row gives its key up, which is queued for its retirement. *)
Dropped ==
  /\ channel' \in Channels /\ channel'.key = NoKey /\ channel'.state # "connected"
  /\ retiring' = retiring \cup ({channel.key} \ {NoKey})
  /\ UNCHANGED <<request, candidate, begun, owner, destroyed, lost, unheard, overtaken>>

(* Instagram's route is over, or goes on to destroy the key it has queued. *)
LeftBy(r, held) ==
  /\ Move(r, held) /\ held \in RequestRecords /\ Shape(held)
  /\ held.step \in {"idle", "destroy"} /\ held.key = NoKey
  /\ held.step = "destroy" => held.old \in retiring'
  /\ held.old \in {request[r].old, NoKey}

(* The transaction of a request has stored its envelope: the request is over,
   or destroys the replaced key, or takes the commit for a failure. *)
CommittedAs(r, old, held) ==
  /\ Move(r, held) /\ held \in RequestRecords /\ Shape(held)
  /\ \/ held = NoRequest /\ UNCHANGED unheard
     \/ /\ held.step = "destroy" /\ held.key = NoKey
        /\ held.old = old /\ old # NoKey
        /\ UNCHANGED unheard
     \/ /\ held = [request[r] EXCEPT !.step = "discard"]
        /\ unheard' = unheard \cup {request[r].key}

(* The steps that put a key into a row, or take it out of the candidate. *)
Stores(r) ==
  \/ CompleteConnection(r) \/ ReadCandidate(r) \/ CreateCandidate(r)
  \/ CompleteSelection(r) \/ CompleteRefresh(r) \/ CompleteRotation(r)

KeyStep ==
  \/ Still \/ Dropped \/ SweepCandidate
  \/ \E r \in Requests :
       Handled(r) \/ SealsAnew(r) \/ Stores(r) \/ DisconnectInstagram(r)
  \/ \E key \in retiring : RetireKey(key)

USE DEF NoKey, NoAttempt, ChannelStates, Leases, Correlations, Kinds, Steps, Holding,
        Renewals

-----------------------------------------------------------------------------
(* Keys and records *)

(* The type invariant, with the parts that no key is about set apart. *)
Surroundings ==
  /\ platform \in Platforms
  /\ sibling \in {"connected", "disconnecting", "disconnected"}
  /\ deletion \subseteq {"channel", "sibling"}
  /\ correlation \in Correlations
  /\ flows \subseteq 1..begun
  /\ budget \in 0..MaxFaults

OwnerTyped == \E n \in 0..MaxKeys : owner \in [1..n -> 0..MaxAttempts]

LEMMA TypeParts ==
  TypeOK <=>
    /\ Surroundings /\ OwnerTyped
    /\ channel \in Channels /\ candidate \in Candidates
    /\ request \in [Requests -> RequestRecords] /\ begun \in 0..MaxAttempts
    /\ destroyed \cup retiring \cup lost \cup unheard \cup overtaken \subseteq SealedKeys
BY DEF TypeOK, Surroundings, OwnerTyped

LEMMA TypePartsPrimed ==
  TypeOK' <=>
    /\ Surroundings' /\ OwnerTyped'
    /\ channel' \in Channels /\ candidate' \in Candidates
    /\ request' \in [Requests -> RequestRecords] /\ begun' \in 0..MaxAttempts
    /\ (destroyed \cup retiring \cup lost \cup unheard \cup overtaken \subseteq SealedKeys)'
BY DEF TypeOK, Surroundings, OwnerTyped

(* The keys sealed so far are the first ones, and a seal takes the next. *)
LEMMA Sealing ==
  ASSUME TypeOK
  PROVE  /\ SealedKeys \subseteq 1..MaxKeys
         /\ NextKey \in Nat \ {0} /\ NextKey \notin SealedKeys
         /\ \A k \in SealedKeys : owner[k] \in 0..MaxAttempts
<1>1. PICK n \in 0..MaxKeys : owner \in [1..n -> 0..MaxAttempts]
  BY DEF TypeOK
<1>2. SealedKeys = 1..n /\ n \in Nat
  BY <1>1, BoundAssumption DEF SealedKeys
<1>3. Cardinality(1..n) = n
  BY <1>2, FS_Interval
<1> QED
  BY <1>1, <1>2, <1>3, BoundAssumption DEF NextKey

LEMMA SealedAnew ==
  ASSUME TypeOK, NEW attempt \in 0..MaxAttempts, Seal(attempt)
  PROVE  /\ NextKey \in 1..MaxKeys /\ OwnerTyped'
         /\ SealedKeys' = SealedKeys \cup {NextKey}
         /\ owner'[NextKey] = attempt
         /\ \A k \in SealedKeys : owner'[k] = owner[k]
<1>1. PICK n \in 0..MaxKeys : owner \in [1..n -> 0..MaxAttempts]
  BY DEF TypeOK
<1>2. SealedKeys = 1..n /\ n \in Nat
  BY <1>1, BoundAssumption DEF SealedKeys
<1>3. NextKey = n + 1
  <2>1. Cardinality(1..n) = n
    BY <1>2, FS_Interval
  <2> QED
    BY <1>2, <2>1 DEF NextKey
<1>4. NextKey \in 1..MaxKeys /\ SealedKeys \cup {NextKey} = 1..(n + 1)
      /\ n + 1 \in 0..MaxKeys
  BY <1>2, <1>3, BoundAssumption DEF Seal
<1>5. owner' \in [1..(n + 1) -> 0..MaxAttempts]
  <2>1. owner' = [k \in 1..(n + 1) |-> IF k = NextKey THEN attempt ELSE owner[k]]
    BY <1>4 DEF Seal
  <2>2. ASSUME NEW k \in 1..(n + 1)
        PROVE  (IF k = NextKey THEN attempt ELSE owner[k]) \in 0..MaxAttempts
    BY <1>1, <1>2, <1>3, <2>2
  <2> QED
    BY <2>1, <2>2
<1>6. SealedKeys' = SealedKeys \cup {NextKey}
  BY DEF Seal, SealedKeys
<1> QED
  BY <1>1, <1>2, <1>3, <1>4, <1>5, <1>6, Sealing DEF Seal, OwnerTyped

(* Only the moving request changes. *)
LEMMA Moved ==
  ASSUME request \in [Requests -> RequestRecords], NEW r \in Requests, NEW held,
         Move(r, held)
  PROVE  /\ request'[r] = held
         /\ \A q \in Requests : q # r => request'[q] = request[q]
         /\ held \in RequestRecords => request' \in [Requests -> RequestRecords]
BY DEF Move

LEMMA Zeros ==
  /\ 0 \in 0..MaxAttempts /\ 0 \in 0..MaxKeys
  /\ 1..MaxKeys \subseteq 0..MaxKeys /\ 0 \notin 1..MaxKeys
BY BoundAssumption

LEMMA NoRequestTyped ==
  NoRequest \in RequestRecords /\ Shape(NoRequest)
BY BoundAssumption DEF NoRequest, RequestRecords, Shape

-----------------------------------------------------------------------------
(* The actions classified *)

(* The connection's own steps leave the keys where they are. *)
LEMMA StillSteps ==
  ASSUME Typed,
         \/ \E attempt \in flows : LapseFlow(attempt)
         \/ LapseCandidate \/ TakeLease \/ EndLease
         \/ DisconnectYouTube \/ DisconnectFacebook \/ DisconnectTikTok
         \/ FinishDisconnect \/ RequestDeletion \/ MoveSibling \/ ConfirmRemoval
  PROVE  Still
<1>1. channel \in Channels /\ candidate \in Candidates
  BY TypeParts DEF Typed
<1>2. UNCHANGED channel => QuietChannel
  BY <1>1 DEF QuietChannel
<1>3. UNCHANGED candidate =>
        /\ candidate' \in Candidates /\ candidate'.key = candidate.key
        /\ candidate'.consent = candidate.consent
        /\ candidate'.live => candidate.live
  BY <1>1
<1>4. CASE \E attempt \in flows : LapseFlow(attempt)
  BY <1>2, <1>3, <1>4 DEF LapseFlow, Still
<1>5. CASE LapseCandidate
  BY <1>1, <1>2, <1>5 DEF LapseCandidate, Still, Candidates
<1>6. CASE TakeLease
  <2>1. QuietChannel
    BY <1>1, <1>6 DEF TakeLease, QuietChannel, Channels
  <2> QED
    BY <1>3, <1>6, <2>1 DEF TakeLease, Still
<1>7. CASE EndLease
  <2>1. QuietChannel
    BY <1>1, <1>7 DEF EndLease, QuietChannel, Channels
  <2> QED
    BY <1>3, <1>7, <2>1 DEF EndLease, Still
<1>8. CASE DisconnectYouTube \/ DisconnectFacebook \/ DisconnectTikTok
  <2>1. Disconnect
    BY <1>8 DEF DisconnectYouTube, DisconnectFacebook, DisconnectTikTok
  <2>2. QuietChannel
    BY <1>1, <2>1 DEF Disconnect, QuietChannel, Channels
  <2> QED
    BY <1>3, <2>1, <2>2 DEF Disconnect, Still
<1>9. CASE FinishDisconnect
  <2>1. QuietChannel
    BY <1>1, <1>9, Zeros DEF FinishDisconnect, QuietChannel, Channels
  <2> QED
    BY <1>3, <1>9, <2>1 DEF FinishDisconnect, Still
<1>10. CASE RequestDeletion
  <2>1. channel' = channel \/ channel' = [channel EXCEPT !.state = "disconnecting"]
    BY <1>10 DEF RequestDeletion, DenySubjects
  <2>2. QuietChannel
    BY <1>1, <2>1 DEF QuietChannel, Channels
  <2> QED
    BY <1>3, <1>10, <2>2 DEF RequestDeletion, Still
<1>11. CASE MoveSibling
  BY <1>2, <1>3, <1>11 DEF MoveSibling, Still
<1>12. CASE ConfirmRemoval
  BY <1>2, <1>3, <1>12 DEF ConfirmRemoval, Still
<1> QED
  BY <1>4, <1>5, <1>6, <1>7, <1>8, <1>9, <1>10, <1>11, <1>12

(* The ends of an authorization. *)
LEMMA DroppedSteps ==
  ASSUME Typed,
         RefuseToken \/ ExpireAuthorization \/ EraseChannel
  PROVE  Dropped
<1>1. channel \in Channels
  BY TypeParts DEF Typed
<1>2. CASE RefuseToken
  BY <1>1, <1>2, Zeros DEF RefuseToken, Unauthorized, Retire, Dropped,
     Channels, keys
<1>3. CASE ExpireAuthorization
  BY <1>1, <1>3, Zeros DEF ExpireAuthorization, Unauthorized, Retire,
     Dropped, Channels, keys
<1>4. CASE EraseChannel
  BY <1>1, <1>4, Zeros DEF EraseChannel, Retire, Dropped, Channels, keys
<1> QED
  BY <1>2, <1>3, <1>4

(* What the transaction of a local disconnection does to keys and requests. *)
LEMMA Disconnection ==
  ASSUME Typed, NEW r \in Requests, DisconnectInstagram(r)
  PROVE  /\ channel' \in Channels /\ channel'.key = NoKey /\ channel'.state # "connected"
         /\ request[r].step = "disconnect" /\ request[r].key = NoKey
         /\ retiring' = retiring \cup ({request[r].old} \ {NoKey})
         /\ lost' = lost \cup ({channel.key} \ {NoKey, request[r].old})
         /\ \E held \in RequestRecords : LeftBy(r, held)
         /\ UNCHANGED <<candidate, begun, owner, destroyed, unheard, overtaken>>
<1> DEFINE destroys == [NoRequest EXCEPT !.step = "destroy", !.old = request[r].old]
<1>1. request[r] \in RequestRecords /\ Shape(request[r])
  BY TypeParts DEF Typed, Shapes
<1>2. request[r].step = "disconnect" /\ request[r].key = NoKey
  BY <1>1 DEF DisconnectInstagram, Shape
<1>3. /\ destroys \in RequestRecords /\ Shape(destroys) /\ destroys.step = "destroy"
      /\ destroys.key = NoKey /\ destroys.old = request[r].old
  BY <1>1, Zeros DEF NoRequest, RequestRecords, Shape
<1>4. /\ NoRequest \in RequestRecords /\ Shape(NoRequest) /\ NoRequest.step = "idle"
      /\ NoRequest.key = NoKey /\ NoRequest.old = NoKey
  BY NoRequestTyped DEF NoRequest
<1>5. /\ channel' \in Channels /\ channel'.key = NoKey
      /\ channel'.state # "connected"
  BY Zeros DEF DisconnectInstagram, NewChannel, Channels
<1>6. retiring' = retiring \cup ({request[r].old} \ {NoKey})
  BY DEF DisconnectInstagram, Retire
<1>7. LeftBy(r, NoRequest) \/ LeftBy(r, destroys)
  <2>1. CASE request[r].old = NoKey
    BY <1>4, <2>1 DEF DisconnectInstagram, LeftBy
  <2>2. CASE request[r].old # NoKey
    BY <1>3, <1>6, <2>2 DEF DisconnectInstagram, LeftBy
  <2> QED
    BY <2>1, <2>2
<1> HIDE DEF destroys
<1> QED
  BY <1>2, <1>3, <1>4, <1>5, <1>6, <1>7 DEF DisconnectInstagram

(* The steps that seal. *)
LEMMA SealsSteps ==
  ASSUME Typed, OwnTokens, NEW r \in Requests,
         \/ Exchange(r) /\ Seal(request[r].attempt)
              /\ Move(r, [request[r] EXCEPT !.step = "persist", !.key = NextKey])
         \/ Select(r) \/ \E kind \in Renewals : Renewed(r, kind)
  PROVE  SealsAnew(r)
<1>1. /\ channel \in Channels /\ candidate \in Candidates
      /\ request[r] \in RequestRecords /\ Shape(request[r])
  BY TypeParts DEF Typed, Shapes
<1>2. ASSUME NEW attempt \in 0..MaxAttempts, Seal(attempt)
      PROVE  NextKey \in 1..MaxKeys
  BY <1>2, SealedAnew DEF Typed
<1>3. \A k \in SealedKeys : owner[k] \in 0..MaxAttempts
  BY Sealing DEF Typed
<1>4. CASE Exchange(r) /\ Seal(request[r].attempt)
             /\ Move(r, [request[r] EXCEPT !.step = "persist", !.key = NextKey])
  <2> DEFINE held == [request[r] EXCEPT !.step = "persist", !.key = NextKey]
  <2>1. request[r].step = "exchange" /\ request[r].kind = "callback"
        /\ request[r].key = NoKey /\ NextKey \in 1..MaxKeys
    BY <1>1, <1>2, <1>4 DEF Exchange, Shape, RequestRecords
  <2>2. held \in RequestRecords /\ Shape(held) /\ held.step = "persist"
        /\ held.key = NextKey /\ held.old = request[r].old
        /\ held.attempt = request[r].attempt /\ held.kind = "callback"
    BY <1>1, <2>1, Zeros DEF RequestRecords, Shape
  <2>3. SealedAs(r, held)
    BY <1>4, <2>2 DEF SealedAs
  <2> QED
    BY <1>4, <2>1, <2>2, <2>3 DEF Exchange, SealsAnew
<1>5. CASE Select(r)
  <2> DEFINE held == [NoRequest EXCEPT !.kind = "select", !.step = "persist",
                               !.attempt = candidate.consent, !.key = NextKey]
  <2>1. request[r].key = NoKey
    BY <1>1, <1>5 DEF Select, Shape
  <2>2. owner[candidate.key] \in 0..MaxAttempts
    BY <1>3, <1>5 DEF Select, Opens, Typed, KeysSealed
  <2>3. NextKey \in 1..MaxKeys
    BY <1>2, <1>5, <2>2 DEF Select
  <2>4. held \in RequestRecords /\ Shape(held) /\ held.step = "persist"
        /\ held.key = NextKey /\ held.old = NoKey
        /\ held.attempt = candidate.consent /\ held.kind = "select"
    BY <1>1, <2>3, Zeros DEF NoRequest, RequestRecords, Candidates, Shape
  <2>5. SealedAs(r, held)
    <3>1. owner[candidate.key] = candidate.consent
      BY <1>5 DEF Select, Opens, OwnTokens
    <3> QED
      BY <1>5, <2>4, <3>1 DEF Select, SealedAs
  <2> QED
    BY <1>5, <2>1, <2>4, <2>5 DEF Select, SealsAnew
<1>6. ASSUME NEW kind \in Renewals, Renewed(r, kind)
      PROVE  SealsAnew(r)
  <2> DEFINE held == [NoRequest EXCEPT !.kind = kind, !.step = "persist",
                               !.key = NextKey, !.old = channel.key]
  <2>1. request[r].key = NoKey /\ channel.key # NoKey
    BY <1>1, <1>6 DEF Renewed, StoredAuthorization, Opens, Shape
  <2>2. owner[channel.key] \in 0..MaxAttempts
    BY <1>3, <2>1 DEF Typed, KeysSealed
  <2>3. NextKey \in 1..MaxKeys
    BY <1>2, <1>6, <2>2 DEF Renewed
  <2>4. held \in RequestRecords /\ Shape(held) /\ held.step = "persist"
        /\ held.key = NextKey /\ held.old = channel.key /\ held.kind = kind
    BY <1>1, <2>1, <2>3, Zeros DEF NoRequest, RequestRecords, Channels, Shape
  <2>5. SealedAs(r, held)
    BY <1>6, <2>4 DEF Renewed, SealedAs
  <2> QED
    BY <1>6, <2>1, <2>4, <2>5 DEF Renewed, SealsAnew
<1> QED
  BY <1>4, <1>5, <1>6


(* The steps of a request that store nothing. *)
LEMMA HandledSteps ==
  ASSUME Typed, OwnTokens, NEW r \in Requests,
         \/ BeginRead(r) \/ BeginWrite(r) \/ ReadDisconnection(r)
         \/ \E attempt \in flows : Callback(r, attempt)
         \/ Exchange(r) /\ Move(r, [request[r] EXCEPT !.step = "deny"]) /\ UNCHANGED owner
         \/ Refused(r) \/ Discard(r) \/ Deny(r) \/ DestroyOld(r) \/ Crash(r)
  PROVE  Handled(r)
<1>1. /\ channel \in Channels /\ begun \in 0..MaxAttempts /\ flows \subseteq 1..begun
      /\ request[r] \in RequestRecords /\ Shape(request[r])
      /\ destroyed \cup retiring \cup lost \cup unheard \cup overtaken \subseteq SealedKeys
      /\ {request[r].key, request[r].old, channel.key} \subseteq SealedKeys \cup {NoKey}
  BY TypeParts DEF Typed, Shapes, KeysSealed, Surroundings
<1>2. UNCHANGED channel => QuietChannel
  BY <1>1 DEF QuietChannel
<1>3. NoRequest \in RequestRecords /\ Shape(NoRequest) /\ NoRequest.key = NoKey
      /\ NoRequest.old = NoKey /\ NoRequest.step = "idle"
  BY NoRequestTyped DEF NoRequest
<1>4. CASE BeginRead(r)
  <2> DEFINE held == [NoRequest EXCEPT !.kind = "begin", !.step = "write"]
  <2>1. held \in RequestRecords /\ Shape(held) /\ held.key = NoKey /\ held.old = NoKey
        /\ held.step = "write"
    BY Zeros DEF NoRequest, RequestRecords, Shape
  <2>2. request[r].key = NoKey
    BY <1>1, <1>4 DEF BeginRead, Shape
  <2>3. HandledAs(r, held)
    BY <1>4, <2>1, <2>2 DEF BeginRead, HandledAs
  <2> QED
    BY <1>1, <1>2, <1>4, <2>1, <2>3 DEF BeginRead, Handled, keys
<1>5. CASE BeginWrite(r)
  <2> DEFINE denies == [request[r] EXCEPT !.step = "deny", !.attempt = NextConsent]
  <2>1. begun < MaxAttempts /\ request[r].kind = "begin" /\ request[r].key = NoKey
    BY <1>1, <1>5 DEF BeginWrite, Typed, Guarded, Shape
  <2>2. NextConsent \in 0..MaxAttempts
    BY <1>1, <2>1, BoundAssumption DEF NextConsent
  <2>3. QuietChannel
    <3>1. (platform \in Claimed) \in BOOLEAN
      OBVIOUS
    <3>2. \A digest \in BOOLEAN :
            LET row == [channel EXCEPT !.state = "connecting", !.consent = NextConsent,
                                       !.digest = digest, !.subject = FALSE] IN
            row \in Channels /\ row.key = channel.key /\ row.state = "connecting"
      BY <1>1, <2>2 DEF Channels
    <3>3. channel' \in Channels /\ channel'.key = channel.key
          /\ channel'.state = "connecting"
      BY <1>5, <3>1, <3>2, Zenon DEF BeginWrite
    <3> QED
      BY <1>1, <1>5, <3>3 DEF BeginWrite, QuietChannel
  <2>4. denies \in RequestRecords /\ Shape(denies) /\ denies.key = NoKey
        /\ denies.old = request[r].old /\ denies.step = "deny"
    BY <1>1, <2>1, <2>2 DEF RequestRecords, Shape
  <2>5. HandledAs(r, NoRequest) \/ HandledAs(r, denies)
    BY <1>3, <1>5, <2>1, <2>4 DEF BeginWrite, HandledAs, Finished
  <2>6. request'[r].step # "write"
    BY <1>3, <2>4, <2>5, Moved, TypeParts DEF HandledAs, Typed
  <2> QED
    BY <1>1, <1>3, <1>5, <2>2, <2>3, <2>4, <2>5, <2>6 DEF BeginWrite, Handled
<1>6. ASSUME NEW attempt \in flows, Callback(r, attempt)
      PROVE  Handled(r)
  <2> DEFINE held == [NoRequest EXCEPT !.step = "exchange", !.attempt = attempt]
  <2>1. attempt \in 0..MaxAttempts
    BY <1>1, BoundAssumption
  <2>2. QuietChannel
    BY <1>1, <1>2, <1>6 DEF Callback, ClaimCallback, QuietChannel, Channels
  <2>3. held \in RequestRecords /\ Shape(held) /\ held.key = NoKey /\ held.old = NoKey
        /\ held.step = "exchange"
    BY <2>1, Zeros DEF NoRequest, RequestRecords, Shape
  <2>4. request[r].key = NoKey
    BY <1>1, <1>6 DEF Callback, Shape
  <2>5. HandledAs(r, held)
    BY <1>6, <2>3, <2>4 DEF Callback, HandledAs
  <2> QED
    BY <1>1, <1>6, <2>2, <2>3, <2>5 DEF Callback, Handled, keys
<1>7. CASE Exchange(r) /\ Move(r, [request[r] EXCEPT !.step = "deny"]) /\ UNCHANGED owner
  <2> DEFINE held == [request[r] EXCEPT !.step = "deny"]
  <2>1. request[r].key = NoKey /\ request[r].kind = "callback"
    BY <1>1, <1>7 DEF Exchange, Shape
  <2>2. held \in RequestRecords /\ Shape(held) /\ held.key = NoKey
        /\ held.old = request[r].old /\ held.step = "deny"
    BY <1>1, <2>1 DEF RequestRecords, Shape
  <2>3. HandledAs(r, held)
    BY <1>7, <2>1, <2>2 DEF HandledAs
  <2> QED
    BY <1>1, <1>2, <1>7, <2>2, <2>3 DEF Exchange, Handled
<1>8. CASE Refused(r)
  <2> DEFINE held == [request[r] EXCEPT !.step = "discard"]
  <2>1. request[r].step = "persist" /\ request[r].key # NoKey
    BY <1>1, <1>8 DEF Refused, Shape
  <2>2. held \in RequestRecords /\ Shape(held) /\ held.key = request[r].key
        /\ held.old = request[r].old /\ held.step = "discard"
    BY <1>1, <2>1 DEF RequestRecords, Shape
  <2>3. HandledAs(r, held)
    BY <1>8, <2>1, <2>2 DEF Refused, HandledAs
  <2> QED
    BY <1>1, <1>2, <1>8, <2>2, <2>3 DEF Refused, Handled, keys
<1>9. CASE Discard(r)
  <2> DEFINE denies == [request[r] EXCEPT !.step = "deny", !.key = NoKey]
  <2>1. request[r].step = "discard" /\ request[r].key # NoKey
    BY <1>1, <1>9 DEF Discard, Shape
  <2>2. request[r].kind = "callback" =>
          /\ denies \in RequestRecords /\ Shape(denies) /\ denies.key = NoKey
          /\ denies.old = request[r].old /\ denies.step = "deny"
    BY <1>1, Zeros DEF RequestRecords, Shape
  <2>3. request[r].key \in destroyed' \cup lost'
        /\ destroyed' \cup lost' \subseteq SealedKeys
    BY <1>1, <1>9, <2>1 DEF Discard
  <2>4. /\ destroyed \subseteq destroyed'
        /\ destroyed' \subseteq destroyed \cup {request[r].key}
        /\ lost \subseteq lost'
    BY <1>9 DEF Discard
  <2>5. CASE request[r].kind = "callback"
    <3>1. HandledAs(r, denies)
      BY <1>9, <2>1, <2>2, <2>3, <2>5 DEF Discard, AfterDiscard, HandledAs
    <3> QED
      BY <1>1, <1>2, <1>9, <2>1, <2>2, <2>3, <2>4, <2>5, <3>1 DEF Discard, Handled
  <2>6. CASE request[r].kind # "callback"
    <3>1. HandledAs(r, NoRequest)
      BY <1>3, <1>9, <2>1, <2>3, <2>6 DEF Discard, AfterDiscard, HandledAs
    <3> QED
      BY <1>1, <1>2, <1>3, <1>9, <2>1, <2>3, <2>4, <3>1 DEF Discard, Handled
  <2> QED
    BY <2>5, <2>6
<1>10. CASE Deny(r)
  <2>1. QuietChannel
    <3>1. channel' = channel
          \/ /\ channel.state = "connecting"
             /\ channel' = [channel EXCEPT !.state = "not_connected", !.digest = FALSE]
      BY <1>10 DEF Deny, Denied
    <3>2. channel.state = "connecting" /\ channel.key # NoKey => channel.key \in overtaken'
      BY <1>10 DEF Deny, keys, OwnTokens
    <3> QED
      BY <1>1, <1>2, <3>1, <3>2 DEF QuietChannel, Channels
  <2>2. request[r].key = NoKey
    BY <1>1, <1>10 DEF Deny, Shape
  <2>3. HandledAs(r, NoRequest)
    BY <1>3, <1>10, <2>2 DEF Deny, Finished, HandledAs
  <2> QED
    BY <1>1, <1>3, <1>10, <2>1, <2>3 DEF Deny, Handled, keys
<1>11. CASE DestroyOld(r)
  <2>1. request[r].key = NoKey /\ request[r].old \in destroyed \cup retiring
    BY <1>1, <1>11 DEF DestroyOld, Shape, Typed, Guarded
  <2>2. HandledAs(r, NoRequest)
    BY <1>3, <1>11, <2>1 DEF DestroyOld, Finished, HandledAs
  <2> QED
    BY <1>1, <1>2, <1>3, <1>11, <2>1, <2>2 DEF DestroyOld, Handled
<1>12. CASE Crash(r)
  <2>1. HandledAs(r, NoRequest)
    BY <1>3, <1>12 DEF Crash, Finished, HandledAs
  <2>2. lost' \subseteq SealedKeys /\ lost \subseteq lost'
    BY <1>1, <1>12 DEF Crash
  <2> QED
    BY <1>1, <1>2, <1>3, <1>12, <2>1, <2>2 DEF Crash, Handled
<1>13. CASE ReadDisconnection(r)
  <2> DEFINE held == [NoRequest EXCEPT !.kind = "disconnect", !.step = "disconnect",
                                       !.old = channel.key, !.removal = correlation]
  <2>1. correlation \in Correlations
    BY TypeParts DEF Typed, Surroundings
  <2>2. /\ held \in RequestRecords /\ Shape(held) /\ held.key = NoKey
        /\ held.old = channel.key /\ held.step = "disconnect"
    BY <1>1, <2>1, Zeros DEF NoRequest, RequestRecords, Shape, Channels
  <2>3. request[r].key = NoKey
    BY <1>1, <1>13 DEF ReadDisconnection, Shape
  <2>4. HandledAs(r, held)
    BY <1>13, <2>2, <2>3 DEF ReadDisconnection, HandledAs
  <2> QED
    BY <1>1, <1>2, <1>13, <2>2, <2>4 DEF ReadDisconnection, Handled, keys
<1> QED
  BY <1>4, <1>5, <1>6, <1>7, <1>8, <1>9, <1>10, <1>11, <1>12, <1>13

(* Every step of the specification is of one of the classes. *)
LEMMA Classified ==
  ASSUME Typed, OwnTokens, Next
  PROVE  KeyStep
<1>1. ASSUME NEW r \in Requests, Exchange(r)
      PROVE  KeyStep
  BY <1>1, SealsSteps, HandledSteps DEF Exchange, KeyStep
<1>2. ASSUME NEW r \in Requests, Serve(r)
      PROVE  KeyStep
  <2>1. CASE ExchangeGoogle(r) \/ ExchangeMeta(r) \/ ExchangeTikTok(r)
             \/ ExchangeInstagram(r)
    BY <1>1, <2>1 DEF ExchangeGoogle, ExchangeMeta, ExchangeTikTok, ExchangeInstagram
  <2>2. CASE BeginWrite(r) \/ Refused(r) \/ Discard(r) \/ Deny(r) \/ DestroyOld(r)
    BY <2>2, HandledSteps DEF KeyStep
  <2>3. CASE Stores(r)
    BY <2>3 DEF KeyStep
  <2> QED
    BY <1>2, <2>1, <2>2, <2>3 DEF Serve, Stores
<1>3. ASSUME NEW r \in Requests,
             \/ BeginYouTube(r) \/ BeginFacebook(r) \/ BeginTikTok(r) \/ BeginInstagram(r)
             \/ \E attempt \in flows : Callback(r, attempt)
             \/ ReadDisconnection(r) \/ Crash(r)
      PROVE  KeyStep
  <2>1. \/ BeginRead(r) \/ ReadDisconnection(r) \/ Crash(r)
        \/ \E attempt \in flows : Callback(r, attempt)
    BY <1>3 DEF BeginYouTube, BeginFacebook, BeginTikTok, BeginInstagram
  <2> QED
    BY <2>1, HandledSteps DEF KeyStep
<1>4. ASSUME NEW r \in Requests,
             \/ Select(r) \/ Refresh(r)
             \/ RotateYouTube(r) \/ RotateFacebook(r) \/ RotateTikTok(r)
      PROVE  KeyStep
  <2>1. Select(r) \/ \E kind \in Renewals : Renewed(r, kind)
    BY <1>4 DEF Refresh, RotateYouTube, RotateFacebook, RotateTikTok
  <2> QED
    BY <2>1, SealsSteps DEF KeyStep
<1>5. ASSUME \/ RefuseToken \/ ExpireAuthorization \/ EraseChannel
             \/ \E r \in Requests : DisconnectInstagram(r)
      PROVE  KeyStep
  BY <1>5, DroppedSteps DEF KeyStep
<1>6. ASSUME \/ \E attempt \in flows : LapseFlow(attempt)
             \/ LapseCandidate \/ TakeLease \/ EndLease
             \/ DisconnectYouTube \/ DisconnectFacebook \/ DisconnectTikTok
             \/ FinishDisconnect \/ RequestDeletion \/ MoveSibling \/ ConfirmRemoval
      PROVE  KeyStep
  BY <1>6, StillSteps DEF KeyStep
<1>7. ASSUME SweepCandidate \/ \E key \in retiring : RetireKey(key)
      PROVE  KeyStep
  BY <1>7 DEF KeyStep
<1> QED
  BY <1>2, <1>3, <1>4, <1>5, <1>6, <1>7 DEF Next


-----------------------------------------------------------------------------
(* Types and shapes *)

LEMMA SurroundingsTyped ==
  ASSUME Typed, Next
  PROVE  Surroundings'
<1>1. Surroundings /\ begun \in Nat
  BY TypeParts, BoundAssumption DEF Typed
<1>2. ASSUME UNCHANGED <<platform, removal>>, flows' \subseteq flows, UNCHANGED begun,
             UNCHANGED budget \/ \E kind \in FaultKinds : Spend(kind)
      PROVE  Surroundings'
  BY <1>1, <1>2, BoundAssumption DEF Surroundings, removal, Spend
<1>3. ASSUME NEW r \in Requests, BeginWrite(r)
      PROVE  Surroundings'
  <2>1. flows' \subseteq flows \cup {begun + 1} /\ begun' = begun + 1
    BY <1>3 DEF BeginWrite, SealFlow, NextConsent
  <2>2. flows' \subseteq 1..begun'
    BY <1>1, <2>1 DEF Surroundings
  <2> QED
    BY <1>1, <1>3, <2>2 DEF BeginWrite, Surroundings, removal
<1>4. ASSUME NEW r \in Requests,
             \/ Stores(r) /\ ~ CompleteConnection(r)
             \/ Refused(r) \/ Discard(r) \/ Deny(r) \/ DestroyOld(r) \/ Crash(r)
             \/ Exchange(r) \/ BeginRead(r) \/ ReadDisconnection(r) \/ Select(r)
             \/ \E kind \in Renewals : Renewed(r, kind)
             \/ \E attempt \in flows : Callback(r, attempt)
      PROVE  Surroundings'
  <2>1. CASE Stores(r) /\ ~ CompleteConnection(r)
    BY <1>2, <2>1 DEF Stores, ReadCandidate, CreateCandidate, CompleteSelection,
       CompleteRefresh, CompleteRotation, Committed, FaultKinds, keys
  <2>2. CASE Refused(r) \/ Discard(r) \/ Deny(r) \/ DestroyOld(r) \/ Crash(r)
    BY <1>2, <2>2 DEF Refused, Discard, Deny, DestroyOld, Crash, FaultKinds, keys
  <2>3. CASE \/ Exchange(r) \/ BeginRead(r) \/ ReadDisconnection(r) \/ Select(r)
             \/ \E kind \in Renewals : Renewed(r, kind)
             \/ \E attempt \in flows : Callback(r, attempt)
    BY <1>2, <2>3 DEF Exchange, BeginRead, ReadDisconnection, Select, Renewed, Callback,
       keys
  <2> QED
    BY <1>4, <2>1, <2>2, <2>3
<1>5. ASSUME NEW r \in Requests, CompleteConnection(r)
      PROVE  Surroundings'
  <2>1. budget' \in 0..MaxFaults
    BY <1>1, <1>5, BoundAssumption DEF CompleteConnection, Committed, Spend, Surroundings
  <2>2. correlation' \in Correlations
    BY <1>1, <1>5 DEF CompleteConnection, Surroundings
  <2> QED
    BY <1>1, <1>5, <2>1, <2>2 DEF CompleteConnection, Surroundings
<1>6. ASSUME NEW r \in Requests, DisconnectInstagram(r)
      PROVE  Surroundings'
  <2>1. request[r].removal \in Correlations
    BY TypeParts DEF Typed, RequestRecords
  <2>2. correlation' \in Correlations
    BY <1>1, <1>6, <2>1 DEF DisconnectInstagram, RemovalAfter, Surroundings
  <2> QED
    BY <1>1, <1>6, <2>2 DEF DisconnectInstagram, Surroundings
<1>7. ASSUME \/ \E attempt \in flows : LapseFlow(attempt)
             \/ LapseCandidate \/ SweepCandidate
             \/ TakeLease \/ EndLease \/ RefuseToken \/ ExpireAuthorization
             \/ DisconnectYouTube \/ DisconnectFacebook \/ DisconnectTikTok
             \/ EraseChannel \/ \E key \in retiring : RetireKey(key)
      PROVE  Surroundings'
  BY <1>2, <1>7 DEF LapseFlow, LapseCandidate, SweepCandidate, TakeLease, EndLease,
     RefuseToken, ExpireAuthorization, DisconnectYouTube, DisconnectFacebook,
     DisconnectTikTok, Disconnect, EraseChannel, RetireKey
<1>8. CASE FinishDisconnect \/ RequestDeletion \/ MoveSibling \/ ConfirmRemoval
  <2>1. /\ sibling' \in {"connected", "disconnecting", "disconnected"}
        /\ deletion' \subseteq {"channel", "sibling"}
        /\ correlation' \in Correlations
    BY <1>1, <1>8 DEF FinishDisconnect, RequestDeletion, DenySubjects, MoveSibling,
       ConfirmRemoval, Remaining, Subjects, Surroundings
  <2>2. UNCHANGED <<platform, flows, begun, budget>>
    BY <1>8 DEF FinishDisconnect, RequestDeletion, MoveSibling, ConfirmRemoval
  <2> QED
    BY <1>1, <2>1, <2>2 DEF Surroundings
<1>9. ASSUME NEW r \in Requests,
             \/ BeginYouTube(r) \/ BeginFacebook(r) \/ BeginTikTok(r) \/ BeginInstagram(r)
             \/ \E attempt \in flows : Callback(r, attempt)
             \/ Select(r) \/ Refresh(r)
             \/ RotateYouTube(r) \/ RotateFacebook(r) \/ RotateTikTok(r)
             \/ ReadDisconnection(r) \/ DisconnectInstagram(r)
             \/ Serve(r) \/ Crash(r)
      PROVE  Surroundings'
  <2>1. CASE Serve(r)
    BY <1>3, <1>4, <1>5, <2>1 DEF Serve, Stores, ExchangeGoogle, ExchangeMeta,
       ExchangeTikTok, ExchangeInstagram
  <2>2. CASE \/ BeginYouTube(r) \/ BeginFacebook(r) \/ BeginTikTok(r) \/ BeginInstagram(r)
             \/ \E attempt \in flows : Callback(r, attempt)
             \/ Select(r) \/ Refresh(r)
             \/ RotateYouTube(r) \/ RotateFacebook(r) \/ RotateTikTok(r)
             \/ ReadDisconnection(r) \/ Crash(r)
    BY <1>4, <2>2 DEF BeginYouTube, BeginFacebook, BeginTikTok, BeginInstagram,
       Refresh, RotateYouTube, RotateFacebook, RotateTikTok
  <2> QED
    BY <1>6, <1>9, <2>1, <2>2
<1> QED
  BY <1>7, <1>8, <1>9 DEF Next

(* The requests, when one of them moves. *)
LEMMA RequestsTyped ==
  ASSUME Typed, NEW r \in Requests, NEW held \in RequestRecords,
         Move(r, held), Shape(held),
         {held.key, held.old} \subseteq SealedKeys' \cup {NoKey},
         SealedKeys \subseteq SealedKeys',
         destroyed \cup retiring \subseteq destroyed' \cup retiring',
         held.step = "destroy" => held.old \in destroyed' \cup retiring',
         held.step = "write" =>
           begun' < MaxAttempts /\ \A q \in Requests : request[q].step # "write",
         begun' # begun => request[r].step = "write" /\ held.step # "write"
  PROVE  /\ request' \in [Requests -> RequestRecords] /\ Shapes' /\ Guarded'
         /\ \A q \in Requests :
              {request'[q].key, request'[q].old} \subseteq SealedKeys' \cup {NoKey}
<1>1. /\ request' \in [Requests -> RequestRecords] /\ request'[r] = held
      /\ \A q \in Requests : q # r => request'[q] = request[q]
  BY Moved, TypeParts DEF Typed
<1>2. Shapes'
  BY <1>1 DEF Typed, Shapes
<1>3. \A q \in Requests :
        {request'[q].key, request'[q].old} \subseteq SealedKeys' \cup {NoKey}
  BY <1>1 DEF Typed, KeysSealed
<1>4. \A q \in Requests :
        request'[q].step = "destroy" => request'[q].old \in destroyed' \cup retiring'
  BY <1>1 DEF Typed, Guarded
<1>5. \A p \in Requests :
        request'[p].step = "write" =>
          /\ begun' < MaxAttempts
          /\ \A q \in Requests : request'[q].step = "write" => q = p
  BY <1>1 DEF Typed, Guarded
<1> QED
  BY <1>1, <1>2, <1>3, <1>4, <1>5 DEF Guarded

LEMMA StillTyped ==
  ASSUME Typed, Still, Surroundings'
  PROVE  Typed'
<1>1. SealedKeys' = SealedKeys /\ OwnerTyped' /\ Shapes'
  BY TypeParts DEF Still, keys, SealedKeys, OwnerTyped, Shapes, Typed
<1>2. TypeOK'
  BY <1>1, TypeParts, TypePartsPrimed DEF Typed, Still, QuietChannel, keys
<1>3. KeysSealed' /\ Guarded'
  BY <1>1 DEF Typed, Still, QuietChannel, keys, KeysSealed, Guarded
<1> QED
  BY <1>1, <1>2, <1>3 DEF Typed

LEMMA HandledTyped ==
  ASSUME Typed, Surroundings', NEW r \in Requests, Handled(r)
  PROVE  Typed'
<1>1. SealedKeys' = SealedKeys /\ OwnerTyped'
  BY TypeParts DEF Handled, SealedKeys, OwnerTyped, Typed
<1>2. PICK held \in RequestRecords : HandledAs(r, held)
  BY DEF Handled
<1>3. request'[r] = held
  BY <1>2, Moved, TypeParts DEF HandledAs, Typed
<1>4. {held.key, held.old} \subseteq SealedKeys' \cup {NoKey}
  BY <1>1, <1>2 DEF HandledAs, Typed, KeysSealed
<1>5. /\ held.step # "destroy"
      /\ held.step = "write" =>
           begun' < MaxAttempts /\ \A q \in Requests : request[q].step # "write"
      /\ begun' # begun => request[r].step = "write" /\ held.step # "write"
      /\ destroyed \cup retiring \subseteq destroyed' \cup retiring'
  <2>1. held.step # "destroy" /\ destroyed \cup retiring \subseteq destroyed' \cup retiring'
    BY <1>2 DEF HandledAs, Handled
  <2>2. begun' # begun => request[r].step = "write" /\ held.step # "write"
    BY <1>3 DEF Handled
  <2>3. held.step = "write" =>
          begun < MaxAttempts /\ \A q \in Requests : request[q].step # "write"
    BY <1>2 DEF HandledAs
  <2> QED
    BY <2>1, <2>2, <2>3
<1>6. /\ request' \in [Requests -> RequestRecords] /\ Shapes' /\ Guarded'
      /\ \A q \in Requests :
           {request'[q].key, request'[q].old} \subseteq SealedKeys' \cup {NoKey}
  <2>1. Move(r, held) /\ Shape(held)
    BY <1>2 DEF HandledAs
  <2> QED
    BY <1>1, <1>4, <1>5, <2>1, RequestsTyped
<1>7. TypeOK'
  <2>1. channel' \in Channels /\ candidate' \in Candidates /\ begun' \in 0..MaxAttempts
    BY TypeParts DEF Typed, Handled, QuietChannel
  <2>2. (destroyed \cup retiring \cup lost \cup unheard \cup overtaken \subseteq SealedKeys)'
    BY <1>1, TypeParts DEF Typed, Handled
  <2> QED
    BY <1>1, <1>6, <2>1, <2>2, TypePartsPrimed
<1>8. KeysSealed'
  BY <1>1, <1>6 DEF Typed, Handled, QuietChannel, KeysSealed
<1> QED
  BY <1>6, <1>7, <1>8 DEF Typed

LEMMA SealsTyped ==
  ASSUME Typed, Surroundings', NEW r \in Requests, SealsAnew(r)
  PROVE  Typed'
<1>1. PICK held \in RequestRecords : SealedAs(r, held)
  BY DEF SealsAnew
<1>2. {request[r].old, channel.key} \subseteq SealedKeys \cup {NoKey}
  BY DEF Typed, KeysSealed
<1>3. (IF held.kind \in Renewals THEN owner[held.old] ELSE held.attempt) \in 0..MaxAttempts
  <2>1. held.kind \in Renewals => held.old # NoKey /\ held.old \in SealedKeys
    BY <1>1, <1>2 DEF SealedAs, Shape
  <2> QED
    BY <1>1, <2>1, Sealing DEF Typed, RequestRecords
<1>4. NextKey \in 1..MaxKeys /\ OwnerTyped' /\ SealedKeys' = SealedKeys \cup {NextKey}
  BY <1>1, <1>3, SealedAnew DEF SealedAs, Typed
<1>5. {held.key, held.old} \subseteq SealedKeys' \cup {NoKey}
  BY <1>1, <1>2, <1>4 DEF SealedAs
<1>6. /\ request' \in [Requests -> RequestRecords] /\ Shapes' /\ Guarded'
      /\ \A q \in Requests :
           {request'[q].key, request'[q].old} \subseteq SealedKeys' \cup {NoKey}
  <2>1. Move(r, held) /\ Shape(held) /\ held.step = "persist"
    BY <1>1 DEF SealedAs
  <2>2. UNCHANGED <<begun, destroyed, retiring>>
    BY DEF SealsAnew
  <2> QED
    BY <1>4, <1>5, <2>1, <2>2, RequestsTyped
<1>7. TypeOK'
  BY <1>4, <1>6, TypeParts, TypePartsPrimed DEF Typed, SealsAnew
<1>8. KeysSealed'
  BY <1>4, <1>6 DEF Typed, SealsAnew, KeysSealed
<1> QED
  BY <1>6, <1>7, <1>8 DEF Typed


LEMMA DroppedTyped ==
  ASSUME Typed, Dropped, Surroundings'
  PROVE  Typed'
<1>1. SealedKeys' = SealedKeys /\ OwnerTyped'
  BY TypeParts DEF Dropped, SealedKeys, OwnerTyped, Typed
<1>2. channel.key \in SealedKeys \cup {NoKey} /\ channel \in Channels
  BY TypeParts DEF Typed, KeysSealed
<1>3. (destroyed \cup retiring \cup lost \cup unheard \cup overtaken \subseteq SealedKeys)'
  BY <1>1, <1>2, TypeParts DEF Typed, Dropped
<1>4. Shapes' /\ KeysSealed' /\ Guarded'
  BY <1>1 DEF Typed, Dropped, Shapes, KeysSealed, Guarded
<1>5. TypeOK'
  BY <1>1, <1>3, TypeParts, TypePartsPrimed DEF Typed, Dropped
<1> QED
  BY <1>4, <1>5 DEF Typed

LEMMA DisconnectionTyped ==
  ASSUME Typed, Surroundings', NEW r \in Requests, DisconnectInstagram(r)
  PROVE  Typed'
<1>1. SealedKeys' = SealedKeys /\ OwnerTyped'
  BY Disconnection, TypeParts DEF SealedKeys, OwnerTyped, Typed
<1>2. {channel.key, request[r].old} \subseteq SealedKeys \cup {NoKey}
  BY DEF Typed, KeysSealed
<1>3. (destroyed \cup retiring \cup lost \cup unheard \cup overtaken \subseteq SealedKeys)'
  BY <1>1, <1>2, Disconnection, TypeParts DEF Typed
<1>4. PICK held \in RequestRecords : LeftBy(r, held)
  BY Disconnection
<1>5. /\ request' \in [Requests -> RequestRecords] /\ Shapes' /\ Guarded'
      /\ \A q \in Requests :
           {request'[q].key, request'[q].old} \subseteq SealedKeys' \cup {NoKey}
  <2>1. /\ UNCHANGED begun
        /\ destroyed \cup retiring \subseteq destroyed' \cup retiring'
    BY Disconnection
  <2>2. /\ Move(r, held) /\ Shape(held) /\ held.step \in {"idle", "destroy"}
        /\ held.step = "destroy" => held.old \in destroyed' \cup retiring'
        /\ {held.key, held.old} \subseteq SealedKeys' \cup {NoKey}
    BY <1>1, <1>2, <1>4 DEF LeftBy
  <2> QED
    BY <1>1, <2>1, <2>2, RequestsTyped
<1>6. TypeOK'
  BY <1>1, <1>3, <1>5, Disconnection, TypeParts, TypePartsPrimed DEF Typed
<1>7. KeysSealed'
  BY <1>1, <1>5, Disconnection DEF Typed, KeysSealed
<1> QED
  BY <1>5, <1>6, <1>7 DEF Typed

LEMMA VaultTyped ==
  ASSUME Typed, Surroundings',
         SweepCandidate \/ \E key \in retiring : RetireKey(key)
  PROVE  Typed'
<1>1. SealedKeys' = SealedKeys /\ OwnerTyped' /\ Shapes'
  BY TypeParts DEF SweepCandidate, RetireKey, SealedKeys, OwnerTyped, Typed, Shapes
<1>2. NoCandidate \in Candidates /\ NoCandidate.key = NoKey
  BY Zeros DEF NoCandidate, Candidates
<1>3. destroyed \cup retiring \subseteq destroyed' \cup retiring'
  BY DEF SweepCandidate, RetireKey, Retire
<1>4. (destroyed \cup retiring \cup lost \cup unheard \cup overtaken \subseteq SealedKeys)'
  BY <1>1, TypeParts DEF Typed, SweepCandidate, RetireKey, Retire, KeysSealed
<1>5. candidate' \in Candidates /\ candidate'.key \in {candidate.key, NoKey}
  BY <1>2, TypeParts DEF Typed, SweepCandidate, RetireKey
<1>6. UNCHANGED <<channel, request, begun>>
  BY DEF SweepCandidate, RetireKey
<1>7. TypeOK'
  BY <1>1, <1>4, <1>5, <1>6, TypeParts, TypePartsPrimed DEF Typed
<1>8. KeysSealed' /\ Guarded'
  BY <1>1, <1>3, <1>5, <1>6 DEF Typed, KeysSealed, Guarded
<1> QED
  BY <1>1, <1>7, <1>8 DEF Typed

LEMMA Commits ==
  ASSUME Typed, NEW r \in Requests, NEW old \in SealedKeys \cup {NoKey},
         request[r].step \in {"persist", "store"}, Committed(r, old)
  PROVE  \E held \in RequestRecords : CommittedAs(r, old, held)
<1>1. request[r] \in RequestRecords /\ Shape(request[r]) /\ SealedKeys \subseteq 0..MaxKeys
  BY TypeParts, Sealing, Zeros DEF Typed, Shapes
<1>2. old \in 0..MaxKeys
  BY <1>1, Zeros
<1>3. CASE old = NoKey /\ Move(r, NoRequest) /\ UNCHANGED unheard
  BY <1>3, NoRequestTyped DEF CommittedAs
<1>4. CASE /\ Move(r, [NoRequest EXCEPT !.step = "destroy", !.old = old])
           /\ old # NoKey /\ UNCHANGED unheard
  <2> DEFINE held == [NoRequest EXCEPT !.step = "destroy", !.old = old]
  <2>1. held \in RequestRecords /\ Shape(held) /\ held.step = "destroy"
        /\ held.key = NoKey /\ held.old = old
    BY <1>2, Zeros DEF NoRequest, RequestRecords, Shape
  <2> QED
    BY <1>4, <2>1 DEF CommittedAs
<1>5. CASE /\ Move(r, [request[r] EXCEPT !.step = "discard"])
           /\ unheard' = unheard \cup {request[r].key}
  <2> DEFINE held == [request[r] EXCEPT !.step = "discard"]
  <2>1. held \in RequestRecords /\ Shape(held)
    BY <1>1 DEF RequestRecords, Shape
  <2> QED
    BY <1>5, <2>1 DEF CommittedAs
<1> QED
  BY <1>3, <1>4, <1>5 DEF Committed

(* A step that stores an envelope, whatever row it goes to. *)
LEMMA CommitTyped ==
  ASSUME Typed, Surroundings', NEW r \in Requests, NEW old \in SealedKeys \cup {NoKey},
         request[r].step \in {"persist", "store"}, Committed(r, old),
         channel' \in Channels, candidate' \in Candidates,
         {channel'.key, candidate'.key} \subseteq
           {channel.key, candidate.key, request[r].key, NoKey},
         UNCHANGED <<begun, owner, destroyed, overtaken>>,
         retiring \subseteq retiring', old \in {NoKey} \cup destroyed \cup retiring',
         retiring' \cup lost' \subseteq SealedKeys
  PROVE  Typed'
<1>1. SealedKeys' = SealedKeys /\ OwnerTyped'
  BY TypeParts DEF SealedKeys, OwnerTyped, Typed
<1>2. PICK held \in RequestRecords : CommittedAs(r, old, held)
  BY Commits
<1>3. Shape(request[r]) /\ request[r] \in RequestRecords
      /\ request[r].key \in SealedKeys /\ request[r].old \in SealedKeys \cup {NoKey}
  BY TypeParts DEF Typed, KeysSealed, Shapes, Shape
<1>4. /\ Move(r, held) /\ Shape(held) /\ held.step \in {"idle", "destroy", "discard"}
      /\ {held.key, held.old} \subseteq SealedKeys' \cup {NoKey}
  BY <1>1, <1>2, <1>3 DEF CommittedAs, NoRequest, RequestRecords
<1>5. held.step = "destroy" => held.old \in destroyed' \cup retiring'
  <2>1. held.step = "destroy" => held.old = old
    BY <1>2, <1>3 DEF CommittedAs, NoRequest, RequestRecords
  <2>2. ASSUME held.step = "destroy", old = NoKey
        PROVE  FALSE
    BY <1>2, <1>3, <2>2 DEF CommittedAs, NoRequest, RequestRecords
  <2> QED
    BY <2>1, <2>2
<1>6. /\ request' \in [Requests -> RequestRecords] /\ Shapes' /\ Guarded'
      /\ \A q \in Requests :
           {request'[q].key, request'[q].old} \subseteq SealedKeys' \cup {NoKey}
  BY <1>1, <1>4, <1>5, RequestsTyped
<1>7. unheard' \subseteq SealedKeys
  BY <1>2, <1>3, TypeParts DEF CommittedAs, Typed
<1>8. TypeOK'
  BY <1>1, <1>6, <1>7, TypeParts, TypePartsPrimed DEF Typed
<1>9. KeysSealed'
  BY <1>1, <1>3, <1>6 DEF Typed, KeysSealed
<1> QED
  BY <1>6, <1>8, <1>9 DEF Typed


LEMMA StoresTyped ==
  ASSUME Typed, Surroundings', NEW r \in Requests, Stores(r)
  PROVE  Typed'
<1>1. /\ channel \in Channels /\ candidate \in Candidates
      /\ request[r] \in RequestRecords /\ Shape(request[r])
      /\ retiring \cup lost \subseteq SealedKeys
      /\ {channel.key, candidate.key, request[r].key, request[r].old}
           \subseteq SealedKeys \cup {NoKey}
  BY TypeParts DEF Typed, Shapes, KeysSealed
<1>2. Connected(request[r].key) \in Channels
  BY <1>1 DEF Connected, Channels, RequestRecords
<1>3. NoCandidate \in Candidates /\ NoCandidate.key = NoKey
  BY Zeros DEF NoCandidate, Candidates
<1>4. CASE CompleteConnection(r)
  <2>1. channel'.key = request[r].key
    BY <1>1, <1>4 DEF CompleteConnection, Connected, Channels
  <2> QED
    BY <1>1, <1>2, <1>4, <2>1, CommitTyped DEF CompleteConnection
<1>5. CASE ReadCandidate(r)
  <2> DEFINE held == [request[r] EXCEPT !.step = "store", !.old = candidate.key]
  <2>1. held \in RequestRecords /\ Shape(held) /\ held.step = "store"
        /\ held.key = request[r].key /\ held.old = candidate.key
    BY <1>1, <1>5 DEF ReadCandidate, RequestRecords, Candidates, Shape
  <2>2. SealedKeys' = SealedKeys /\ OwnerTyped'
    BY <1>5, TypeParts DEF ReadCandidate, keys, SealedKeys, OwnerTyped, Typed
  <2>3. Move(r, held) /\ UNCHANGED <<channel, candidate, begun, keys>>
    BY <1>5 DEF ReadCandidate
  <2>4. /\ request' \in [Requests -> RequestRecords] /\ Shapes' /\ Guarded'
        /\ \A q \in Requests :
             {request'[q].key, request'[q].old} \subseteq SealedKeys' \cup {NoKey}
    BY <1>1, <2>1, <2>2, <2>3, RequestsTyped DEF keys
  <2>5. TypeOK'
    BY <2>2, <2>3, <2>4, TypeParts, TypePartsPrimed DEF Typed, keys
  <2>6. KeysSealed'
    BY <2>2, <2>3, <2>4 DEF Typed, KeysSealed
  <2> QED
    BY <2>4, <2>5, <2>6 DEF Typed
<1>6. CASE CreateCandidate(r)
  <2>1. candidate' \in Candidates /\ candidate'.key = request[r].key
    BY <1>1, <1>6 DEF CreateCandidate, StoredCandidate, Candidates, RequestRecords
  <2>2. retiring' \cup lost' \subseteq SealedKeys
        /\ request[r].old \in {NoKey} \cup retiring'
        /\ retiring \subseteq retiring'
    BY <1>1, <1>6 DEF CreateCandidate, Retire
  <2> QED
    BY <1>1, <1>6, <2>1, <2>2, CommitTyped DEF CreateCandidate
<1>7. CASE CompleteSelection(r)
  <2>1. channel' \in Channels /\ channel'.key = request[r].key
    BY <1>1, <1>7 DEF CompleteSelection, Connected, Channels, RequestRecords
  <2>2. retiring' \cup lost' \subseteq SealedKeys
        /\ candidate.key \in {NoKey} \cup retiring'
        /\ retiring \subseteq retiring'
    BY <1>1, <1>7 DEF CompleteSelection, Retire
  <2> QED
    BY <1>1, <1>3, <1>7, <2>1, <2>2, CommitTyped DEF CompleteSelection
<1>8. ASSUME CompleteRefresh(r) \/ CompleteRotation(r)
      PROVE  /\ channel' \in Channels /\ channel'.key = request[r].key
             /\ retiring' \cup lost' \subseteq SealedKeys
             /\ request[r].old \in {NoKey} \cup retiring' /\ retiring \subseteq retiring'
  BY <1>1, <1>8 DEF CompleteRefresh, CompleteRotation, Retire, Channels, RequestRecords
<1>9. CASE CompleteRefresh(r)
  BY <1>1, <1>8, <1>9, CommitTyped DEF CompleteRefresh
<1>10. CASE CompleteRotation(r)
  BY <1>1, <1>8, <1>10, CommitTyped DEF CompleteRotation
<1> QED
  BY <1>4, <1>5, <1>6, <1>7, <1>9, <1>10 DEF Stores

LEMMA TypedKept ==
  ASSUME Typed, OwnTokens, Next
  PROVE  Typed'
BY Classified, SurroundingsTyped, StillTyped, DroppedTyped, DisconnectionTyped, VaultTyped,
   HandledTyped, SealsTyped, StoresTyped DEF KeyStep


-----------------------------------------------------------------------------
(* Whose authorization a key protects *)

(* OwnTokens for what one request holds. *)
OwnRequest(held) ==
  held.step \in {"persist", "store"} =>
    owner[held.key] = IF held.kind \in Renewals THEN owner[held.old] ELSE held.attempt

LEMMA OwnTokensParts ==
  OwnTokens <=>
    /\ channel.key # NoKey =>
         \/ channel.key \in overtaken
         \/ /\ owner[channel.key] = channel.consent
            /\ channel.state \in {"connected", "disconnecting"}
    /\ channel.state = "connected" =>
         channel.key # NoKey /\ owner[channel.key] = channel.consent
    /\ candidate.key # NoKey => owner[candidate.key] = candidate.consent
    /\ \A r \in Requests : OwnRequest(request[r])
BY DEF OwnTokens, OwnRequest

LEMMA StillOwn ==
  ASSUME Typed, OwnTokens,
         Still \/ Dropped \/ SweepCandidate \/ \E key \in retiring : RetireKey(key)
  PROVE  OwnTokens'
<1>1. CASE Still
  BY <1>1 DEF Still, QuietChannel, keys, OwnTokens
<1>2. CASE Dropped
  BY <1>2 DEF Dropped, OwnTokens
<1>3. CASE SweepCandidate
  BY <1>3 DEF SweepCandidate, NoCandidate, OwnTokens
<1>4. CASE \E key \in retiring : RetireKey(key)
  BY <1>4 DEF RetireKey, OwnTokens
<1> QED
  BY <1>1, <1>2, <1>3, <1>4

LEMMA DisconnectionOwn ==
  ASSUME Typed, OwnTokens, NEW r \in Requests, DisconnectInstagram(r)
  PROVE  OwnTokens'
<1>1. PICK held \in RequestRecords : LeftBy(r, held)
  BY Disconnection
<1>2. /\ request'[r].step \in {"idle", "destroy"}
      /\ \A q \in Requests : q # r => request'[q] = request[q]
  BY <1>1, Moved, TypeParts DEF LeftBy, Typed
<1> QED
  BY <1>2, Disconnection DEF OwnTokens

LEMMA HandledOwn ==
  ASSUME Typed, OwnTokens, NEW r \in Requests, Handled(r)
  PROVE  OwnTokens'
<1>1. PICK held \in RequestRecords : HandledAs(r, held)
  BY DEF Handled
<1>2. /\ request'[r] = held /\ held.step \notin {"persist", "store"}
      /\ \A q \in Requests : q # r => request'[q] = request[q]
  BY <1>1, Moved, TypeParts DEF HandledAs, Typed
<1>3. \A q \in Requests :
        request'[q].step \in {"persist", "store"} =>
          owner'[request'[q].key] =
            IF request'[q].kind \in Renewals THEN owner'[request'[q].old]
                                             ELSE request'[q].attempt
  BY <1>2 DEF Handled, OwnTokens
<1>4. QuietChannel /\ UNCHANGED <<candidate, owner>> /\ overtaken \subseteq overtaken'
  BY DEF Handled
<1> QED
  BY <1>3, <1>4 DEF OwnTokens, QuietChannel

LEMMA SealsOwn ==
  ASSUME Typed, OwnTokens, NEW r \in Requests, SealsAnew(r)
  PROVE  OwnTokens'
<1>1. PICK held \in RequestRecords : SealedAs(r, held)
  BY DEF SealsAnew
<1>2. /\ request'[r] = held /\ \A q \in Requests : q # r => request'[q] = request[q]
  BY <1>1, Moved, TypeParts DEF SealedAs, Typed
<1>3. held.kind \in Renewals => held.old \in SealedKeys
  BY <1>1 DEF SealedAs, Shape, Typed, KeysSealed
<1>4. (IF held.kind \in Renewals THEN owner[held.old] ELSE held.attempt) \in 0..MaxAttempts
  BY <1>1, <1>3, Sealing DEF Typed, RequestRecords
<1>5. /\ owner'[NextKey] = IF held.kind \in Renewals THEN owner[held.old] ELSE held.attempt
      /\ \A k \in SealedKeys : owner'[k] = owner[k]
  BY <1>1, <1>4, SealedAnew DEF SealedAs, Typed
<1>6. OwnRequest(held)'
  <2>1. held.key = NextKey
    BY <1>1 DEF SealedAs
  <2> QED
    BY <1>3, <1>5, <2>1 DEF OwnRequest
<1>7. ASSUME NEW q \in Requests, q # r
      PROVE  OwnRequest(request[q])'
  <2>1. request'[q] = request[q] /\ OwnRequest(request[q]) /\ Shape(request[q])
    BY <1>2, <1>7, OwnTokensParts DEF Typed, Shapes
  <2>2. request[q].step \in {"persist", "store"} => request[q].key \in SealedKeys
    BY <2>1 DEF Typed, KeysSealed, Shape
  <2>3. request[q].step \in {"persist", "store"} /\ request[q].kind \in Renewals =>
          request[q].old \in SealedKeys
    BY <2>1 DEF Typed, KeysSealed, Shape
  <2> QED
    BY <1>5, <2>1, <2>2, <2>3 DEF OwnRequest
<1>8. \A q \in Requests : OwnRequest(request[q])'
  BY <1>2, <1>6, <1>7
<1>9. UNCHANGED <<channel, candidate, overtaken>>
  BY DEF SealsAnew
<1>10. /\ channel.key # NoKey => owner'[channel.key] = owner[channel.key]
       /\ candidate.key # NoKey => owner'[candidate.key] = owner[candidate.key]
  BY <1>5 DEF Typed, KeysSealed
<1> QED
  BY <1>8, <1>9, <1>10 DEF OwnTokens, OwnRequest

(* After a commit, the requests own what they owned before it. *)
LEMMA CommitOwn ==
  ASSUME Typed, OwnTokens, NEW r \in Requests, NEW old \in SealedKeys \cup {NoKey},
         request[r].step \in {"persist", "store"}, Committed(r, old), UNCHANGED owner
  PROVE  \A q \in Requests : OwnRequest(request[q])'
<1>1. PICK held \in RequestRecords : CommittedAs(r, old, held)
  BY Commits
<1>2. request[r] \in RequestRecords
  BY TypeParts DEF Typed
<1>3. held.step \in {"idle", "destroy", "discard"}
  BY <1>1, <1>2 DEF CommittedAs, NoRequest, RequestRecords
<1>4. /\ request'[r] = held /\ \A q \in Requests : q # r => request'[q] = request[q]
  BY <1>1, Moved, TypeParts DEF CommittedAs, Typed
<1> QED
  BY <1>3, <1>4, OwnTokensParts DEF OwnRequest

LEMMA StoresOwn ==
  ASSUME Typed, OwnTokens, NEW r \in Requests, Stores(r)
  PROVE  OwnTokens'
<1>1. /\ channel \in Channels /\ candidate \in Candidates
      /\ request[r] \in RequestRecords /\ Shape(request[r])
      /\ {candidate.key, request[r].old} \subseteq SealedKeys \cup {NoKey}
      /\ NoKey \in SealedKeys \cup {NoKey}
  BY TypeParts DEF Typed, Shapes, KeysSealed
<1>2. OwnRequest(request[r])
  BY OwnTokensParts
<1>3. CASE CompleteConnection(r)
  <2>1. /\ channel'.key = request[r].key /\ channel'.consent = channel.consent
        /\ channel'.state = "connected"
    BY <1>1, <1>3 DEF CompleteConnection, Connected, Channels
  <2>2. owner[request[r].key] = channel.consent /\ request[r].key # NoKey
    BY <1>1, <1>2, <1>3 DEF CompleteConnection, Accepts, OwnRequest, Shape
  <2>3. \A q \in Requests : OwnRequest(request[q])'
    BY <1>1, <1>3, CommitOwn DEF CompleteConnection
  <2> QED
    BY <1>3, <2>1, <2>2, <2>3 DEF CompleteConnection, OwnTokens, OwnRequest
<1>4. CASE ReadCandidate(r)
  <2> DEFINE held == [request[r] EXCEPT !.step = "store", !.old = candidate.key]
  <2>1. /\ request'[r] = held /\ \A q \in Requests : q # r => request'[q] = request[q]
        /\ UNCHANGED <<channel, candidate, keys>>
    BY <1>4, Moved, TypeParts DEF ReadCandidate, Typed
  <2>2. OwnRequest(held)
    BY <1>1, <1>2, <1>4 DEF ReadCandidate, OwnRequest, RequestRecords
  <2>3. \A q \in Requests : OwnRequest(request[q])'
    BY <2>1, <2>2, OwnTokensParts DEF OwnRequest, keys
  <2> QED
    BY <2>1, <2>3 DEF OwnTokens, OwnRequest, keys
<1>5. CASE CreateCandidate(r)
  <2>1. candidate'.key = request[r].key /\ candidate'.consent = request[r].attempt
    BY <1>5 DEF CreateCandidate, StoredCandidate
  <2>2. owner[request[r].key] = request[r].attempt
    BY <1>1, <1>2, <1>5 DEF CreateCandidate, OwnRequest, Shape
  <2>3. \A q \in Requests : OwnRequest(request[q])'
    BY <1>1, <1>5, CommitOwn DEF CreateCandidate
  <2> QED
    BY <1>5, <2>1, <2>2, <2>3 DEF CreateCandidate, OwnTokens, OwnRequest
<1>6. CASE CompleteSelection(r)
  <2>1. /\ channel'.key = request[r].key /\ channel'.consent = channel.consent
        /\ channel'.state = "connected" /\ candidate'.key = NoKey
    BY <1>1, <1>6 DEF CompleteSelection, Connected, Channels, NoCandidate
  <2>2. owner[request[r].key] = channel.consent /\ request[r].key # NoKey
    BY <1>1, <1>2, <1>6 DEF CompleteSelection, SelectAccepted, Accepts, OwnRequest, Shape
  <2>3. \A q \in Requests : OwnRequest(request[q])'
    BY <1>1, <1>6, CommitOwn DEF CompleteSelection
  <2> QED
    BY <1>6, <2>1, <2>2, <2>3 DEF CompleteSelection, OwnTokens, OwnRequest
<1>7. ASSUME CompleteRefresh(r) \/ CompleteRotation(r)
      PROVE  OwnTokens'
  <2>1. /\ channel'.key = request[r].key /\ channel'.consent = channel.consent
        /\ channel'.state = channel.state /\ channel.state = "connected"
        /\ channel.key = request[r].old
        /\ request[r].step = "persist" /\ request[r].kind \in Renewals
        /\ UNCHANGED <<candidate, owner, overtaken>>
        /\ Committed(r, request[r].old) \/ Committed(r, NoKey)
    BY <1>1, <1>7 DEF CompleteRefresh, RefreshAccepted, CompleteRotation,
       RotationAccepted, Channels
  <2>2. owner[request[r].key] = channel.consent /\ request[r].key # NoKey
    BY <1>1, <1>2, <2>1 DEF OwnRequest, OwnTokens, Shape
  <2>3. \A q \in Requests : OwnRequest(request[q])'
    BY <1>1, <2>1, CommitOwn
  <2> QED
    BY <2>1, <2>2, <2>3 DEF OwnTokens, OwnRequest
<1> QED
  BY <1>3, <1>4, <1>5, <1>6, <1>7 DEF Stores

LEMMA OwnTokensKept ==
  ASSUME Typed, OwnTokens, Next
  PROVE  OwnTokens'
BY Classified, StillOwn, DisconnectionOwn, HandledOwn, SealsOwn, StoresOwn DEF KeyStep


-----------------------------------------------------------------------------
(* Where the keys are *)

(* InHand in the state after the step. *)
InHandNext(key) ==
  /\ key \notin destroyed' \cup retiring' \cup {channel'.key, candidate'.key}
  /\ \A q \in Requests : request'[q].old # key

LEMMA StillSafe ==
  ASSUME Typed, KeysSafe, Still
  PROVE  KeysSafe'
<1>1. /\ channel'.key = channel.key /\ candidate'.key = candidate.key
      /\ UNCHANGED <<request, keys>>
  BY DEF Still, QuietChannel
<1>2. Custody'
  BY <1>1 DEF KeysSafe, Custody, InHand, keys
<1>3. StoredKeysOpen'
  BY <1>1 DEF Still, QuietChannel, keys, KeysSafe, StoredKeysOpen
<1>4. KeyAccounted'
  BY <1>1 DEF keys, KeysSafe, KeyAccounted, SealedKeys
<1> QED
  BY <1>2, <1>3, <1>4 DEF KeysSafe

LEMMA RetireKeySafe ==
  ASSUME Typed, KeysSafe, NEW key \in retiring, RetireKey(key)
  PROVE  KeysSafe'
<1>1. /\ UNCHANGED <<channel, candidate, request, owner, lost, unheard>>
      /\ destroyed' \cup retiring' = destroyed \cup retiring
  BY DEF RetireKey
<1>2. Custody'
  BY <1>1 DEF KeysSafe, Custody, InHand
<1>3. StoredKeysOpen'
  BY <1>1 DEF KeysSafe, StoredKeysOpen
<1>4. KeyAccounted'
  BY <1>1 DEF KeysSafe, KeyAccounted, SealedKeys
<1> QED
  BY <1>2, <1>3, <1>4 DEF KeysSafe

LEMMA SweepSafe ==
  ASSUME Typed, KeysSafe, SweepCandidate
  PROVE  KeysSafe'
<1>1. /\ UNCHANGED <<channel, request, owner, destroyed, lost, unheard>>
      /\ retiring' = retiring \cup {candidate.key}
      /\ candidate.key # NoKey /\ candidate'.key = NoKey /\ candidate'.live = FALSE
  BY DEF SweepCandidate, Retire, NoCandidate
<1>2. \A r \in Requests :
        request[r].step \in {"persist", "store", "discard"} => request[r].key # NoKey
  BY DEF Typed, Shapes, Shape
<1>3. \A key : key # NoKey /\ InHand(key) => InHandNext(key)
  BY <1>1 DEF InHand, InHandNext
<1>4. Custody'
  BY <1>1, <1>2, <1>3 DEF KeysSafe, Custody, InHand, InHandNext
<1>5. StoredKeysOpen'
  <2>1. channel.state = "connected" => channel.key # candidate.key
    BY <1>1 DEF KeysSafe, Custody
  <2> QED
    BY <1>1, <2>1 DEF KeysSafe, StoredKeysOpen
<1>6. KeyAccounted'
  BY <1>1 DEF KeysSafe, KeyAccounted, SealedKeys
<1> QED
  BY <1>4, <1>5, <1>6 DEF KeysSafe

LEMMA DroppedSafe ==
  ASSUME Typed, KeysSafe, Dropped
  PROVE  KeysSafe'
<1>1. /\ UNCHANGED <<request, candidate, owner, destroyed, lost, unheard>>
      /\ retiring' = retiring \cup ({channel.key} \ {NoKey})
      /\ channel'.key = NoKey /\ channel'.state # "connected"
  BY DEF Dropped
<1>2. \A key : key # NoKey /\ InHand(key) => InHandNext(key)
  BY <1>1 DEF InHand, InHandNext
<1>3. Custody'
  <2>1. \A r \in Requests :
          request[r].step \in {"persist", "store", "discard"} => request[r].key # NoKey
    BY DEF Typed, Shapes, Shape
  <2> QED
    BY <1>1, <1>2, <2>1 DEF KeysSafe, Custody, InHand, InHandNext
<1>4. StoredKeysOpen'
  <2>1. candidate.live /\ channel.key # NoKey => candidate.key # channel.key
    BY DEF KeysSafe, Custody
  <2> QED
    BY <1>1, <2>1 DEF KeysSafe, StoredKeysOpen
<1>5. KeyAccounted'
  BY <1>1 DEF KeysSafe, KeyAccounted, SealedKeys, Typed, KeysSealed
<1> QED
  BY <1>3, <1>4, <1>5 DEF KeysSafe

LEMMA DisconnectionSafe ==
  ASSUME Typed, KeysSafe, NEW r \in Requests, DisconnectInstagram(r)
  PROVE  KeysSafe'
<1>1. /\ UNCHANGED <<candidate, owner, destroyed, unheard>>
      /\ retiring' = retiring \cup ({request[r].old} \ {NoKey})
      /\ lost' = lost \cup ({channel.key} \ {NoKey, request[r].old})
      /\ channel'.key = NoKey /\ channel'.state # "connected"
      /\ request[r].step = "disconnect" /\ request[r].key = NoKey
  BY Disconnection
<1>2. PICK held \in RequestRecords : LeftBy(r, held)
  BY Disconnection
<1>3. /\ \A q \in Requests : q # r => request'[q] = request[q]
      /\ request'[r].step \in {"idle", "destroy"} /\ request'[r].key = NoKey
      /\ request'[r].old \in {request[r].old, NoKey}
  BY <1>2, Moved, TypeParts DEF LeftBy, Typed
<1>4. \A key : key # NoKey /\ InHand(key) => InHandNext(key)
  BY <1>1, <1>3 DEF InHand, InHandNext
<1>5. Custody'
  <2>1. \A q \in Requests :
          request[q].step \in {"persist", "store", "discard"} => request[q].key # NoKey
    BY DEF Typed, Shapes, Shape
  <2>2. \A q \in Requests :
          /\ request'[q].step \in {"persist", "store"} => InHandNext(request'[q].key)
          /\ request'[q].step = "discard" =>
               request'[q].key \in unheard' \/ InHandNext(request'[q].key)
    BY <1>1, <1>3, <1>4, <2>1 DEF KeysSafe, Custody
  <2>3. \A p, q \in Requests :
          p # q /\ request'[p].key # NoKey => request'[p].key # request'[q].key
    BY <1>1, <1>3 DEF KeysSafe, Custody
  <2>4. \A q \in Requests :
          request'[q].step = "disconnect" /\ request'[q].old # NoKey =>
            request'[q].old # candidate'.key
    BY <1>1, <1>3 DEF KeysSafe, Custody
  <2> QED
    BY <1>1, <2>2, <2>3, <2>4 DEF Custody, InHand, InHandNext
<1>6. StoredKeysOpen'
  <2>1. request[r].old # NoKey => request[r].old # candidate.key
    BY <1>1 DEF KeysSafe, Custody
  <2> QED
    BY <1>1, <2>1 DEF KeysSafe, StoredKeysOpen
<1>7. KeyAccounted'
  <2>1. ASSUME NEW key \in SealedKeys
        PROVE  \/ key \in {channel'.key, candidate'.key} \cup destroyed' \cup retiring' \cup lost'
               \/ \E q \in Requests : request'[q].key = key
    <3>1. key # NoKey
      BY Sealing, Zeros DEF Typed
    <3> QED
      BY <1>1, <1>3, <3>1 DEF KeysSafe, KeyAccounted
  <2> QED
    BY <1>1, <2>1 DEF KeyAccounted, SealedKeys
<1> QED
  BY <1>5, <1>6, <1>7 DEF KeysSafe

LEMMA HandledSafe ==
  ASSUME Typed, KeysSafe, NEW r \in Requests, Handled(r)
  PROVE  KeysSafe'
<1>1. PICK held \in RequestRecords : HandledAs(r, held)
  BY DEF Handled
<1>2. /\ request'[r] = held /\ \A q \in Requests : q # r => request'[q] = request[q]
  BY <1>1, Moved, TypeParts DEF HandledAs, Typed
<1>3. /\ UNCHANGED <<candidate, owner, retiring, unheard>> /\ channel'.key = channel.key
      /\ channel'.state = "connected" => channel.state = "connected"
  BY DEF Handled, QuietChannel
<1>4. /\ destroyed \subseteq destroyed' /\ lost \subseteq lost'
      /\ \A k \in destroyed' \ destroyed :
           k \in retiring \/ (request[r].step = "discard" /\ k = request[r].key)
  BY DEF Handled
<1>5. /\ held.step \notin {"persist", "store", "destroy"}
      /\ held.step = "discard" => request[r].step = "persist"
      /\ held.step = "discard" => held.key = request[r].key
      /\ held.key \in {request[r].key, NoKey}
      /\ held.old \in {request[r].old, NoKey, channel.key}
      /\ held.step = "disconnect" => held.old = channel.key
      /\ held.key = NoKey => request[r].key \in {NoKey} \cup destroyed' \cup lost'
  BY <1>1 DEF HandledAs, Shape
<1>6. \A q \in Requests :
        request[q].step \in {"persist", "store", "discard"} => request[q].key # NoKey
  BY DEF Typed, Shapes, Shape
<1>7. ASSUME NEW key, key # NoKey, InHand(key),
             request[r].step = "discard" => key # request[r].key
      PROVE  InHandNext(key)
  BY <1>2, <1>3, <1>4, <1>5, <1>7 DEF InHand, InHandNext
<1>8. Custody'
  <2>1. \A q \in Requests : q # r /\ request[q].key # NoKey =>
            request[q].key # request[r].key
    BY DEF KeysSafe, Custody
  <2>2. \A q \in Requests :
          request'[q].step \in {"persist", "store"} => InHandNext(request'[q].key)
    BY <1>2, <1>5, <1>6, <1>7, <2>1 DEF KeysSafe, Custody
  <2>3. \A q \in Requests :
          request'[q].step = "discard" =>
            request'[q].key \in unheard' \/ InHandNext(request'[q].key)
    BY <1>2, <1>3, <1>5, <1>6, <1>7, <2>1 DEF KeysSafe, Custody
  <2>4. \A p, q \in Requests :
          p # q /\ request'[p].key # NoKey => request'[p].key # request'[q].key
    BY <1>2, <1>5 DEF KeysSafe, Custody
  <2>5. \A q \in Requests :
          request'[q].step = "store" /\ request'[q].old # NoKey =>
            request'[q].old # channel'.key
    BY <1>2, <1>3, <1>5 DEF KeysSafe, Custody
  <2>6. \A q \in Requests :
          request'[q].step = "disconnect" /\ request'[q].old # NoKey =>
            request'[q].old # candidate'.key
    BY <1>2, <1>3, <1>5 DEF KeysSafe, Custody
  <2> QED
    BY <1>3, <2>2, <2>3, <2>4, <2>5, <2>6 DEF KeysSafe, Custody, InHand, InHandNext
<1>9. StoredKeysOpen'
  <2>1. request[r].step = "discard" =>
          request[r].key \in unheard \/ request[r].key \notin {channel.key, candidate.key}
    BY DEF KeysSafe, Custody, InHand
  <2> QED
    BY <1>3, <1>4, <2>1 DEF KeysSafe, StoredKeysOpen
<1>10. KeyAccounted'
  <2>1. ASSUME NEW key \in SealedKeys, NEW q \in Requests, request[q].key = key
        PROVE  key \in destroyed' \cup lost' \/ request'[q].key = key
    <3>1. key # NoKey
      BY Sealing, Zeros DEF Typed
    <3> QED
      BY <1>2, <1>5, <2>1, <3>1
  <2> QED
    BY <1>3, <1>4, <2>1 DEF KeysSafe, KeyAccounted, SealedKeys
<1> QED
  BY <1>8, <1>9, <1>10 DEF KeysSafe

LEMMA SealsSafe ==
  ASSUME Typed, KeysSafe, NEW r \in Requests, SealsAnew(r)
  PROVE  KeysSafe'
<1>1. PICK held \in RequestRecords : SealedAs(r, held)
  BY DEF SealsAnew
<1>2. /\ request'[r] = held /\ \A q \in Requests : q # r => request'[q] = request[q]
      /\ held.step = "persist" /\ held.key = NextKey
      /\ held.old \in {request[r].old, channel.key, NoKey}
  BY <1>1, Moved, TypeParts DEF SealedAs, Typed
<1>3. /\ UNCHANGED <<channel, candidate, destroyed, retiring, lost, unheard>>
      /\ request[r].key = NoKey
  BY DEF SealsAnew
<1>4. NextKey # NoKey /\ NextKey \notin SealedKeys
      /\ destroyed \cup retiring \subseteq SealedKeys
  BY Sealing, TypeParts DEF Typed
<1>5. SealedKeys' = SealedKeys \cup {NextKey}
  <2>1. held.kind \in Renewals => held.old \in SealedKeys
    BY <1>1 DEF SealedAs, Shape, Typed, KeysSealed
  <2>2. (IF held.kind \in Renewals THEN owner[held.old] ELSE held.attempt) \in 0..MaxAttempts
    BY <1>1, <2>1, Sealing DEF Typed, RequestRecords
  <2> QED
    BY <1>1, <2>2, SealedAnew DEF SealedAs, Typed
<1>6. \A q \in Requests :
        request[q].step \in {"persist", "store", "discard"} => request[q].key # NoKey
  BY DEF Typed, Shapes, Shape
<1>7. \A key : key # NoKey /\ InHand(key) => InHandNext(key)
  BY <1>2, <1>3 DEF InHand, InHandNext
<1>8. InHandNext(NextKey)
  <2>1. /\ channel.key # NextKey /\ candidate.key # NextKey
        /\ \A q \in Requests : request[q].old # NextKey
    BY <1>4 DEF Typed, KeysSealed
  <2> QED
    BY <1>2, <1>3, <1>4, <2>1 DEF InHandNext
<1>9. Custody'
  <2>1. \A q \in Requests :
          request'[q].step \in {"persist", "store"} => InHandNext(request'[q].key)
    BY <1>2, <1>6, <1>7, <1>8 DEF KeysSafe, Custody
  <2>2. \A q \in Requests :
          request'[q].step = "discard" =>
            request'[q].key \in unheard' \/ InHandNext(request'[q].key)
    BY <1>2, <1>3, <1>6, <1>7 DEF KeysSafe, Custody
  <2>3. \A p, q \in Requests :
          p # q /\ request'[p].key # NoKey => request'[p].key # request'[q].key
    BY <1>2, <1>4 DEF KeysSafe, Custody, Typed, KeysSealed
  <2> QED
    BY <1>2, <1>3, <2>1, <2>2, <2>3 DEF KeysSafe, Custody, InHand, InHandNext
<1>10. StoredKeysOpen'
  BY <1>3 DEF KeysSafe, StoredKeysOpen
<1>11. KeyAccounted'
  <2>1. ASSUME NEW key \in SealedKeys, NEW q \in Requests, request[q].key = key
        PROVE  request'[q].key = key
    <3>1. key # NoKey
      BY Sealing, Zeros DEF Typed
    <3> QED
      BY <1>2, <1>3, <2>1, <3>1
  <2>2. \A key \in SealedKeys :
          \/ key \in {channel'.key, candidate'.key} \cup destroyed' \cup retiring' \cup lost'
          \/ \E q \in Requests : request'[q].key = key
    BY <1>3, <2>1 DEF KeysSafe, KeyAccounted
  <2>3. \E q \in Requests : request'[q].key = NextKey
    BY <1>2
  <2> QED
    BY <1>5, <2>2, <2>3 DEF KeyAccounted
<1> QED
  BY <1>9, <1>10, <1>11 DEF KeysSafe


(* What a commit leaves in memory. *)
LEMMA CommitMoves ==
  ASSUME Typed, NEW r \in Requests, NEW old \in SealedKeys \cup {NoKey},
         request[r].step \in {"persist", "store"}, Committed(r, old)
  PROVE  /\ unheard \subseteq unheard'
         /\ \A q \in Requests : q # r => request'[q] = request[q]
         /\ request'[r].step \notin {"persist", "store", "disconnect"}
         /\ request'[r].key \in {request[r].key, NoKey}
         /\ request'[r].step = "discard" => request'[r].key \in unheard'
         /\ request'[r].old \in {NoKey, old, request[r].old}
<1>1. PICK held \in RequestRecords : CommittedAs(r, old, held)
  BY Commits
<1>2. request[r] \in RequestRecords
  BY TypeParts DEF Typed
<1>3. request'[r] = held /\ \A q \in Requests : q # r => request'[q] = request[q]
  BY <1>1, Moved, TypeParts DEF CommittedAs, Typed
<1> QED
  BY <1>1, <1>2, <1>3 DEF CommittedAs, NoRequest, RequestRecords

(* A step that stores the envelope of r and queues the key that is gone with
   it for retirement. *)
LEMMA CommitSafe ==
  ASSUME Typed, KeysSafe, NEW r \in Requests, NEW gone \in SealedKeys \cup {NoKey},
         NEW old \in {NoKey, gone},
         request[r].step \in {"persist", "store"}, Committed(r, old),
         gone \in {channel.key, candidate.key, request[r].old, NoKey},
         UNCHANGED <<owner, destroyed>>, lost \subseteq lost',
         retiring' = retiring \cup ({gone} \ {NoKey}),
         channel'.key \in {channel.key, request[r].key},
         candidate'.key \in {candidate.key, request[r].key, NoKey},
         request[r].key \in {channel'.key, candidate'.key},
         channel.key \in {NoKey, channel'.key, gone},
         candidate.key \in {NoKey, candidate'.key, gone} \cup lost',
         channel'.key # NoKey => channel'.key # candidate'.key,
         channel'.state = "connected" =>
           /\ channel'.key # gone \/ gone = NoKey
           /\ channel'.key = request[r].key \/ channel.state = "connected",
         candidate'.live =>
           /\ candidate'.key # gone \/ gone = NoKey
           /\ \/ candidate'.key = request[r].key
              \/ candidate.live /\ candidate'.key = candidate.key
  PROVE  KeysSafe'
<1>1. /\ unheard \subseteq unheard'
      /\ \A q \in Requests : q # r => request'[q] = request[q]
      /\ request'[r].step \notin {"persist", "store", "disconnect"}
      /\ request'[r].key \in {request[r].key, NoKey}
      /\ request'[r].step = "discard" => request'[r].key \in unheard'
      /\ request'[r].old \in {NoKey, old, request[r].old}
  <2>1. old \in SealedKeys \cup {NoKey}
    OBVIOUS
  <2> QED
    BY <2>1, CommitMoves
<1>2. \A q \in Requests :
        request[q].step \in {"persist", "store", "discard"} => request[q].key # NoKey
  BY DEF Typed, Shapes, Shape
<1>3. request[r].key # NoKey /\ InHand(request[r].key)
  BY <1>2 DEF KeysSafe, Custody
<1>4. \A q \in Requests :
        q # r /\ request[q].key # NoKey => request[q].key # request[r].key
  BY DEF KeysSafe, Custody
<1>5. ASSUME NEW key, key # NoKey, key # request[r].key, InHand(key)
      PROVE  InHandNext(key)
  <2>1. key # gone /\ key \notin {channel'.key, candidate'.key}
    BY <1>5 DEF InHand
  <2>2. \A q \in Requests : request'[q].old # key
    BY <1>1, <1>5, <2>1 DEF InHand
  <2> QED
    BY <1>5, <2>1, <2>2 DEF InHand, InHandNext
<1>6. Custody'
  <2>1. \A q \in Requests :
          request'[q].step \in {"persist", "store"} => InHandNext(request'[q].key)
    BY <1>1, <1>2, <1>4, <1>5 DEF KeysSafe, Custody
  <2>2. \A q \in Requests :
          request'[q].step = "discard" =>
            request'[q].key \in unheard' \/ InHandNext(request'[q].key)
    BY <1>1, <1>2, <1>4, <1>5 DEF KeysSafe, Custody
  <2>3. \A p, q \in Requests :
          p # q /\ request'[p].key # NoKey => request'[p].key # request'[q].key
    BY <1>1 DEF KeysSafe, Custody
  <2>4. \A q \in Requests :
          request'[q].step = "store" /\ request'[q].old # NoKey =>
            request'[q].old # channel'.key
    BY <1>1, <1>3 DEF KeysSafe, Custody, InHand
  <2>5. \A q \in Requests :
          request'[q].step = "disconnect" /\ request'[q].old # NoKey =>
            request'[q].old # candidate'.key
    BY <1>1, <1>3 DEF KeysSafe, Custody, InHand
  <2> QED
    BY <2>1, <2>2, <2>3, <2>4, <2>5 DEF Custody, InHand, InHandNext
<1>7. StoredKeysOpen'
  BY <1>1, <1>3 DEF KeysSafe, StoredKeysOpen, InHand
<1>8. KeyAccounted'
  <2>1. ASSUME NEW key \in SealedKeys, NEW q \in Requests, request[q].key = key
        PROVE  key \in {channel'.key, candidate'.key} \/ request'[q].key = key
    BY <1>1, <2>1
  <2>2. ASSUME NEW key \in SealedKeys
        PROVE  \/ key \in {channel'.key, candidate'.key} \cup destroyed' \cup retiring' \cup lost'
               \/ \E q \in Requests : request'[q].key = key
    <3>1. key # NoKey
      BY Sealing, Zeros DEF Typed
    <3> QED
      BY <2>1, <3>1 DEF KeysSafe, KeyAccounted
  <2> QED
    BY <2>2 DEF KeyAccounted, SealedKeys
<1> QED
  BY <1>6, <1>7, <1>8 DEF KeysSafe

LEMMA StoresSafe ==
  ASSUME Typed, KeysSafe, NEW r \in Requests, Stores(r)
  PROVE  KeysSafe'
<1>1. /\ channel \in Channels /\ candidate \in Candidates
      /\ request[r] \in RequestRecords /\ Shape(request[r])
      /\ {channel.key, candidate.key, request[r].old} \subseteq SealedKeys \cup {NoKey}
  BY TypeParts DEF Typed, Shapes, KeysSealed
<1>2. ASSUME request[r].step \in {"persist", "store"}
      PROVE  request[r].key # NoKey /\ InHand(request[r].key)
  BY <1>1, <1>2 DEF KeysSafe, Custody, Shape
<1>3. CASE CompleteConnection(r)
  <2>1. channel'.key = request[r].key /\ channel.key = NoKey
    BY <1>1, <1>3 DEF CompleteConnection, Accepts, Connected, Channels
  <2>2. InHand(request[r].key) /\ request[r].key # NoKey
    BY <1>2, <1>3 DEF CompleteConnection
  <2>3. StoredKeysOpen /\ UNCHANGED <<candidate, owner, destroyed, retiring, lost>>
    BY <1>3 DEF CompleteConnection, KeysSafe
  <2>4. Committed(r, NoKey) /\ request[r].step = "persist"
    BY <1>3 DEF CompleteConnection
  <2> QED
    BY <1>1, <2>1, <2>2, <2>3, <2>4, CommitSafe DEF InHand
<1>4. CASE ReadCandidate(r)
  <2> DEFINE held == [request[r] EXCEPT !.step = "store", !.old = candidate.key]
  <2>1. /\ request'[r] = held /\ \A q \in Requests : q # r => request'[q] = request[q]
        /\ held.key = request[r].key /\ held.old = candidate.key /\ held.step = "store"
        /\ UNCHANGED <<channel, candidate, keys>>
    BY <1>1, <1>4, Moved, TypeParts DEF ReadCandidate, Typed, RequestRecords
  <2>2. \A key : key # NoKey /\ InHand(key) => InHandNext(key)
    BY <2>1 DEF InHand, InHandNext, keys
  <2>3. \A q \in Requests :
          request[q].step \in {"persist", "store", "discard"} => request[q].key # NoKey
    BY DEF Typed, Shapes, Shape
  <2>4. request[r].step = "persist"
    BY <1>4 DEF ReadCandidate
  <2>5. \A q \in Requests :
          /\ request'[q].step \in {"persist", "store"} => InHandNext(request'[q].key)
          /\ request'[q].step = "discard" =>
               request'[q].key \in unheard' \/ InHandNext(request'[q].key)
    <3>1. request'[r].step = "store" /\ request'[r].key = request[r].key
          /\ UNCHANGED unheard
      BY <2>1 DEF keys
    <3>2. \A q \in Requests : q # r => request'[q] = request[q]
      BY <2>1
    <3> HIDE DEF held
    <3> QED
      BY <2>2, <2>3, <2>4, <3>1, <3>2 DEF KeysSafe, Custody
  <2>6. Custody'
    <3>1. \A q \in Requests :
            request'[q].step = "store" /\ request'[q].old # NoKey =>
              request'[q].old # channel'.key
      <4>1. request'[r].old = candidate.key /\ channel' = channel
        BY <2>1
      <4>2. candidate.key # NoKey => candidate.key # channel.key
        BY DEF KeysSafe, Custody
      <4>3. \A q \in Requests : q # r => request'[q] = request[q]
        BY <2>1
      <4> QED
        BY <4>1, <4>2, <4>3 DEF KeysSafe, Custody
    <3>2. \A p, q \in Requests :
            p # q /\ request'[p].key # NoKey => request'[p].key # request'[q].key
      <4>1. \A q \in Requests : request'[q].key = request[q].key
        BY <2>1
      <4> QED
        BY <4>1 DEF KeysSafe, Custody
    <3>3. \A q \in Requests :
            request'[q].step = "disconnect" /\ request'[q].old # NoKey =>
              request'[q].old # candidate'.key
      BY <2>1 DEF KeysSafe, Custody
    <3> QED
      BY <2>1, <2>5, <3>1, <3>2, <3>3 DEF KeysSafe, Custody, InHand, InHandNext
  <2>7. StoredKeysOpen'
    BY <2>1 DEF KeysSafe, StoredKeysOpen, keys
  <2>8. KeyAccounted'
    BY <2>1 DEF KeysSafe, KeyAccounted, SealedKeys, keys
  <2> QED
    BY <2>6, <2>7, <2>8 DEF KeysSafe
<1>5. CASE CreateCandidate(r)
  <2>1. candidate'.key = request[r].key
    BY <1>5 DEF CreateCandidate, StoredCandidate
  <2>2. InHand(request[r].key) /\ request[r].key # NoKey
    BY <1>2, <1>5 DEF CreateCandidate
  <2>3. channel.key # request[r].old \/ request[r].old = NoKey
    BY <1>5 DEF CreateCandidate, KeysSafe, Custody
  <2>4. /\ UNCHANGED <<channel, owner, destroyed>> /\ lost \subseteq lost'
        /\ retiring' = retiring \cup ({request[r].old} \ {NoKey})
        /\ candidate.key \in {NoKey, request[r].old} \cup lost'
        /\ Committed(r, request[r].old) /\ request[r].step = "store"
    BY <1>5 DEF CreateCandidate, Retire
  <2> QED
    BY <1>1, <2>1, <2>2, <2>3, <2>4, CommitSafe DEF InHand
<1>6. CASE CompleteSelection(r)
  <2>1. channel'.key = request[r].key /\ channel.key = NoKey /\ candidate'.key = NoKey
        /\ candidate'.live = FALSE
    BY <1>1, <1>6 DEF CompleteSelection, SelectAccepted, Accepts, Connected, Channels,
       NoCandidate
  <2>2. InHand(request[r].key) /\ request[r].key # NoKey
    BY <1>2, <1>6 DEF CompleteSelection
  <2>3. /\ UNCHANGED <<owner, destroyed, lost>>
        /\ retiring' = retiring \cup ({candidate.key} \ {NoKey})
        /\ Committed(r, candidate.key) /\ request[r].step = "persist"
    BY <1>6 DEF CompleteSelection, Retire
  <2> QED
    BY <1>1, <2>1, <2>2, <2>3, CommitSafe DEF InHand
<1>7. ASSUME CompleteRefresh(r) \/ CompleteRotation(r)
      PROVE  KeysSafe'
  <2>1. /\ channel'.key = request[r].key /\ channel.key = request[r].old
        /\ UNCHANGED <<candidate, owner, destroyed, lost>>
        /\ retiring' = retiring \cup ({request[r].old} \ {NoKey})
        /\ Committed(r, request[r].old) \/ Committed(r, NoKey)
        /\ request[r].step = "persist" /\ request[r].kind \in Renewals
    BY <1>1, <1>7 DEF CompleteRefresh, RefreshAccepted, CompleteRotation,
       RotationAccepted, Retire, Channels
  <2>2. InHand(request[r].key) /\ request[r].key # NoKey
    BY <1>2, <2>1
  <2>3. channel.key # NoKey /\ channel.key # candidate.key
    BY <1>1, <2>1 DEF Shape, KeysSafe, Custody
  <2> QED
    BY <1>1, <2>1, <2>2, <2>3, CommitSafe DEF InHand
<1> QED
  BY <1>3, <1>4, <1>5, <1>6, <1>7 DEF Stores

LEMMA KeysSafeKept ==
  ASSUME Typed, OwnTokens, KeysSafe, Next
  PROVE  KeysSafe'
BY Classified, StillSafe, RetireKeySafe, SweepSafe, DroppedSafe, DisconnectionSafe,
   HandledSafe, SealsSafe, StoresSafe DEF KeyStep


-----------------------------------------------------------------------------
(* Theorems *)

LEMMA Initially ==
  ASSUME Init
  PROVE  IInv
<1>1. /\ NewChannel \in Channels /\ NewChannel.key = NoKey
      /\ NewChannel.state = "not_connected"
  BY Zeros DEF NewChannel, Channels
<1>2. /\ NoCandidate \in Candidates /\ NoCandidate.key = NoKey
      /\ NoCandidate.live = FALSE
  BY Zeros DEF NoCandidate, Candidates
<1>3. /\ NoRequest \in RequestRecords /\ Shape(NoRequest) /\ NoRequest.step = "idle"
      /\ NoRequest.key = NoKey /\ NoRequest.old = NoKey
  BY NoRequestTyped DEF NoRequest
<1>4. \A r \in Requests : request[r] = NoRequest
  BY DEF Init
<1>5. owner \in [1..0 -> 0..MaxAttempts] /\ SealedKeys = {} /\ 0 \in 0..MaxKeys
  BY Zeros DEF Init, SealedKeys
<1>6. TypeOK
  <2>1. Surroundings
    BY BoundAssumption DEF Init, Surroundings
  <2>2. OwnerTyped
    BY <1>5 DEF OwnerTyped
  <2>3. request \in [Requests -> RequestRecords]
    BY <1>3 DEF Init
  <2> QED
    BY <1>1, <1>2, <2>1, <2>2, <2>3, Zeros, TypeParts DEF Init
<1>7. KeysSealed /\ Shapes /\ Guarded
  BY <1>1, <1>2, <1>3, <1>4 DEF Init, KeysSealed, Shapes, Guarded
<1>8. OwnTokens /\ Custody
  BY <1>1, <1>2, <1>3, <1>4 DEF Init, OwnTokens, Custody
<1>9. StoredKeysOpen /\ KeyAccounted
  BY <1>1, <1>2, <1>5 DEF Init, StoredKeysOpen, KeyAccounted
<1> QED
  BY <1>6, <1>7, <1>8, <1>9 DEF IInv, Typed, KeysSafe

LEMMA Stuttering ==
  ASSUME IInv, UNCHANGED vars
  PROVE  IInv'
<1>1. /\ UNCHANGED <<platform, channel, removal, candidate, request, begun, flows,
                     budget>>
      /\ UNCHANGED <<owner, destroyed, retiring, lost, unheard, overtaken>>
  BY DEF vars, keys
<1>2. TypeOK' /\ KeysSealed' /\ Shapes' /\ Guarded'
  BY <1>1 DEF IInv, Typed, TypeOK, KeysSealed, Shapes, Guarded, SealedKeys, removal
<1>3. OwnTokens' /\ Custody' /\ StoredKeysOpen' /\ KeyAccounted'
  BY <1>1 DEF IInv, KeysSafe, OwnTokens, Custody, InHand, StoredKeysOpen, KeyAccounted,
     SealedKeys
<1> QED
  BY <1>2, <1>3 DEF IInv, Typed, KeysSafe

(* The strengthening holds at every state. *)
THEOREM Inductive == Spec => []IInv
<1>1. IInv /\ [Next]_vars => IInv'
  BY TypedKept, OwnTokensKept, KeysSafeKept, Stuttering DEF IInv
<1> QED
  BY Initially, <1>1, PTL DEF Spec

(* Every variable has its type, and every key that a row, a request or the vault
   names was sealed before, for any number of requests at once. *)
THEOREM TypeCorrect == Spec => []TypeOK
<1>1. IInv => TypeOK
  BY DEF IInv, Typed
<1> QED
  BY <1>1, Inductive, PTL

(* completePlatformConnection, completeFacebookConnection and the refreshes never
   leave the tokens of another attempt in the row: only a Begin that read the row
   earlier can part a row from its consent. *)
THEOREM OwnAttempt == Spec => []TokensOfOwnAttempt
<1>1. IInv => TokensOfOwnAttempt
  BY DEF IInv, Typed, KeysSealed, OwnTokens, TokensOfOwnAttempt
<1> QED
  BY <1>1, Inductive, PTL

(* No request destroys, or queues for it, a key that protects tokens in use,
   unless the answer of its own commit was lost. *)
THEOREM KeysOpen == Spec => []StoredKeysOpen
<1>1. IInv => StoredKeysOpen
  BY DEF IInv, KeysSafe
<1> QED
  BY <1>1, Inductive, PTL

(* A sealed key is named, destroyed, queued or held by a request, or lost in one
   of the ways the model counts: a crash, a failing vault, an overwriting write. *)
THEOREM KeysAccounted == Spec => []KeyAccounted
<1>1. IInv => KeyAccounted
  BY DEF IInv, KeysSafe
<1> QED
  BY <1>1, Inductive, PTL

(* A superseded request compares the consent before it writes the row: neither
   its completion nor its denial ends what came after it. *)
LEMMA HarmlessSteps ==
  ASSUME Typed, Next
  PROVE  \A r \in Requests :
           request[r] # request'[r]
           /\ request[r].attempt \notin {NoAttempt, channel.consent}
           => channel' = channel
<1>1. SUFFICES ASSUME NEW r \in Requests, request[r] # request'[r], channel' # channel,
                      request[r].attempt # NoAttempt, request[r].attempt # channel.consent
               PROVE  FALSE
  OBVIOUS
<1>2. Shape(request[r]) /\ (request[r].step = "idle" => request[r].attempt = NoAttempt)
  BY DEF Typed, Shapes, Shape, NoRequest
<1>3. ASSUME NEW q \in Requests, NEW held, Move(q, held)
      PROVE  q = r
  BY <1>1, <1>3, Moved, TypeParts DEF Typed
<1>4. ASSUME NEW q \in Requests, NEW old, Committed(q, old)
      PROVE  q = r
  BY <1>3, <1>4 DEF Committed
<1>5. ASSUME NEW q \in Requests, Serve(q)
      PROVE  FALSE
  <2>1. CASE BeginWrite(q)
    <3>1. q = r
      BY <1>3, <2>1 DEF BeginWrite, Finished
    <3> QED
      BY <1>1, <1>2, <2>1, <3>1 DEF BeginWrite, Shape
  <2>2. CASE CompleteConnection(q)
    BY <1>1, <1>4, <2>2 DEF CompleteConnection, Accepts
  <2>3. CASE CompleteSelection(q)
    BY <1>1, <1>4, <2>3 DEF CompleteSelection, SelectAccepted, Accepts
  <2>4. CASE CompleteRefresh(q) \/ CompleteRotation(q)
    <3>1. q = r
      BY <1>4, <2>4 DEF CompleteRefresh, CompleteRotation
    <3> QED
      BY <1>1, <1>2, <2>4, <3>1 DEF CompleteRefresh, CompleteRotation, Shape
  <2>5. CASE Deny(q)
    <3>1. q = r
      BY <1>3, <2>5 DEF Deny, Finished
    <3> QED
      BY <1>1, <2>5, <3>1 DEF Deny, Denied
  <2>6. CASE \/ ExchangeGoogle(q) \/ ExchangeMeta(q) \/ ExchangeTikTok(q)
             \/ ExchangeInstagram(q) \/ ReadCandidate(q) \/ CreateCandidate(q)
             \/ Refused(q) \/ Discard(q) \/ DestroyOld(q)
    BY <1>1, <2>6 DEF ExchangeGoogle, ExchangeMeta, ExchangeTikTok, ExchangeInstagram,
       Exchange, ReadCandidate, CreateCandidate, Refused, Discard, DestroyOld
  <2> QED
    BY <1>5, <2>1, <2>2, <2>3, <2>4, <2>5, <2>6 DEF Serve
<1>6. ASSUME NEW q \in Requests, DisconnectInstagram(q)
      PROVE  FALSE
  <2>1. q = r
    BY <1>3, <1>6 DEF DisconnectInstagram
  <2> QED
    BY <1>1, <1>2, <1>6, <2>1 DEF DisconnectInstagram, Shape
<1>7. ASSUME NEW q \in Requests, NEW attempt \in flows, Callback(q, attempt)
      PROVE  FALSE
  <2>1. q = r
    BY <1>3, <1>7 DEF Callback
  <2> QED
    BY <1>1, <1>2, <1>7, <2>1 DEF Callback
<1>8. ASSUME NEW q \in Requests,
             \/ BeginYouTube(q) \/ BeginFacebook(q) \/ BeginTikTok(q) \/ BeginInstagram(q)
             \/ Select(q) \/ Refresh(q)
             \/ RotateYouTube(q) \/ RotateFacebook(q) \/ RotateTikTok(q)
             \/ ReadDisconnection(q) \/ Crash(q)
      PROVE  FALSE
  BY <1>1, <1>8 DEF BeginYouTube, BeginFacebook, BeginTikTok, BeginInstagram, BeginRead,
     ReadDisconnection,
     Select, Refresh, RotateYouTube, RotateFacebook, RotateTikTok, Renewed, Crash
<1>9. ASSUME \/ \E attempt \in flows : LapseFlow(attempt)
             \/ LapseCandidate \/ SweepCandidate
             \/ TakeLease \/ EndLease \/ RefuseToken \/ ExpireAuthorization
             \/ DisconnectYouTube \/ DisconnectFacebook \/ DisconnectTikTok
             \/ EraseChannel \/ FinishDisconnect
             \/ RequestDeletion \/ MoveSibling \/ ConfirmRemoval
             \/ \E key \in retiring : RetireKey(key)
      PROVE  FALSE
  BY <1>1, <1>9 DEF LapseFlow, LapseCandidate, SweepCandidate, TakeLease, EndLease,
     RefuseToken, ExpireAuthorization, DisconnectYouTube, DisconnectFacebook,
     DisconnectTikTok, Disconnect, EraseChannel, FinishDisconnect, RequestDeletion,
     MoveSibling, ConfirmRemoval, RetireKey
<1> QED
  BY <1>5, <1>6, <1>7, <1>8, <1>9 DEF Next

(* What a request of a superseded attempt does leaves the channel alone, however
   many attempts, callbacks and selections are under way. *)
THEOREM HarmlessWhenSuperseded == Spec => SupersededIsHarmless
<1>1. ASSUME IInv, [Next]_vars
      PROVE  [\A r \in Requests :
                request[r] # request'[r]
                  /\ request[r].attempt \notin {NoAttempt, channel.consent}
                => channel' = channel]_vars
  BY <1>1, HarmlessSteps DEF IInv
<1> QED
  BY <1>1, Inductive, PTL DEF Spec, SupersededIsHarmless

=============================================================================
