-------------------------- MODULE Lifecycle_proofs --------------------------
(***************************************************************************)
(* Theorems about Lifecycle for every number of workers, keys, connections   *)
(* and faults, with the claims lost, late and repeated that the model has.   *)
(*                                                                         *)
(* The strengthening says where a token key is: in the row, or retired by    *)
(* the transaction that took it out (KeysSound); what a worker holds in      *)
(* memory of it (JobSound); and what the request to disconnect has denied    *)
(* (AuthorizationSound). That no cycle of a retention is closed too early is *)
(* proved at the end, for runs that keep their claim and their lease.        *)
(***************************************************************************)
EXTENDS Lifecycle, TLAPS

OperationRows ==
  [state : OperationStates, owner : Workers \cup {Nobody}, live : BOOLEAN,
   overdue : BOOLEAN, outcome : BOOLEAN]
ServingRows == [operation : Operations \cup {NoOperation}, lost : BOOLEAN]
ChannelRows ==
  [state : ChannelStates, key : {NoKey} \cup Keys, cycle : {NoKey} \cup Keys,
   data : {"fresh", "due", "past"}, requested : BOOLEAN,
   generation : 0..MaxGeneration,
   lease : Operations \cup {NoOperation, Publishing},
   leaseGeneration : 0..MaxGeneration]
VaultStates == {"unsealed", "sealed", "withdrawn", "destroyed"}
Jobs ==
  [step : Steps, key : {NoKey} \cup Keys, generation : 0..MaxGeneration,
   sealed : {NoKey} \cup Keys, result : Results]

(* A run that is about to end the row has decided how, and one that is about
   to store an envelope has sealed it. *)
RunsSound ==
  \A w \in Workers :
    /\ job[w].step = "finish" => job[w].result \in {"waiting", "completed"}
    /\ job[w].step = "persist" => job[w].sealed \in Keys

(* A key is in the row or has been retired, never both; a retirement that is
   completed has destroyed its key, and nothing else destroys one. *)
Retiring(k) == operation[Retirement(k)].state # "absent"

KeysSound ==
  /\ channel.key \in committed \cup {NoKey}
  /\ \A k \in Keys : Retiring(k) <=> k \in committed /\ k # channel.key
  /\ \A k \in committed : vault[k] # "unsealed"
  /\ \A k \in Keys :
       /\ operation[Retirement(k)].state = "completed" => vault[k] = "destroyed"
       /\ vault[k] = "destroyed" => Retiring(k)
  /\ certified \subseteq Destroyed

(* What is revoked was denied first. *)
AuthorizationSound ==
  /\ revoked \subseteq committed
  /\ channel.state = "connected" => channel.key \notin revoked
  /\ channel.requested => channel.state # "connected"
  /\ \A g \in 1..MaxGeneration :
       operation[Disconnect(g)].state # "absent" => g <= channel.generation

(* What a worker holds in memory is still true of the database, whatever
   happened to its claim. *)
JobSound(w) ==
  /\ serving[w].operation # NoOperation =>
       operation[serving[w].operation].state # "absent"
  /\ job[w].step = "persist" =>
       /\ job[w].sealed \notin committed /\ vault[job[w].sealed] = "sealed"
       /\ \A v \in Workers \ {w} :
            job[v].step = "persist" => job[v].sealed # job[w].sealed
  /\ job[w].step = "revoke" =>
       /\ job[w].key \in committed \cup {NoKey}
       /\ channel.state = "connected" /\ job[w].key # NoKey =>
            channel.key # job[w].key
  /\ \A k \in Keys : serving[w].operation = Retirement(k) =>
       /\ job[w].step = "load" => job[w].key \in {NoKey, k}
       /\ job[w].step = "finish" /\ job[w].result = "completed" =>
            vault[k] = "destroyed"
  /\ serving[w].operation = Disconnect(channel.generation)
       /\ channel.state = "disconnecting" =>
         /\ job[w].step = "revoke" => channel.key \in {NoKey, job[w].key}
         /\ job[w].step = "erase" =>
              \/ channel.key \in {NoKey} \cup revoked \cup Destroyed
              \/ operation[Disconnect(channel.generation)].overdue

JobsSound == \A w \in Workers : JobSound(w)

IInv == TypeOK /\ RunsSound /\ KeysSound /\ AuthorizationSound /\ JobsSound

USE DEF OperationStates, ChannelStates, Steps, Results, VaultStates, NoKey, Keys

-----------------------------------------------------------------------------
(* Types *)

(* The type invariant in parts. *)
LEMMA TypeParts ==
  TypeOK <=>
    /\ operation \in [Operations -> OperationRows]
    /\ serving \in [Workers -> ServingRows]
    /\ budget \in 0..MaxFaults
    /\ channel \in ChannelRows
    /\ vault \in [Keys -> VaultStates]
    /\ job \in [Workers -> Jobs]
    /\ publications \in 0..MaxPublications /\ beginning \in BOOLEAN
    /\ committed \subseteq Keys /\ revoked \subseteq Keys
    /\ certified \subseteq Keys /\ journal \subseteq Operations
BY DEF TypeOK, ControlTypeOK, OperationRows, ServingRows, ChannelRows, Jobs

LEMMA TypePartsPrimed ==
  TypeOK' <=>
    /\ operation' \in [Operations -> OperationRows]
    /\ serving' \in [Workers -> ServingRows]
    /\ budget' \in 0..MaxFaults
    /\ channel' \in ChannelRows
    /\ vault' \in [Keys -> VaultStates]
    /\ job' \in [Workers -> Jobs]
    /\ publications' \in 0..MaxPublications /\ beginning' \in BOOLEAN
    /\ committed' \subseteq Keys /\ revoked' \subseteq Keys
    /\ certified' \subseteq Keys /\ journal' \subseteq Operations
BY DEF TypeOK, ControlTypeOK, OperationRows, ServingRows, ChannelRows, Jobs

(* The operations named in the module exist. *)
LEMMA Named ==
  /\ \A g \in 1..MaxGeneration : Disconnect(g) \in Operations
  /\ \A k \in Keys : Retention(k) \in Operations /\ Retirement(k) \in Operations
  /\ \A k \in {NoKey} \cup Keys : Retired(k) \subseteq Operations
BY LifecycleAssumption DEF ChannelOperations, Retired

(* A row is named by its kind and its subject. *)
LEMMA Distinct ==
  /\ \A k, l \in Nat : Retirement(k) = Retirement(l) => k = l
  /\ \A k, l \in Nat : Disconnect(k) = Disconnect(l) => k = l
  /\ \A k, l \in Nat : Retirement(k) # Disconnect(l)
  /\ \A k, l \in Nat : Retirement(k) # Retention(l)
  /\ \A k, l \in Nat : Retention(k) # Disconnect(l)
BY DEF Retirement, Disconnect, Retention

(* The key that is sealed next. *)
LEMMA NextKeyUnsealed ==
  ASSUME Unsealed # {}
  PROVE  NextKey \in Keys /\ vault[NextKey] = "unsealed"
BY DEF NextKey, Unsealed

(* Enqueuing. *)
LEMMA EnqueuedRows ==
  ASSUME TypeOK, NEW rows
  PROVE  /\ Enqueued(rows) \in [Operations -> OperationRows]
         /\ \A o \in Operations :
              /\ operation[o].state # "absent" => Enqueued(rows)[o] = operation[o]
              /\ o \notin rows => Enqueued(rows)[o] = operation[o]
              /\ o \in rows /\ operation[o].state = "absent" =>
                   Enqueued(rows)[o] = NewRow(o)
<1>1. ASSUME NEW o \in Operations
      PROVE  NewRow(o) \in OperationRows /\ NewRow(o).state = "waiting"
  <2>1. (o \in Referenced) \in BOOLEAN
    OBVIOUS
  <2>2. \A b \in BOOLEAN :
          LET row == [Absent EXCEPT !.state = "waiting", !.outcome = b] IN
          row \in OperationRows /\ row.state = "waiting"
    BY DEF Absent, OperationRows
  <2> QED
    BY <2>1, <2>2, Zenon DEF NewRow
<1>2. \A o \in Operations : operation[o] \in OperationRows
  BY TypeParts
<1> QED
  BY <1>1, <1>2 DEF Enqueued

(* The memory of a run, after the moves the actions share. *)
LEMMA MovedJobs ==
  ASSUME TypeOK, NEW w \in Workers, NEW step \in Steps, NEW result \in Results
  PROVE  /\ GoTo(w, step) => job' \in [Workers -> Jobs]
         /\ Leave(w, step) => job' \in [Workers -> Jobs]
         /\ Return(w, step, result) => job' \in [Workers -> Jobs]
         /\ Fail(w) => job' \in [Workers -> Jobs]
         /\ job' = [job EXCEPT ![w] = NoJob] => job' \in [Workers -> Jobs]
<1>1. NoJob \in Jobs /\ [NoJob EXCEPT !.step = step] \in Jobs
      /\ [NoJob EXCEPT !.step = "failed"] \in Jobs
  BY LifecycleAssumption DEF NoJob, Jobs
<1>2. job \in [Workers -> Jobs]
  BY TypeParts
<1>3. GoTo(w, step) => job' \in [Workers -> Jobs]
  BY <1>2 DEF GoTo, Jobs
<1>4. ASSUME Return(w, step, result) PROVE job' \in [Workers -> Jobs]
  <2>1. job[w] \in Jobs
    BY <1>2
  <2>2. job' = [job EXCEPT ![w] = [job[w] EXCEPT !.step = step, !.result = result,
                                                 !.key = NoKey, !.sealed = NoKey]]
    BY <1>2, <1>4 DEF Return
  <2> QED
    BY <1>2, <2>1, <2>2 DEF Jobs
<1> QED
  BY <1>1, <1>2, <1>3, <1>4 DEF Leave, Fail

LEMMA ChannelMovesTyped ==
  ASSUME TypeOK,
         \/ ReadChannel \/ BeginConnection \/ DenyConnection \/ DataAges
         \/ TakePublishingLease \/ ReleasePublishingLease \/ ExpireLease
  PROVE  TypeOK'
<1>1. channel' \in ChannelRows
  <2>1. channel \in ChannelRows /\ 0 \in 0..MaxGeneration
    BY TypeParts, LifecycleAssumption
  <2>2. CASE ReadChannel \/ BeginConnection
    BY <2>1, <2>2 DEF ChannelRows, ReadChannel, BeginConnection
  <2>3. CASE DenyConnection
    BY <2>1, <2>3 DEF ChannelRows, DenyConnection
  <2>4. CASE DataAges
    BY <2>1, <2>4 DEF ChannelRows, DataAges
  <2>5. CASE TakePublishingLease
    BY <2>1, <2>5 DEF ChannelRows, TakePublishingLease, WithLease
  <2>6. CASE ReleasePublishingLease
    BY <2>1, <2>6 DEF ChannelRows, ReleasePublishingLease, WithoutLease
  <2>7. CASE ExpireLease
    BY <2>1, <2>7 DEF ChannelRows, ExpireLease, WithoutLease
  <2> QED
    BY <2>2, <2>3, <2>4, <2>5, <2>6, <2>7
<1>2. budget' \in 0..MaxFaults /\ publications' \in 0..MaxPublications
  BY TypeParts, ControlAssumption, LifecycleAssumption
     DEF ReadChannel, BeginConnection, DenyConnection, DataAges, TakePublishingLease,
     ReleasePublishingLease, ExpireLease, controlVars, Spend
<1>3. UNCHANGED <<operation, serving, vault, job, committed, revoked, certified, journal>>
  BY DEF ReadChannel, BeginConnection, DenyConnection, DataAges, TakePublishingLease,
     ReleasePublishingLease, ExpireLease, controlVars
<1>4. beginning' \in BOOLEAN
  BY TypeParts DEF ReadChannel, BeginConnection, DenyConnection, DataAges,
     TakePublishingLease, ReleasePublishingLease, ExpireLease
<1> QED
  BY <1>1, <1>2, <1>3, <1>4, TypeParts, TypePartsPrimed

LEMMA KeyMovesTyped ==
  ASSUME TypeOK,
         \/ CompleteConnection \/ PrepareDisconnect \/ RotateToken
         \/ RequireReauthorization \/ EnqueueDue
  PROVE  TypeOK'
<1>1. channel \in ChannelRows
  BY TypeParts
<1>2. CASE CompleteConnection
  <2>1. channel' \in ChannelRows /\ vault' \in [Keys -> VaultStates]
        /\ committed' \subseteq Keys
    BY <1>1, <1>2, TypeParts, NextKeyUnsealed DEF CompleteConnection, ChannelRows
  <2> QED
    BY <1>2, <2>1, TypeParts, TypePartsPrimed DEF CompleteConnection, controlVars
<1>3. CASE PrepareDisconnect
  <2>1. channel' \in ChannelRows
    <3>1. channel.generation + 1 \in 0..MaxGeneration
      BY <1>1, <1>3, LifecycleAssumption DEF PrepareDisconnect, ChannelRows
    <3> QED
      BY <1>1, <1>3, <3>1 DEF PrepareDisconnect, ChannelRows
  <2>3. operation' \in [Operations -> OperationRows]
    BY <1>3, EnqueuedRows DEF PrepareDisconnect
  <2> QED
    BY <1>3, <2>1, <2>3, TypeParts, TypePartsPrimed DEF PrepareDisconnect
<1>4. CASE RotateToken
  <2>1. channel' \in ChannelRows /\ vault' \in [Keys -> VaultStates]
        /\ committed' \subseteq Keys
    BY <1>1, <1>4, TypeParts, NextKeyUnsealed DEF RotateToken, ChannelRows
  <2>2. operation' \in [Operations -> OperationRows]
    BY <1>4, EnqueuedRows DEF RotateToken
  <2> QED
    BY <1>4, <2>1, <2>2, TypeParts, TypePartsPrimed DEF RotateToken
<1>5. CASE RequireReauthorization
  <2>1. channel' \in ChannelRows
    BY <1>1, <1>5 DEF RequireReauthorization, ChannelRows, Erased
  <2>2. operation' \in [Operations -> OperationRows]
    BY <1>5, EnqueuedRows DEF RequireReauthorization
  <2> QED
    BY <1>5, <2>1, <2>2, TypeParts, TypePartsPrimed DEF RequireReauthorization
<1>6. CASE EnqueueDue
  <2>2. operation' \in [Operations -> OperationRows]
    BY <1>6, EnqueuedRows DEF EnqueueDue
  <2> QED
    BY <1>6, <2>2, TypeParts, TypePartsPrimed DEF EnqueueDue, channelVars
<1> QED
  BY <1>2, <1>3, <1>4, <1>5, <1>6

(* What the control plane does to its rows, whatever the operation is. *)
LEMMA ControlMovesTyped ==
  ASSUME TypeOK,
         \/ \E o \in Operations : ExpireClaim(o) \/ PassDeadline(o)
         \/ \E w \in Workers :
              \/ StandDown(w) \/ HeartbeatFails(w) \/ CrashServing(w)
              \/ \E o \in Operations : ClaimOperation(w, o)
              \/ \E state \in {"waiting", "completed"} : FinishOperation(w, state)
  PROVE  /\ operation' \in [Operations -> OperationRows]
         /\ serving' \in [Workers -> ServingRows] /\ budget' \in 0..MaxFaults
<1>1. /\ operation \in [Operations -> OperationRows]
      /\ serving \in [Workers -> ServingRows] /\ budget \in 0..MaxFaults
  BY TypeParts
<1>2. NotServing \in ServingRows
  BY DEF NotServing, ServingRows
<1>3. ASSUME NEW w \in Workers, NEW o \in Operations, ClaimOperation(w, o)
      PROVE  /\ operation' \in [Operations -> OperationRows]
             /\ serving' \in [Workers -> ServingRows] /\ budget' \in 0..MaxFaults
  <2>1. operation' = [operation EXCEPT ![o] =
                         [operation[o] EXCEPT !.state = "claimed", !.owner = w, !.live = TRUE]]
    BY <1>1, <1>3 DEF ClaimOperation
  <2>2. operation[o] \in OperationRows
    BY <1>1
  <2>3. operation' \in [Operations -> OperationRows]
    BY <1>1, <2>1, <2>2 DEF OperationRows
  <2>4. serving' \in [Workers -> ServingRows]
    BY <1>1, <1>3 DEF ClaimOperation, ServingRows
  <2> QED
    BY <1>1, <1>3, <2>3, <2>4 DEF ClaimOperation
<1>4. ASSUME NEW w \in Workers, NEW state \in {"waiting", "completed"},
             FinishOperation(w, state)
      PROVE  /\ operation' \in [Operations -> OperationRows]
             /\ serving' \in [Workers -> ServingRows] /\ budget' \in 0..MaxFaults
  <2>1. ASSUME serving[w].operation # NoOperation
        PROVE  FinishedRow(operation[serving[w].operation], state) \in OperationRows
    <3>1. operation[serving[w].operation] \in OperationRows
      BY <1>1, <2>1 DEF ServingRows
    <3> QED
      BY <3>1 DEF OperationRows, FinishedRow
  <2> QED
    BY <1>1, <1>2, <1>4, <2>1 DEF FinishOperation, StopServing, HoldsClaim
<1>5. ASSUME NEW w \in Workers, StandDown(w)
      PROVE  /\ operation' \in [Operations -> OperationRows]
             /\ serving' \in [Workers -> ServingRows] /\ budget' \in 0..MaxFaults
  BY <1>1, <1>2, <1>5 DEF StandDown, StopServing
<1>6. ASSUME NEW o \in Operations, ExpireClaim(o)
      PROVE  /\ operation' \in [Operations -> OperationRows]
             /\ serving' \in [Workers -> ServingRows] /\ budget' \in 0..MaxFaults
  <2>1. operation' \in [Operations -> OperationRows]
    BY <1>1, <1>6 DEF ExpireClaim, OperationRows
  <2>2. budget' \in 0..MaxFaults
    BY <1>1, <1>6, ControlAssumption DEF ExpireClaim, Spend
  <2> QED
    BY <1>1, <1>6, <2>1, <2>2 DEF ExpireClaim
<1>7. ASSUME NEW w \in Workers, HeartbeatFails(w)
      PROVE  /\ operation' \in [Operations -> OperationRows]
             /\ serving' \in [Workers -> ServingRows] /\ budget' \in 0..MaxFaults
  <2>1. serving' \in [Workers -> ServingRows]
    BY <1>1, <1>7 DEF HeartbeatFails, ServingRows
  <2>2. budget' \in 0..MaxFaults
    BY <1>1, <1>7, ControlAssumption DEF HeartbeatFails, Spend
  <2> QED
    BY <1>1, <1>7, <2>1, <2>2 DEF HeartbeatFails
<1>8. ASSUME NEW w \in Workers, CrashServing(w)
      PROVE  /\ operation' \in [Operations -> OperationRows]
             /\ serving' \in [Workers -> ServingRows] /\ budget' \in 0..MaxFaults
  BY <1>1, <1>2, <1>8, ControlAssumption DEF CrashServing, StopServing, Spend
<1>9. ASSUME NEW o \in Operations, PassDeadline(o)
      PROVE  /\ operation' \in [Operations -> OperationRows]
             /\ serving' \in [Workers -> ServingRows] /\ budget' \in 0..MaxFaults
  BY <1>1, <1>9 DEF PassDeadline, OperationRows
<1> QED
  BY <1>3, <1>4, <1>5, <1>6, <1>7, <1>8, <1>9

LEMMA LoopTyped ==
  ASSUME TypeOK, RunsSound,
         \/ \E o \in Operations :
              (ExpireClaim(o) \/ PassDeadline(o)) /\ UNCHANGED <<channelVars, job>>
         \/ \E w \in Workers :
              \/ FinishRun(w) \/ StaleRun(w) \/ StaleRetention(w) \/ Failure(w)
              \/ \E o \in Operations : ClaimNext(w, o)
  PROVE  TypeOK'
<1>1. ASSUME NEW w \in Workers, NEW o \in Operations, ClaimNext(w, o) PROVE TypeOK'
  <2>1. KindOf(o) = "token_key_retirement" => SubjectOf(o) \in Keys
    BY LifecycleAssumption DEF ChannelOperations, KindOf, SubjectOf,
       Disconnect, Retention, Retirement
  <2>2. job' \in [Workers -> Jobs]
    <3>1. \A key \in {NoKey} \cup Keys :
            [NoJob EXCEPT !.step = "load", !.key = key] \in Jobs
      <4>1. 0 \in 0..MaxGeneration
        BY LifecycleAssumption
      <4> QED
        BY <4>1 DEF NoJob, Jobs
    <3>2. job \in [Workers -> Jobs]
      BY TypeParts
    <3> QED
      BY <1>1, <2>1, <3>1, <3>2 DEF ClaimNext
  <2> QED
    BY <1>1, <2>2, ControlMovesTyped, TypeParts, TypePartsPrimed DEF ClaimNext, channelVars
<1>2. ASSUME NEW w \in Workers, FinishRun(w) PROVE TypeOK'
  <2>1. job' \in [Workers -> Jobs]
    BY <1>2, MovedJobs DEF FinishRun
  <2>2. \E state \in {"waiting", "completed"} : FinishOperation(w, state)
    BY <1>2 DEF FinishRun, RunsSound
  <2>3. /\ operation' \in [Operations -> OperationRows]
        /\ serving' \in [Workers -> ServingRows] /\ budget' \in 0..MaxFaults
    BY <2>2, ControlMovesTyped
  <2> QED
    BY <1>2, <2>1, <2>3, TypeParts, TypePartsPrimed DEF FinishRun, channelVars
<1>3. ASSUME NEW w \in Workers, StaleRun(w) PROVE TypeOK'
  BY <1>3, MovedJobs, ControlMovesTyped, TypeParts, TypePartsPrimed DEF StaleRun,
     channelVars
<1>4. ASSUME NEW w \in Workers, StaleRetention(w) PROVE TypeOK'
  <2>1. job' \in [Workers -> Jobs]
    BY <1>4, MovedJobs DEF StaleRetention
  <2>2. vault' \in [Keys -> VaultStates]
    BY <1>4, TypeParts DEF StaleRetention
  <2> QED
    BY <1>4, <2>1, <2>2, TypeParts, TypePartsPrimed DEF StaleRetention, controlVars
<1>5. ASSUME NEW w \in Workers, Crash(w) PROVE TypeOK'
  BY <1>5, MovedJobs, ControlMovesTyped, TypeParts, TypePartsPrimed DEF Crash, channelVars
<1>6. ASSUME NEW w \in Workers, JournalFails(w) PROVE TypeOK'
  BY <1>6, MovedJobs, ControlAssumption, TypeParts, TypePartsPrimed
     DEF JournalFails, channelVars, Spend
<1>7. ASSUME NEW w \in Workers, HeartbeatFails(w), UNCHANGED <<channelVars, job>>
      PROVE  TypeOK'
  BY <1>7, ControlMovesTyped, TypeParts, TypePartsPrimed DEF channelVars
<1>8. ASSUME NEW o \in Operations, ExpireClaim(o) \/ PassDeadline(o),
             UNCHANGED <<channelVars, job>>
      PROVE  TypeOK'
  BY <1>8, ControlMovesTyped, TypeParts, TypePartsPrimed DEF channelVars
<1> QED
  BY <1>1, <1>2, <1>3, <1>4, <1>5, <1>6, <1>7, <1>8 DEF Failure

LEMMA DisconnectTyped ==
  ASSUME TypeOK, NEW w \in Workers,
         \/ ReadDisconnectMaterial(w) \/ RevokeAuthorization(w) \/ CompleteDisconnect(w)
         \/ DestroyTokenKey(w)
  PROVE  TypeOK'
<1>1. channel \in ChannelRows /\ job \in [Workers -> Jobs]
  BY TypeParts
<1>2. CASE ReadDisconnectMaterial(w)
  <2>1. job' \in [Workers -> Jobs]
    <3>1. [job[w] EXCEPT !.step = "revoke", !.key = channel.key] \in Jobs
      BY <1>1 DEF Jobs, ChannelRows
    <3>2. \/ job' = [job EXCEPT ![w] =
                       [job[w] EXCEPT !.step = "revoke", !.key = channel.key]]
          \/ Fail(w)
      BY <1>1, <1>2 DEF ReadDisconnectMaterial
    <3> QED
      BY <1>1, <3>1, <3>2, MovedJobs
  <2> QED
    BY <1>2, <2>1, TypeParts, TypePartsPrimed
       DEF ReadDisconnectMaterial, controlVars, channelVars
<1>3. CASE RevokeAuthorization(w)
  <2>1. job' \in [Workers -> Jobs]
    BY <1>1, <1>3, MovedJobs DEF RevokeAuthorization
  <2>2. budget' \in 0..MaxFaults /\ revoked' \subseteq Keys
    BY <1>1, <1>3, TypeParts, ControlAssumption
       DEF RevokeAuthorization, Spend, Sealed
  <2> QED
    BY <1>3, <2>1, <2>2, TypeParts, TypePartsPrimed DEF RevokeAuthorization
<1>4. CASE CompleteDisconnect(w)
  <2>1. job' \in [Workers -> Jobs]
    BY <1>4, MovedJobs DEF CompleteDisconnect, DisconnectNow
  <2>2. operation' \in [Operations -> OperationRows]
    BY <1>4, EnqueuedRows, TypeParts DEF CompleteDisconnect, DisconnectNow
  <2>3. channel' \in ChannelRows
    <3>1. 0 \in 0..MaxGeneration
      BY LifecycleAssumption
    <3> QED
      BY <1>1, <1>4, <3>1 DEF CompleteDisconnect, DisconnectNow, ChannelRows,
         WithoutLease, Erased
  <2>4. certified' \subseteq Keys
    BY <1>4, TypeParts DEF CompleteDisconnect, DisconnectNow
  <2> QED
    BY <1>4, <2>1, <2>2, <2>3, <2>4, TypeParts, TypePartsPrimed DEF CompleteDisconnect
<1>5. CASE DestroyTokenKey(w)
  <2>1. job' \in [Workers -> Jobs]
    BY <1>5, MovedJobs DEF DestroyTokenKey
  <2>2. vault' \in [Keys -> VaultStates]
    BY <1>1, <1>5, TypeParts DEF DestroyTokenKey, Jobs
  <2>3. budget' \in 0..MaxFaults
    BY <1>5, TypeParts, ControlAssumption DEF DestroyTokenKey, Spend
  <2> QED
    BY <1>5, <2>1, <2>2, <2>3, TypeParts, TypePartsPrimed DEF DestroyTokenKey
<1> QED
  BY <1>2, <1>3, <1>4, <1>5

LEMMA RetentionTyped ==
  ASSUME TypeOK, RunsSound, NEW w \in Workers,
         \/ ReadExpiredAuthorization(w) \/ RefreshAtProvider(w) \/ PersistRefresh(w)
         \/ DeleteExpired(w) \/ ReleaseRetentionLease(w) \/ CompleteRetention(w)
  PROVE  TypeOK'
<1>1. /\ channel \in ChannelRows /\ job \in [Workers -> Jobs]
      /\ serving \in [Workers -> ServingRows] /\ 0 \in 0..MaxGeneration
  BY TypeParts, LifecycleAssumption
<1>2. CASE ReadExpiredAuthorization(w)
  <2>1. serving[w].operation \in Operations
    BY <1>1, <1>2 DEF ReadExpiredAuthorization, Serves, ServingRows
  <2>2. channel' \in ChannelRows
    BY <1>1, <1>2, <2>1 DEF ReadExpiredAuthorization, WithLease, ChannelRows
  <2>3. job' \in [Workers -> Jobs]
    <3>1. [job[w] EXCEPT !.step = "refresh", !.key = channel.key,
                         !.generation = channel.generation] \in Jobs
      BY <1>1 DEF Jobs, ChannelRows
    <3>2. \/ job' = [job EXCEPT ![w] = [job[w] EXCEPT !.step = "refresh",
                       !.key = channel.key, !.generation = channel.generation]]
          \/ Fail(w) \/ Leave(w, "complete")
      BY <1>1, <1>2 DEF ReadExpiredAuthorization
    <3> QED
      BY <1>1, <3>1, <3>2, MovedJobs
  <2> QED
    BY <1>2, <2>2, <2>3, TypeParts, TypePartsPrimed DEF ReadExpiredAuthorization,
       controlVars
<1>3. CASE RefreshAtProvider(w)
  <2>1. vault' \in [Keys -> VaultStates]
    BY <1>3, TypeParts, NextKeyUnsealed DEF RefreshAtProvider
  <2>2. job' \in [Workers -> Jobs]
    <3>1. Unsealed # {} => [job[w] EXCEPT !.step = "persist", !.sealed = NextKey] \in Jobs
      BY <1>1, NextKeyUnsealed DEF Jobs
    <3>2. \/ /\ Unsealed # {}
             /\ job' = [job EXCEPT ![w] =
                          [job[w] EXCEPT !.step = "persist", !.sealed = NextKey]]
          \/ GoTo(w, "delete") \/ Return(w, "release", "failed")
      BY <1>1, <1>3 DEF RefreshAtProvider
    <3> QED
      BY <1>1, <3>1, <3>2, MovedJobs
  <2>3. budget' \in 0..MaxFaults
    BY <1>3, TypeParts, ControlAssumption DEF RefreshAtProvider, Spend
  <2> QED
    BY <1>3, <2>1, <2>2, <2>3, TypeParts, TypePartsPrimed DEF RefreshAtProvider
<1>4. CASE PersistRefresh(w)
  <2>1. job[w].sealed \in Keys
    BY <1>1, <1>4 DEF PersistRefresh, Serves, RunsSound
  <2>2. vault' \in [Keys -> VaultStates]
    BY <1>4, TypeParts DEF PersistRefresh
  <2>3. job' \in [Workers -> Jobs]
    BY <1>4, MovedJobs DEF PersistRefresh
  <2>4. operation' \in [Operations -> OperationRows]
    BY <1>4, EnqueuedRows, TypeParts DEF PersistRefresh
  <2>5. channel' \in ChannelRows
    BY <1>1, <1>4, <2>1 DEF PersistRefresh, WithoutLease, ChannelRows
  <2>6. budget' \in 0..MaxFaults /\ committed' \subseteq Keys
    BY <1>4, <2>1, TypeParts, ControlAssumption DEF PersistRefresh, Spend
  <2> QED
    BY <1>4, <2>2, <2>3, <2>4, <2>5, <2>6, TypeParts, TypePartsPrimed DEF PersistRefresh
<1>5. CASE DeleteExpired(w)
  <2>1. channel' \in ChannelRows
    BY <1>1, <1>5 DEF DeleteExpired, WithoutLease, Erased, ChannelRows
  <2>2. operation' \in [Operations -> OperationRows]
    BY <1>5, EnqueuedRows, TypeParts DEF DeleteExpired
  <2>3. journal' \subseteq Operations
    BY <1>1, <1>5, TypeParts DEF DeleteExpired, Serves, ServingRows
  <2> QED
    BY <1>5, <2>1, <2>2, <2>3, MovedJobs, TypeParts, TypePartsPrimed DEF DeleteExpired
<1>6. CASE ReleaseRetentionLease(w)
  <2>1. channel' \in ChannelRows
    BY <1>1, <1>6 DEF ReleaseRetentionLease, WithoutLease, ChannelRows
  <2>2. serving' \in [Workers -> ServingRows]
    <3>1. NotServing \in ServingRows
      BY DEF NotServing, ServingRows
    <3>2. serving' = serving \/ serving' = [serving EXCEPT ![w] = NotServing]
      BY <1>6 DEF ReleaseRetentionLease, StopServing
    <3> QED
      BY <1>1, <3>1, <3>2
  <2>3. job' \in [Workers -> Jobs]
    <3>1. \/ Leave(w, "failed") \/ Leave(w, "complete")
          \/ job' = [job EXCEPT ![w] = NoJob]
      BY <1>6 DEF ReleaseRetentionLease
    <3> QED
      BY <3>1, MovedJobs
  <2> QED
    BY <1>6, <2>1, <2>2, <2>3, TypeParts, TypePartsPrimed DEF ReleaseRetentionLease
<1>7. CASE CompleteRetention(w)
  BY <1>7, MovedJobs, TypeParts, TypePartsPrimed DEF CompleteRetention, controlVars
<1> QED
  BY <1>2, <1>3, <1>4, <1>5, <1>6, <1>7

(* The same moves, field by field. *)
OthersKeep(w) == \A v \in Workers \ {w} : job'[v] = job[v]

LEMMA MovedFields ==
  ASSUME TypeOK, NEW w \in Workers, NEW step \in Steps, NEW result \in Results
  PROVE  /\ GoTo(w, step) =>
              /\ OthersKeep(w) /\ job'[w].step = step
              /\ job'[w].key = job[w].key /\ job'[w].sealed = job[w].sealed
              /\ job'[w].result = job[w].result
         /\ Leave(w, step) =>
              /\ OthersKeep(w) /\ job'[w].step = step
              /\ job'[w].key = NoKey /\ job'[w].result = "none"
         /\ Return(w, step, result) =>
              /\ OthersKeep(w) /\ job'[w].step = step
              /\ job'[w].key = NoKey /\ job'[w].result = result
         /\ Fail(w) => OthersKeep(w) /\ job'[w].step = "failed" /\ job'[w].key = NoKey
         /\ job' = [job EXCEPT ![w] = NoJob] =>
              OthersKeep(w) /\ job'[w].step = "idle" /\ job'[w].key = NoKey
<1>1. job \in [Workers -> Jobs] /\ job[w] \in Jobs
  BY TypeParts
<1>2. ASSUME GoTo(w, step)
      PROVE  /\ OthersKeep(w) /\ job'[w].step = step
             /\ job'[w].key = job[w].key /\ job'[w].sealed = job[w].sealed
             /\ job'[w].result = job[w].result
  BY <1>1, <1>2 DEF GoTo, OthersKeep, Jobs
<1>3. ASSUME Leave(w, step)
      PROVE  /\ OthersKeep(w) /\ job'[w].step = step
             /\ job'[w].key = NoKey /\ job'[w].result = "none"
  BY <1>1, <1>3 DEF Leave, OthersKeep, NoJob
<1>4. ASSUME Return(w, step, result)
      PROVE  /\ OthersKeep(w) /\ job'[w].step = step
             /\ job'[w].key = NoKey /\ job'[w].result = result
  <2>1. job' = [job EXCEPT ![w] = [job[w] EXCEPT !.step = step, !.result = result,
                                                 !.key = NoKey, !.sealed = NoKey]]
    BY <1>1, <1>4 DEF Return
  <2> QED
    BY <1>1, <2>1 DEF OthersKeep, Jobs
<1>5. ASSUME Fail(w)
      PROVE  OthersKeep(w) /\ job'[w].step = "failed" /\ job'[w].key = NoKey
  BY <1>1, <1>5 DEF Fail, Leave, OthersKeep, NoJob
<1>6. ASSUME job' = [job EXCEPT ![w] = NoJob]
      PROVE  OthersKeep(w) /\ job'[w].step = "idle" /\ job'[w].key = NoKey
  BY <1>1, <1>6 DEF OthersKeep, NoJob
<1> QED
  BY <1>2, <1>3, <1>4, <1>5, <1>6

LEMMA RunsKept ==
  ASSUME TypeOK, RunsSound, [Next]_vars
  PROVE  RunsSound'
<1>1. CASE UNCHANGED job
  BY <1>1 DEF RunsSound
<1>2. ASSUME NEW w \in Workers, OthersKeep(w),
             job'[w].step = "finish" => job'[w].result \in {"waiting", "completed"},
             job'[w].step = "persist" => job'[w].sealed \in Keys
      PROVE  RunsSound'
  BY <1>2 DEF OthersKeep, RunsSound
<1>3. ASSUME NEW w \in Workers, OthersKeep(w), job'[w].step \notin {"finish", "persist"}
      PROVE  RunsSound'
  BY <1>2, <1>3
<1>4. ASSUME NEW w \in Workers,
             NEW result \in {"waiting", "completed"}, Return(w, "finish", result)
      PROVE  RunsSound'
  BY <1>2, <1>4, MovedFields
<1>5. ASSUME NEW w \in Workers,
             \/ Fail(w) \/ job' = [job EXCEPT ![w] = NoJob]
             \/ \E step \in Steps \ {"finish", "persist"} :
                  \/ GoTo(w, step) \/ Leave(w, step)
                  \/ \E result \in Results : Return(w, step, result)
      PROVE  RunsSound'
  BY <1>3, <1>5, MovedFields
<1>6. ASSUME NEW w \in Workers, Work(w) PROVE RunsSound'
  <2>1. CASE ReadDisconnectMaterial(w)
    <3>1. Fail(w) \/ job' = [job EXCEPT ![w] = [job[w] EXCEPT !.step = "revoke",
                                                             !.key = channel.key]]
      BY <2>1, TypeParts DEF ReadDisconnectMaterial
    <3>2. ASSUME job' = [job EXCEPT ![w] = [job[w] EXCEPT !.step = "revoke",
                                                        !.key = channel.key]]
          PROVE  OthersKeep(w) /\ job'[w].step = "revoke"
      BY <3>2, TypeParts DEF OthersKeep, Jobs
    <3> QED
      BY <1>3, <1>5, <3>1, <3>2
  <2>2. CASE RevokeAuthorization(w)
    BY <1>5, <2>2 DEF RevokeAuthorization
  <2>3. CASE CompleteDisconnect(w)
    BY <1>4, <1>5, <2>3 DEF CompleteDisconnect, DisconnectNow
  <2>4. CASE ReadExpiredAuthorization(w)
    <3>1. \/ Fail(w) \/ Leave(w, "complete")
          \/ job' = [job EXCEPT ![w] = [job[w] EXCEPT !.step = "refresh",
                       !.key = channel.key, !.generation = channel.generation]]
      BY <2>4, TypeParts DEF ReadExpiredAuthorization
    <3>2. ASSUME job' = [job EXCEPT ![w] = [job[w] EXCEPT !.step = "refresh",
                       !.key = channel.key, !.generation = channel.generation]]
          PROVE  OthersKeep(w) /\ job'[w].step = "refresh"
      BY <3>2, TypeParts DEF OthersKeep, Jobs
    <3> QED
      BY <1>3, <1>5, <3>1, <3>2
  <2>5. CASE RefreshAtProvider(w)
    <3>1. \/ GoTo(w, "delete") \/ Return(w, "release", "failed")
          \/ /\ Unsealed # {}
             /\ job' = [job EXCEPT ![w] = [job[w] EXCEPT !.step = "persist",
                                                        !.sealed = NextKey]]
      BY <2>5, TypeParts DEF RefreshAtProvider
    <3>2. ASSUME Unsealed # {},
                 job' = [job EXCEPT ![w] = [job[w] EXCEPT !.step = "persist",
                                                        !.sealed = NextKey]]
          PROVE  OthersKeep(w) /\ job'[w].step = "persist" /\ job'[w].sealed \in Keys
      BY <3>2, TypeParts, NextKeyUnsealed DEF OthersKeep, Jobs
    <3> QED
      BY <1>2, <1>5, <3>1, <3>2
  <2>6. CASE PersistRefresh(w)
    BY <1>5, <2>6 DEF PersistRefresh
  <2>7. CASE DeleteExpired(w)
    BY <1>5, <2>7 DEF DeleteExpired
  <2>8. CASE ReleaseRetentionLease(w)
    <3>1. \/ Leave(w, "failed") \/ Leave(w, "complete")
          \/ job' = [job EXCEPT ![w] = NoJob]
      BY <2>8 DEF ReleaseRetentionLease
    <3> QED
      BY <1>5, <3>1
  <2>9. CASE CompleteRetention(w)
    BY <1>4, <2>9 DEF CompleteRetention
  <2>10. CASE DestroyTokenKey(w)
    BY <1>4, <1>5, <2>10 DEF DestroyTokenKey
  <2>11. CASE FinishRun(w) \/ StaleRun(w) \/ StaleRetention(w)
    BY <1>5, <2>11 DEF FinishRun, StaleRun, StaleRetention
  <2> QED
    BY <1>6, <2>1, <2>2, <2>3, <2>4, <2>5, <2>6, <2>7, <2>8, <2>9, <2>10, <2>11 DEF Work
<1>7. ASSUME NEW w \in Workers, Failure(w) PROVE RunsSound'
  BY <1>1, <1>5, <1>7 DEF Failure, Crash, JournalFails
<1>8. ASSUME NEW w \in Workers, NEW o \in Operations, ClaimNext(w, o) PROVE RunsSound'
  <2>1. OthersKeep(w) /\ job'[w].step = "load"
    BY <1>8, TypeParts DEF ClaimNext, OthersKeep, NoJob
  <2> QED
    BY <1>3, <2>1
<1>9. CASE Users \/ Publisher \/ Time \/ EnqueueDue \/ UNCHANGED vars
  BY <1>1, <1>9 DEF Users, ReadChannel, BeginConnection, CompleteConnection, DenyConnection,
     PrepareDisconnect, Publisher, TakePublishingLease, RotateToken,
     RequireReauthorization, ReleasePublishingLease, Time, DataAges, ExpireLease,
     EnqueueDue, vars
<1> QED
  BY <1>6, <1>7, <1>8, <1>9 DEF Next

(* Every step of the system keeps the types. *)
LEMMA TypesKept ==
  ASSUME TypeOK, RunsSound, [Next]_vars
  PROVE  TypeOK'
<1>1. CASE Users \/ Publisher \/ EnqueueDue
  BY <1>1, ChannelMovesTyped, KeyMovesTyped DEF Users, Publisher
<1>2. CASE Time
  <2>1. CASE DataAges \/ ExpireLease
    BY <2>1, ChannelMovesTyped
  <2> QED
    BY <1>2, <2>1, LoopTyped DEF Time
<1>3. ASSUME NEW w \in Workers, Work(w) \/ Failure(w) PROVE TypeOK'
  BY <1>3, LoopTyped, DisconnectTyped, RetentionTyped DEF Work
<1>4. ASSUME NEW w \in Workers, NEW o \in Operations, ClaimNext(w, o) PROVE TypeOK'
  BY <1>4, LoopTyped
<1>5. CASE UNCHANGED vars
  BY <1>5, TypeParts, TypePartsPrimed DEF vars, controlVars, channelVars
<1> QED
  BY <1>1, <1>2, <1>3, <1>4, <1>5 DEF Next

-----------------------------------------------------------------------------
(* What a step may do to the keys, the channel and the jobs *)

RowsEvolve ==
  /\ \A o \in Operations :
       /\ operation'[o].state = "absent" => operation[o].state = "absent"
       /\ operation[o].state # "absent" /\ operation[o].overdue =>
            operation'[o].overdue
  /\ \A k \in Keys : operation'[Retirement(k)].state = "completed" =>
       operation[Retirement(k)].state = "completed" \/ vault[k] = "destroyed"

(* w stores the envelope it has sealed, or gives it up. *)
Persisted(k) ==
  \E w \in Workers :
    job[w].step = "persist" /\ job[w].sealed = k /\ job'[w].step # "persist"

VaultEvolves ==
  \A k \in Keys :
    /\ vault[k] # "unsealed" => vault'[k] # "unsealed"
    /\ vault[k] = "destroyed" => vault'[k] = "destroyed"
    /\ vault[k] = "withdrawn" => vault'[k] \in {"withdrawn", "destroyed"}
    /\ vault'[k] = "destroyed" => vault[k] = "destroyed" \/ Retiring(k)
    /\ vault[k] = "sealed" => vault'[k] = "sealed" \/ Retiring(k) \/ Persisted(k)

(* A key enters the row fresh, and leaves it by its retirement. *)
KeysMove ==
  /\ committed \subseteq committed'
  /\ \A k \in committed' \ committed :
       /\ k = channel'.key /\ vault'[k] # "unsealed"
       /\ vault[k] = "unsealed" \/ Persisted(k)
  /\ channel'.key \in {channel.key, NoKey} \cup (committed' \ committed)
  /\ \A k \in Keys :
       operation'[Retirement(k)].state # "absent"
         <=> Retiring(k) \/ (k = channel.key /\ channel'.key # k)

ChannelEvolves ==
  /\ channel'.state = "connected" =>
       /\ ~ channel'.requested
       /\ channel.state = "connected" \/ channel'.key \in committed' \ committed
  /\ channel.generation <= channel'.generation
  /\ \A g \in 1..MaxGeneration :
       operation[Disconnect(g)].state = "absent" =>
         operation'[Disconnect(g)].state = "absent" \/ g <= channel'.generation
  /\ channel'.state = "disconnecting" =>
       \/ /\ channel.state = "disconnecting" /\ channel'.generation = channel.generation
          /\ channel'.key \in {channel.key, NoKey}
       \/ /\ channel'.generation \in 1..MaxGeneration
          /\ operation[Disconnect(channel'.generation)].state = "absent"

RevokedEvolves ==
  /\ revoked \subseteq revoked' /\ revoked' \subseteq committed
  /\ \/ revoked' = revoked
     \/ /\ UNCHANGED channel
        /\ channel.state = "connected" => channel.key \notin revoked'

JobsEvolve ==
  /\ \A w \in Workers :
       \/ job'[w] = job[w] /\ serving'[w].operation = serving[w].operation
       \/ JobSound(w)'
  /\ \A w \in Workers : job'[w].step = "persist" =>
       \/ job[w].step = "persist" /\ job'[w].sealed = job[w].sealed
       \/ vault[job'[w].sealed] = "unsealed"

Evolution ==
  /\ RowsEvolve /\ VaultEvolves /\ KeysMove /\ ChannelEvolves /\ RevokedEvolves
  /\ JobsEvolve /\ certified' \subseteq Destroyed'

LEMMA KeysEvolve ==
  ASSUME IInv, TypeOK', Evolution
  PROVE  KeysSound'
<1>1. /\ committed \subseteq Keys /\ committed' \subseteq Keys
      /\ channel.key \in {NoKey} \cup Keys /\ NoKey \notin Keys
  BY TypeParts, TypePartsPrimed DEF IInv, ChannelRows
<1>2. channel'.key \in committed' \cup {NoKey}
  BY DEF IInv, KeysSound, Evolution, KeysMove
<1>3. \A k \in Keys : Retiring(k)' <=> k \in committed' /\ k # channel'.key
  BY <1>1 DEF IInv, KeysSound, Evolution, KeysMove, Retiring
<1>4. \A k \in committed' : vault'[k] # "unsealed"
  BY <1>1 DEF IInv, KeysSound, Evolution, KeysMove, VaultEvolves
<1>5. \A k \in Keys :
        /\ operation'[Retirement(k)].state = "completed" => vault'[k] = "destroyed"
        /\ vault'[k] = "destroyed" => Retiring(k)'
  BY DEF IInv, KeysSound, Evolution, KeysMove, VaultEvolves, RowsEvolve, Retiring
<1> QED
  BY <1>2, <1>3, <1>4, <1>5 DEF KeysSound, Evolution

LEMMA AuthorizationEvolves ==
  ASSUME IInv, TypeOK', Evolution
  PROVE  AuthorizationSound'
<1>1. /\ revoked \subseteq Keys /\ committed \subseteq Keys /\ NoKey \notin Keys
      /\ channel.generation \in Nat /\ channel'.generation \in Nat
  BY TypeParts, TypePartsPrimed, LifecycleAssumption DEF IInv, ChannelRows
<1>2. revoked' \subseteq committed'
  BY DEF Evolution, RevokedEvolves, KeysMove
<1>3. ASSUME channel'.state = "connected" PROVE channel'.key \notin revoked'
  <2>1. CASE revoked' = revoked
    BY <1>1, <1>3, <2>1 DEF IInv, AuthorizationSound, Evolution, ChannelEvolves, KeysMove
  <2>2. CASE /\ UNCHANGED channel
             /\ channel.state = "connected" => channel.key \notin revoked'
    BY <1>3, <2>2
  <2> QED
    BY <2>1, <2>2 DEF Evolution, RevokedEvolves
<1>4. \A g \in 1..MaxGeneration :
        operation'[Disconnect(g)].state # "absent" => g <= channel'.generation
  <2>1. TAKE g \in 1..MaxGeneration
  <2>2. g \in Nat
    BY LifecycleAssumption
  <2> QED
    BY <1>1, <2>2 DEF IInv, AuthorizationSound, Evolution, ChannelEvolves
<1> QED
  BY <1>2, <1>3, <1>4 DEF AuthorizationSound, Evolution, ChannelEvolves

LEMMA JobsStaySound ==
  ASSUME IInv, TypeOK', RunsSound', Evolution
  PROVE  JobsSound'
<1> SUFFICES ASSUME NEW w \in Workers, job'[w] = job[w],
                    serving'[w].operation = serving[w].operation
             PROVE  JobSound(w)'
  BY DEF JobsSound, Evolution, JobsEvolve
<1>1. /\ JobSound(w) /\ committed \subseteq Keys /\ NoKey \notin Keys
      /\ serving[w].operation \in Operations \cup {NoOperation}
      /\ channel.generation \in 0..MaxGeneration
      /\ \A k \in Keys : Retirement(k) \in Operations
      /\ \A v \in Workers : job'[v].step = "persist" => job'[v].sealed \in Keys
  BY TypeParts, Named DEF IInv, JobsSound, ServingRows, ChannelRows, RunsSound
<1>2. /\ RowsEvolve /\ VaultEvolves /\ KeysMove /\ ChannelEvolves /\ RevokedEvolves
      /\ KeysSound /\ RunsSound /\ JobsEvolve
  BY DEF Evolution, IInv
<1>3. serving'[w].operation # NoOperation =>
        operation'[serving'[w].operation].state # "absent"
  BY <1>1, <1>2 DEF JobSound, RowsEvolve
<1>4. ASSUME job'[w].step = "persist"
      PROVE  /\ job'[w].sealed \notin committed' /\ vault'[job'[w].sealed] = "sealed"
             /\ \A v \in Workers \ {w} :
                  job'[v].step = "persist" => job'[v].sealed # job'[w].sealed
  <2>1. PICK k \in Keys : k = job[w].sealed
    BY <1>2, <1>4 DEF RunsSound
  <2>2. k \notin committed /\ vault[k] = "sealed"
    BY <1>1, <1>4, <2>1 DEF JobSound
  <2>3. ~ Persisted(k)
    <3>1. ASSUME NEW v \in Workers, job[v].step = "persist", job[v].sealed = k,
                 job'[v].step # "persist"
          PROVE  FALSE
      BY <1>1, <1>4, <2>1, <3>1 DEF JobSound
    <3> QED
      BY <3>1 DEF Persisted
  <2>4. k \notin committed'
    BY <1>2, <2>2, <2>3 DEF KeysMove
  <2>5. vault'[k] = "sealed"
    BY <1>2, <2>2, <2>3 DEF VaultEvolves, KeysSound
  <2>6. ASSUME NEW v \in Workers \ {w}, job'[v].step = "persist", job'[v].sealed = k
        PROVE  FALSE
    BY <1>1, <1>2, <1>4, <2>1, <2>2, <2>6 DEF JobsEvolve, JobSound
  <2> QED
    BY <2>1, <2>4, <2>5, <2>6
<1>5. ASSUME job'[w].step = "revoke"
      PROVE  /\ job'[w].key \in committed' \cup {NoKey}
             /\ channel'.state = "connected" /\ job'[w].key # NoKey =>
                  channel'.key # job'[w].key
  BY <1>1, <1>2, <1>5 DEF JobSound, KeysMove, ChannelEvolves
<1>6. ASSUME NEW k \in Keys, serving'[w].operation = Retirement(k)
      PROVE  /\ job'[w].step = "load" => job'[w].key \in {NoKey, k}
             /\ job'[w].step = "finish" /\ job'[w].result = "completed" =>
                  vault'[k] = "destroyed"
  BY <1>1, <1>2, <1>6 DEF JobSound, VaultEvolves
<1>7. ASSUME serving'[w].operation = Disconnect(channel'.generation),
             channel'.state = "disconnecting"
      PROVE  /\ job'[w].step = "revoke" => channel'.key \in {NoKey, job'[w].key}
             /\ job'[w].step = "erase" =>
                  \/ channel'.key \in {NoKey} \cup revoked' \cup Destroyed'
                  \/ operation'[Disconnect(channel'.generation)].overdue
  <2>1. serving[w].operation \in Operations
    <3>1. Disconnect(channel'.generation) # NoOperation
      BY NoOperationAssumption DEF Disconnect
    <3> QED
      BY <1>1, <1>7, <3>1
  <2>2. operation[serving[w].operation].state # "absent"
    BY <1>1, <2>1, ControlAssumption DEF JobSound
  <2>3. /\ channel.state = "disconnecting" /\ channel'.generation = channel.generation
        /\ channel'.key \in {channel.key, NoKey}
    BY <1>2, <1>7, <2>2 DEF ChannelEvolves
  <2>4. Destroyed \subseteq Destroyed'
    BY <1>2 DEF Destroyed, VaultEvolves
  <2>5. revoked \subseteq revoked'
    BY <1>2 DEF RevokedEvolves
  <2>6. operation[Disconnect(channel.generation)].overdue =>
          operation'[Disconnect(channel'.generation)].overdue
    BY <1>2, <1>7, <2>1, <2>2, <2>3 DEF RowsEvolve
  <2> QED
    BY <1>1, <1>7, <2>3, <2>4, <2>5, <2>6 DEF JobSound
<1> QED
  BY <1>3, <1>4, <1>5, <1>6, <1>7 DEF JobSound

LEMMA EvolutionKeeps ==
  ASSUME IInv, [Next]_vars, Evolution
  PROVE  IInv'
BY KeysEvolve, AuthorizationEvolves, JobsStaySound, TypesKept, RunsKept DEF IInv

(* The parts of an evolution that most steps share. *)
LEMMA JobsQuiet ==
  ASSUME UNCHANGED job, \A w \in Workers : serving'[w].operation = serving[w].operation
  PROVE  JobsEvolve
BY DEF JobsEvolve

OthersServe(w) ==
  \A v \in Workers \ {w} : serving'[v].operation = serving[v].operation

(* A run that moves to a place where it holds nothing. *)
LEMMA JobHarmless ==
  ASSUME NEW w \in Workers, OthersKeep(w), OthersServe(w),
         job'[w].step \notin {"load", "revoke", "erase", "persist", "finish"},
         serving'[w].operation # NoOperation =>
           operation'[serving'[w].operation].state # "absent"
  PROVE  JobsEvolve
BY DEF JobsEvolve, JobSound, OthersKeep, OthersServe

LEMMA RowsQuiet ==
  ASSUME UNCHANGED operation
  PROVE  RowsEvolve
BY DEF RowsEvolve

LEMMA KeysQuiet ==
  ASSUME IInv, UNCHANGED <<vault, committed, certified>>, channel'.key = channel.key,
         \A k \in Keys :
           operation'[Retirement(k)].state = "absent"
             <=> operation[Retirement(k)].state = "absent"
  PROVE  VaultEvolves /\ KeysMove /\ certified' \subseteq Destroyed'
BY DEF VaultEvolves, KeysMove, Retiring, IInv, KeysSound, Destroyed

LEMMA RevokedQuiet ==
  ASSUME IInv, UNCHANGED revoked
  PROVE  RevokedEvolves
BY DEF RevokedEvolves, IInv, AuthorizationSound

LEMMA ChannelQuiet ==
  ASSUME IInv, UNCHANGED channel,
         \A g \in 1..MaxGeneration :
           operation'[Disconnect(g)].state = "absent"
             <=> operation[Disconnect(g)].state = "absent"
  PROVE  ChannelEvolves
<1>1. channel.generation \in Nat
  BY TypeParts, LifecycleAssumption DEF IInv, ChannelRows
<1> QED
  BY <1>1 DEF ChannelEvolves, IInv, AuthorizationSound

(* Enqueuing the retirement of a key, or of none. *)
LEMMA RetiredRows ==
  ASSUME TypeOK, NEW key \in {NoKey} \cup Keys, operation' = Enqueued(Retired(key))
  PROVE  /\ RowsEvolve
         /\ \A k \in Keys : operation'[Retirement(k)].state # "absent"
                              <=> Retiring(k) \/ k = key
         /\ \A g \in 1..MaxGeneration :
              operation'[Disconnect(g)] = operation[Disconnect(g)]
<1>1. /\ \A o \in Operations :
           /\ operation[o].state # "absent" => operation'[o] = operation[o]
           /\ o \notin Retired(key) => operation'[o] = operation[o]
           /\ o \in Retired(key) /\ operation[o].state = "absent" =>
                operation'[o].state = "waiting"
  <2>1. \A o \in Operations : NewRow(o).state = "waiting"
    BY DEF NewRow, Absent
  <2> QED
    BY <2>1, EnqueuedRows
<1>3. \A o \in Operations : operation'[o].state = "absent" => operation[o].state = "absent"
  BY <1>1
<1>4. \A k \in Keys : Retirement(k) \in Operations
        /\ (Retirement(k) \in Retired(key) <=> k = key)
  BY Named, Distinct, LifecycleAssumption DEF Retired
<1>5. \A g \in 1..MaxGeneration : Disconnect(g) \in Operations
        /\ Disconnect(g) \notin Retired(key)
  BY Named, Distinct, LifecycleAssumption DEF Retired
<1> QED
  BY <1>1, <1>3, <1>4, <1>5 DEF RowsEvolve, Retiring

-----------------------------------------------------------------------------
(* The steps of users, publishers and time *)

LEMMA ChannelMovesEvolve ==
  ASSUME IInv,
         \/ ReadChannel \/ BeginConnection \/ DenyConnection \/ DataAges
         \/ TakePublishingLease \/ ReleasePublishingLease \/ ExpireLease
  PROVE  Evolution
<1>1. UNCHANGED <<operation, serving, vault, job, committed, revoked, certified>>
  BY DEF ReadChannel, BeginConnection, DenyConnection, DataAges, TakePublishingLease,
     ReleasePublishingLease, ExpireLease, controlVars
<1>2. /\ channel'.key = channel.key /\ channel'.requested = channel.requested
      /\ channel'.generation = channel.generation
      /\ channel'.state = "connected" => channel.state = "connected"
      /\ channel'.state = "disconnecting" => channel.state = "disconnecting"
  <2>1. channel \in ChannelRows
    BY TypeParts DEF IInv
  <2>2. CASE ReadChannel \/ BeginConnection \/ DenyConnection \/ DataAges
    BY <2>1, <2>2 DEF ChannelRows, ReadChannel, BeginConnection, DenyConnection, DataAges
  <2>3. CASE TakePublishingLease \/ ReleasePublishingLease \/ ExpireLease
    BY <2>1, <2>3 DEF ChannelRows, TakePublishingLease, ReleasePublishingLease,
       ExpireLease, WithLease, WithoutLease
  <2> QED
    BY <2>2, <2>3
<1>3. channel.generation \in Nat
  BY TypeParts, LifecycleAssumption DEF IInv, ChannelRows
<1>4. ChannelEvolves
  BY <1>1, <1>2, <1>3 DEF ChannelEvolves, IInv, AuthorizationSound
<1> QED
  BY <1>1, <1>2, <1>4, JobsQuiet, RowsQuiet, KeysQuiet, RevokedQuiet DEF Evolution

LEMMA PrepareEvolves ==
  ASSUME IInv, PrepareDisconnect
  PROVE  Evolution
<1>1. PICK g \in 1..MaxGeneration : g = channel.generation + 1
  BY TypeParts, LifecycleAssumption DEF IInv, ChannelRows, PrepareDisconnect
<1>2. /\ channel \in ChannelRows /\ channel.generation \in Nat
      /\ Disconnect(g) \in Operations
  BY TypeParts, Named, LifecycleAssumption DEF IInv, ChannelRows
<1>3. /\ channel'.state = "disconnecting" /\ channel'.generation = g
      /\ channel'.key = channel.key
  BY <1>1, <1>2 DEF PrepareDisconnect, ChannelRows
<1>4. /\ UNCHANGED <<serving, vault, job, committed, revoked, certified>>
      /\ operation' = Enqueued({Disconnect(g)})
  BY <1>1 DEF PrepareDisconnect
<1>5. /\ \A o \in Operations :
           /\ operation[o].state # "absent" => operation'[o] = operation[o]
           /\ o # Disconnect(g) => operation'[o] = operation[o]
      /\ operation'[Disconnect(g)].state # "absent"
  <2>1. NewRow(Disconnect(g)).state = "waiting"
    BY DEF NewRow, Absent
  <2> QED
    BY <1>2, <1>4, <2>1, EnqueuedRows DEF IInv
<1>6. operation[Disconnect(g)].state = "absent"
  BY <1>1, <1>2 DEF IInv, AuthorizationSound
<1>7. \A k \in Keys : operation'[Retirement(k)] = operation[Retirement(k)]
  BY <1>1, <1>5, Named, Distinct, LifecycleAssumption
<1>8. RowsEvolve
  BY <1>5, <1>6, <1>7 DEF RowsEvolve
<1>9. ChannelEvolves
  <2>1. \A f \in 1..MaxGeneration : f # g => Disconnect(f) # Disconnect(g)
    BY <1>1, Distinct, LifecycleAssumption
  <2> QED
    BY <1>1, <1>2, <1>3, <1>5, <1>6, <2>1, Named DEF ChannelEvolves
<1> QED
  BY <1>3, <1>4, <1>7, <1>8, <1>9, JobsQuiet, KeysQuiet, RevokedQuiet DEF Evolution

LEMMA EnqueueDueEvolves ==
  ASSUME IInv, EnqueueDue
  PROVE  Evolution
<1>1. UNCHANGED <<serving, channel, vault, job, committed, revoked, certified>>
  BY DEF EnqueueDue, channelVars
<1>2. \A o \in Operations :
        /\ operation[o].state # "absent" => operation'[o] = operation[o]
        /\ o # Retention(channel.cycle) => operation'[o] = operation[o]
        /\ operation'[o].state = "absent" => operation[o].state = "absent"
  <2>1. \A o : NewRow(o).state = "waiting"
    BY DEF NewRow, Absent
  <2> QED
    BY <2>1, EnqueuedRows DEF IInv, EnqueueDue
<1>3. channel.cycle \in Nat
  BY TypeParts, LifecycleAssumption DEF IInv, ChannelRows
<1>4. /\ \A k \in Keys : operation'[Retirement(k)] = operation[Retirement(k)]
      /\ \A g \in 1..MaxGeneration : operation'[Disconnect(g)] = operation[Disconnect(g)]
  BY <1>2, <1>3, Named, Distinct, LifecycleAssumption
<1>5. RowsEvolve
  BY <1>2, <1>4 DEF RowsEvolve
<1> QED
  BY <1>1, <1>4, <1>5, JobsQuiet, KeysQuiet, ChannelQuiet, RevokedQuiet DEF Evolution

LEMMA CompleteConnectionEvolves ==
  ASSUME IInv, CompleteConnection
  PROVE  Evolution
<1>1. PICK n \in Keys : n = NextKey /\ vault[n] = "unsealed"
  BY NextKeyUnsealed DEF CompleteConnection
<1>2. n \notin committed
  BY <1>1 DEF IInv, KeysSound
<1>3. /\ channel'.state = "connected" /\ channel'.key = n /\ ~ channel'.requested
      /\ channel'.generation = channel.generation /\ channel.generation \in Nat
  BY <1>1, TypeParts, LifecycleAssumption DEF IInv, ChannelRows, CompleteConnection
<1>4. /\ UNCHANGED <<operation, serving, job, revoked, certified>>
      /\ committed' = committed \cup {n} /\ channel.key = NoKey
      /\ vault' = [vault EXCEPT ![n] = "sealed"]
  BY <1>1 DEF CompleteConnection, controlVars
<1>5. VaultEvolves /\ vault'[n] = "sealed" /\ certified' \subseteq Destroyed'
  BY <1>1, <1>4, TypeParts DEF VaultEvolves, IInv, KeysSound, Destroyed
<1>6. KeysMove
  BY <1>1, <1>2, <1>3, <1>4, <1>5 DEF KeysMove, Retiring
<1>7. ChannelEvolves
  BY <1>2, <1>3, <1>4 DEF ChannelEvolves
<1> QED
  BY <1>4, <1>5, <1>6, <1>7, JobsQuiet, RowsQuiet, RevokedQuiet DEF Evolution

LEMMA RotateEvolves ==
  ASSUME IInv, RotateToken
  PROVE  Evolution
<1>1. PICK n \in Keys : n = NextKey /\ vault[n] = "unsealed"
  BY NextKeyUnsealed DEF RotateToken
<1>2. /\ n \notin committed /\ n # channel.key
      /\ channel.key \in {NoKey} \cup Keys /\ channel.generation \in Nat
  BY <1>1, TypeParts, LifecycleAssumption DEF IInv, KeysSound, ChannelRows
<1>3. /\ channel'.state = channel.state /\ channel.state = "connected"
      /\ channel'.key = n /\ channel'.requested = channel.requested
      /\ channel'.generation = channel.generation
  BY <1>1, TypeParts DEF IInv, ChannelRows, RotateToken, HoldsPublishingFence
<1>4. /\ UNCHANGED <<serving, job, revoked, certified>>
      /\ committed' = committed \cup {n} /\ operation' = Enqueued(Retired(channel.key))
      /\ vault' = [vault EXCEPT ![n] = "sealed"]
  BY <1>1 DEF RotateToken
<1>5. VaultEvolves /\ vault'[n] = "sealed" /\ certified' \subseteq Destroyed'
  BY <1>1, <1>4, TypeParts DEF VaultEvolves, IInv, KeysSound, Destroyed
<1>6. /\ RowsEvolve
      /\ \A k \in Keys : operation'[Retirement(k)].state # "absent"
                           <=> Retiring(k) \/ k = channel.key
      /\ \A g \in 1..MaxGeneration : operation'[Disconnect(g)] = operation[Disconnect(g)]
  BY <1>2, <1>4, RetiredRows DEF IInv
<1>7. KeysMove
  BY <1>1, <1>2, <1>3, <1>4, <1>5, <1>6 DEF KeysMove
<1>8. ChannelEvolves
  BY <1>2, <1>3, <1>6 DEF ChannelEvolves, IInv, AuthorizationSound
<1> QED
  BY <1>4, <1>5, <1>6, <1>7, <1>8, JobsQuiet, RevokedQuiet DEF Evolution

(* The row loses its key, and the key's retirement is enqueued. *)
LEMMA EraseEvolves ==
  ASSUME IInv, operation' = Enqueued(Retired(channel.key)), channel'.key = NoKey,
         UNCHANGED <<vault, committed, revoked>>,
         certified' \subseteq Destroyed', JobsEvolve,
         channel'.generation = channel.generation,
         channel'.state # "connected",
         channel'.state = "disconnecting" => channel.state = "disconnecting"
  PROVE  Evolution
<1>1. channel.key \in {NoKey} \cup Keys /\ channel.generation \in Nat /\ NoKey \notin Keys
  BY TypeParts, LifecycleAssumption DEF IInv, ChannelRows
<1>2. /\ RowsEvolve
      /\ \A k \in Keys : operation'[Retirement(k)].state # "absent"
                           <=> Retiring(k) \/ k = channel.key
      /\ \A g \in 1..MaxGeneration : operation'[Disconnect(g)] = operation[Disconnect(g)]
  BY <1>1, RetiredRows DEF IInv
<1>3. VaultEvolves
  BY DEF VaultEvolves
<1>4. KeysMove
  BY <1>1, <1>2 DEF KeysMove
<1>5. ChannelEvolves
  BY <1>1, <1>2 DEF ChannelEvolves
<1> QED
  BY <1>2, <1>3, <1>4, <1>5, RevokedQuiet DEF Evolution

LEMMA ReauthorizationEvolves ==
  ASSUME IInv, RequireReauthorization
  PROVE  Evolution
<1>1. /\ channel'.key = NoKey /\ channel'.state = "reauthorization_required"
      /\ channel'.generation = channel.generation
  BY TypeParts DEF IInv, ChannelRows, RequireReauthorization, Erased
<1>2. certified' \subseteq Destroyed'
  BY DEF RequireReauthorization, IInv, KeysSound, Destroyed
<1>3. JobsEvolve
  BY JobsQuiet DEF RequireReauthorization
<1> QED
  BY <1>1, <1>2, <1>3, EraseEvolves DEF RequireReauthorization

-----------------------------------------------------------------------------
(* The steps of the control plane *)

LEMMA ControlEvolves ==
  ASSUME IInv, UNCHANGED <<channel, vault, committed, revoked, certified>>, JobsEvolve,
         \A o \in Operations :
           /\ operation'[o].state = "absent" <=> operation[o].state = "absent"
           /\ operation[o].overdue => operation'[o].overdue,
         \A k \in Keys : operation'[Retirement(k)].state = "completed" =>
           operation[Retirement(k)].state = "completed" \/ vault[k] = "destroyed"
  PROVE  Evolution
<1>1. RowsEvolve
  BY DEF RowsEvolve
<1> QED
  BY <1>1, Named, KeysQuiet, ChannelQuiet, RevokedQuiet DEF Evolution

LEMMA RunGoesOn ==
  ASSUME IInv, NEW w \in Workers, UNCHANGED serving, OthersKeep(w),
         job'[w].step \notin {"load", "revoke", "erase", "persist", "finish"},
         \A o \in Operations : operation'[o].state = "absent" =>
             operation[o].state = "absent"
  PROVE  JobsEvolve
<1>1. /\ serving[w].operation # NoOperation =>
           operation[serving[w].operation].state # "absent"
      /\ serving[w].operation \in Operations \cup {NoOperation}
  BY TypeParts DEF IInv, JobsSound, JobSound, ServingRows
<1> QED
  BY <1>1, JobHarmless DEF OthersServe

LEMMA RunStops ==
  ASSUME TypeOK, NEW w \in Workers, StopServing(w), OthersKeep(w), job'[w].step = "idle"
  PROVE  JobsEvolve
<1>1. serving'[w].operation = NoOperation /\ OthersServe(w)
  BY TypeParts DEF StopServing, NotServing, OthersServe
<1> QED
  BY <1>1, JobHarmless

LEMMA ClockEvolves ==
  ASSUME IInv, NEW o \in Operations, ExpireClaim(o) \/ PassDeadline(o),
         UNCHANGED <<channelVars, job>>
  PROVE  Evolution
<1>1. /\ \A p \in Operations :
           operation'[p].state = operation[p].state
             /\ (operation[p].overdue => operation'[p].overdue)
      /\ UNCHANGED serving
  BY TypeParts DEF IInv, ExpireClaim, PassDeadline, OperationRows
<1> QED
  BY <1>1, Named, JobsQuiet, ControlEvolves DEF channelVars

LEMMA FailureEvolves ==
  ASSUME IInv, NEW w \in Workers, Failure(w)
  PROVE  Evolution
<1>1. UNCHANGED <<operation, channelVars>>
  BY DEF Failure, Crash, CrashServing, JournalFails, HeartbeatFails
<1>2. ASSUME Crash(w) PROVE JobsEvolve
  BY <1>2, MovedFields, RunStops DEF IInv, Crash, CrashServing
<1>3. ASSUME JournalFails(w) PROVE JobsEvolve
  <2>1. OthersKeep(w) /\ job'[w].step \in {"failed", "release"}
    BY <1>3, MovedFields DEF IInv, JournalFails
  <2> QED
    BY <1>1, <1>3, <2>1, RunGoesOn DEF JournalFails
<1>4. ASSUME HeartbeatFails(w), UNCHANGED <<channelVars, job>> PROVE JobsEvolve
  <2>1. \A v \in Workers : serving'[v].operation = serving[v].operation
    BY <1>4, TypeParts DEF IInv, HeartbeatFails, ServingRows
  <2> QED
    BY <1>4, <2>1, JobsQuiet
<1>5. JobsEvolve
  BY <1>2, <1>3, <1>4 DEF Failure
<1> QED
  BY <1>1, <1>5, Named, ControlEvolves DEF channelVars

LEMMA StaleRunEvolves ==
  ASSUME IInv, NEW w \in Workers, StaleRun(w)
  PROVE  Evolution
<1>1. JobsEvolve
  BY MovedFields, RunStops DEF IInv, StaleRun, StandDown
<1> QED
  BY <1>1, Named, ControlEvolves DEF StaleRun, StandDown, channelVars

(* A retirement ends as completed only when its key is destroyed. *)
LEMMA FinishRunEvolves ==
  ASSUME IInv, NEW w \in Workers, FinishRun(w)
  PROVE  Evolution
<1> DEFINE o == serving[w].operation
           state == IF job[w].step = "finish" THEN job[w].result ELSE "waiting"
<1>1. /\ JobSound(w) /\ state \in {"waiting", "completed"}
      /\ o \in Operations \cup {NoOperation}
  BY TypeParts DEF IInv, JobsSound, RunsSound, FinishRun, ServingRows
<1>2. JobsEvolve
  BY MovedFields, RunStops DEF IInv, FinishRun, FinishOperation
<1>3. \/ UNCHANGED operation
      \/ /\ o \in Operations /\ operation[o].state = "claimed"
         /\ operation' = [operation EXCEPT ![o] = FinishedRow(operation[o], state)]
  BY <1>1 DEF FinishRun, FinishOperation, HoldsClaim
<1>4. CASE UNCHANGED operation
  BY <1>2, <1>4, Named, ControlEvolves DEF FinishRun, channelVars
<1>5. CASE /\ o \in Operations /\ operation[o].state = "claimed"
           /\ operation' = [operation EXCEPT ![o] = FinishedRow(operation[o], state)]
  <2>1. operation \in [Operations -> OperationRows] /\ operation[o] \in OperationRows
    BY <1>5, TypeParts DEF IInv
  <2>2. /\ operation'[o].state = state /\ operation'[o].overdue = operation[o].overdue
        /\ \A p \in Operations : p # o => operation'[p] = operation[p]
    BY <1>5, <2>1 DEF FinishedRow, OperationRows
  <2>3. \A k \in Keys : operation'[Retirement(k)].state = "completed" =>
          operation[Retirement(k)].state = "completed" \/ vault[k] = "destroyed"
    <3>1. ASSUME NEW k \in Keys, o = Retirement(k), state = "completed"
          PROVE  vault[k] = "destroyed"
      BY <1>1, <3>1 DEF JobSound
    <3> QED
      BY <2>2, <3>1, Named
  <2>4. \A p \in Operations :
          /\ operation'[p].state = "absent" <=> operation[p].state = "absent"
          /\ operation[p].overdue => operation'[p].overdue
    BY <1>1, <1>5, <2>2
  <2> QED
    BY <1>2, <2>3, <2>4, ControlEvolves DEF FinishRun, channelVars
<1> QED
  BY <1>3, <1>4, <1>5

LEMMA ClaimNextEvolves ==
  ASSUME IInv, NEW w \in Workers, NEW o \in Operations, ClaimNext(w, o)
  PROVE  Evolution
<1>1. operation[o] \in OperationRows /\ operation \in [Operations -> OperationRows]
  BY TypeParts DEF IInv
<1>2. operation' = [operation EXCEPT ![o] =
                       [operation[o] EXCEPT !.state = "claimed", !.owner = w, !.live = TRUE]]
  BY <1>1 DEF ClaimNext, ClaimOperation
<1>3. /\ operation'[o].state = "claimed" /\ operation'[o].overdue = operation[o].overdue
      /\ operation[o].state # "absent"
      /\ \A p \in Operations : p # o => operation'[p] = operation[p]
  BY <1>1, <1>2 DEF OperationRows, ClaimNext, ClaimOperation, Claimable
<1>4. serving'[w].operation = o /\ OthersServe(w)
  BY TypeParts DEF IInv, ClaimNext, ClaimOperation, OthersServe
<1>5. /\ OthersKeep(w) /\ job'[w].step = "load"
      /\ KindOf(o) = "token_key_retirement" => job'[w].key \in {NoKey, SubjectOf(o)}
  BY TypeParts DEF IInv, ClaimNext, OthersKeep, NoJob
<1>6. JobSound(w)'
  <2>1. \A k \in Keys : o = Retirement(k) =>
          KindOf(o) = "token_key_retirement" /\ SubjectOf(o) = k
    BY DEF Retirement, KindOf, SubjectOf
  <2> QED
    BY <1>3, <1>4, <1>5, <2>1 DEF JobSound
<1>7. JobsEvolve
  BY <1>4, <1>5, <1>6 DEF JobsEvolve, OthersKeep, OthersServe
<1> QED
  BY <1>3, <1>7, Named, ControlEvolves DEF ClaimNext, channelVars

-----------------------------------------------------------------------------
(* The steps of the operations *)

LEMMA Kinds ==
  ASSUME TypeOK, NEW w \in Workers, serving[w].operation # NoOperation
  PROVE  /\ serving[w].operation \in Operations
         /\ KindOf(serving[w].operation) = "token_key_retirement" =>
              \E k \in Keys : serving[w].operation = Retirement(k)
         /\ KindOf(serving[w].operation) # "token_key_retirement" =>
              \A k \in Keys : serving[w].operation # Retirement(k)
<1>1. serving[w].operation \in Operations
  BY TypeParts DEF ServingRows
<1> QED
  BY <1>1, LifecycleAssumption
     DEF ChannelOperations, KindOf, Disconnect, Retention, Retirement

(* A row ends a run that is not a retirement's. *)
LEMMA RunFinishes ==
  ASSUME IInv, NEW w \in Workers, UNCHANGED serving, OthersKeep(w),
         job'[w].step = "finish",
         \A k \in Keys : serving[w].operation # Retirement(k),
         \A o \in Operations : operation'[o].state = "absent" =>
             operation[o].state = "absent"
  PROVE  JobsEvolve
<1>1. /\ serving[w].operation # NoOperation =>
           operation[serving[w].operation].state # "absent"
      /\ serving[w].operation \in Operations \cup {NoOperation}
  BY TypeParts DEF IInv, JobsSound, JobSound, ServingRows
<1>2. JobSound(w)'
  BY <1>1 DEF JobSound
<1> QED
  BY <1>2 DEF JobsEvolve, OthersKeep

LEMMA ChannelStill ==
  ASSUME IInv, UNCHANGED operation, channel'.state = channel.state,
         channel'.requested = channel.requested,
         channel'.generation = channel.generation, channel'.key = channel.key
  PROVE  ChannelEvolves
<1>1. channel.generation \in Nat
  BY TypeParts, LifecycleAssumption DEF IInv, ChannelRows
<1> QED
  BY <1>1 DEF ChannelEvolves, IInv, AuthorizationSound

LEMMA KeysStill ==
  ASSUME UNCHANGED <<operation, committed>>, channel'.key = channel.key
  PROVE  KeysMove
BY DEF KeysMove, Retiring

(* The envelope that could not be stored is given up. *)
LEMMA WithdrawEvolves ==
  ASSUME IInv, NEW w \in Workers, job[w].step = "persist", job'[w].step # "persist",
         vault' = [vault EXCEPT ![job[w].sealed] = "withdrawn"]
  PROVE  VaultEvolves /\ Destroyed \subseteq Destroyed'
<1>1. PICK k \in Keys : k = job[w].sealed
  BY DEF IInv, RunsSound
<1>2. vault[k] = "sealed" /\ Persisted(k)
  BY <1>1 DEF IInv, JobsSound, JobSound, Persisted
<1>3. vault'[k] = "withdrawn" /\ \A l \in Keys : l # k => vault'[l] = vault[l]
  BY <1>1, TypeParts DEF IInv
<1> QED
  BY <1>2, <1>3 DEF VaultEvolves, Destroyed

LEMMA CertifiedStays ==
  ASSUME IInv, Destroyed \subseteq Destroyed', UNCHANGED certified
  PROVE  certified' \subseteq Destroyed'
BY DEF IInv, KeysSound

LEMMA StaleRetentionEvolves ==
  ASSUME IInv, NEW w \in Workers, StaleRetention(w)
  PROVE  Evolution
<1>1. OthersKeep(w) /\ job'[w].step = "release"
  BY MovedFields DEF IInv, StaleRetention
<1>2. UNCHANGED <<operation, serving, channel, committed, revoked, certified>>
  BY DEF StaleRetention, controlVars
<1>3. VaultEvolves /\ Destroyed \subseteq Destroyed'
  <2>1. CASE job[w].step = "persist"
    BY <1>1, <2>1, WithdrawEvolves DEF StaleRetention
  <2>2. CASE job[w].step # "persist"
    BY <2>2 DEF StaleRetention, VaultEvolves, Destroyed
  <2> QED
    BY <2>1, <2>2
<1>4. JobsEvolve
  BY <1>1, <1>2, RunGoesOn
<1> QED
  BY <1>2, <1>3, <1>4, RowsQuiet, ChannelStill, KeysStill, RevokedQuiet, CertifiedStays
     DEF Evolution

LEMMA ReadMaterialEvolves ==
  ASSUME IInv, NEW w \in Workers, ReadDisconnectMaterial(w)
  PROVE  Evolution
<1>1. UNCHANGED <<operation, serving, channel, vault, committed, revoked, certified>>
  BY DEF ReadDisconnectMaterial, controlVars, channelVars
<1>2. CASE Fail(w)
  <2>1. JobsEvolve
    BY <1>1, <1>2, MovedFields, RunGoesOn DEF IInv
  <2> QED
    BY <1>1, <2>1, Named, ControlEvolves
<1>3. CASE /\ channel.requested
           /\ job' = [job EXCEPT ![w].step = "revoke", ![w].key = channel.key]
  <2>1. job' = [job EXCEPT ![w] = [job[w] EXCEPT !.step = "revoke", !.key = channel.key]]
    BY <1>3, TypeParts DEF IInv
  <2>2. OthersKeep(w) /\ job'[w].step = "revoke" /\ job'[w].key = channel.key
    BY <2>1, TypeParts DEF IInv, OthersKeep, Jobs
  <2>3. JobSound(w)'
    BY <1>1, <1>3, <2>2 DEF JobSound, IInv, JobsSound, KeysSound, AuthorizationSound
  <2>4. JobsEvolve
    BY <1>1, <2>2, <2>3 DEF JobsEvolve, OthersKeep
  <2> QED
    BY <1>1, <2>4, Named, ControlEvolves
<1> QED
  BY <1>2, <1>3 DEF ReadDisconnectMaterial

(* A token is revoked only after its channel was denied: what the worker read
   before is not the envelope of a connected channel, whatever happened since. *)
LEMMA RevokeEvolves ==
  ASSUME IInv, NEW w \in Workers, RevokeAuthorization(w)
  PROVE  Evolution
<1> DEFINE token == job[w].key
<1>1. UNCHANGED <<operation, serving, channel, vault, committed, certified>>
  BY DEF RevokeAuthorization
<1>2. /\ token \in committed \cup {NoKey} /\ NoKey \notin Keys
      /\ channel.state = "connected" /\ token # NoKey => channel.key # token
  BY DEF IInv, JobsSound, JobSound, RevokeAuthorization, Serves
<1>3. revoked' \in {revoked, revoked \cup {token}}
      /\ (token \in Sealed \/ revoked' = revoked)
  BY DEF RevokeAuthorization
<1>4. RevokedEvolves
  BY <1>1, <1>2, <1>3 DEF RevokedEvolves, IInv, AuthorizationSound, Sealed
<1>5. OthersKeep(w) /\ job'[w].step \in {"erase", "failed"}
  BY MovedFields DEF IInv, RevokeAuthorization
<1>6. CASE job'[w].step = "failed"
  <2>1. JobsEvolve
    BY <1>1, <1>5, <1>6, RunGoesOn
  <2> QED
    BY <1>1, <1>4, <2>1, RowsQuiet, KeysQuiet, ChannelStill DEF Evolution
<1>7. CASE job'[w].step = "erase"
  <2>1. \/ token \notin Sealed \/ token \in revoked'
        \/ operation[serving[w].operation].overdue
    BY <1>7, MovedFields DEF IInv, RevokeAuthorization, Overdue
  <2>2. token \in {NoKey} \cup revoked' \cup Destroyed
        \/ operation[serving[w].operation].overdue
    <3>1. token \in Keys => token \in Sealed \/ token \in Destroyed
      BY <1>2, TypeParts DEF IInv, KeysSound, Sealed, Destroyed
    <3>2. token \in {NoKey} \cup Keys
      BY <1>2, TypeParts DEF IInv
    <3> QED
      BY <2>1, <3>1, <3>2
  <2>3. Destroyed' = Destroyed
    BY <1>1 DEF Destroyed
  <2>4. serving[w].operation = Disconnect(channel.generation)
          /\ channel.state = "disconnecting" => channel.key \in {NoKey, token}
    BY DEF IInv, JobsSound, JobSound, RevokeAuthorization, Serves
  <2>5. JobSound(w)'
    BY <1>1, <1>7, <2>2, <2>3, <2>4 DEF JobSound, IInv, JobsSound
  <2>6. JobsEvolve
    BY <1>1, <1>5, <1>7, <2>5 DEF JobsEvolve, OthersKeep
  <2> QED
    BY <1>1, <1>4, <2>6, RowsQuiet, KeysQuiet, ChannelStill DEF Evolution
<1> QED
  BY <1>5, <1>6, <1>7

LEMMA CompleteDisconnectEvolves ==
  ASSUME IInv, NEW w \in Workers, CompleteDisconnect(w)
  PROVE  Evolution
<1>1. UNCHANGED <<serving, vault, committed, revoked>>
  BY DEF CompleteDisconnect
<1>2. \A k \in Keys : serving[w].operation # Retirement(k)
  BY Kinds DEF IInv, CompleteDisconnect, Serves
<1>3. CASE DisconnectNow(w)
  <2>1. /\ channel'.key = NoKey /\ channel'.generation = channel.generation
        /\ channel'.state \in {"disconnecting", "disconnected"}
        /\ channel.state = "disconnecting"
    BY <1>3, TypeParts DEF IInv, ChannelRows, DisconnectNow, WithoutLease, Erased
  <2>2. operation' = Enqueued(Retired(channel.key))
    BY <1>3 DEF DisconnectNow
  <2>3. /\ RowsEvolve
        /\ \A k \in Keys : operation'[Retirement(k)].state # "absent"
                             <=> Retiring(k) \/ k = channel.key
    BY <2>2, TypeParts, RetiredRows DEF IInv, ChannelRows
  <2>4. OthersKeep(w) /\ job'[w].step = "finish"
    BY <1>3, MovedFields DEF IInv, DisconnectNow
  <2>5. JobsEvolve
    BY <1>1, <1>2, <2>3, <2>4, RunFinishes DEF RowsEvolve
  <2>6. certified' \subseteq Destroyed'
    <3>1. Destroyed' = Destroyed /\ certified \subseteq Destroyed
      BY <1>1 DEF Destroyed, IInv, KeysSound
    <3>2. ASSUME ~ TokenKeyRetirementPending(operation'), NEW k \in committed
          PROVE  k \in Destroyed
      <4>1. k \in Keys /\ operation'[Retirement(k)].state # "absent"
        BY <2>3, <3>2, TypeParts DEF IInv, KeysSound
      <4>2. operation'[Retirement(k)].state = "completed"
        BY <3>2, <4>1 DEF TokenKeyRetirementPending
      <4> QED
        BY <2>3, <4>1, <4>2 DEF RowsEvolve, IInv, KeysSound, Destroyed
    <3> QED
      BY <1>3, <2>2, <3>1, <3>2 DEF DisconnectNow
  <2> QED
    BY <1>1, <2>1, <2>2, <2>5, <2>6, EraseEvolves
<1>4. CASE Fail(w) /\ UNCHANGED <<operation, channel, certified>>
  <2>1. JobsEvolve
    BY <1>1, <1>4, MovedFields, RunGoesOn DEF IInv
  <2> QED
    BY <1>1, <1>4, <2>1, Named, ControlEvolves
<1>5. CASE Return(w, "finish", "completed") /\ UNCHANGED <<operation, channel, certified>>
  <2>1. JobsEvolve
    BY <1>1, <1>2, <1>5, MovedFields, RunFinishes DEF IInv
  <2> QED
    BY <1>1, <1>5, <2>1, Named, ControlEvolves
<1> QED
  BY <1>3, <1>4, <1>5 DEF CompleteDisconnect

LEMMA ReadExpiredEvolves ==
  ASSUME IInv, NEW w \in Workers, ReadExpiredAuthorization(w)
  PROVE  Evolution
<1>1. UNCHANGED <<operation, serving, vault, committed, revoked, certified>>
  BY DEF ReadExpiredAuthorization, controlVars
<1>2. /\ channel'.state = channel.state /\ channel'.requested = channel.requested
      /\ channel'.generation = channel.generation /\ channel'.key = channel.key
  BY TypeParts DEF IInv, ChannelRows, ReadExpiredAuthorization, WithLease
<1>3. OthersKeep(w) /\ job'[w].step \in {"refresh", "failed", "complete"}
  <2>1. \/ Fail(w) \/ Leave(w, "complete")
        \/ job' = [job EXCEPT ![w] = [job[w] EXCEPT !.step = "refresh",
                     !.key = channel.key, !.generation = channel.generation]]
    BY TypeParts DEF IInv, ReadExpiredAuthorization
  <2>2. ASSUME job' = [job EXCEPT ![w] = [job[w] EXCEPT !.step = "refresh",
                     !.key = channel.key, !.generation = channel.generation]]
        PROVE  OthersKeep(w) /\ job'[w].step = "refresh"
    BY <2>2, TypeParts DEF IInv, OthersKeep, Jobs
  <2> QED
    BY <2>1, <2>2, MovedFields DEF IInv
<1>4. JobsEvolve
  BY <1>1, <1>3, RunGoesOn
<1> QED
  BY <1>1, <1>2, <1>4, RowsQuiet, KeysQuiet, ChannelStill, RevokedQuiet DEF Evolution

(* The new envelope is nobody else's. *)
LEMMA RefreshEvolves ==
  ASSUME IInv, NEW w \in Workers, RefreshAtProvider(w)
  PROVE  Evolution
<1>1. UNCHANGED <<operation, serving, channel, committed, revoked, certified>>
  BY DEF RefreshAtProvider
<1>2. CASE UNCHANGED vault /\ (GoTo(w, "delete") \/ Return(w, "release", "failed"))
  <2>1. OthersKeep(w) /\ job'[w].step \in {"delete", "release"}
    BY <1>2, MovedFields DEF IInv
  <2>2. JobsEvolve
    BY <1>1, <2>1, RunGoesOn
  <2> QED
    BY <1>1, <1>2, <2>2, Named, ControlEvolves
<1>3. CASE /\ Unsealed # {}
           /\ vault' = [vault EXCEPT ![NextKey] = "sealed"]
           /\ job' = [job EXCEPT ![w].step = "persist", ![w].sealed = NextKey]
  <2>1. PICK n \in Keys : n = NextKey /\ vault[n] = "unsealed"
    BY <1>3, NextKeyUnsealed
  <2>2. job' = [job EXCEPT ![w] = [job[w] EXCEPT !.step = "persist", !.sealed = n]]
    BY <1>3, <2>1, TypeParts DEF IInv
  <2>3. OthersKeep(w) /\ job'[w].step = "persist" /\ job'[w].sealed = n
    BY <2>2, TypeParts DEF IInv, OthersKeep, Jobs
  <2>4. vault'[n] = "sealed" /\ \A l \in Keys : l # n => vault'[l] = vault[l]
    BY <1>3, <2>1, TypeParts DEF IInv
  <2>5. VaultEvolves /\ Destroyed \subseteq Destroyed'
    BY <2>1, <2>4 DEF VaultEvolves, Destroyed
  <2>6. n \notin committed
    BY <2>1 DEF IInv, KeysSound
  <2>7. \A v \in Workers \ {w} : job'[v].step = "persist" => job'[v].sealed # n
    BY <2>1, <2>3 DEF OthersKeep, IInv, JobsSound, JobSound
  <2>8. JobSound(w)'
    BY <1>1, <2>3, <2>4, <2>6, <2>7 DEF JobSound, IInv, JobsSound
  <2>9. JobsEvolve
    BY <1>1, <2>1, <2>3, <2>8 DEF JobsEvolve, OthersKeep
  <2> QED
    BY <1>1, <2>5, <2>9, RowsQuiet, ChannelStill, KeysStill, RevokedQuiet,
       CertifiedStays DEF Evolution
<1> QED
  BY <1>2, <1>3 DEF RefreshAtProvider

(* The row takes the new envelope and the key of the old one is retired, even
   if the worker then gives the new one up for lost. *)
LEMMA PersistEvolves ==
  ASSUME IInv, NEW w \in Workers, PersistRefresh(w)
  PROVE  Evolution
<1>1. PICK n \in Keys : n = job[w].sealed
  BY DEF IInv, RunsSound, PersistRefresh, Serves
<1>2. /\ UNCHANGED <<serving, revoked, certified>> /\ job[w].step = "persist"
      /\ n \notin committed /\ vault[n] = "sealed"
  BY <1>1 DEF PersistRefresh, Serves, IInv, JobsSound, JobSound
<1>3. OthersKeep(w) /\ job'[w].step \in {"release", "delete"}
  BY MovedFields DEF IInv, PersistRefresh
<1>4. VaultEvolves /\ Destroyed \subseteq Destroyed'
  <2>1. \/ UNCHANGED vault
        \/ vault' = [vault EXCEPT ![job[w].sealed] = "withdrawn"]
    BY DEF PersistRefresh
  <2>2. CASE UNCHANGED vault
    BY <2>2 DEF VaultEvolves, Destroyed
  <2>3. CASE vault' = [vault EXCEPT ![job[w].sealed] = "withdrawn"]
    BY <1>2, <1>3, <2>3, WithdrawEvolves
  <2> QED
    BY <2>1, <2>2, <2>3
<1>5. CASE UNCHANGED <<operation, channel, committed>>
  <2>1. JobsEvolve
    BY <1>2, <1>3, <1>5, RunGoesOn
  <2> QED
    BY <1>2, <1>4, <1>5, <2>1, RowsQuiet, ChannelStill, KeysStill, RevokedQuiet,
       CertifiedStays DEF Evolution
<1>6. CASE /\ HoldsRetentionLease(w)
           /\ channel' = [WithoutLease(channel) EXCEPT !.key = job[w].sealed,
                            !.cycle = job[w].sealed, !.data = "fresh"]
           /\ committed' = committed \cup {job[w].sealed}
           /\ operation' = Enqueued(Retired(job[w].key))
  <2>1. /\ channel \in ChannelRows /\ channel.generation \in Nat
        /\ NoKey \notin Keys /\ channel.state = "connected"
        /\ job[w].key = channel.key
    BY <1>6, TypeParts, LifecycleAssumption DEF IInv, ChannelRows, HoldsRetentionLease
  <2>2. /\ channel'.state = "connected" /\ channel'.requested = channel.requested
        /\ channel'.generation = channel.generation /\ channel'.key = n
    BY <1>1, <1>6, <2>1 DEF ChannelRows, WithoutLease
  <2>3. /\ RowsEvolve
        /\ \A k \in Keys : operation'[Retirement(k)].state # "absent"
                             <=> Retiring(k) \/ k = channel.key
        /\ \A g \in 1..MaxGeneration :
             operation'[Disconnect(g)] = operation[Disconnect(g)]
    BY <1>6, <2>1, RetiredRows DEF IInv, ChannelRows
  <2>4. n # channel.key
    BY <1>1, <1>2, <2>1 DEF IInv, KeysSound
  <2>5. vault'[n] # "unsealed" /\ Persisted(n)
    BY <1>1, <1>2, <1>3, <1>4 DEF VaultEvolves, Persisted
  <2>6. KeysMove
    BY <1>1, <1>2, <1>6, <2>1, <2>2, <2>3, <2>4, <2>5 DEF KeysMove
  <2>7. ChannelEvolves
    BY <2>1, <2>2, <2>3 DEF ChannelEvolves, IInv, AuthorizationSound
  <2>8. JobsEvolve
    BY <1>2, <1>3, <2>3, RunGoesOn DEF RowsEvolve
  <2> QED
    BY <1>2, <1>4, <2>3, <2>6, <2>7, <2>8, RevokedQuiet, CertifiedStays DEF Evolution
<1> QED
  BY <1>5, <1>6 DEF PersistRefresh

LEMMA DeleteEvolves ==
  ASSUME IInv, NEW w \in Workers, DeleteExpired(w)
  PROVE  Evolution
<1>1. /\ UNCHANGED <<serving, vault, committed, revoked, certified>>
      /\ OthersKeep(w) /\ job'[w].step = "release"
  BY MovedFields DEF IInv, DeleteExpired
<1>2. CASE UNCHANGED <<operation, channel>>
  <2>1. JobsEvolve
    BY <1>1, <1>2, RunGoesOn
  <2> QED
    BY <1>1, <1>2, <2>1, Named, ControlEvolves
<1>3. CASE /\ HoldsRetentionLease(w)
           /\ channel' = [WithoutLease(Erased(channel)) EXCEPT
                            !.state = "reauthorization_required"]
           /\ operation' = Enqueued(Retired(job[w].key))
  <2>1. channel \in ChannelRows /\ job[w].key = channel.key
    BY <1>3, TypeParts DEF IInv, HoldsRetentionLease
  <2>2. /\ channel'.state = "reauthorization_required" /\ channel'.key = NoKey
        /\ channel'.generation = channel.generation
    BY <1>3, <2>1 DEF ChannelRows, WithoutLease, Erased
  <2>3. RowsEvolve
    BY <1>3, <2>1, RetiredRows DEF IInv, ChannelRows
  <2>4. JobsEvolve
    BY <1>1, <2>3, RunGoesOn DEF RowsEvolve
  <2>5. certified' \subseteq Destroyed'
    BY <1>1 DEF Destroyed, IInv, KeysSound
  <2> QED
    BY <1>1, <1>3, <2>1, <2>2, <2>4, <2>5, EraseEvolves
<1> QED
  BY <1>2, <1>3 DEF DeleteExpired

LEMMA ReleaseEvolves ==
  ASSUME IInv, NEW w \in Workers, ReleaseRetentionLease(w)
  PROVE  Evolution
<1>1. UNCHANGED <<operation, vault, committed, revoked, certified>>
  BY DEF ReleaseRetentionLease
<1>2. /\ channel'.state = channel.state /\ channel'.requested = channel.requested
      /\ channel'.generation = channel.generation /\ channel'.key = channel.key
  BY TypeParts DEF IInv, ChannelRows, ReleaseRetentionLease, WithoutLease
<1>3. JobsEvolve
  <2>1. CASE StopServing(w) /\ job' = [job EXCEPT ![w] = NoJob]
    BY <2>1, MovedFields, RunStops DEF IInv
  <2>2. CASE (Leave(w, "failed") \/ Leave(w, "complete")) /\ UNCHANGED serving
    <3>1. OthersKeep(w) /\ job'[w].step \in {"failed", "complete"}
      BY <2>2, MovedFields DEF IInv
    <3> QED
      BY <1>1, <2>2, <3>1, RunGoesOn
  <2> QED
    BY <2>1, <2>2 DEF ReleaseRetentionLease
<1> QED
  BY <1>1, <1>2, <1>3, RowsQuiet, KeysQuiet, ChannelStill, RevokedQuiet DEF Evolution

LEMMA CompleteRetentionEvolves ==
  ASSUME IInv, NEW w \in Workers, CompleteRetention(w)
  PROVE  Evolution
<1>1. UNCHANGED <<operation, serving, channel, vault, committed, revoked>>
  BY DEF CompleteRetention, controlVars
<1>2. \A k \in Keys : serving[w].operation # Retirement(k)
  BY Kinds DEF IInv, CompleteRetention, Serves
<1>3. OthersKeep(w) /\ job'[w].step = "finish"
  BY MovedFields DEF IInv, CompleteRetention
<1>4. JobsEvolve
  BY <1>1, <1>2, <1>3, RunFinishes
<1>5. certified' \subseteq Destroyed'
  <2>1. Destroyed' = Destroyed /\ certified \subseteq Destroyed
    BY <1>1 DEF Destroyed, IInv, KeysSound
  <2>2. ASSUME ~ TokenKeyRetirementPending(operation), NEW k \in committed,
               k # channel.key
        PROVE  k \in Destroyed
    <3>1. k \in Keys /\ Retiring(k)
      BY <2>2, TypeParts DEF IInv, KeysSound
    <3> QED
      BY <2>2, <3>1 DEF TokenKeyRetirementPending, Retiring, IInv, KeysSound, Destroyed
  <2> QED
    BY <2>1, <2>2 DEF CompleteRetention
<1> QED
  BY <1>1, <1>4, <1>5, RowsQuiet, ChannelStill, KeysStill, RevokedQuiet
     DEF Evolution, VaultEvolves

LEMMA DestroyEvolves ==
  ASSUME IInv, NEW w \in Workers, DestroyTokenKey(w)
  PROVE  Evolution
<1>1. UNCHANGED <<operation, serving, channel, committed, revoked, certified>>
  BY DEF DestroyTokenKey
<1>2. PICK k \in Keys : serving[w].operation = Retirement(k)
  BY Kinds DEF IInv, DestroyTokenKey, Serves
<1>3. /\ job[w].key \in {NoKey, k} /\ NoKey # k /\ Retiring(k)
      /\ serving[w].operation # NoOperation
  BY <1>2 DEF IInv, JobsSound, JobSound, DestroyTokenKey, Serves, Retiring
<1>4. UNCHANGED vault \/ vault' = [vault EXCEPT ![k] = "destroyed"]
  BY <1>3 DEF DestroyTokenKey
<1>5. VaultEvolves /\ Destroyed \subseteq Destroyed'
  <2>1. vault \in [Keys -> VaultStates]
    BY TypeParts DEF IInv
  <2> QED
    BY <1>3, <1>4, <2>1 DEF VaultEvolves, Destroyed
<1>6. JobsEvolve
  <2>1. CASE Fail(w)
    BY <1>1, <2>1, MovedFields, RunGoesOn DEF IInv
  <2>2. CASE /\ vault' = [vault EXCEPT ![k] = "destroyed"]
             /\ Return(w, "finish", "completed")
    <3>1. OthersKeep(w) /\ job'[w].step = "finish" /\ vault'[k] = "destroyed"
      BY <2>2, MovedFields, TypeParts DEF IInv
    <3>2. \A l \in Keys : serving[w].operation = Retirement(l) => l = k
      BY <1>2 DEF Retirement
    <3>3. JobSound(w)'
      BY <1>1, <3>1, <3>2 DEF JobSound, IInv, JobsSound
    <3> QED
      BY <1>1, <3>1, <3>3 DEF JobsEvolve, OthersKeep
  <2> QED
    BY <1>3, <2>1, <2>2 DEF DestroyTokenKey
<1> QED
  BY <1>1, <1>5, <1>6, RowsQuiet, ChannelStill, KeysStill, RevokedQuiet, CertifiedStays
     DEF Evolution

-----------------------------------------------------------------------------
(* The invariant *)

LEMMA NextEvolves ==
  ASSUME IInv, Next
  PROVE  Evolution
<1>1. CASE Users \/ Publisher \/ EnqueueDue
  BY <1>1, ChannelMovesEvolve, PrepareEvolves, CompleteConnectionEvolves, RotateEvolves,
     ReauthorizationEvolves, EnqueueDueEvolves DEF Users, Publisher
<1>2. CASE Time
  BY <1>2, ChannelMovesEvolve, ClockEvolves DEF Time
<1>3. ASSUME NEW w \in Workers, Work(w) PROVE Evolution
  <2>1. CASE ReadDisconnectMaterial(w) \/ RevokeAuthorization(w) \/ CompleteDisconnect(w)
    BY <2>1, ReadMaterialEvolves, RevokeEvolves, CompleteDisconnectEvolves
  <2>2. CASE ReadExpiredAuthorization(w) \/ RefreshAtProvider(w) \/ PersistRefresh(w)
    BY <2>2, ReadExpiredEvolves, RefreshEvolves, PersistEvolves
  <2>3. CASE DeleteExpired(w) \/ ReleaseRetentionLease(w) \/ CompleteRetention(w)
    BY <2>3, DeleteEvolves, ReleaseEvolves, CompleteRetentionEvolves
  <2>4. CASE DestroyTokenKey(w) \/ FinishRun(w) \/ StaleRun(w) \/ StaleRetention(w)
    BY <2>4, DestroyEvolves, FinishRunEvolves, StaleRunEvolves, StaleRetentionEvolves
  <2> QED
    BY <1>3, <2>1, <2>2, <2>3, <2>4 DEF Work
<1>4. ASSUME NEW w \in Workers, Failure(w) PROVE Evolution
  BY <1>4, FailureEvolves
<1>5. ASSUME NEW w \in Workers, NEW o \in Operations, ClaimNext(w, o) PROVE Evolution
  BY <1>5, ClaimNextEvolves
<1> QED
  BY <1>1, <1>2, <1>3, <1>4, <1>5 DEF Next

LEMMA InitSound ==
  ASSUME Init
  PROVE  IInv
<1>1. /\ operation = [o \in Operations |-> Absent]
      /\ serving = [w \in Workers |-> NotServing] /\ budget = MaxFaults
      /\ channel = NewChannel /\ vault = [k \in Keys |-> "unsealed"]
      /\ job = [w \in Workers |-> NoJob] /\ publications = 0 /\ beginning = FALSE
      /\ committed = {} /\ revoked = {} /\ journal = {} /\ certified = {}
  BY DEF Init, ControlInit
<1>2. /\ Absent \in OperationRows /\ Absent.state = "absent"
      /\ NotServing \in ServingRows /\ NotServing.operation = NoOperation
  BY DEF Absent, OperationRows, NotServing, ServingRows
<1>3. /\ NewChannel \in ChannelRows /\ NewChannel.key = NoKey
      /\ NewChannel.state = "not_connected" /\ ~ NewChannel.requested
      /\ NoJob \in Jobs /\ NoJob.step = "idle"
  <2>1. 0 \in 0..MaxGeneration
    BY LifecycleAssumption
  <2> QED
    BY <2>1 DEF NewChannel, ChannelRows, NoJob, Jobs
<1>4. budget \in 0..MaxFaults /\ publications \in 0..MaxPublications
  BY <1>1, ControlAssumption, LifecycleAssumption
<1>5. TypeOK
  BY <1>1, <1>2, <1>3, <1>4, TypeParts
<1>6. RunsSound /\ KeysSound /\ AuthorizationSound
  <2>1. NoKey \notin Keys
    OBVIOUS
  <2> QED
    BY <1>1, <1>2, <1>3, <2>1, Named
       DEF RunsSound, KeysSound, AuthorizationSound, Retiring, Destroyed
<1>7. JobsSound
  BY <1>1, <1>2, <1>3 DEF JobsSound, JobSound
<1> QED
  BY <1>5, <1>6, <1>7 DEF IInv

LEMMA UnchangedKeeps ==
  ASSUME IInv, UNCHANGED vars
  PROVE  IInv'
BY DEF vars, controlVars, channelVars, IInv, TypeOK, ControlTypeOK, RunsSound,
   KeysSound, AuthorizationSound, JobsSound, JobSound, Retiring, Destroyed

(* What the theorems below rest on: no step of a user, worker, publisher or
   fault takes a token key, a claim or a denial out of the strengthening. *)
THEOREM Invariance == Spec => []IInv
<1>1. Init => IInv
  BY InitSound
<1>2. IInv /\ [Next]_vars => IInv'
  <2> SUFFICES ASSUME IInv, [Next]_vars PROVE IInv'
    OBVIOUS
  <2>1. CASE Next
    BY <2>1, NextEvolves, EvolutionKeeps
  <2>2. CASE UNCHANGED vars
    BY <2>2, UnchangedKeeps
  <2> QED
    BY <2>1, <2>2
<1> QED
  BY <1>1, <1>2, PTL DEF Spec

-----------------------------------------------------------------------------
(* Theorems *)

(* The rows of the control plane, the channel, the key store and what the
   workers hold keep their types. *)
THEOREM TypeCorrect == Spec => []TypeOK
<1>1. IInv => TypeOK
  BY DEF IInv
<1> QED
  BY <1>1, Invariance, PTL

(* No rotation, refresh, erasure or disconnection strands a token key: each
   enqueues the retirement in the transaction that takes the key out of the
   row, and the retirement is not completed before its key is destroyed. *)
THEOREM NoKeyStranded == Spec => []NoStrandedKey
<1>1. IInv => NoStrandedKey
  <2> SUFFICES ASSUME IInv, NEW k \in committed, channel.key # k, k \notin Destroyed
               PROVE  Open(Retirement(k))
    BY DEF NoStrandedKey
  <2>1. k \in Keys /\ Retirement(k) \in Operations
    BY Named, TypeParts DEF IInv
  <2>2. operation[Retirement(k)].state \notin {"absent", "completed"}
    BY <2>1 DEF IInv, KeysSound, Retiring, Destroyed
  <2>3. operation[Retirement(k)] \in OperationRows
    BY <2>1, TypeParts DEF IInv
  <2> QED
    BY <2>2, <2>3 DEF Open, OperationRows
<1> QED
  BY <1>1, Invariance, PTL

(* No retirement, however late or repeated, destroys the key the channel uses. *)
THEOREM UsedKeyKept == Spec => []RetiredKeyUnused
<1>1. IInv => RetiredKeyUnused
  BY TypeParts DEF IInv, RetiredKeyUnused, KeysSound, ChannelRows
<1> QED
  BY <1>1, Invariance, PTL

(* What data.retention_deleted and the end of a disconnection certify is true:
   the keys are destroyed, or were withdrawn before they were used. *)
THEOREM CertificateTrue == Spec => []CertifiedIsDestroyed
<1>1. IInv => CertifiedIsDestroyed
  BY DEF IInv, KeysSound, CertifiedIsDestroyed
<1> QED
  BY <1>1, Invariance, PTL

(* A stale worker revokes at the provider with no claim left, and still never
   the authorisation of a connected channel: what it read was denied first. *)
THEOREM ConnectedStaysAuthorized == Spec => []ConnectedIsAuthorized
<1>1. IInv => ConnectedIsAuthorized
  BY DEF IInv, AuthorizationSound, ConnectedIsAuthorized
<1> QED
  BY <1>1, Invariance, PTL

(* The steps that write the row of a disconnecting channel. *)
OvertakenNow ==
  beginning /\ ~ beginning' /\ channel' = [channel EXCEPT !.state = "connecting"]

LEMMA DeniedSteps ==
  ASSUME TypeOK, [Next]_vars, channel.state = "disconnecting"
  PROVE  \/ UNCHANGED <<channel>>
         \/ OvertakenNow
         \/ \E w \in Workers :
              Serves(w, "channel_disconnect", "erase") /\ HoldsClaim(w) /\ DisconnectNow(w)
         \/ /\ channel'.state = "disconnecting" /\ channel'.key = channel.key
            /\ channel'.lease \in {channel.lease, NoOperation}
<1>1. channel \in ChannelRows
  BY TypeParts
<1>2. CASE Users \/ Publisher
  BY <1>1, <1>2 DEF OvertakenNow, Users, ReadChannel, BeginConnection, CompleteConnection,
     DenyConnection, PrepareDisconnect, Publisher, TakePublishingLease, RotateToken,
     RequireReauthorization, HoldsPublishingFence, ReleasePublishingLease,
     WithoutLease, ChannelRows
<1>3. CASE Time
  BY <1>1, <1>3 DEF Time, DataAges, ExpireLease, WithoutLease, ChannelRows, channelVars
<1>4. ASSUME NEW w \in Workers, Work(w)
      PROVE  \/ UNCHANGED channel
             \/ /\ Serves(w, "channel_disconnect", "erase") /\ HoldsClaim(w)
                /\ DisconnectNow(w)
             \/ /\ channel'.state = "disconnecting" /\ channel'.key = channel.key
                /\ channel'.lease \in {channel.lease, NoOperation}
  <2>1. CASE ReadDisconnectMaterial(w) \/ RevokeAuthorization(w) \/ CompleteDisconnect(w)
    BY <2>1 DEF ReadDisconnectMaterial, channelVars, RevokeAuthorization, CompleteDisconnect
  <2>2. CASE ReadExpiredAuthorization(w) \/ RefreshAtProvider(w)
    BY <2>2 DEF ReadExpiredAuthorization, CycleIsCurrent, RefreshAtProvider
  <2>3. CASE PersistRefresh(w) \/ DeleteExpired(w)
    BY <2>3 DEF PersistRefresh, DeleteExpired, HoldsRetentionLease
  <2>4. CASE ReleaseRetentionLease(w)
    BY <1>1, <2>4 DEF ReleaseRetentionLease, WithoutLease, ChannelRows
  <2>5. CASE CompleteRetention(w) \/ DestroyTokenKey(w) \/ FinishRun(w) \/ StaleRun(w)
             \/ StaleRetention(w)
    BY <2>5 DEF CompleteRetention, DestroyTokenKey, FinishRun, StaleRun, StaleRetention,
       channelVars
  <2> QED
    BY <1>4, <2>1, <2>2, <2>3, <2>4, <2>5 DEF Work
<1>5. ASSUME NEW w \in Workers, Failure(w) PROVE UNCHANGED channel
  BY <1>5 DEF Failure, Crash, JournalFails, channelVars
<1>6. ASSUME NEW w \in Workers, NEW o \in Operations, ClaimNext(w, o)
      PROVE  UNCHANGED channel
  BY <1>6 DEF ClaimNext, channelVars
<1>7. CASE EnqueueDue \/ UNCHANGED vars
  BY <1>7 DEF EnqueueDue, vars, channelVars
<1> QED
  BY <1>2, <1>3, <1>4, <1>5, <1>6, <1>7 DEF Next

(* Once denied, a channel gets no other token and no lease, from no user,
   publishing worker or run of an operation, late or not, and no state but that
   of its end; except that a connection attempt which had read it before it was
   denied makes it connecting again, with its token and its lease as they were. *)
THEOREM Denied == Spec => DenialHolds
<1>1. ASSUME TypeOK, [Next]_vars, channel.state = "disconnecting"
      PROVE  \/ /\ channel'.state \in {"disconnecting", "disconnected"}
                /\ channel'.key \in {channel.key, NoKey}
                /\ channel'.lease \in {channel.lease, NoOperation}
             \/ OvertakenNow
  <2>1. ASSUME NEW w \in Workers, DisconnectNow(w)
        PROVE  /\ channel'.state \in {"disconnecting", "disconnected"}
               /\ channel'.key = NoKey /\ channel'.lease = NoOperation
    BY <1>1, <2>1, TypeParts DEF ChannelRows, DisconnectNow, WithoutLease, Erased
  <2> QED
    BY <1>1, <2>1, DeniedSteps
<1>2. TypeOK /\ [Next]_vars =>
        [channel.state = "disconnecting"
         => \/ /\ channel'.state \in {"disconnecting", "disconnected"}
               /\ channel'.key \in {channel.key, NoKey}
               /\ channel'.lease \in {channel.lease, NoOperation}
            \/ /\ beginning /\ ~ beginning'
               /\ channel' = [channel EXCEPT !.state = "connecting"]]_vars
  BY <1>1 DEF OvertakenNow
<1> QED
  BY <1>2, TypeCorrect, PTL DEF Spec, DenialHolds

(* The token of a disconnecting channel is erased by the run of a
   disconnection that has seen it revoked, dead or overdue, or by that of an
   earlier disconnection whose end was not recorded. *)
THEOREM RevokedFirst == Spec => ErasedAfterRevocation
<1>1. ASSUME IInv, [Next]_vars, channel.state = "disconnecting",
             channel.key # NoKey, channel'.key = NoKey
      PROVE  \/ channel.key \in revoked \cup Destroyed
             \/ operation[Disconnect(channel.generation)].overdue
             \/ \E g \in 1..(channel.generation - 1) : Open(Disconnect(g))
  <2>1. PICK w \in Workers :
          Serves(w, "channel_disconnect", "erase") /\ HoldsClaim(w) /\ DisconnectNow(w)
    <3>1. ~ OvertakenNow
      BY <1>1, TypeParts DEF OvertakenNow, IInv, ChannelRows
    <3> QED
      BY <1>1, <3>1, DeniedSteps DEF IInv
  <2>2. PICK g \in 1..MaxGeneration : serving[w].operation = Disconnect(g)
    BY <1>1, <2>1, Kinds, LifecycleAssumption
       DEF IInv, Serves, ChannelOperations, KindOf, Disconnect, Retention, Retirement
  <2>3. operation[Disconnect(g)].state = "claimed"
    BY <2>1, <2>2 DEF HoldsClaim
  <2>4. g <= channel.generation /\ channel.generation \in Nat /\ g \in Nat
    BY <1>1, <2>3, TypeParts, LifecycleAssumption DEF IInv, AuthorizationSound, ChannelRows
  <2>5. CASE g = channel.generation
    <3>1. JobSound(w)
      BY <1>1 DEF IInv, JobsSound
    <3> QED
      BY <1>1, <2>1, <2>2, <2>5, <3>1 DEF JobSound, Serves
  <2>6. CASE g # channel.generation
    <3>1. g \in 1..(channel.generation - 1)
      BY <2>4, <2>6
    <3> QED
      BY <2>3, <3>1 DEF Open
  <2> QED
    BY <2>5, <2>6
<1>2. IInv /\ [Next]_vars =>
        [channel.state = "disconnecting" /\ channel.key # NoKey /\ channel'.key = NoKey
         => \/ channel.key \in revoked \cup Destroyed
            \/ operation[Disconnect(channel.generation)].overdue
            \/ \E g \in 1..(channel.generation - 1) : Open(Disconnect(g))]_vars
  BY <1>1
<1> QED
  BY <1>2, Invariance, PTL DEF Spec, ErasedAfterRevocation

(* A completed row is neither claimed, enqueued nor finished again: a worker
   that comes back late finds its claim gone. *)
THEOREM CompletedStays == Spec => CompletedIsFinal
<1>1. ASSUME TypeOK, RunsSound, [Next]_vars, NEW o \in Operations,
             operation[o].state = "completed"
      PROVE  operation'[o].state = "completed"
  <2>1. operation \in [Operations -> OperationRows]
    BY <1>1, TypeParts
  <2>2. ASSUME NEW rows, operation' = Enqueued(rows) PROVE operation'[o] = operation[o]
    BY <1>1, <2>2, EnqueuedRows
  <2>3. CASE Users \/ Publisher \/ EnqueueDue
    BY <1>1, <2>2, <2>3 DEF Users, ReadChannel, BeginConnection, CompleteConnection,
       DenyConnection, PrepareDisconnect, Publisher, TakePublishingLease, RotateToken,
       RequireReauthorization, ReleasePublishingLease, EnqueueDue, controlVars
  <2>4. CASE Time
    BY <1>1, <2>1, <2>4 DEF Time, DataAges, ExpireLease, ExpireClaim, PassDeadline,
       OperationRows, controlVars
  <2>5. ASSUME NEW w \in Workers, FinishRun(w) PROVE operation'[o] = operation[o]
    BY <1>1, <2>1, <2>5 DEF FinishRun, FinishOperation, HoldsClaim
  <2>6. ASSUME NEW w \in Workers, Work(w) PROVE operation'[o] = operation[o]
    <3>1. CASE ReadDisconnectMaterial(w) \/ RevokeAuthorization(w) \/ CompleteDisconnect(w)
      BY <2>2, <3>1 DEF ReadDisconnectMaterial, RevokeAuthorization, CompleteDisconnect,
         DisconnectNow, controlVars
    <3>2. CASE ReadExpiredAuthorization(w) \/ RefreshAtProvider(w) \/ PersistRefresh(w)
               \/ DeleteExpired(w)
      BY <2>2, <3>2 DEF ReadExpiredAuthorization, RefreshAtProvider, PersistRefresh,
         DeleteExpired, controlVars
    <3>3. CASE ReleaseRetentionLease(w) \/ CompleteRetention(w) \/ DestroyTokenKey(w)
               \/ StaleRun(w) \/ StaleRetention(w)
      BY <3>3 DEF ReleaseRetentionLease, CompleteRetention, DestroyTokenKey, StaleRun,
         StandDown, StaleRetention, controlVars
    <3> QED
      BY <2>5, <2>6, <3>1, <3>2, <3>3 DEF Work
  <2>7. ASSUME NEW w \in Workers, Failure(w) PROVE operation'[o] = operation[o]
    BY <2>7 DEF Failure, Crash, CrashServing, JournalFails, HeartbeatFails
  <2>8. ASSUME NEW w \in Workers, NEW p \in Operations, ClaimNext(w, p)
        PROVE  operation'[o].state = "completed"
    <3>1. p # o
      BY <1>1, <2>8 DEF ClaimNext, ClaimOperation, Claimable
    <3>2. operation'[o] = operation[o]
      BY <2>1, <2>8, <3>1 DEF ClaimNext, ClaimOperation
    <3> QED
      BY <1>1, <3>2
  <2>9. CASE UNCHANGED vars
    BY <1>1, <2>9 DEF vars, controlVars
  <2> QED
    BY <1>1, <2>3, <2>4, <2>6, <2>7, <2>8, <2>9 DEF Next
<1>2. IInv /\ [Next]_vars =>
        [\A o \in Operations :
           operation[o].state = "completed" => operation'[o].state = "completed"]_vars
  BY <1>1 DEF IInv
<1> QED
  BY <1>2, Invariance, PTL DEF Spec, CompletedIsFinal

-----------------------------------------------------------------------------
(* Retentions that end                                                       *)
(*                                                                         *)
(* A retention that is not disturbed by a lost claim or a lost lease ends as *)
(* completed only when its cycle is over. Not every fault is harmless here:  *)
(* with "stall" or "lease" a run finds the lease gone, takes it that it was  *)
(* superseded, and closes the cycle.                                         *)

Current(k) == channel.state = "connected" /\ channel.cycle = k

(* Nobody takes the claim of a run that goes on. *)
ClaimsKept ==
  \A w \in Workers : serving[w].operation # NoOperation => HoldsClaim(w)

(* A cycle begins with a committed envelope; a connected channel has one. *)
CyclesSound ==
  /\ channel.cycle \in committed \cup {NoKey}
  /\ channel.state = "connected" => channel.key # NoKey
  /\ \A k \in Keys : operation[Retention(k)].state # "absent" => k \in committed

(* While its cycle is current, a run that writes has the channel's lease, and
   no run is about to end as completed. *)
Writing == {"refresh", "persist", "delete"}
RunCurrent(w) ==
  \A k \in Keys : serving[w].operation = Retention(k) /\ Current(k) =>
    /\ job[w].step \in Writing => HoldsRetentionLease(w)
    /\ job[w].step \notin {"complete", "finish"}
    /\ job[w].step = "release" => job[w].result \in {"failed", "lost"}

CycleInv ==
  /\ IInv /\ ClaimsKept /\ CyclesSound
  /\ (\A w \in Workers : RunCurrent(w)) /\ RetentionNotSkipped

Undisturbed == Faults \cap {"stall", "lease"} = {}

LEMMA Retentions ==
  \A k, l \in Nat :
    /\ Retention(k) = Retention(l) => k = l
    /\ Retention(k) # Publishing /\ Retention(k) # NoOperation
BY NoOperationAssumption DEF Retention, Publishing

(* What a step makes of the cycle: it stays, or the channel is no longer
   connected, or an envelope that was never in the row begins another one. *)
CycleMoves ==
  \/ /\ channel.state = "connected" /\ channel'.state = "connected"
     /\ channel'.cycle = channel.cycle
     /\ channel.key # NoKey => channel'.key # NoKey
  \/ channel'.state # "connected" /\ channel'.cycle \in {channel.cycle, NoKey}
  \/ /\ channel'.cycle \in committed' \ committed /\ channel'.key # NoKey

LEMMA WorkMovesCycle ==
  ASSUME IInv, NEW w \in Workers, Work(w)
  PROVE  CycleMoves
<1>1. channel \in ChannelRows /\ NoKey \notin Keys
  BY TypeParts DEF IInv
<1>2. ASSUME UNCHANGED channel PROVE CycleMoves
  BY <1>1, <1>2 DEF CycleMoves
<1>3. CASE ReadDisconnectMaterial(w) \/ RevokeAuthorization(w) \/ RefreshAtProvider(w)
           \/ CompleteRetention(w) \/ DestroyTokenKey(w) \/ FinishRun(w) \/ StaleRun(w)
           \/ StaleRetention(w)
  BY <1>2, <1>3 DEF ReadDisconnectMaterial, RevokeAuthorization, RefreshAtProvider,
     CompleteRetention, DestroyTokenKey, FinishRun, StaleRun, StaleRetention, channelVars
<1>4. CASE CompleteDisconnect(w)
  <2>1. CASE DisconnectNow(w)
    BY <1>1, <2>1 DEF DisconnectNow, WithoutLease, Erased, ChannelRows, CycleMoves
  <2> QED
    BY <1>2, <1>4, <2>1 DEF CompleteDisconnect
<1>5. CASE ReadExpiredAuthorization(w)
  <2>1. UNCHANGED channel
        \/ channel' = [channel EXCEPT !.lease = serving[w].operation,
                                      !.leaseGeneration = channel.generation]
    BY <1>5 DEF ReadExpiredAuthorization, WithLease
  <2> QED
    BY <1>1, <1>2, <2>1 DEF ChannelRows, CycleMoves
<1>6. CASE PersistRefresh(w)
  <2>1. job[w].sealed \in Keys /\ job[w].sealed \notin committed
    BY <1>6 DEF PersistRefresh, Serves, IInv, RunsSound, JobsSound, JobSound
  <2>2. ASSUME channel' = [WithoutLease(channel) EXCEPT !.key = job[w].sealed,
                             !.cycle = job[w].sealed, !.data = "fresh"],
               committed' = committed \cup {job[w].sealed}
        PROVE  CycleMoves
    BY <1>1, <2>1, <2>2 DEF WithoutLease, ChannelRows, CycleMoves
  <2> QED
    BY <1>2, <1>6, <2>2 DEF PersistRefresh
<1>7. CASE DeleteExpired(w)
  <2>1. ASSUME channel' = [WithoutLease(Erased(channel)) EXCEPT
                             !.state = "reauthorization_required"]
        PROVE  CycleMoves
    BY <1>1, <2>1 DEF WithoutLease, Erased, ChannelRows, CycleMoves
  <2> QED
    BY <1>2, <1>7, <2>1 DEF DeleteExpired
<1>8. CASE ReleaseRetentionLease(w)
  <2>1. UNCHANGED channel \/ channel' = WithoutLease(channel)
    BY <1>8 DEF ReleaseRetentionLease
  <2> QED
    BY <1>1, <1>2, <2>1 DEF WithoutLease, ChannelRows, CycleMoves
<1> QED
  BY <1>3, <1>4, <1>5, <1>6, <1>7, <1>8 DEF Work

LEMMA StepsMoveCycle ==
  ASSUME IInv, [Next]_vars
  PROVE  CycleMoves
<1>1. channel \in ChannelRows /\ NoKey \notin Keys
  BY TypeParts DEF IInv
<1>2. ASSUME UNCHANGED channel PROVE CycleMoves
  BY <1>1, <1>2 DEF CycleMoves
<1>3. ASSUME Unsealed # {} PROVE NextKey \in Keys /\ NextKey \notin committed
  BY <1>3, NextKeyUnsealed DEF IInv, KeysSound
<1>4. CASE \/ ReadChannel \/ BeginConnection \/ DenyConnection \/ PrepareDisconnect
          \/ RequireReauthorization
  BY <1>1, <1>4 DEF ReadChannel, BeginConnection, DenyConnection, PrepareDisconnect,
     RequireReauthorization, Erased, ChannelRows, CycleMoves
<1>5. CASE CompleteConnection
  BY <1>1, <1>3, <1>5 DEF CompleteConnection, ChannelRows, CycleMoves
<1>6. CASE TakePublishingLease \/ ReleasePublishingLease
  BY <1>1, <1>6 DEF TakePublishingLease, ReleasePublishingLease, WithLease, WithoutLease,
     ChannelRows, CycleMoves
<1>7. CASE RotateToken
  BY <1>1, <1>3, <1>7 DEF RotateToken, ChannelRows, CycleMoves
<1>8. CASE DataAges \/ ExpireLease
  BY <1>1, <1>8 DEF DataAges, ExpireLease, WithoutLease, ChannelRows, CycleMoves
<1>9. CASE Time
  BY <1>2, <1>8, <1>9 DEF Time, channelVars
<1>10. ASSUME NEW w \in Workers,
              Failure(w) \/ \E o \in Operations : ClaimNext(w, o)
       PROVE  CycleMoves
  <2>1. Failure(w) => UNCHANGED channel
    BY DEF Failure, Crash, JournalFails, channelVars
  <2>2. ASSUME NEW o \in Operations, ClaimNext(w, o) PROVE UNCHANGED channel
    BY <2>2 DEF ClaimNext, channelVars
  <2> QED
    BY <1>2, <1>10, <2>1, <2>2
<1>11. CASE EnqueueDue \/ UNCHANGED vars
  BY <1>2, <1>11 DEF EnqueueDue, vars, channelVars
<1> QED
  BY <1>4, <1>5, <1>6, <1>7, <1>9, <1>10, <1>11, WorkMovesCycle
     DEF Next, Users, Publisher

(* What a step makes of a row. *)
RowMoves(o) ==
  \/ operation'[o] = operation[o]
  \/ /\ operation[o].state = "absent" /\ operation'[o].state = "waiting"
     /\ \A k \in Keys : o = Retention(k) => k = channel.cycle
  \/ \E w \in Workers : FinishRun(w) /\ serving[w].operation = o
  \/ \E w \in Workers : ClaimNext(w, o)
  \/ ExpireClaim(o) \/ PassDeadline(o)

LEMMA EnqueuedMove ==
  ASSUME TypeOK, NEW rows, operation' = Enqueued(rows), NEW o \in Operations,
         \A k \in Keys : Retention(k) \in rows => k = channel.cycle
  PROVE  RowMoves(o)
<1>1. NewRow(o).state = "waiting"
  BY DEF NewRow, Absent
<1> QED
  BY <1>1, EnqueuedRows DEF RowMoves

LEMMA StepsMoveRows ==
  ASSUME IInv, [Next]_vars, NEW o \in Operations
  PROVE  RowMoves(o)
<1>1. operation \in [Operations -> OperationRows] /\ channel \in ChannelRows
  BY TypeParts DEF IInv
<1>2. ASSUME UNCHANGED operation PROVE RowMoves(o)
  BY <1>2 DEF RowMoves
<1>3. ASSUME NEW key \in {NoKey} \cup Keys, operation' = Enqueued(Retired(key))
      PROVE  RowMoves(o)
  <2>1. \A k \in Keys : Retention(k) \notin Retired(key)
    BY DEF Retired, Retention, Retirement
  <2> QED
    BY <1>3, <2>1, EnqueuedMove DEF IInv
<1>4. CASE PrepareDisconnect
  <2>1. \A k \in Keys : Retention(k) \notin {Disconnect(channel.generation + 1)}
    BY DEF Retention, Disconnect
  <2> QED
    BY <1>4, <2>1, EnqueuedMove DEF IInv, PrepareDisconnect
<1>5. CASE EnqueueDue
  <2>1. \A k \in Keys : Retention(k) \in {Retention(channel.cycle)} => k = channel.cycle
    BY DEF Retention
  <2> QED
    BY <1>5, <2>1, EnqueuedMove DEF IInv, EnqueueDue
<1>6. channel.key \in {NoKey} \cup Keys
  BY <1>1 DEF ChannelRows
<1>7. CASE RotateToken \/ RequireReauthorization
  BY <1>3, <1>6, <1>7 DEF RotateToken, RequireReauthorization
<1>8. CASE Users \/ Publisher
  BY <1>2, <1>4, <1>7, <1>8 DEF Users, ReadChannel, BeginConnection, CompleteConnection,
     DenyConnection, Publisher, TakePublishingLease, ReleasePublishingLease, controlVars
<1>9. CASE Time
  <2>1. ASSUME NEW p \in Operations, ExpireClaim(p) \/ PassDeadline(p), p # o
        PROVE  operation'[o] = operation[o]
    BY <1>1, <2>1 DEF ExpireClaim, PassDeadline
  <2>2. CASE DataAges \/ ExpireLease
    BY <1>2, <2>2 DEF DataAges, ExpireLease, controlVars
  <2> QED
    BY <1>9, <2>1, <2>2 DEF Time, RowMoves
<1>10. ASSUME NEW w \in Workers, Work(w) PROVE RowMoves(o)
  <2>1. job[w].key \in {NoKey} \cup Keys
    BY TypeParts DEF IInv, Jobs
  <2>2. CASE ReadDisconnectMaterial(w) \/ RevokeAuthorization(w)
             \/ ReadExpiredAuthorization(w) \/ RefreshAtProvider(w)
             \/ ReleaseRetentionLease(w) \/ CompleteRetention(w) \/ DestroyTokenKey(w)
             \/ StaleRun(w) \/ StaleRetention(w)
    BY <1>2, <2>2 DEF ReadDisconnectMaterial, RevokeAuthorization, RefreshAtProvider,
       ReadExpiredAuthorization, ReleaseRetentionLease, CompleteRetention, DestroyTokenKey,
       StaleRun, StandDown, StaleRetention, controlVars
  <2>3. CASE CompleteDisconnect(w)
    BY <1>2, <1>3, <1>6, <2>3 DEF CompleteDisconnect, DisconnectNow
  <2>4. CASE PersistRefresh(w) \/ DeleteExpired(w)
    BY <1>2, <1>3, <2>1, <2>4 DEF PersistRefresh, DeleteExpired
  <2>5. CASE FinishRun(w)
    <3>1. serving[w].operation # o => operation'[o] = operation[o]
      BY <1>1, <2>5 DEF FinishRun, FinishOperation
    <3> QED
      BY <2>5, <3>1 DEF RowMoves
  <2> QED
    BY <1>10, <2>2, <2>3, <2>4, <2>5 DEF Work
<1>11. ASSUME NEW w \in Workers, Failure(w) PROVE RowMoves(o)
  BY <1>2, <1>11 DEF Failure, Crash, CrashServing, JournalFails, HeartbeatFails
<1>12. ASSUME NEW w \in Workers, NEW p \in Operations, ClaimNext(w, p)
       PROVE  RowMoves(o)
  <2>1. p # o => operation'[o] = operation[o]
    BY <1>1, <1>12 DEF ClaimNext, ClaimOperation
  <2> QED
    BY <1>12, <2>1 DEF RowMoves
<1>13. CASE UNCHANGED vars
  BY <1>2, <1>13 DEF vars, controlVars
<1> QED
  BY <1>5, <1>8, <1>9, <1>10, <1>11, <1>12, <1>13 DEF Next

(* The worker that works is the only one whose run moves. *)
LEMMA WorkKeepsOthers ==
  ASSUME TypeOK, NEW w \in Workers, Work(w)
  PROVE  (UNCHANGED serving \/ StopServing(w)) /\ OthersKeep(w)
<1>1. job \in [Workers -> Jobs]
  BY TypeParts
<1>2. ASSUME \/ Fail(w) \/ job' = [job EXCEPT ![w] = NoJob]
             \/ \E step \in Steps :
                  \/ GoTo(w, step) \/ Leave(w, step)
                  \/ \E result \in Results : Return(w, step, result)
      PROVE  OthersKeep(w)
  BY <1>2, MovedFields
<1>3. ASSUME UNCHANGED job PROVE OthersKeep(w)
  BY <1>3 DEF OthersKeep
<1>4. CASE ReadDisconnectMaterial(w)
  BY <1>1, <1>2, <1>4 DEF ReadDisconnectMaterial, OthersKeep, controlVars
<1>5. CASE RevokeAuthorization(w)
  BY <1>2, <1>5 DEF RevokeAuthorization
<1>6. CASE CompleteDisconnect(w)
  BY <1>2, <1>6 DEF CompleteDisconnect, DisconnectNow
<1>7. CASE ReadExpiredAuthorization(w)
  BY <1>1, <1>2, <1>7 DEF ReadExpiredAuthorization, OthersKeep, controlVars
<1>8. CASE RefreshAtProvider(w)
  BY <1>1, <1>2, <1>8 DEF RefreshAtProvider, OthersKeep
<1>9. CASE PersistRefresh(w) \/ DeleteExpired(w)
  BY <1>2, <1>9 DEF PersistRefresh, DeleteExpired
<1>10. CASE ReleaseRetentionLease(w) \/ CompleteRetention(w) \/ DestroyTokenKey(w)
  BY <1>2, <1>10 DEF ReleaseRetentionLease, CompleteRetention, DestroyTokenKey, controlVars
<1>11. CASE FinishRun(w) \/ StaleRun(w) \/ StaleRetention(w)
  BY <1>2, <1>11 DEF FinishRun, FinishOperation, StaleRun, StandDown, StaleRetention,
     controlVars
<1> QED
  BY <1>4, <1>5, <1>6, <1>7, <1>8, <1>9, <1>10, <1>11 DEF Work

(* A worker goes on with its run, ends it, or claims a row. *)
LEMMA StepsMoveRuns ==
  ASSUME TypeOK, [Next]_vars, NEW w \in Workers
  PROVE  \/ serving'[w].operation \in {serving[w].operation, NoOperation}
         \/ \E o \in Operations : ClaimNext(w, o) /\ serving'[w].operation = o
<1>1. serving \in [Workers -> ServingRows]
  BY TypeParts
<1>2. ASSUME NEW v \in Workers, StopServing(v)
      PROVE  serving'[w].operation \in {serving[w].operation, NoOperation}
  BY <1>1, <1>2 DEF StopServing, NotServing
<1>3. CASE Users \/ Publisher \/ Time \/ EnqueueDue \/ UNCHANGED vars
  BY <1>3 DEF Users, ReadChannel, BeginConnection, CompleteConnection, DenyConnection,
     PrepareDisconnect, Publisher, TakePublishingLease, RotateToken,
     RequireReauthorization, ReleasePublishingLease, Time, DataAges, ExpireLease,
     ExpireClaim, PassDeadline, EnqueueDue, controlVars, vars
<1>4. ASSUME NEW v \in Workers, Work(v)
      PROVE  serving'[w].operation \in {serving[w].operation, NoOperation}
  BY <1>2, <1>4, WorkKeepsOthers
<1>5. ASSUME NEW v \in Workers, Failure(v)
      PROVE  serving'[w].operation \in {serving[w].operation, NoOperation}
  <2>1. CASE HeartbeatFails(v)
    BY <1>1, <2>1 DEF HeartbeatFails, ServingRows
  <2> QED
    BY <1>2, <1>5, <2>1 DEF Failure, Crash, CrashServing, JournalFails
<1>6. ASSUME NEW v \in Workers, NEW o \in Operations, ClaimNext(v, o)
      PROVE  /\ v = w => serving'[w].operation = o
             /\ v # w => serving'[w] = serving[w]
  BY <1>1, <1>6 DEF ClaimNext, ClaimOperation
<1> QED
  BY <1>3, <1>4, <1>5, <1>6 DEF Next

LEMMA CommittedStays ==
  ASSUME IInv, [Next]_vars
  PROVE  committed \subseteq committed'
<1>1. CASE Next
  BY <1>1, NextEvolves DEF Evolution, KeysMove
<1>2. CASE UNCHANGED vars
  BY <1>2 DEF vars, channelVars
<1> QED
  BY <1>1, <1>2

(* A cycle that is over does not come back. *)
LEMMA OverForGood ==
  ASSUME IInv, [Next]_vars, NEW k \in committed, Current(k)'
  PROVE  Current(k)
BY StepsMoveCycle, TypeParts DEF IInv, CycleMoves, Current

LEMMA CyclesKept ==
  ASSUME IInv, CyclesSound, [Next]_vars
  PROVE  CyclesSound'
<1>1. /\ channel'.cycle \in committed' \cup {NoKey}
      /\ channel'.state = "connected" => channel'.key # NoKey
  BY StepsMoveCycle, CommittedStays DEF CycleMoves, CyclesSound
<1>2. ASSUME NEW k \in Keys, operation'[Retention(k)].state # "absent"
      PROVE  k \in committed'
  <2>1. Retention(k) \in Operations /\ NoKey \notin Keys
    BY Named
  <2>2. RowMoves(Retention(k))
    BY <2>1, StepsMoveRows
  <2>3. k = channel.cycle \/ operation[Retention(k)].state # "absent"
    <3>1. ASSUME NEW w \in Workers, FinishRun(w), serving[w].operation = Retention(k)
          PROVE  operation[Retention(k)].state # "absent"
      BY <2>1, <3>1, ControlAssumption DEF IInv, JobsSound, JobSound
    <3>2. ASSUME NEW w \in Workers, ClaimNext(w, Retention(k))
          PROVE  operation[Retention(k)].state # "absent"
      BY <3>2 DEF ClaimNext, ClaimOperation, Claimable
    <3>3. ExpireClaim(Retention(k)) \/ PassDeadline(Retention(k)) =>
            operation[Retention(k)].state # "absent"
      BY DEF ExpireClaim, PassDeadline, Open
    <3> QED
      BY <1>2, <2>2, <3>1, <3>2, <3>3 DEF RowMoves
  <2> QED
    BY <2>1, <2>3, CommittedStays DEF CyclesSound
<1> QED
  BY <1>1, <1>2 DEF CyclesSound

(* Without a stall no claim expires under its run. *)
LEMMA ClaimsStay ==
  ASSUME IInv, ClaimsKept, Undisturbed, [Next]_vars
  PROVE  ClaimsKept'
<1> SUFFICES ASSUME NEW w \in Workers, serving'[w].operation # NoOperation
             PROVE  HoldsClaim(w)'
  BY DEF ClaimsKept
<1>1. /\ operation \in [Operations -> OperationRows]
      /\ serving \in [Workers -> ServingRows]
  BY TypeParts DEF IInv
<1>2. ASSUME NEW o \in Operations, ClaimNext(w, o), serving'[w].operation = o
      PROVE  HoldsClaim(w)'
  <2>1. operation' = [operation EXCEPT ![o] =
                       [operation[o] EXCEPT !.state = "claimed", !.owner = w, !.live = TRUE]]
    BY <1>1, <1>2 DEF ClaimNext, ClaimOperation
  <2>2. /\ operation'[o].state = "claimed" /\ operation'[o].owner = w
        /\ operation'[o].live
    BY <1>1, <2>1 DEF OperationRows
  <2> QED
    BY <1>2, <2>2, ControlAssumption DEF HoldsClaim
<1>3. ASSUME serving'[w].operation = serving[w].operation,
             ~ \E o \in Operations : ClaimNext(w, o)
      PROVE  HoldsClaim(w)'
  <2> DEFINE o == serving[w].operation
  <2>1. o \in Operations /\ HoldsClaim(w) /\ RowMoves(o)
    BY <1>1, <1>3, StepsMoveRows DEF ServingRows, ClaimsKept
  <2>2. operation[o].state = "claimed" /\ operation[o].owner = w /\ operation[o].live
    BY <2>1 DEF HoldsClaim
  <2>3. ASSUME NEW v \in Workers, FinishRun(v), serving[v].operation = o
        PROVE  FALSE
    <3>1. HoldsClaim(v)
      BY <2>1, <2>3, ControlAssumption DEF ClaimsKept
    <3>2. v = w
      BY <2>2, <2>3, <3>1 DEF HoldsClaim
    <3> QED
      BY <1>1, <2>3, <3>2 DEF FinishRun, FinishOperation, StopServing, NotServing
  <2>4. ~ \E v \in Workers : ClaimNext(v, o)
    BY <2>2 DEF ClaimNext, ClaimOperation, Claimable
  <2>5. ~ ExpireClaim(o)
    BY <2>2 DEF ExpireClaim, Spend, Undisturbed
  <2>6. operation'[o] = operation[o] \/ PassDeadline(o)
    BY <2>1, <2>2, <2>3, <2>4, <2>5 DEF RowMoves
  <2>7. /\ operation'[o].state = "claimed" /\ operation'[o].owner = w
        /\ operation'[o].live
    BY <1>1, <2>1, <2>2, <2>6 DEF PassDeadline, OperationRows
  <2> QED
    BY <1>3, <2>7 DEF HoldsClaim
<1>4. \A o \in Operations : ClaimNext(w, o) => serving'[w].operation = o
  BY <1>1 DEF ClaimNext, ClaimOperation
<1> QED
  BY <1>2, <1>3, <1>4, StepsMoveRuns DEF IInv

(* Two runs are never of one operation. *)
LEMMA RunsAlone ==
  ASSUME ClaimsKept, NEW v \in Workers, NEW w \in Workers,
         serving[w].operation # NoOperation,
         serving[v].operation = serving[w].operation
  PROVE  v = w
BY DEF ClaimsKept, HoldsClaim

(* A lease that a writing run uses does not run out, and nobody else takes or
   frees it while the channel stays connected with the same cycle. *)
LeaseStays ==
  /\ channel'.key = channel.key /\ channel'.lease = channel.lease
  /\ channel'.generation = channel.generation
  /\ channel'.leaseGeneration = channel.leaseGeneration

LEMMA OthersLeaveLease ==
  ASSUME IInv, ClaimsKept, NEW w \in Workers, NEW k \in Keys,
         serving[w].operation = Retention(k), HoldsRetentionLease(w), Current(k)',
         NEW v \in Workers \ {w}, Work(v)
  PROVE  LeaseStays
<1>1. /\ channel \in ChannelRows /\ k \in Nat /\ k # NoKey
      /\ channel.lease = Retention(k) /\ Retention(k) # NoOperation
  BY Retentions, TypeParts, LifecycleAssumption DEF IInv, HoldsRetentionLease, HoldsLease
<1>2. serving[v].operation # Retention(k)
  BY <1>1, RunsAlone
<1>3. ASSUME UNCHANGED channel PROVE LeaseStays
  BY <1>3 DEF LeaseStays
<1>4. CASE ReadDisconnectMaterial(v) \/ RevokeAuthorization(v) \/ RefreshAtProvider(v)
           \/ CompleteRetention(v) \/ DestroyTokenKey(v) \/ FinishRun(v) \/ StaleRun(v)
           \/ StaleRetention(v)
  BY <1>3, <1>4 DEF ReadDisconnectMaterial, RevokeAuthorization, RefreshAtProvider,
     CompleteRetention, DestroyTokenKey, FinishRun, StaleRun, StaleRetention, channelVars
<1>5. CASE CompleteDisconnect(v)
  <2>1. ~ DisconnectNow(v)
    BY DEF DisconnectNow, HoldsRetentionLease
  <2> QED
    BY <1>3, <1>5, <2>1 DEF CompleteDisconnect
<1>6. CASE ReadExpiredAuthorization(v)
  BY <1>1, <1>2, <1>3, <1>6 DEF ReadExpiredAuthorization
<1>7. CASE PersistRefresh(v) \/ DeleteExpired(v)
  <2>1. ~ HoldsRetentionLease(v)
    BY <1>1, <1>2 DEF HoldsRetentionLease, HoldsLease
  <2> QED
    BY <1>3, <1>7, <2>1 DEF PersistRefresh, DeleteExpired
<1>8. CASE ReleaseRetentionLease(v)
  BY <1>1, <1>2, <1>3, <1>8 DEF ReleaseRetentionLease, HoldsLease
<1> QED
  BY <1>4, <1>5, <1>6, <1>7, <1>8 DEF Work

LEMMA LeaseKept ==
  ASSUME IInv, ClaimsKept, Undisturbed, [Next]_vars, NEW w \in Workers, NEW k \in Keys,
         serving[w].operation = Retention(k), HoldsRetentionLease(w),
         job[w].step \in Writing, ~ Work(w), Current(k)'
  PROVE  LeaseStays
<1>1. /\ channel \in ChannelRows /\ channel.state = "connected"
      /\ channel.lease = Retention(k) /\ k \in Nat
      /\ Retention(k) # NoOperation /\ Retention(k) # Publishing
  BY Retentions, TypeParts, LifecycleAssumption DEF IInv, HoldsRetentionLease, HoldsLease
<1>2. ASSUME UNCHANGED channel PROVE LeaseStays
  BY <1>2 DEF LeaseStays
<1>3. CASE Users
  <2>1. CASE BeginConnection
    BY <1>1, <1>2, <2>1 DEF BeginConnection, Current, ChannelRows
  <2>2. CASE ReadChannel
    BY <1>2, <2>2 DEF ReadChannel
  <2>3. CASE CompleteConnection \/ DenyConnection \/ PrepareDisconnect
    BY <1>1, <2>3 DEF CompleteConnection, DenyConnection, PrepareDisconnect, Current,
       ChannelRows
  <2> QED
    BY <1>3, <2>1, <2>2, <2>3 DEF Users
<1>4. CASE Publisher
  BY <1>1, <1>4 DEF Publisher, TakePublishingLease, ChannelLeaseIsActive, RotateToken,
     RequireReauthorization, HoldsPublishingFence, HoldsLease, ReleasePublishingLease
<1>5. CASE Time
  <2>1. LeaseIsUsed
    BY <1>1 DEF LeaseIsUsed, Writing
  <2>2. ~ ExpireLease
    BY <2>1 DEF ExpireLease, Spend, Undisturbed
  <2>3. CASE DataAges
    BY <1>1, <2>3 DEF DataAges, LeaseStays, ChannelRows
  <2> QED
    BY <1>2, <1>5, <2>2, <2>3 DEF Time, channelVars
<1>6. ASSUME NEW v \in Workers, Work(v) PROVE LeaseStays
  BY <1>6, OthersLeaveLease
<1>7. ASSUME NEW v \in Workers, Failure(v) PROVE UNCHANGED channel
  BY <1>7 DEF Failure, Crash, JournalFails, channelVars
<1>8. ASSUME NEW v \in Workers, NEW o \in Operations, ClaimNext(v, o)
      PROVE  UNCHANGED channel
  BY <1>8 DEF ClaimNext, channelVars
<1>9. CASE EnqueueDue \/ UNCHANGED vars
  BY <1>2, <1>9 DEF EnqueueDue, vars, channelVars
<1> QED
  BY <1>2, <1>3, <1>4, <1>5, <1>6, <1>7, <1>8, <1>9 DEF Next

(* A run that is not at work. *)
LEMMA RestingRun ==
  ASSUME CycleInv, Undisturbed, [Next]_vars, NEW w \in Workers, ~ Work(w),
         job'[w] = job[w], serving'[w].operation = serving[w].operation
  PROVE  RunCurrent(w)'
<1> SUFFICES ASSUME NEW k \in Keys, serving[w].operation = Retention(k), Current(k)'
             PROVE  /\ job[w].step \in Writing => HoldsRetentionLease(w)'
                    /\ job[w].step \notin {"complete", "finish"}
                    /\ job[w].step = "release" => job[w].result \in {"failed", "lost"}
  BY DEF RunCurrent
<1>1. /\ Retention(k) # NoOperation /\ Retention(k) \in Operations /\ IInv
  BY Retentions, Named, LifecycleAssumption DEF CycleInv
<1>2. k \in committed
  BY <1>1 DEF CycleInv, CyclesSound, IInv, JobsSound, JobSound
<1>3. Current(k)
  BY <1>1, <1>2, OverForGood
<1>4. RunCurrent(w) /\ ClaimsKept
  BY DEF CycleInv
<1>5. ASSUME job[w].step \in Writing PROVE HoldsRetentionLease(w)'
  <2>1. HoldsRetentionLease(w)
    BY <1>3, <1>4, <1>5 DEF RunCurrent
  <2>2. LeaseStays
    BY <1>1, <1>4, <1>5, <2>1, LeaseKept
  <2> QED
    BY <2>1, <2>2 DEF HoldsRetentionLease, HoldsLease, LeaseStays, Current
<1> QED
  BY <1>3, <1>4, <1>5 DEF RunCurrent

(* A run that works: it starts to write with the lease, and what it finds gone
   while it has claim and lease is the cycle itself. *)
LEMMA WorkingRun ==
  ASSUME CycleInv, [Next]_vars, NEW w \in Workers, Work(w)
  PROVE  RunCurrent(w)'
<1> SUFFICES ASSUME NEW k \in Keys, serving'[w].operation = Retention(k), Current(k)'
             PROVE  /\ job'[w].step \in Writing => HoldsRetentionLease(w)'
                    /\ job'[w].step \notin {"complete", "finish"}
                    /\ job'[w].step = "release" => job'[w].result \in {"failed", "lost"}
  BY DEF RunCurrent
<1>1. /\ Retention(k) # NoOperation /\ IInv /\ TypeOK /\ ClaimsKept /\ RunCurrent(w)
      /\ CyclesSound /\ channel \in ChannelRows /\ job \in [Workers -> Jobs]
      /\ serving \in [Workers -> ServingRows]
  BY Retentions, TypeParts, LifecycleAssumption DEF CycleInv, IInv
<1>2. UNCHANGED serving
  BY <1>1, WorkKeepsOthers DEF StopServing, NotServing
<1>3. /\ serving[w].operation = Retention(k)
      /\ KindOf(serving[w].operation) = "authorized_data_retention"
      /\ SubjectOf(serving[w].operation) = k
  BY <1>2 DEF Retention, KindOf, SubjectOf
<1>4. k \in committed /\ Current(k) /\ HoldsClaim(w)
  <2>1. k \in committed
    BY <1>1, <1>3, Named DEF CyclesSound, IInv, JobsSound, JobSound
  <2> QED
    BY <1>1, <1>3, <2>1, OverForGood DEF ClaimsKept
<1>5. ASSUME NEW step \in {"idle", "failed"}, job'[w].step = step
      PROVE  /\ job'[w].step \in Writing => HoldsRetentionLease(w)'
             /\ job'[w].step \notin {"complete", "finish"}
             /\ job'[w].step = "release" => job'[w].result \in {"failed", "lost"}
  BY <1>5 DEF Writing
<1>6. ASSUME NEW result \in {"failed", "lost"}, Return(w, "release", result)
      PROVE  /\ job'[w].step \in Writing => HoldsRetentionLease(w)'
             /\ job'[w].step \notin {"complete", "finish"}
             /\ job'[w].step = "release" => job'[w].result \in {"failed", "lost"}
  BY <1>1, <1>6, MovedFields DEF Writing
<1>7. ASSUME HoldsRetentionLease(w), UNCHANGED channel, job[w].step \in Writing,
             job'[w].step \in Writing, job'[w].key = job[w].key,
             job'[w].generation = job[w].generation
      PROVE  /\ job'[w].step \in Writing => HoldsRetentionLease(w)'
             /\ job'[w].step \notin {"complete", "finish"}
             /\ job'[w].step = "release" => job'[w].result \in {"failed", "lost"}
  BY <1>2, <1>7 DEF Writing, HoldsRetentionLease, HoldsLease
<1>8. ASSUME GoTo(w, "delete")
      PROVE  /\ job'[w].step = "delete" /\ job'[w].key = job[w].key
             /\ job'[w].generation = job[w].generation
  BY <1>1, <1>8 DEF GoTo, Jobs
<1>9. CASE ReadDisconnectMaterial(w) \/ RevokeAuthorization(w) \/ CompleteDisconnect(w)
           \/ DestroyTokenKey(w)
  BY <1>3, <1>9 DEF ReadDisconnectMaterial, RevokeAuthorization, CompleteDisconnect,
     DestroyTokenKey, Serves
<1>10. CASE ReadExpiredAuthorization(w)
  <2>1. CycleIsCurrent(serving[w].operation)
    BY <1>1, <1>3, <1>4 DEF CycleIsCurrent, CyclesSound, Current
  <2>2. CASE Fail(w)
    BY <1>1, <1>5, <2>2, MovedFields
  <2>3. CASE /\ channel' = WithLease(channel, serving[w].operation)
             /\ job' = [job EXCEPT ![w].step = "refresh", ![w].key = channel.key,
                                   ![w].generation = channel.generation]
    <3>1. job' = [job EXCEPT ![w] = [job[w] EXCEPT !.step = "refresh",
                    !.key = channel.key, !.generation = channel.generation]]
      BY <1>1, <2>3
    <3>2. /\ job'[w].step = "refresh" /\ job'[w].key = channel.key
          /\ job'[w].generation = channel.generation
      BY <1>1, <3>1 DEF Jobs
    <3>3. /\ channel'.state = channel.state /\ channel'.key = channel.key
          /\ channel'.lease = serving[w].operation
          /\ channel'.generation = channel.generation
          /\ channel'.leaseGeneration = channel.generation
      BY <1>1, <2>3 DEF WithLease, ChannelRows
    <3> QED
      BY <1>2, <1>4, <3>2, <3>3 DEF Current, HoldsRetentionLease, HoldsLease
  <2> QED
    BY <1>10, <2>1, <2>2, <2>3 DEF ReadExpiredAuthorization
<1>11. CASE RefreshAtProvider(w)
  <2>1. HoldsRetentionLease(w) /\ job[w].step \in Writing
    BY <1>1, <1>3, <1>4, <1>11 DEF RunCurrent, RefreshAtProvider, Serves, Writing
  <2>2. \/ GoTo(w, "delete") \/ Return(w, "release", "failed")
        \/ job' = [job EXCEPT ![w].step = "persist", ![w].sealed = NextKey]
    BY <1>11 DEF RefreshAtProvider
  <2>3. CASE job' = [job EXCEPT ![w].step = "persist", ![w].sealed = NextKey]
    <3>1. job' = [job EXCEPT ![w] = [job[w] EXCEPT !.step = "persist",
                                                   !.sealed = NextKey]]
      BY <1>1, <2>3
    <3>2. /\ job'[w].step = "persist" /\ job'[w].key = job[w].key
          /\ job'[w].generation = job[w].generation
      BY <1>1, <3>1 DEF Jobs
    <3> QED
      BY <1>7, <1>11, <2>1, <3>2 DEF RefreshAtProvider, Writing
  <2> QED
    BY <1>6, <1>7, <1>8, <1>11, <2>1, <2>2, <2>3 DEF RefreshAtProvider, Writing
<1>12. CASE PersistRefresh(w)
  <2>1. HoldsRetentionLease(w) /\ job[w].step = "persist"
    BY <1>1, <1>3, <1>4, <1>12 DEF RunCurrent, PersistRefresh, Serves, Writing
  <2>2. job[w].sealed \notin committed
    BY <1>1, <2>1 DEF IInv, JobsSound, JobSound
  <2>3. channel' # [WithoutLease(channel) EXCEPT !.key = job[w].sealed,
                                   !.cycle = job[w].sealed, !.data = "fresh"]
    <3>1. channel'.cycle # job[w].sealed
      BY <1>4, <2>2 DEF Current
    <3> QED
      BY <1>1, <3>1 DEF WithoutLease, ChannelRows
  <2>4. UNCHANGED channel /\ (GoTo(w, "delete") \/ channel.data # "past")
    BY <1>3, <1>4, <1>12, <2>1, <2>3 DEF PersistRefresh, PastDeadline, PastExpiry, Current
  <2>5. channel.cycle = SubjectOf(serving[w].operation)
    BY <1>3, <1>4 DEF Current
  <2>6. GoTo(w, "delete")
    BY <1>12, <2>1, <2>3, <2>4, <2>5 DEF PersistRefresh
  <2> QED
    BY <1>7, <1>8, <2>1, <2>4, <2>6 DEF Writing
<1>13. CASE DeleteExpired(w)
  <2>1. HoldsRetentionLease(w)
    BY <1>1, <1>3, <1>4, <1>13 DEF RunCurrent, DeleteExpired, Serves, Writing
  <2>2. channel' # [WithoutLease(Erased(channel)) EXCEPT !.state = "reauthorization_required"]
    <3>1. channel'.state = "connected"
      BY DEF Current
    <3> QED
      BY <1>1, <3>1 DEF WithoutLease, Erased, ChannelRows
  <2> QED
    BY <1>13, <2>1, <2>2 DEF DeleteExpired
<1>14. CASE ReleaseRetentionLease(w)
  <2>1. job[w].result \in {"failed", "lost"}
    BY <1>1, <1>3, <1>4, <1>14 DEF RunCurrent, ReleaseRetentionLease, Serves
  <2>2. Leave(w, "failed") \/ job' = [job EXCEPT ![w] = NoJob]
    BY <1>14, <2>1 DEF ReleaseRetentionLease
  <2> QED
    BY <1>1, <1>5, <2>2, MovedFields
<1>15. CASE CompleteRetention(w)
  BY <1>1, <1>3, <1>4, <1>15 DEF RunCurrent, CompleteRetention, Serves
<1>16. CASE FinishRun(w) \/ StaleRun(w)
  BY <1>1, <1>5, <1>16, MovedFields DEF FinishRun, StaleRun
<1>17. CASE StaleRetention(w)
  BY <1>6, <1>17 DEF StaleRetention
<1> QED
  BY <1>9, <1>10, <1>11, <1>12, <1>13, <1>14, <1>15, <1>16, <1>17 DEF Work

LEMMA RunsStayCurrent ==
  ASSUME CycleInv, Undisturbed, [Next]_vars, NEW w \in Workers
  PROVE  RunCurrent(w)'
<1>1. TypeOK /\ job \in [Workers -> Jobs] /\ serving \in [Workers -> ServingRows]
  BY TypeParts DEF CycleInv, IInv
<1>2. CASE Work(w)
  BY <1>2, WorkingRun
<1>3. ASSUME ~ Work(w), UNCHANGED job, serving'[w].operation = serving[w].operation
      PROVE  RunCurrent(w)'
  BY <1>3, RestingRun
<1>4. ASSUME NEW v \in Workers \ {w}, Work(v) PROVE RunCurrent(w)'
  <2>1. (UNCHANGED serving \/ StopServing(v)) /\ OthersKeep(v)
    BY <1>1, <1>4, WorkKeepsOthers
  <2>2. job'[w] = job[w] /\ serving'[w] = serving[w]
    BY <1>1, <2>1 DEF OthersKeep, StopServing
  <2> QED
    BY <1>2, <2>2, RestingRun
<1>5. ASSUME serving'[w].operation = NoOperation PROVE RunCurrent(w)'
  BY <1>5, Retentions, LifecycleAssumption DEF RunCurrent
<1>6. ASSUME job'[w].step \in {"idle", "load", "failed"} PROVE RunCurrent(w)'
  BY <1>6 DEF RunCurrent, Writing
<1>7. ASSUME NEW v \in Workers, Failure(v), ~ Work(w) PROVE RunCurrent(w)'
  <2>1. CASE Crash(v)
    <3>1. /\ v = w => serving'[w].operation = NoOperation
          /\ v # w => job'[w] = job[w] /\ serving'[w] = serving[w]
      BY <1>1, <2>1 DEF Crash, CrashServing, StopServing, NotServing
    <3> QED
      BY <1>5, <1>7, <3>1, RestingRun
  <2>2. CASE JournalFails(v)
    <3>1. OthersKeep(v) /\ UNCHANGED serving
      BY <1>1, <2>2, MovedFields DEF JournalFails
    <3>2. CASE v # w
      BY <1>7, <3>1, <3>2, RestingRun DEF OthersKeep
    <3>3. CASE v = w /\ Fail(v)
      BY <1>1, <1>6, <3>3, MovedFields
    <3>4. CASE v = w /\ Return(v, "release", "failed")
      <4>1. job'[w].step = "release" /\ job'[w].result = "failed"
        BY <1>1, <3>4, MovedFields
      <4> QED
        BY <4>1 DEF RunCurrent, Writing
    <3> QED
      BY <2>2, <3>2, <3>3, <3>4 DEF JournalFails
  <2>3. CASE HeartbeatFails(v) /\ UNCHANGED <<channelVars, job>>
    <3>1. serving'[w].operation = serving[w].operation
      BY <1>1, <2>3 DEF HeartbeatFails, ServingRows
    <3> QED
      BY <1>3, <1>7, <2>3, <3>1
  <2> QED
    BY <1>7, <2>1, <2>2, <2>3 DEF Failure
<1>8. ASSUME NEW v \in Workers, NEW o \in Operations, ClaimNext(v, o), ~ Work(w)
      PROVE  RunCurrent(w)'
  <2>1. /\ v = w => job'[w].step = "load"
        /\ v # w => job'[w] = job[w] /\ serving'[w] = serving[w]
    BY <1>1, <1>8 DEF ClaimNext, ClaimOperation, NoJob
  <2> QED
    BY <1>6, <1>8, <2>1, RestingRun
<1>9. CASE Users \/ Publisher \/ Time \/ EnqueueDue \/ UNCHANGED vars
  <2>1. UNCHANGED <<job, serving>>
    BY <1>9 DEF Users, ReadChannel, BeginConnection, CompleteConnection, DenyConnection,
     PrepareDisconnect, Publisher, TakePublishingLease, RotateToken,
     RequireReauthorization, ReleasePublishingLease, Time, DataAges, ExpireLease,
     ExpireClaim, PassDeadline, EnqueueDue, controlVars, vars
  <2> QED
    BY <1>2, <1>3, <2>1
<1> QED
  BY <1>2, <1>4, <1>7, <1>8, <1>9 DEF Next

(* A cycle that is closed is over, and what is over stays so. *)
LEMMA ClosedStaysOver ==
  ASSUME CycleInv, [Next]_vars
  PROVE  RetentionNotSkipped'
<1> SUFFICES ASSUME NEW k \in Keys, operation'[Retention(k)].state = "completed",
                    Current(k)'
             PROVE  FALSE
  BY DEF RetentionNotSkipped, Current
<1> DEFINE o == Retention(k)
<1>1. IInv /\ ClaimsKept /\ CyclesSound /\ TypeOK /\ o \in Operations
      /\ operation \in [Operations -> OperationRows]
  BY Named, TypeParts DEF CycleInv, IInv
<1>2. RowMoves(o)
  BY <1>1, StepsMoveRows
<1>3. ASSUME operation[o].state = "completed" PROVE FALSE
  <2>1. k \in committed
    BY <1>1, <1>3 DEF CyclesSound
  <2>2. Current(k)
    BY <1>1, <2>1, OverForGood
  <2> QED
    BY <1>3, <2>2 DEF CycleInv, RetentionNotSkipped, Current
<1>4. ASSUME NEW w \in Workers, FinishRun(w), serving[w].operation = o PROVE FALSE
  <2>1. HoldsClaim(w) /\ RunCurrent(w)
    BY <1>1, <1>4, ControlAssumption DEF ClaimsKept, CycleInv
  <2>2. Current(k)
    BY <1>4 DEF FinishRun, channelVars, Current
  <2>3. job[w].step # "finish"
    BY <1>4, <2>1, <2>2 DEF RunCurrent
  <2>4. operation' = operation
        \/ operation' = [operation EXCEPT ![o] = FinishedRow(operation[o], "waiting")]
    BY <1>4, <2>3 DEF FinishRun, FinishOperation
  <2>5. FinishedRow(operation[o], "waiting").state = "waiting"
    BY <1>1 DEF FinishedRow, OperationRows
  <2>6. operation[o].state = "completed"
    BY <1>1, <2>4, <2>5
  <2> QED
    BY <1>3, <2>6
<1>5. ASSUME NEW w \in Workers, ClaimNext(w, o) PROVE FALSE
  <2>1. operation' = [operation EXCEPT ![o] =
                       [operation[o] EXCEPT !.state = "claimed", !.owner = w, !.live = TRUE]]
    BY <1>1, <1>5 DEF ClaimNext, ClaimOperation
  <2> QED
    BY <1>1, <2>1 DEF OperationRows
<1>6. ExpireClaim(o) \/ PassDeadline(o) => operation[o].state = "completed"
  BY <1>1 DEF ExpireClaim, PassDeadline, OperationRows
<1> QED
  BY <1>2, <1>3, <1>4, <1>5, <1>6 DEF RowMoves

(* A retention that keeps claim and lease does not close a cycle that goes on:
   whatever crashes, fails, is refused or answers late, the authorised data of
   a connected channel is refreshed or erased before its row is completed.
   "stall" and "lease" are left out, for each of them breaks it. *)
THEOREM CyclesEnd ==
  ASSUME Undisturbed
  PROVE  Spec => []RetentionNotSkipped
<1>1. Init => CycleInv
  <2> SUFFICES ASSUME Init PROVE CycleInv
    OBVIOUS
  <2>1. IInv
    BY InitSound
  <2>2. /\ \A o \in Operations : operation[o].state = "absent"
        /\ \A w \in Workers : serving[w].operation = NoOperation
        /\ channel.state = "not_connected" /\ channel.cycle = NoKey
    BY DEF Init, ControlInit, Absent, NotServing, NewChannel
  <2> QED
    BY <2>1, <2>2, Named, Retentions, LifecycleAssumption
       DEF CycleInv, ClaimsKept, CyclesSound, RunCurrent, RetentionNotSkipped
<1>2. CycleInv /\ [Next]_vars => CycleInv'
  <2> SUFFICES ASSUME CycleInv, [Next]_vars PROVE CycleInv'
    OBVIOUS
  <2>1. IInv' /\ ClaimsKept'
    <3>1. CASE Next
      BY <3>1, NextEvolves, EvolutionKeeps, ClaimsStay DEF CycleInv
    <3>2. CASE UNCHANGED vars
      BY <3>2, UnchangedKeeps, ClaimsStay DEF CycleInv
    <3> QED
      BY <3>1, <3>2
  <2> QED
    BY <2>1, CyclesKept, RunsStayCurrent, ClosedStaysOver DEF CycleInv
<1>3. CycleInv => RetentionNotSkipped
  BY DEF CycleInv
<1> QED
  BY <1>1, <1>2, <1>3, PTL DEF Spec

=============================================================================
