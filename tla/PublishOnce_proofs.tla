------------------------- MODULE PublishOnce_proofs -------------------------
(***************************************************************************)
(* That a content is published at most once, for every number of workers,   *)
(* contents and executions, every platform and every bound: as long as no   *)
(* worker stalls beyond its terms, no answer of the provider is misread and  *)
(* the read and the record of a publication do not fail for the database's   *)
(* own reasons. Processes may die and the heartbeat and the transactions of  *)
(* the catch block may fail at any time.                                    *)
(***************************************************************************)
EXTENDS PublishSafety_proofs

(* A worker keeps its claim until it is done with it, unless the row was closed
   under its hands. *)
ClaimsKept == \A w \in Workers :
  Active(w) => HoldsClaim(w) \/ outbox[job[w].execution].state = "dead"

(* No two workers are at the same execution, but for the release of a lease. *)
Alone == \A v, w \in Workers :
  Active(v) /\ Active(w) /\ job[v].execution = job[w].execution => v = w

(* A failure that would leave the execution retryable: nothing was uploaded, or
   the reference to it is stored, or the execution has ended anyway. *)
Harmless(w) ==
  LET e == job[w].execution IN
  IF job[w].state = "none" THEN execution[e].state = "publishing" => Referenced(e)
  ELSE IF job[w].provider THEN Referenced(e)
  ELSE uploads[e] = 0 \/ execution[e].state \in Settled

(* No later execution of its content has been confirmed. *)
Latest(e) == \A c \in Contents : execution[e].content = c => content[c].latest = e

(* What a worker that reads has seen is still so when it takes the lease: while its
   claim is its own, only a disconnection changes the execution, and nothing is
   connected again under an open read. *)
JobSound(w) ==
  LET e == job[w].execution IN
  /\ job[w].step = "claimed" => job[w].state = "none"
  /\ job[w].step = "reading" =>
       /\ job[w].state \in OpenStates
       /\ job[w].state # "not_started" => job[w].provider
       /\ job[w].provider \/ execution[e].state = "publishing" => Referenced(e)
       /\ channel.state = "connected" => execution[e].state = job[w].state
  /\ job[w].step \in {"upload", "uploaded"} =>
       /\ execution[e].state \in {"publishing", "cancelled", "needs_attention"}
       /\ ~ execution[e].provider
       /\ job[w].state = "publishing" /\ ~ job[w].provider
       /\ Latest(e)
  /\ job[w].step = "upload" => uploads[e] = 0
  /\ job[w].step = "uploaded" => uploads[e] = 1
  /\ job[w].step \in {"resume", "transfer", "poll"} => job[w].provider /\ Referenced(e)
  /\ job[w].step = "failed" => NeedsAttention(job[w].category) \/ Harmless(w)

JobsSound == \A w \in Workers : JobSound(w)

ExecutionSound(e) ==
  /\ uploads[e] \in {0, 1}
  /\ execution[e].provider => uploads[e] = 1
  /\ execution[e].state \in {"absent", "not_started"} => uploads[e] = 0
  /\ execution[e].state \in {"processing", "published"} =>
       uploads[e] = 1 /\ Referenced(e)
  /\ execution[e].state = "failed" => uploads[e] = 0 \/ Referenced(e)

ExecutionsSound == \A e \in Executions : ExecutionSound(e)

(* Executions belong to contents that were approved; all but the latest one of
   a content failed without a trace, whatever a disconnection that had read them
   before has written since. *)
ContentsSound ==
  /\ \A c \in Contents : content[c].latest # NoExecution =>
       execution[content[c].latest].content = c
  /\ \A e \in Executions :
       /\ execution[e].state = "absent" <=> execution[e].content = NoContent
       /\ \A c \in Contents : execution[e].content = c =>
            /\ content[c].status # "draft"
            /\ \/ content[c].latest = e
               \/ /\ content[c].latest # NoExecution
                  /\ execution[e].state \in DeadStates /\ uploads[e] = 0

OnceInv ==
  /\ IInv /\ overrun = {}
  /\ ClaimsKept /\ Alone /\ JobsSound /\ ExecutionsSound /\ ContentsSound

USE DEF Settled, OpenStates, DeadStates, Categories, Steps, ChannelStates

-----------------------------------------------------------------------------
(* What a step may do to the executions without more being said *)

(* It leaves the provider's reference of an execution alone, or unbinds the
   execution with it, and ends an open execution at most. *)
Evolves(e) ==
  /\ uploads'[e] = uploads[e]
  /\ execution'[e].content = execution[e].content
  /\ \/ execution'[e].provider = execution[e].provider
     \/ ~ execution'[e].provider /\ ~ Bound(e)'
  /\ \/ execution'[e].state = execution[e].state
     \/ /\ execution[e].state \in OpenStates \cup DeadStates
        /\ execution'[e].state \in {"cancelled", "needs_attention"}
     \/ /\ execution[e].state \in OpenStates
        /\ \/ execution'[e].state = "failed" /\ (uploads[e] = 0 \/ Referenced(e))
           \/ execution'[e].state = "published" /\ execution[e].state = "processing"

Evolution ==
  /\ \A e \in Executions : Evolves(e)
  /\ \A c \in Contents : ContentEvolves(c)

LEMMA BoundStays ==
  ASSUME OnceInv, NEW e \in Executions,
         execution'[e].content = execution[e].content,
         \A c \in Contents : ContentEvolves(c),
         Bound(e)'
  PROVE  Bound(e)
<1>1. PICK c \in Contents : execution'[e].content = c /\ content'[c].bound
  BY DEF Bound
<1>2. content[c].status # "draft"
  BY <1>1 DEF OnceInv, ContentsSound
<1> QED
  BY <1>1, <1>2 DEF Bound, ContentEvolves

LEMMA EvolutionKeeps ==
  ASSUME OnceInv, Evolution
  PROVE  ExecutionsSound' /\ ContentsSound'
<1>1. ASSUME NEW e \in Executions PROVE ExecutionSound(e)'
  <2>1. execution[e] \in ExecutionRows /\ ExecutionSound(e) /\ Evolves(e)
    BY DEF OnceInv, IInv, TypeOK, ExecutionsSound, Evolution
  <2>2. Referenced(e) => Referenced(e)'
    BY <2>1, BoundStays DEF Evolves, Evolution, Referenced
  <2>3. execution'[e].provider => execution[e].provider
    BY <2>1 DEF Evolves
  <2> QED
    BY <2>1, <2>2, <2>3 DEF ExecutionSound, Evolves, ExecutionRows
<1>2. ContentsSound'
  <2>1. \A c \in Contents : content'[c].latest # NoExecution =>
          execution'[content'[c].latest].content = c
    BY DEF OnceInv, ContentsSound, Evolution, ContentEvolves, Evolves,
           IInv, TypeOK, ContentRows
  <2>2. ASSUME NEW e \in Executions
        PROVE  /\ execution'[e].state = "absent" <=> execution'[e].content = NoContent
               /\ \A c \in Contents : execution'[e].content = c =>
                    /\ content'[c].status # "draft"
                    /\ \/ content'[c].latest = e
                       \/ /\ content'[c].latest # NoExecution
                          /\ execution'[e].state \in DeadStates /\ uploads'[e] = 0
    BY DEF OnceInv, ContentsSound, Evolution, ContentEvolves, Evolves
  <2> QED
    BY <2>1, <2>2 DEF ContentsSound
<1> QED
  BY <1>1, <1>2 DEF ExecutionsSound

-----------------------------------------------------------------------------
(* What a step may do to the jobs *)

JobStays(v) ==
  /\ job'[v].step = job[v].step /\ job'[v].execution = job[v].execution
  /\ job'[v].generation = job[v].generation /\ job'[v].state = job[v].state
  /\ job'[v].provider = job[v].provider /\ job'[v].category = job[v].category

(* Under the hands of a worker an execution may be ended by a disconnection, no
   more. *)
Undisturbed(e) ==
  /\ \/ outbox'[e] = outbox[e] \/ outbox'[e].state = "dead"
  /\ \/ execution'[e].state = execution[e].state
     \/ /\ execution'[e].state \in {"cancelled", "needs_attention"}
        /\ channel'.state # "connected"

(* The channel is not connected anew while somebody reads. *)
ChannelQuiet ==
  channel'.state = "connected" =>
    channel.state = "connected" \/ \A v \in Workers : job[v].step # "reading"

(* A worker leaves its job, and the others go on as before. *)
LEMMA QuitKeeps ==
  ASSUME OnceInv, Evolution, IInv', UNCHANGED overrun, ChannelQuiet,
         \A v \in Workers : job'[v].step \notin {"idle", "finally"} =>
           Active(v) /\ JobStays(v) /\ Undisturbed(job[v].execution)
  PROVE  OnceInv'
<1>1. ClaimsKept'
  <2> SUFFICES ASSUME NEW v \in Workers, Active(v)'
               PROVE  (HoldsClaim(v) \/ outbox[job[v].execution].state = "dead")'
    BY DEF ClaimsKept
  <2>1. Active(v) /\ JobStays(v) /\ Undisturbed(job[v].execution)
    BY DEF Active
  <2> QED
    BY <2>1 DEF OnceInv, ClaimsKept, HoldsClaim, JobStays, Undisturbed
<1>2. Alone'
  BY DEF OnceInv, Alone, Active, JobStays
<1>3. JobsSound'
  <2> SUFFICES ASSUME NEW v \in Workers PROVE JobSound(v)'
    BY DEF JobsSound
  <2>1. CASE ~ Active(v)'
    BY <2>1 DEF Active, JobSound
  <2>2. CASE Active(v)'
    <3>1. PICK e \in Executions : e = job[v].execution
      BY <2>2 DEF OnceInv, IInv, TypeOK, Active
    <3>2. /\ JobStays(v) /\ Undisturbed(e) /\ Evolves(e) /\ JobSound(v)
          /\ job'[v].execution = e
      BY <2>2, <3>1 DEF Active, Evolution, OnceInv, JobsSound, JobStays
    <3>3. Referenced(e) => Referenced(e)'
      BY <3>2, BoundStays DEF Evolves, Evolution, Referenced
    <3>4. Harmless(v) => Harmless(v)'
      BY <3>1, <3>2, <3>3 DEF Harmless, JobStays, Undisturbed, Evolves
    <3>5. Latest(e) => Latest(e)'
      BY <3>2 DEF Latest, Evolves, Evolution, ContentEvolves
    <3>6. job[v].step = "reading" =>
            channel'.state # "connected" \/ channel.state = "connected"
      BY DEF ChannelQuiet
    <3>7. execution'[e].provider => execution[e].provider
      BY <3>2 DEF Evolves, OnceInv, IInv, TypeOK, ExecutionRows
    <3> QED
      BY <3>1, <3>2, <3>3, <3>4, <3>5, <3>6, <3>7
         DEF JobSound, JobStays, Undisturbed, Evolves
  <2> QED
    BY <2>1, <2>2
<1> QED
  BY <1>1, <1>2, <1>3, EvolutionKeeps DEF OnceInv

(* A worker goes on with its execution, which nobody else is at. *)
LEMMA ProceedKeeps ==
  ASSUME OnceInv, NEW w \in Workers, Active(w), NEW e \in Executions,
         e = job[w].execution,
         job'[w].execution = e /\ job'[w].generation = job[w].generation,
         \A v \in Workers \ {w} : job'[v] = job[v],
         \A f \in Executions \ {e} :
           execution'[f] = execution[f] /\ uploads'[f] = uploads[f],
         UNCHANGED <<content, outbox>>, ChannelQuiet,
         JobSound(w)'
  PROVE  ClaimsKept' /\ Alone' /\ JobsSound'
<1>1. ClaimsKept'
  BY DEF OnceInv, ClaimsKept, HoldsClaim, Active
<1>2. Alone'
  BY DEF OnceInv, Alone, Active
<1>3. ASSUME NEW v \in Workers \ {w} PROVE JobSound(v)'
  <2>1. CASE ~ Active(v)
    BY <2>1 DEF Active, JobSound
  <2>2. CASE Active(v)
    <3>1. PICK f \in Executions : f = job[v].execution
      BY <2>2 DEF OnceInv, IInv, TypeOK, Active
    <3>2. f # e
      BY <2>2, <3>1 DEF OnceInv, Alone
    <3>3. Referenced(f)' <=> Referenced(f)
      BY <3>2 DEF Referenced, Bound
    <3>4. Harmless(v)' <=> Harmless(v)
      BY <3>1, <3>2, <3>3 DEF Harmless
    <3>5. JobSound(v)
      BY DEF OnceInv, JobsSound
    <3>6. Latest(f)' <=> Latest(f)
      BY <3>2 DEF Latest
    <3> QED
      BY <3>1, <3>2, <3>3, <3>4, <3>5, <3>6 DEF JobSound, ChannelQuiet
  <2> QED
    BY <2>1, <2>2
<1> QED
  BY <1>1, <1>2, <1>3 DEF JobsSound

-----------------------------------------------------------------------------
(* Leaving and failing *)

LEMMA LeaveOnce ==
  ASSUME OnceInv, IInv', UNCHANGED overrun, ChannelQuiet,
         NEW w \in Workers, Active(w), Evolution,
         job'[w].step \in {"idle", "finally"},
         \A v \in Workers \ {w} : job'[v] = job[v],
         \A f \in Executions \ {job[w].execution} :
           outbox'[f] = outbox[f] /\ execution'[f].state = execution[f].state
  PROVE  OnceInv'
<1> SUFFICES ASSUME NEW v \in Workers, job'[v].step \notin {"idle", "finally"}
             PROVE  Active(v) /\ JobStays(v) /\ Undisturbed(job[v].execution)
  BY QuitKeeps
<1>1. v # w /\ Active(v) /\ JobStays(v)
  BY DEF Active, JobStays
<1>2. job[v].execution \in Executions \ {job[w].execution}
  BY <1>1 DEF OnceInv, Alone, IInv, TypeOK, Active
<1> QED
  BY <1>1, <1>2 DEF Undisturbed

LEMMA ThrowOnce ==
  ASSUME OnceInv, IInv', NEW w \in Workers, Active(w),
         NEW category, Throw(w, category),
         NeedsAttention(category) \/ Harmless(w),
         UNCHANGED <<content, execution, outbox, channel, uploads, overrun>>
  PROVE  OnceInv'
<1> USE DEF ChannelQuiet
<1>1. Evolution
  BY DEF Evolution, Evolves, ContentEvolves
<1>2. CASE job'[w].step \in {"idle", "finally"}
  BY <1>1, <1>2, ThrownFails, LeaveOnce DEF OnceInv, IInv
<1>3. CASE job'[w].step \notin {"idle", "finally"}
  <2>1. PICK e \in Executions : e = job[w].execution
    BY DEF OnceInv, IInv, TypeOK, Active
  <2>2. /\ \A v \in Workers \ {w} : job'[v] = job[v]
        /\ job'[w].step = "failed" /\ job'[w].category = category
        /\ job'[w].execution = e /\ job'[w].generation = job[w].generation
        /\ job'[w].state = job[w].state /\ job'[w].provider = job[w].provider
    BY <1>3, <2>1, ThrownFails DEF OnceInv, IInv
  <2>3. Harmless(w) => Harmless(w)'
    BY <2>1, <2>2 DEF Harmless, Referenced, Bound
  <2>4. JobSound(w)'
    BY <2>2, <2>3 DEF JobSound, NeedsAttention
  <2> QED
    BY <1>1, <2>1, <2>2, <2>4, ProceedKeeps, EvolutionKeeps DEF OnceInv
<1> QED
  BY <1>2, <1>3

-----------------------------------------------------------------------------
(* The user, and time *)

LEMMA NobodyThere ==
  ASSUME OnceInv, NEW e \in Executions, execution[e].state = "absent",
         NEW w \in Workers, Active(w)
  PROVE  job[w].execution # e
BY DEF OnceInv, IInv, JobsNameRows, OutcomeAgreement, Active

(* Steps that touch neither jobs, executions nor uploads. *)
LEMMA AsideOnce ==
  ASSUME OnceInv, IInv', UNCHANGED <<job, execution, uploads, overrun>>, ChannelQuiet,
         \A c \in Contents : ContentEvolves(c),
         \A v \in Workers : Active(v) =>
           LET e == job[v].execution IN
           outbox'[e] = outbox[e] \/ outbox'[e].state = "dead"
  PROVE  OnceInv'
<1>1. Evolution
  BY DEF Evolution, Evolves
<1> QED
  BY <1>1, QuitKeeps DEF Active, JobStays, Undisturbed

LEMMA AuthorOnce ==
  ASSUME OnceInv, IInv', NEW c \in Contents, ApproveContent(c) \/ EditContent(c)
  PROVE  OnceInv'
<1>1. ASSUME NEW d \in Contents PROVE ContentEvolves(d)
  BY DEF ContentEvolves, ApproveContent, EditContent, OnceInv, IInv, TypeOK, ContentRows
<1> QED
  BY <1>1, AsideOnce DEF ApproveContent, EditContent, ChannelQuiet, histories

LEMMA ConfirmOnce ==
  ASSUME OnceInv, IInv', NEW c \in Contents, NEW e \in Executions,
         ConfirmPublishing(c, e)
  PROVE  OnceInv'
<1>1. /\ \A v \in Workers : job'[v] = job[v]
      /\ \A f \in Executions \ {e} :
           execution'[f] = execution[f] /\ outbox'[f] = outbox[f]
      /\ \A f \in Executions : uploads'[f] = uploads[f]
      /\ execution'[e].state = "not_started" /\ execution'[e].content = c
      /\ execution'[e].provider = execution[e].provider
      /\ content[c].status # "draft"
      /\ \A d \in Contents : /\ content'[d].status = content[d].status
                             /\ content'[d].bound = content[d].bound
      /\ \A d \in Contents \ {c} : content'[d].latest = content[d].latest
      /\ content'[c].latest = e
      /\ UNCHANGED <<channel, overrun>>
  BY DEF ConfirmPublishing, OnceInv, IInv, TypeOK, ContentRows, ExecutionRows, histories
<1>2. uploads[e] = 0 /\ ~ execution[e].provider /\ execution[e].content = NoContent
  BY DEF ConfirmPublishing, OnceInv, ExecutionsSound, ExecutionSound, ContentsSound
<1>3. ASSUME NEW f \in Executions \ {e} PROVE Referenced(f)' <=> Referenced(f)
  BY <1>1 DEF Referenced, Bound
<1>4. ASSUME NEW v \in Workers, Active(v)
      PROVE  job[v].execution \in Executions \ {e}
  BY <1>4, NobodyThere DEF ConfirmPublishing, OnceInv, IInv, TypeOK, Active
<1>5. ClaimsKept' /\ Alone'
  BY <1>1, <1>4 DEF OnceInv, ClaimsKept, Alone, Active, HoldsClaim
<1>6. ASSUME NEW v \in Workers PROVE JobSound(v)'
  <2>1. CASE ~ Active(v)
    BY <1>1, <2>1 DEF Active, JobSound
  <2>2. CASE Active(v)
    <3>1. PICK f \in Executions \ {e} : f = job[v].execution
      BY <1>4, <2>2
    <3>2. Referenced(f)' <=> Referenced(f)
      BY <1>3
    <3>3. Harmless(v)' <=> Harmless(v)
      BY <1>1, <3>1, <3>2 DEF Harmless
    <3>4. JobSound(v)
      BY DEF OnceInv, JobsSound
    <3>5. CASE job[v].step \in {"upload", "uploaded"}
      <4>1. Latest(f) /\ execution[f].state # "failed"
        BY <3>1, <3>4, <3>5 DEF JobSound
      <4>2. content[c].latest # f
        BY <3>1, <4>1, NullAssumption DEF ConfirmPublishing, Retryable
      <4>3. Latest(f)'
        BY <1>1, <4>1, <4>2 DEF Latest
      <4> QED
        BY <1>1, <3>1, <3>2, <3>3, <3>4, <4>3 DEF JobSound
    <3>6. CASE job[v].step \notin {"upload", "uploaded"}
      BY <1>1, <3>1, <3>2, <3>3, <3>4, <3>6 DEF JobSound
    <3> QED
      BY <3>5, <3>6
  <2> QED
    BY <2>1, <2>2
<1>7. ASSUME NEW f \in Executions PROVE ExecutionSound(f)'
  <2>1. ExecutionSound(f)
    BY DEF OnceInv, ExecutionsSound
  <2> QED
    BY <1>1, <1>2, <1>3, <2>1 DEF ExecutionSound
<1>8. ContentsSound'
  <2>1. ASSUME NEW d \in Contents, content'[d].latest # NoExecution
        PROVE  execution'[content'[d].latest].content = d
    <3>1. CASE d = c
      BY <1>1, <3>1
    <3>2. CASE d # c
      <4>1. PICK f \in Executions : f = content[d].latest
        BY <1>1, <2>1, <3>2 DEF OnceInv, IInv, TypeOK, ContentRows
      <4>2. execution[f].content = d
        BY <1>1, <2>1, <3>2, <4>1 DEF OnceInv, ContentsSound
      <4>3. f # e
        BY <1>2, <4>2, NullAssumption
      <4> QED
        BY <1>1, <3>2, <4>1, <4>2, <4>3
    <3> QED
      BY <3>1, <3>2
  <2>2. \A f \in Executions : execution'[f].state = "absent" <=>
                              execution'[f].content = NoContent
    BY <1>1, NullAssumption DEF OnceInv, ContentsSound
  <2>3. ASSUME NEW f \in Executions, NEW d \in Contents, execution'[f].content = d
        PROVE  /\ content'[d].status # "draft"
               /\ \/ content'[d].latest = f
                  \/ /\ content'[d].latest # NoExecution
                     /\ execution'[f].state \in DeadStates /\ uploads'[f] = 0
    <3>1. CASE f = e
      BY <1>1, <2>3, <3>1
    <3>2. CASE f # e /\ d # c
      BY <1>1, <2>3, <3>2 DEF OnceInv, ContentsSound
    <3>3. CASE f # e /\ d = c
      <4>1. /\ execution[f].content = c /\ content[c].latest # NoExecution
            /\ content[c].status # "draft"
            /\ \/ content[c].latest = f
               \/ execution[f].state \in DeadStates /\ uploads[f] = 0
        BY <1>1, <2>3, <3>3, NullAssumption DEF OnceInv, ContentsSound
      <4>2. CASE content[c].latest = f
        <5>1. /\ execution[f].state = "failed" /\ ~ execution[f].provider
              /\ content[c].bound
          BY <4>1, <4>2 DEF ConfirmPublishing, Retryable
        <5>2. ~ Referenced(f)
          BY <4>1, <5>1 DEF Referenced, Bound
        <5>3. uploads[f] = 0
          BY <5>1, <5>2 DEF OnceInv, ExecutionsSound, ExecutionSound
        <5> QED
          BY <1>1, <3>3, <4>1, <5>1, <5>3, NullAssumption
      <4>3. CASE execution[f].state \in DeadStates /\ uploads[f] = 0
        BY <1>1, <3>3, <4>1, <4>3, NullAssumption
      <4> QED
        BY <4>1, <4>2, <4>3
    <3> QED
      BY <3>1, <3>2, <3>3
  <2> QED
    BY <2>1, <2>2, <2>3 DEF ContentsSound
<1> QED
  BY <1>1, <1>5, <1>6, <1>7, <1>8 DEF OnceInv, JobsSound, ExecutionsSound

LEMMA ExpireOnce ==
  ASSUME OnceInv, IInv', Faults \cap {"stall"} = {},
         ExpireLease \/ \E e \in Executions : ExpireClaim(e)
  PROVE  OnceInv'
<1> USE DEF ChannelQuiet, histories
<1>1. CASE ExpireLease
  BY <1>1, AsideOnce DEF ExpireLease, ContentEvolves
<1>2. ASSUME NEW e \in Executions, ExpireClaim(e) PROVE OnceInv'
  <2>1. ~ \E w \in Workers : job[w].execution = e /\ outbox[e].owner = w
    BY <1>2 DEF ExpireClaim, Spend
  <2>2. ASSUME NEW v \in Workers, Active(v)
        PROVE  LET f == job[v].execution IN
               outbox'[f] = outbox[f] \/ outbox'[f].state = "dead"
    <3>1. job[v].execution # e
      BY <1>2, <2>1, <2>2 DEF OnceInv, ClaimsKept, HoldsClaim, ExpireClaim
    <3> QED
      BY <1>2, <2>2, <3>1 DEF ExpireClaim, OnceInv, IInv, TypeOK
  <2> QED
    BY <1>2, <2>2, AsideOnce DEF ExpireClaim, ContentEvolves
<1> QED
  BY <1>1, <1>2

LEMMA ChannelOnce ==
  ASSUME OnceInv, IInv',
         \/ ReadChannel \/ BeginConnection \/ CompleteConnection \/ DenyConnection
         \/ ReadUnstarted \/ ReadOpen \/ FinishDisconnect
         \/ UNCHANGED vars
  PROVE  OnceInv'
<1>1. /\ UNCHANGED <<job, execution, outbox, content, uploads, overrun>>
      /\ \/ channel'.state \in {channel.state, "connecting", "disconnected",
                                "not_connected"}
         \/ \A v \in Workers : job[v].step # "reading"
  BY DEF ReadChannel, BeginConnection, CompleteConnection, DenyConnection, ReadUnstarted,
         ReadOpen, FinishDisconnect, WithoutLease, vars, histories,
         OnceInv, IInv, TypeOK, ChannelRows
<1>2. ChannelQuiet
  BY <1>1 DEF ChannelQuiet
<1> QED
  BY <1>1, <1>2, AsideOnce DEF ContentEvolves

-----------------------------------------------------------------------------
(* The disconnection *)

(* What a disconnection writes: the ends that it has read, which is none of what was
   published. *)
LEMMA EndsOnce ==
  ASSUME OnceInv, NEW e \in Executions
  PROVE  \/ ~ Ended(e) /\ EndedState(e) = execution[e].state
         \/ /\ Ended(e) /\ EndedState(e) \in {"cancelled", "needs_attention"}
            /\ execution[e].state \in OpenStates \cup DeadStates
BY DEF OnceInv, IInv, TypeOK, Transactions, Window, Ended, EndedState

LEMMA PrepareOnce ==
  ASSUME OnceInv, IInv', PrepareDisconnect
  PROVE  OnceInv'
<1>1. /\ \A v \in Workers : job'[v] = job[v]
      /\ UNCHANGED <<content, uploads, overrun>>
      /\ channel'.state = "disconnecting"
  BY DEF PrepareDisconnect, histories, OnceInv, IInv, TypeOK, ChannelRows
<1>2. ASSUME NEW e \in Executions
      PROVE  /\ execution'[e].content = execution[e].content
             /\ execution'[e].provider = execution[e].provider
             /\ \/ execution'[e].state = execution[e].state /\ outbox'[e] = outbox[e]
                \/ /\ execution[e].state \in OpenStates \cup DeadStates
                   /\ execution'[e].state \in {"cancelled", "needs_attention"}
                   /\ outbox'[e].state = "dead"
  <2>1. execution[e] \in ExecutionRows /\ outbox[e] \in OutboxRows
    BY DEF OnceInv, IInv, TypeOK
  <2>2. /\ execution'[e] = [execution[e] EXCEPT !.state = EndedState(e)]
        /\ outbox'[e] = IF Ended(e) THEN ClosedRow(outbox[e]) ELSE outbox[e]
    BY DEF PrepareDisconnect
  <2>3. ClosedRow(outbox[e]).state = "dead"
    BY <2>1, UnclaimedRow DEF ClosedRow
  <2> QED
    BY <2>1, <2>2, <2>3, EndsOnce DEF ExecutionRows
<1>3. Evolution
  BY <1>1, <1>2 DEF Evolution, Evolves, ContentEvolves
<1>4. \A e \in Executions : Undisturbed(e)
  BY <1>1, <1>2 DEF Undisturbed
<1>5. \A v \in Workers : Active(v) => job[v].execution \in Executions
  BY DEF OnceInv, IInv, TypeOK, Active
<1> QED
  BY <1>1, <1>3, <1>4, <1>5, QuitKeeps DEF Active, JobStays, ChannelQuiet

LEMMA RevokeOnce ==
  ASSUME OnceInv, IInv', RevokeAndErase
  PROVE  OnceInv'
<1>1. /\ \A v \in Workers : job'[v] = job[v]
      /\ UNCHANGED <<uploads, overrun>>
      /\ \A c \in Contents : content'[c] = [content[c] EXCEPT !.bound = FALSE]
      /\ channel'.state = channel.state /\ channel.state # "connected"
  BY DEF RevokeAndErase, ForgetAccount, WithoutLease, histories,
         OnceInv, IInv, TypeOK, ChannelRows, Window
<1>2. \A c \in Contents : ContentEvolves(c) /\ ~ content'[c].bound
  BY <1>1 DEF ContentEvolves, OnceInv, IInv, TypeOK, ContentRows
<1>3. ASSUME NEW e \in Executions
      PROVE  /\ execution'[e].content = execution[e].content
             /\ \/ execution'[e].provider = execution[e].provider
                \/ ~ execution'[e].provider
             /\ outbox'[e] = outbox[e] \/ outbox'[e].state = "dead"
             /\ \/ execution'[e].state = execution[e].state
                \/ /\ execution[e].state \in OpenStates \cup DeadStates
                   /\ execution'[e].state \in {"cancelled", "needs_attention"}
  <2> DEFINE q == execution[e].provider /\ ~ Bound(e)
  <2>1. execution[e] \in ExecutionRows /\ outbox[e] \in OutboxRows
    BY DEF OnceInv, IInv, TypeOK
  <2>2. /\ execution'[e] = [execution[e] EXCEPT !.state = EndedState(e), !.provider = q]
        /\ outbox'[e] = IF Ended(e) /\ outbox[e].state \notin {"completed", "dead"}
                        THEN ClosedRow(outbox[e]) ELSE outbox[e]
    BY DEF RevokeAndErase
  <2>3. ClosedRow(outbox[e]).state = "dead"
    BY <2>1, UnclaimedRow DEF ClosedRow
  <2>4. q = execution[e].provider \/ ~ q
    BY <2>1 DEF ExecutionRows
  <2> HIDE DEF q
  <2> QED
    BY <2>1, <2>2, <2>3, <2>4, EndsOnce DEF ExecutionRows
<1>4. ASSUME NEW e \in Executions PROVE ~ Bound(e)'
  BY <1>2 DEF Bound
<1>5. Evolution
  BY <1>1, <1>2, <1>3, <1>4 DEF Evolution, Evolves
<1>6. \A e \in Executions : Undisturbed(e)
  BY <1>1, <1>3 DEF Undisturbed
<1>7. \A v \in Workers : Active(v) => job[v].execution \in Executions
  BY DEF OnceInv, IInv, TypeOK, Active
<1> QED
  BY <1>1, <1>5, <1>6, <1>7, QuitKeeps DEF Active, JobStays, ChannelQuiet

-----------------------------------------------------------------------------
(* The worker *)

LEMMA ClaimMessageOnce ==
  ASSUME OnceInv, IInv', NEW w \in Workers, NEW e \in Executions, ClaimMessage(w, e)
  PROVE  OnceInv'
<1>1. /\ \A v \in Workers \ {w} : job'[v] = job[v]
      /\ \A f \in Executions \ {e} : outbox'[f] = outbox[f]
      /\ UNCHANGED <<content, execution, channel, uploads, overrun>>
      /\ job'[w].step = "claimed" /\ job'[w].execution = e /\ job'[w].state = "none"
      /\ job'[w].generation = outbox[e].generation + 1
      /\ outbox'[e].state = "claimed" /\ outbox'[e].owner = w /\ outbox'[e].live
      /\ outbox'[e].generation = outbox[e].generation + 1
  BY DEF ClaimMessage, ClaimedBy, NoJob, OnceInv, IInv, TypeOK, OutboxRows, histories
<1>2. ASSUME NEW v \in Workers, Active(v) PROVE job[v].execution # e
  BY <1>2 DEF ClaimMessage, Claimable, OnceInv, ClaimsKept, HoldsClaim
<1>3. ClaimsKept'
  <2> SUFFICES ASSUME NEW v \in Workers, Active(v)'
               PROVE  (HoldsClaim(v) \/ outbox[job[v].execution].state = "dead")'
    BY DEF ClaimsKept
  <2>1. CASE v = w
    BY <1>1, <2>1 DEF HoldsClaim
  <2>2. CASE v # w
    <3>1. Active(v) /\ job'[v] = job[v]
      BY <1>1, <2>2 DEF Active
    <3>2. outbox'[job[v].execution] = outbox[job[v].execution]
      BY <1>1, <1>2, <3>1 DEF OnceInv, IInv, TypeOK, Active
    <3> QED
      BY <3>1, <3>2 DEF OnceInv, ClaimsKept, HoldsClaim
  <2> QED
    BY <2>1, <2>2
<1>4. Alone'
  BY <1>1, <1>2 DEF OnceInv, Alone, Active
<1>5. ASSUME NEW v \in Workers PROVE JobSound(v)'
  <2>1. CASE v = w
    BY <1>1, <2>1 DEF JobSound
  <2>2. CASE v # w
    <3>1. Harmless(v)' <=> Harmless(v)
      BY <1>1, <2>2 DEF Harmless, Referenced, Bound
    <3>2. JobSound(v)' <=> JobSound(v)
      BY <1>1, <2>2, <3>1 DEF JobSound, Referenced, Bound, Latest
    <3> QED
      BY <3>2 DEF OnceInv, JobsSound
  <2> QED
    BY <2>1, <2>2
<1>6. Evolution
  BY <1>1 DEF Evolution, Evolves, ContentEvolves
<1> QED
  BY <1>1, <1>3, <1>4, <1>5, <1>6, EvolutionKeeps DEF OnceInv, JobsSound

LEMMA ReadExecutionOnce ==
  ASSUME OnceInv, IInv', NEW w \in Workers, ReadExecution(w)
  PROVE  OnceInv'
<1>1. PICK e \in Executions : e = job[w].execution
  BY DEF ReadExecution, OnceInv, IInv, TypeOK
<1>2. /\ Active(w)
      /\ \A v \in Workers \ {w} : job'[v] = job[v]
      /\ job'[w].step = "reading"
      /\ job'[w].execution = e /\ job'[w].generation = job[w].generation
      /\ job'[w].state = execution[e].state
      /\ job'[w].provider = execution[e].provider
      /\ UNCHANGED <<content, execution, outbox, channel, uploads, overrun>>
  BY <1>1 DEF ReadExecution, Active, histories, OnceInv, IInv, TypeOK, Jobs
<1>3. /\ execution[e] \in ExecutionRows /\ ExecutionSound(e)
      /\ execution[e].state \in OpenStates
      /\ execution[e].state = "publishing" => execution[e].provider
      /\ Bound(e)
  BY <1>1 DEF ReadExecution, ReadRefusal, OnceInv, IInv, TypeOK, ExecutionRows,
              ExecutionsSound, JobsNameRows, OutcomeAgreement
<1>4. execution[e].state # "not_started" => execution[e].provider
  BY <1>3 DEF ExecutionSound, Referenced
<1>5. JobSound(w)'
  BY <1>2, <1>3, <1>4 DEF JobSound, Referenced
<1>6. Evolution
  BY <1>2 DEF Evolution, Evolves, ContentEvolves
<1> QED
  BY <1>1, <1>2, <1>5, <1>6, ProceedKeeps, EvolutionKeeps DEF OnceInv, ChannelQuiet

LEMMA ReadWorkOnce ==
  ASSUME OnceInv, IInv', NEW w \in Workers, ReadWork(w)
  PROVE  OnceInv'
<1>1. PICK e \in Executions : e = job[w].execution
  BY DEF ReadWork, OnceInv, IInv, TypeOK
<1>2. PICK state : state = Started(job[w].state)
  OBVIOUS
<1>3. /\ execution[e] \in ExecutionRows /\ ExecutionSound(e)
      /\ execution[e].state = job[w].state /\ job[w].state \in OpenStates
      /\ job[w].state # "not_started" => job[w].provider
      /\ job[w].provider => Referenced(e)
  BY <1>1 DEF ReadWork, Leasable, OnceInv, JobsSound, JobSound, IInv, TypeOK,
              ExecutionsSound
<1>4. /\ \A v \in Workers \ {w} : job'[v] = job[v]
      /\ job'[w].step = FirstStep(state, job[w].provider)
      /\ job'[w].execution = e /\ job'[w].generation = job[w].generation
      /\ job'[w].state = state /\ job'[w].provider = job[w].provider
  <2>1. job' = [job EXCEPT ![w] = [job[w] EXCEPT
          !.lease = channel.generation, !.state = state,
          !.step = FirstStep(state, job[w].provider)]]
    BY <1>1, <1>2 DEF ReadWork
  <2>2. job[w] \in Jobs /\ job \in [Workers -> Jobs]
    BY DEF OnceInv, IInv, TypeOK
  <2> QED
    BY <1>1, <2>1, <2>2 DEF Jobs
<1>5. /\ state \in {"publishing", "processing"}
      /\ execution[e].state = "not_started" => state = "publishing" /\ uploads[e] = 0
      /\ execution[e].state # "not_started" => state = execution[e].state
      /\ execution[e].state # "not_started" => job[w].provider
  BY <1>2, <1>3 DEF Started, ExecutionSound
<1>6. /\ \A f \in Executions \ {e} : execution'[f] = execution[f]
      /\ execution'[e].state = state
      /\ execution'[e].provider = execution[e].provider
      /\ execution'[e].content = execution[e].content
      /\ UNCHANGED <<content, outbox, uploads, overrun>>
      /\ channel.state = "connected"
  BY <1>1, <1>3, <1>5 DEF ReadWork, Leasable, OnceInv, IInv, TypeOK, ExecutionRows
<1>7. Referenced(e) => Referenced(e)'
  BY <1>6 DEF Referenced, Bound
<1>8. execution[e].state = "not_started" => Latest(e)'
  <2>1. execution[e].state = "not_started" => Latest(e)
    BY DEF Latest, OnceInv, ContentsSound
  <2> QED
    BY <1>6, <2>1 DEF Latest
<1>9. JobSound(w)'
  BY <1>3, <1>4, <1>5, <1>6, <1>7, <1>8 DEF JobSound, FirstStep, ExecutionSound
<1>10. ASSUME NEW f \in Executions PROVE ExecutionSound(f)'
  <2>1. Referenced(f)' <=> Referenced(f)
    BY <1>6 DEF Referenced, Bound
  <2>2. ExecutionSound(f)
    BY DEF OnceInv, ExecutionsSound
  <2> QED
    BY <1>3, <1>5, <1>6, <2>1, <2>2 DEF ExecutionSound
<1>11. ContentsSound'
  BY <1>3, <1>5, <1>6 DEF OnceInv, ContentsSound, IInv, TypeOK, ContentRows
<1>12. Active(w)
  BY DEF ReadWork, Active
<1> QED
  BY <1>1, <1>4, <1>6, <1>9, <1>10, <1>11, <1>12, ProceedKeeps
     DEF OnceInv, ExecutionsSound, ChannelQuiet

LEMMA ReadRefusedOnce ==
  ASSUME OnceInv, IInv', NEW w \in Workers, ReadRefused(w)
  PROVE  OnceInv'
<1>1. PICK e \in Executions : e = job[w].execution
  BY DEF ReadRefused, OnceInv, IInv, TypeOK
<1>2. /\ Active(w) /\ job[w].step \in {"claimed", "reading"}
      /\ UNCHANGED <<content, execution, outbox, channel, uploads, overrun>>
  BY DEF ReadRefused, Active, histories
<1>3. PICK category :
        /\ ReadFailed(w, category)
        /\ NeedsAttention(category) \/ (execution[e].state = "publishing" => Referenced(e))
  BY <1>1 DEF ReadRefused, ReadRefusal, NeedsAttention, Referenced, OnceInv, JobsSound,
              JobSound
<1>4. Evolution
  BY <1>2 DEF Evolution, Evolves, ContentEvolves
<1>5. CASE job'[w].step = "idle"
  BY <1>2, <1>3, <1>4, <1>5, UnreadFails, LeaveOnce DEF OnceInv, IInv, ChannelQuiet
<1>6. CASE job'[w].step # "idle"
  <2>1. /\ \A v \in Workers \ {w} : job'[v] = job[v]
        /\ job'[w].step = "failed" /\ job'[w].category = category
        /\ job'[w].execution = e /\ job'[w].generation = job[w].generation
        /\ job'[w].state = "none"
    BY <1>1, <1>2, <1>3, <1>6, UnreadFails DEF OnceInv, IInv
  <2>2. JobSound(w)'
    BY <1>2, <1>3, <2>1 DEF JobSound, Harmless, NeedsAttention, Referenced, Bound
  <2> QED
    BY <1>1, <1>2, <1>4, <2>1, <2>2, ProceedKeeps, EvolutionKeeps DEF OnceInv, ChannelQuiet
<1> QED
  BY <1>5, <1>6

LEMMA AttemptFailedOnce ==
  ASSUME OnceInv, IInv', NEW w \in Workers, AttemptFailed(w)
  PROVE  OnceInv'
<1>1. Active(w) /\ Harmless(w)
  BY DEF AttemptFailed, Active, OnceInv, JobsSound, JobSound, Harmless, Referenced
<1>2. PICK category : Throw(w, category)
  BY DEF AttemptFailed
<1> QED
  BY <1>1, <1>2, ThrowOnce DEF AttemptFailed, histories

(* The provider creates the object, and the worker knows it or not. *)
LEMMA UploadOnce ==
  ASSUME OnceInv, IInv', NEW w \in Workers, UploadAccepted(w) \/ UploadAmbiguous(w)
  PROVE  OnceInv'
<1>1. PICK e \in Executions : e = job[w].execution
  BY DEF UploadAccepted, UploadAmbiguous, OnceInv, IInv, TypeOK
<1>2. /\ Active(w) /\ uploads[e] = 0
      /\ execution[e].state \in {"publishing", "cancelled", "needs_attention"}
      /\ ~ execution[e].provider
      /\ job[w].state = "publishing" /\ ~ job[w].provider
      /\ Latest(e)
  BY <1>1 DEF UploadAccepted, UploadAmbiguous, Active, OnceInv, JobsSound, JobSound
<1>3. /\ UNCHANGED <<content, execution, outbox, channel, overrun>> /\ ChannelQuiet
      /\ \A f \in Executions \ {e} : uploads'[f] = uploads[f]
      /\ uploads'[e] \in {0, 1}
  BY <1>1, <1>2 DEF UploadAccepted, UploadAmbiguous, OnceInv, IInv, TypeOK, ChannelQuiet
<1>4. ASSUME NEW f \in Executions PROVE ExecutionSound(f)'
  BY <1>2, <1>3 DEF OnceInv, ExecutionsSound, ExecutionSound, Referenced, Bound
<1>5. ContentsSound'
  BY <1>2, <1>3 DEF OnceInv, ContentsSound, Latest
<1>6. CASE UploadAccepted(w)
  <2>1. /\ \A v \in Workers \ {w} : job'[v] = job[v]
        /\ job'[w].step = "uploaded" /\ job'[w].execution = e
        /\ job'[w].generation = job[w].generation
        /\ job'[w].state = job[w].state /\ job'[w].provider = job[w].provider
        /\ uploads'[e] = 1
    BY <1>1, <1>2, <1>6 DEF UploadAccepted, OnceInv, IInv, TypeOK, Jobs
  <2>2. JobSound(w)'
    BY <1>2, <1>3, <2>1 DEF JobSound, Latest
  <2> QED
    BY <1>1, <1>2, <1>3, <1>4, <1>5, <2>1, <2>2, ProceedKeeps
    DEF OnceInv, ExecutionsSound
<1>7. CASE UploadAmbiguous(w)
  <2>1. /\ \A v \in Workers \ {w} : job'[v] = job[v]
        /\ \/ job'[w].step \in {"idle", "finally"}
           \/ /\ job'[w].step = "failed" /\ job'[w].category = "attention"
              /\ job'[w].execution = e
              /\ job'[w].generation = job[w].generation
    BY <1>1, <1>7, ThrownFails DEF UploadAmbiguous, OnceInv, IInv
  <2>2. CASE job'[w].step = "failed"
    <3>1. JobSound(w)'
      BY <2>1, <2>2 DEF JobSound, NeedsAttention
    <3> QED
      BY <1>1, <1>2, <1>3, <1>4, <1>5, <2>1, <2>2, <3>1, ProceedKeeps
      DEF OnceInv, ExecutionsSound
  <2>3. CASE job'[w].step \in {"idle", "finally"}
    <3>1. ClaimsKept' /\ Alone'
      BY <1>3, <2>1, <2>3 DEF OnceInv, ClaimsKept, Alone, Active, HoldsClaim
    <3>2. ASSUME NEW v \in Workers PROVE JobSound(v)'
      <4>1. CASE v = w \/ ~ Active(v)
        BY <2>1, <2>3, <4>1 DEF JobSound, Active
      <4>2. CASE v # w /\ Active(v)
        <5>1. PICK f \in Executions \ {e} : f = job[v].execution
          BY <1>1, <1>2, <4>2 DEF OnceInv, Alone, IInv, TypeOK, Active
        <5>2. Harmless(v)' <=> Harmless(v)
          BY <1>3, <2>1, <4>2, <5>1 DEF Harmless, Referenced, Bound
        <5>3. JobSound(v)' <=> JobSound(v)
          BY <1>3, <2>1, <4>2, <5>1, <5>2 DEF JobSound, Referenced, Bound, Latest
        <5> QED
          BY <5>3 DEF OnceInv, JobsSound
      <4> QED
        BY <4>1, <4>2
    <3> QED
      BY <1>3, <1>4, <1>5, <3>1, <3>2 DEF OnceInv, JobsSound, ExecutionsSound
  <2> QED
    BY <2>1, <2>2, <2>3
<1> QED
  BY <1>6, <1>7

-----------------------------------------------------------------------------
(* The record of an upload *)

LEMMA NothingWritten ==
  ASSUME OnceInv, IInv', NEW w \in Workers, Active(w), Leave(w),
         UNCHANGED <<content, execution, outbox, uploads, overrun>>, ChannelQuiet
  PROVE  OnceInv'
<1>1. Evolution
  BY DEF Evolution, Evolves, ContentEvolves
<1> QED
  BY <1>1, LeftQuits, LeaveOnce DEF OnceInv, IInv

(* A worker with its reference at hand moves its execution on. *)
LEMMA MoveOnce ==
  ASSUME OnceInv, IInv', NEW w \in Workers, Active(w), NEW e \in Executions,
         e = job[w].execution, uploads[e] = 1,
         UNCHANGED <<content, outbox, channel, uploads, overrun>>,
         \A f \in Executions \ {e} : execution'[f] = execution[f],
         execution'[e].content = execution[e].content,
         execution[e].state = "publishing",
         execution'[e].state \in {"publishing", "processing"},
         execution'[e].provider,
         \A v \in Workers \ {w} : job'[v] = job[v],
         job'[w].execution = e, job'[w].generation = job[w].generation,
         job'[w].provider, job'[w].step \in {"transfer", "poll"}
  PROVE  OnceInv'
<1>1. JobSound(w)'
  BY DEF JobSound, Referenced
<1>2. ASSUME NEW f \in Executions PROVE ExecutionSound(f)'
  <2>1. Bound(f)' <=> Bound(f)
    BY DEF Bound
  <2>2. ExecutionSound(f)
    BY DEF OnceInv, ExecutionsSound
  <2> QED
    BY <2>1, <2>2 DEF ExecutionSound, Referenced
<1>3. ContentsSound'
  <2>1. ContentsSound
    BY DEF OnceInv
  <2>2. \A f \in Executions :
          /\ execution'[f].content = execution[f].content
          /\ f = e \/ execution'[f].state = execution[f].state
    OBVIOUS
  <2>3. \A c \in Contents : content[c].latest \in Executions \cup {NoExecution}
    BY DEF OnceInv, IInv, TypeOK, ContentRows
  <2>4. execution[e].state \notin {"absent", "failed"}
        /\ execution'[e].state \notin {"absent", "failed"}
    OBVIOUS
  <2> QED
    BY <2>1, <2>2, <2>3, <2>4 DEF ContentsSound
<1> QED
  BY <1>1, <1>2, <1>3, ProceedKeeps DEF OnceInv, ExecutionsSound, ChannelQuiet

LEMMA RecordUploadOnce ==
  ASSUME OnceInv, IInv', NEW w \in Workers, RecordUpload(w)
  PROVE  OnceInv'
<1> USE DEF ChannelQuiet, histories
<1>1. PICK e \in Executions : e = job[w].execution
  BY DEF RecordUpload, OnceInv, IInv, TypeOK
<1>2. /\ Active(w) /\ uploads[e] = 1
      /\ execution[e].state \in {"publishing", "cancelled", "needs_attention"}
      /\ ~ execution[e].provider
      /\ job[w].state = "publishing" /\ ~ job[w].provider
  BY <1>1 DEF RecordUpload, Active, OnceInv, JobsSound, JobSound
<1>3. CASE UploadRecordable(e) /\ UploadRecorded(e)
           /\ job' = [job EXCEPT ![w].provider = TRUE,
                        ![w].step = IF Platform = "tiktok" THEN "transfer" ELSE "poll"]
  <2>1. execution[e] \in ExecutionRows /\ job[w] \in Jobs
    BY DEF OnceInv, IInv, TypeOK
  <2>2. /\ \A f \in Executions \ {e} : execution'[f] = execution[f]
        /\ execution'[e].content = execution[e].content
        /\ execution'[e].state \in {"publishing", "processing"}
        /\ execution'[e].provider
    BY <1>3, <2>1 DEF UploadRecorded, OnceInv, IInv, TypeOK, ExecutionRows
  <2>3. /\ \A v \in Workers \ {w} : job'[v] = job[v]
        /\ job'[w].execution = e /\ job'[w].generation = job[w].generation
        /\ job'[w].provider /\ job'[w].step \in {"transfer", "poll"}
    BY <1>1, <1>3, <2>1 DEF OnceInv, IInv, TypeOK, Jobs
  <2> QED
    BY <1>1, <1>2, <1>3, <2>2, <2>3, MoveOnce DEF RecordUpload, UploadRecordable
<1>4. CASE ~ UploadRecordable(e) /\ Throw(w, "transient") /\ UNCHANGED execution
  <2>1. Harmless(w)
    BY <1>1, <1>2, <1>4 DEF Harmless, UploadRecordable
  <2> QED
    BY <1>2, <1>4, <2>1, ThrowOnce DEF RecordUpload
<1>5. CASE Leave(w) /\ UNCHANGED execution
  BY <1>2, <1>5, NothingWritten DEF RecordUpload
<1> QED
  BY <1>1, <1>3, <1>4, <1>5 DEF RecordUpload

LEMMA RecordTransferOnce ==
  ASSUME OnceInv, IInv', NEW w \in Workers, RecordTransfer(w)
  PROVE  OnceInv'
<1> USE DEF ChannelQuiet, histories
<1>1. PICK e \in Executions : e = job[w].execution
  BY DEF RecordTransfer, OnceInv, IInv, TypeOK
<1>2. Active(w) /\ job[w].provider /\ Referenced(e)
  BY <1>1 DEF RecordTransfer, Active, OnceInv, JobsSound, JobSound
<1>3. CASE /\ TransferRecordable(e)
           /\ execution' = [execution EXCEPT ![e].state = "processing"]
           /\ job' = [job EXCEPT ![w].step = "poll"]
  <2>1. execution[e] \in ExecutionRows /\ job[w] \in Jobs /\ uploads[e] = 1
    BY <1>3 DEF TransferRecordable, OnceInv, IInv, TypeOK, ExecutionsSound, ExecutionSound
  <2>2. /\ \A f \in Executions \ {e} : execution'[f] = execution[f]
        /\ execution'[e].content = execution[e].content
        /\ execution'[e].state = "processing"
        /\ execution'[e].provider
    BY <1>3, <2>1 DEF TransferRecordable, OnceInv, IInv, TypeOK, ExecutionRows
  <2>3. /\ \A v \in Workers \ {w} : job'[v] = job[v]
        /\ job'[w].execution = e /\ job'[w].generation = job[w].generation
        /\ job'[w].provider /\ job'[w].step = "poll"
    BY <1>1, <1>2, <1>3, <2>1 DEF OnceInv, IInv, TypeOK, Jobs
  <2> QED
    BY <1>1, <1>2, <1>3, <2>1, <2>2, <2>3, MoveOnce DEF RecordTransfer, TransferRecordable
<1>4. CASE Throw(w, "transient") /\ UNCHANGED execution
  <2>1. Harmless(w)
    BY <1>1, <1>2 DEF Harmless, Referenced
  <2> QED
    BY <1>2, <1>4, <2>1, ThrowOnce DEF RecordTransfer
<1>5. CASE Leave(w) /\ UNCHANGED execution
  BY <1>2, <1>5, NothingWritten DEF RecordTransfer
<1> QED
  BY <1>1, <1>3, <1>4, <1>5 DEF RecordTransfer

-----------------------------------------------------------------------------
(* The end of a message *)

LEMMA PollPublishedOnce ==
  ASSUME OnceInv, IInv', NEW w \in Workers, PollPublished(w)
  PROVE  OnceInv'
<1> USE DEF ChannelQuiet, histories
<1>1. PICK e \in Executions : e = job[w].execution
  BY DEF PollPublished, OnceInv, IInv, TypeOK
<1>2. Active(w) /\ job[w].provider /\ Referenced(e)
  BY <1>1 DEF PollPublished, Active, OnceInv, JobsSound, JobSound
<1>3. CASE /\ execution[e].state \in {"processing", "published"}
           /\ execution' = [execution EXCEPT ![e].state = "published"]
           /\ EndClaim(e, "completed", 0) /\ Leave(w)
  <2>1. \A f \in Executions \ {e} : outbox'[f] = outbox[f]
    BY <1>3, EndClaimOthers DEF OnceInv, IInv
  <2>2. Evolution
    BY <1>3 DEF PollPublished, Evolution, Evolves, ContentEvolves,
                OnceInv, IInv, TypeOK, ExecutionRows
  <2> QED
    BY <1>1, <1>2, <1>3, <2>1, <2>2, LeftQuits, LeaveOnce
       DEF OnceInv, IInv, TypeOK, PollPublished
<1>4. CASE Throw(w, "transient") /\ UNCHANGED <<execution, outbox>>
  <2>1. Harmless(w)
    BY <1>1, <1>2 DEF Harmless
  <2> QED
    BY <1>2, <1>4, <2>1, ThrowOnce DEF PollPublished
<1>5. CASE Leave(w) /\ UNCHANGED <<execution, outbox>>
  BY <1>2, <1>5, NothingWritten DEF PollPublished
<1> QED
  BY <1>1, <1>3, <1>4, <1>5 DEF PollPublished

LEMMA FailureOnce ==
  ASSUME OnceInv, IInv', NEW w \in Workers, Active(w),
         NEW state \in {"failed", "needs_attention"}, NEW reauthorize \in BOOLEAN,
         RecordFailure(w, state, reauthorize), UNCHANGED <<uploads, overrun>>,
         job[w].state # "none" \/ Referenced(job[w].execution),
         state = "failed" => Harmless(w),
         job[w].step # "failed" => Harmless(w)
  PROVE  OnceInv'
<1>1. PICK e \in Executions : e = job[w].execution
  BY DEF Active, OnceInv, IInv, TypeOK
<1> ChannelQuiet
  BY DEF RecordFailure, ChannelQuiet, OnceInv, IInv, TypeOK, ChannelRows
<1>2. CASE /\ FailExecution(w, state, reauthorize)
           /\ EndClaim(e, "dead", 0) /\ Leave(w)
           /\ \/ reauthorize /\ ForgetAccount
              \/ ~ reauthorize /\ UNCHANGED content
  <2>1. \A f \in Executions \ {e} : outbox'[f] = outbox[f]
    BY <1>2, EndClaimOthers DEF OnceInv, IInv
  <2>2. \A c \in Contents : ContentEvolves(c)
    BY <1>2 DEF ForgetAccount, ContentEvolves, OnceInv, IInv, TypeOK, ContentRows
  <2>3. ASSUME NEW f \in Executions
        PROVE  /\ execution'[f].content = execution[f].content
               /\ execution'[f].state =
                    IF f = e /\ execution[f].state \in OpenStates
                    THEN state ELSE execution[f].state
               /\ \/ execution'[f].provider = execution[f].provider
                  \/ ~ execution'[f].provider /\ reauthorize
    <3>1. execution[f] \in ExecutionRows
      BY DEF OnceInv, IInv, TypeOK
    <3> DEFINE s == IF f = e /\ execution[f].state \in OpenStates
                    THEN state ELSE execution[f].state
               p == execution[f].provider /\ ~ (reauthorize /\ Bound(f))
    <3>2. execution'[f] = [execution[f] EXCEPT !.state = s, !.provider = p]
      BY <1>1, <1>2 DEF FailExecution
    <3>3. p = execution[f].provider \/ (~ p /\ reauthorize)
      BY <3>1 DEF ExecutionRows
    <3> HIDE DEF s, p
    <3>4. /\ execution'[f].content = execution[f].content
          /\ execution'[f].state = s /\ execution'[f].provider = p
      BY <3>1, <3>2 DEF ExecutionRows
    <3> QED
      BY <3>3, <3>4 DEF s
  <2>4. ASSUME NEW f \in Executions, reauthorize PROVE ~ Bound(f)'
    BY <1>2, <2>4 DEF ForgetAccount, Bound, OnceInv, IInv, TypeOK, ContentRows
  <2>5. state = "failed" /\ execution[e].state \in OpenStates =>
          uploads[e] = 0 \/ Referenced(e)
    BY <1>1 DEF Harmless
  <2>6. ASSUME NEW f \in Executions PROVE Evolves(f)
    BY <2>3, <2>4, <2>5 DEF Evolves
  <2>7. \A f \in Executions \ {e} : execution'[f].state = execution[f].state
    BY <2>3
  <2> QED
    BY <1>1, <1>2, <2>1, <2>2, <2>6, <2>7, LeftQuits, LeaveOnce
    DEF Evolution, OnceInv, IInv
<1>3. CASE Leave(w) /\ UNCHANGED <<content, execution, outbox>>
  BY <1>3, NothingWritten
<1>4. CASE /\ job[w].step # "failed" /\ Throw(w, "transient")
           /\ UNCHANGED <<content, execution, outbox, channel>>
  BY <1>4, ThrowOnce
<1> QED
  BY <1>1, <1>2, <1>3, <1>4 DEF RecordFailure

LEMMA GiveBackOnce ==
  ASSUME OnceInv, IInv', NEW w \in Workers, Active(w), NEW n,
         FinishRetry(w, n), UNCHANGED <<uploads, overrun>>
  PROVE  OnceInv'
<1>1. PICK e \in Executions : e = job[w].execution
  BY DEF Active, OnceInv, IInv, TypeOK
<1>2. \A f \in Executions \ {e} : outbox'[f] = outbox[f]
  BY <1>1, EndClaimOthers DEF FinishRetry, OnceInv, IInv
<1>3. Evolution /\ ChannelQuiet
  BY DEF FinishRetry, Evolution, Evolves, ContentEvolves, ChannelQuiet
<1> QED
  BY <1>1, <1>2, <1>3, LeftQuits, LeaveOnce DEF FinishRetry, OnceInv, IInv

LEMMA PollOnce ==
  ASSUME OnceInv, IInv', NEW w \in Workers, PollFailed(w) \/ PollProcessing(w)
  PROVE  OnceInv'
<1> USE DEF ChannelQuiet, histories
<1>1. Active(w) /\ job[w].provider /\ Referenced(job[w].execution)
  BY DEF PollFailed, PollProcessing, Active, OnceInv, JobsSound, JobSound
<1>2. Harmless(w)
  BY <1>1 DEF Harmless
<1>3. \/ RecordFailure(w, "failed", FALSE)
      \/ RecordFailure(w, "needs_attention", TRUE)
      \/ RecordFailure(w, "needs_attention", FALSE)
      \/ FinishRetry(w, 0) \/ FinishRetry(w, 1)
  BY DEF PollFailed, PollProcessing
<1> QED
  BY <1>1, <1>2, <1>3, FailureOnce, GiveBackOnce DEF PollFailed, PollProcessing

-----------------------------------------------------------------------------
(* The catch and finally blocks *)

LEMMA FailWithWorkOnce ==
  ASSUME OnceInv, IInv', NEW w \in Workers, FailWithWork(w)
  PROVE  OnceInv'
<1> USE DEF ChannelQuiet, histories
<1>1. Active(w) /\ job[w].step = "failed" /\ job[w].state # "none"
  BY DEF FailWithWork, Active, HasWork
<1>2. NeedsAttention(job[w].category) \/ Harmless(w)
  BY <1>1 DEF OnceInv, JobsSound, JobSound
<1>3. PICK reauthorize \in BOOLEAN : reauthorize = (job[w].category = "reauthorize")
  OBVIOUS
<1>4. PICK state \in {"failed", "needs_attention"} :
        state = IF NeedsAttention(job[w].category) THEN "needs_attention" ELSE "failed"
  OBVIOUS
<1>5. RecordFailure(w, state, reauthorize)
  BY <1>3, <1>4 DEF FailWithWork
<1> QED
  BY <1>1, <1>2, <1>4, <1>5, FailureOnce DEF FailWithWork

LEMMA FailWithoutWorkOnce ==
  ASSUME OnceInv, IInv', NEW w \in Workers, FailWithoutWork(w)
  PROVE  OnceInv'
<1> USE DEF ChannelQuiet, histories
<1>1. PICK e \in Executions : e = job[w].execution
  BY DEF FailWithoutWork, OnceInv, IInv, TypeOK
<1>2. Active(w) /\ job[w].state = "none" /\ job[w].step = "failed"
  BY DEF FailWithoutWork, Active, HasWork
<1>3. NeedsAttention(job[w].category) \/
        (execution[e].state = "publishing" => Referenced(e))
  BY <1>1, <1>2 DEF OnceInv, JobsSound, JobSound, Harmless
<1>4. CASE HoldsClaim(w)
  <2>1. PICK state \in {"failed", "needs_attention"} :
          state = IF NeedsAttention(job[w].category) THEN "needs_attention" ELSE "failed"
    OBVIOUS
  <2>2. /\ execution' = [execution EXCEPT ![e].state =
                           IF execution[e].state \in OpenStates
                           THEN state ELSE execution[e].state]
        /\ \E end : EndClaim(e, end, 0)
        /\ Leave(w) /\ UNCHANGED <<content, uploads>>
    BY <1>1, <1>4, <2>1 DEF FailWithoutWork
  <2>3. \A f \in Executions \ {e} : outbox'[f] = outbox[f]
    BY <2>2, EndClaimOthers DEF OnceInv, IInv
  <2>4. state = "failed" /\ execution[e].state \in OpenStates =>
          uploads[e] = 0 \/ Referenced(e)
    BY <1>3, <2>1 DEF OnceInv, ExecutionsSound, ExecutionSound
  <2>5. ASSUME NEW f \in Executions
        PROVE  /\ Evolves(f)
               /\ f # e => execution'[f].state = execution[f].state
    BY <2>2, <2>4 DEF Evolves, OnceInv, IInv, TypeOK, ExecutionRows
  <2> QED
    BY <1>1, <1>2, <2>2, <2>3, <2>5, LeftQuits, LeaveOnce
    DEF Evolution, ContentEvolves, OnceInv, IInv, FailWithoutWork
<1>5. CASE ~ HoldsClaim(w)
  BY <1>2, <1>5, NothingWritten DEF FailWithoutWork
<1> QED
  BY <1>4, <1>5

LEMMA ResetOnce ==
  ASSUME OnceInv, IInv', NEW w \in Workers, ResetForRetry(w)
  PROVE  OnceInv'
<1> USE DEF ChannelQuiet, histories
<1>1. PICK e \in Executions : e = job[w].execution
  BY DEF ResetForRetry, OnceInv, IInv, TypeOK
<1>2. Active(w)
  BY DEF ResetForRetry, Active
<1>3. CASE /\ execution[e].state = "publishing" /\ ~ execution[e].provider
           /\ execution' = [execution EXCEPT ![e].state = "not_started"]
           /\ job' = [job EXCEPT ![w].step = "retrying"]
  <2>1. ~ NeedsAttention(job[w].category)
    BY DEF ResetForRetry, IsTerminal, NeedsAttention
  <2>2. uploads[e] = 0
    BY <1>1, <1>3, <2>1
    DEF ResetForRetry, ShouldReset, OnceInv, JobsSound, JobSound, Harmless
  <2>3. /\ \A f \in Executions \ {e} : execution'[f] = execution[f]
        /\ execution'[e].state = "not_started"
        /\ execution'[e].provider = execution[e].provider
        /\ execution'[e].content = execution[e].content
    BY <1>3 DEF OnceInv, IInv, TypeOK, ExecutionRows
  <2>4. /\ \A v \in Workers \ {w} : job'[v] = job[v]
        /\ job'[w].step = "retrying" /\ job'[w].execution = e
        /\ job'[w].generation = job[w].generation
    BY <1>1, <1>3 DEF OnceInv, IInv, TypeOK, Jobs
  <2>5. JobSound(w)'
    BY <2>4 DEF JobSound
  <2>6. ASSUME NEW f \in Executions PROVE ExecutionSound(f)'
    <3>1. ExecutionSound(f) /\ (Referenced(f)' <=> Referenced(f))
      BY <2>3 DEF ResetForRetry, OnceInv, ExecutionsSound, Referenced, Bound
    <3> QED
      BY <1>3, <2>2, <2>3, <3>1 DEF ResetForRetry, ExecutionSound
  <2>7. ContentsSound'
    BY <1>3, <2>3 DEF ResetForRetry, OnceInv, ContentsSound, IInv, TypeOK, ContentRows
  <2> QED
    BY <1>1, <1>2, <2>3, <2>4, <2>5, <2>6, <2>7, ProceedKeeps
    DEF ResetForRetry, OnceInv, ExecutionsSound
<1>4. CASE UNCHANGED execution /\ Leave(w)
  BY <1>2, <1>4, NothingWritten DEF ResetForRetry
<1> QED
  BY <1>1, <1>3, <1>4 DEF ResetForRetry

LEMMA RetryLaterOnce ==
  ASSUME OnceInv, IInv', NEW w \in Workers, RetryLater(w)
  PROVE  OnceInv'
<1> USE DEF ChannelQuiet, histories
<1>1. Active(w)
  BY DEF RetryLater, Active
<1> QED
  BY <1>1, GiveBackOnce DEF RetryLater

(* The job is forgotten, in order or not, or its loss noticed. *)
LEMMA ForgetOnce ==
  ASSUME OnceInv, IInv', NEW w \in Workers,
         ReleaseLease(w) \/ Crash(w) \/ NoticeLost(w) \/ StoreError(w)
  PROVE  OnceInv'
<1>1. UNCHANGED <<content, execution, outbox, uploads, overrun>> /\ ChannelQuiet
  BY DEF ReleaseLease, Crash, NoticeLost, StoreError, WithoutLease, ChannelQuiet,
         histories, OnceInv, IInv, TypeOK, ChannelRows
<1>2. Evolution
  BY <1>1 DEF Evolution, Evolves, ContentEvolves
<1>3. \A v \in Workers : job'[v].step \notin {"idle", "finally"} =>
        Active(v) /\ JobStays(v)
  <2>1. CASE ReleaseLease(w) \/ Crash(w)
    BY <2>1 DEF ReleaseLease, Crash, NoJob, Active, JobStays, OnceInv, IInv, TypeOK
  <2>2. CASE NoticeLost(w)
    BY <2>2 DEF NoticeLost, Active, JobStays, OnceInv, IInv, TypeOK, Jobs
  <2>3. CASE StoreError(w)
    BY <2>3, LeftQuits DEF StoreError, Active, JobStays, OnceInv, IInv, TypeOK
  <2> QED
    BY <2>1, <2>2, <2>3
<1> QED
  BY <1>1, <1>2, <1>3, QuitKeeps DEF Undisturbed

-----------------------------------------------------------------------------
(* The theorems *)

(* The faults under which a content may be published twice, or be confirmed
   again with an object at the provider. *)
RiskyFaults == {"stall", "read", "record", "reply"}

LEMMA InitOnceInv == Init => OnceInv
<1> SUFFICES ASSUME Init PROVE OnceInv
  OBVIOUS
<1>1. IInv
  BY InitIInv
<1> USE DEF Init
<1>2. ClaimsKept /\ Alone /\ JobsSound /\ overrun = {}
  BY DEF ClaimsKept, Alone, JobsSound, JobSound, Active, NoJob
<1>3. ExecutionsSound /\ ContentsSound
  BY NullAssumption DEF ExecutionsSound, ExecutionSound, ContentsSound
<1> QED
  BY <1>1, <1>2, <1>3 DEF OnceInv

LEMMA NextOnceInv ==
  ASSUME Faults \cap RiskyFaults = {}, OnceInv, [Next]_vars
  PROVE  OnceInv'
<1>1. IInv'
  BY NextSafe DEF OnceInv, Safe
<1>2. \A kind \in RiskyFaults : ~ Spend(kind)
  BY DEF Spend
<1>3. CASE Publisher
  BY <1>1, <1>3, AuthorOnce, ConfirmOnce, ChannelOnce DEF Publisher
<1>4. ASSUME NEW w \in Workers, Work(w) PROVE OnceInv'
  BY <1>1, <1>4, ClaimMessageOnce, ReadExecutionOnce, ReadWorkOnce, ReadRefusedOnce,
     AttemptFailedOnce,
     UploadOnce, RecordUploadOnce, RecordTransferOnce, PollPublishedOnce, PollOnce,
     FailWithWorkOnce, FailWithoutWorkOnce, ResetOnce, RetryLaterOnce, ForgetOnce
  DEF Work
<1>5. ASSUME NEW w \in Workers, Disturbance(w) PROVE OnceInv'
  <2>1. ~ (ReadError(w) \/ UploadMisread(w) \/ RecordError(w))
    BY <1>2 DEF ReadError, UploadMisread, RecordError, RiskyFaults
  <2> QED
    BY <1>1, <1>5, <2>1, ForgetOnce DEF Disturbance
<1>6. CASE Disconnector
  BY <1>1, <1>6, PrepareOnce, RevokeOnce, ChannelOnce DEF Disconnector
<1>7. CASE ExpireLease \/ \E e \in Executions : ExpireClaim(e)
  <2>1. Faults \cap {"stall"} = {}
    BY DEF RiskyFaults
  <2> QED
    BY <1>1, <1>7, <2>1, ExpireOnce
<1>8. CASE UNCHANGED vars
  BY <1>1, <1>8, ChannelOnce
<1> QED
  BY <1>3, <1>4, <1>5, <1>6, <1>7, <1>8 DEF Next

THEOREM OnceInvariance ==
  ASSUME Faults \cap RiskyFaults = {}
  PROVE  Spec => []OnceInv
<1>1. OnceInv /\ [Next]_vars => OnceInv'
  BY NextOnceInv
<1> QED
  BY <1>1, InitOnceInv, PTL DEF Spec

(* Whatever dies, is retried, refused, edited, disconnected or confirmed again,
   the provider is made to create at most one object for a content. *)
THEOREM PublishedOnce ==
  ASSUME Faults \cap RiskyFaults = {}
  PROVE  Spec => []OnePublication
<1>1. OnceInv => OnePublication
  <2> SUFFICES ASSUME OnceInv, NEW e \in Executions, NEW f \in Executions,
                      uploads[e] > 0, uploads[f] > 0,
                      execution[e].content = execution[f].content
               PROVE  e = f /\ uploads[e] = 1
    BY DEF OnePublication
  <2>1. uploads[e] = 1 /\ uploads[f] = 1 /\ execution[e].state # "absent"
    BY DEF OnceInv, ExecutionsSound, ExecutionSound
  <2>2. PICK c \in Contents : execution[e].content = c
    BY <2>1 DEF OnceInv, ContentsSound, IInv, TypeOK, ExecutionRows
  <2>3. content[c].latest = e /\ content[c].latest = f
    <3>1. ASSUME NEW g \in Executions, execution[g].content = c, uploads[g] = 1
          PROVE  content[c].latest = g
      BY <3>1 DEF OnceInv, ContentsSound
    <3> QED
      BY <2>1, <2>2, <3>1
  <2> QED
    BY <2>1, <2>3
<1> QED
  BY <1>1, OnceInvariance, PTL

(* A content that can be confirmed again has nothing at the provider, and
   nobody is about to put something there. *)
THEOREM RetriesAreSafe ==
  ASSUME Faults \cap RiskyFaults = {}
  PROVE  Spec => []RetryIsSafe
<1>1. OnceInv => RetryIsSafe
  BY DEF OnceInv, RetryIsSafe, Retryable, ExecutionsSound, ExecutionSound, Referenced,
         JobsSound, JobSound
<1> QED
  BY <1>1, OnceInvariance, PTL

=============================================================================
