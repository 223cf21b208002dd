----------------------------- MODULE OutboxRelay -----------------------------
(***************************************************************************)
(* The way of an outbox row to a worker when ASYNC_TRANSPORT is              *)
(* tdmq_rabbitmq: dispatchers claim pending rows and publish a command for   *)
(* each, the broker delivers it at least once, and the worker that gets it   *)
(* claims the row, works on it, and acknowledges or requeues the delivery.   *)
(* What the work does is the subject of PublishExecution; here it gives the  *)
(* row back, ends it, or leaves it claimed.                                  *)
(*                                                                         *)
(* EXTERNAL: the broker. A queue keeps copies of a command in no order that  *)
(* is relied on; a delivery that was not acknowledged when the consumer's    *)
(* connection ended goes back to the queue.                                  *)
(***************************************************************************)
EXTENDS Naturals, FiniteSets

CONSTANTS
  Messages,      \* outbox rows, and the commands that name them
  Dispatchers,   \* dispatcher processes, one polling loop each
  Workers,       \* worker processes, one delivery at a time (prefetch 1)
  MaxRetries,    \* bound on how often the work gives a row back
  MaxFaults,     \* bound on the faults of one behaviour
  Nobody, NoMessage

ASSUME BoundAssumption == MaxRetries \in Nat /\ MaxFaults \in Nat
ASSUME NullAssumption ==
  /\ Nobody \notin Dispatchers \cup Workers
  /\ NoMessage \notin Messages
ASSUME RoleAssumption == Dispatchers \cap Workers = {}

VARIABLES
  row,      \* outbox_messages
  desk,     \* what each dispatcher holds in memory (dispatchNext)
  hand,     \* what each worker holds in memory, and of the broker
  ready,    \* the broker's queue: copies of each command
  overtaken, \* history: rows last claimed for a delivery the broker had taken
             \* back before
  budget    \* faults that may still happen

vars == <<row, desk, hand, ready, overtaken, budget>>

Ended == {"completed", "dead"}

IdleDesk == [step |-> "idle", message |-> NoMessage, generation |-> 0]
IdleHand == [step |-> "idle", message |-> NoMessage, generation |-> 0,
             attached |-> FALSE]

Spend == budget > 0 /\ budget' = budget - 1

FreeOwned(r, state) == [r EXCEPT !.state = state, !.live = FALSE]  \* mutant
Free(r, state) == [r EXCEPT !.state = state, !.owner = Nobody, !.live = FALSE]

Taken(r, state, owner) ==
  [r EXCEPT !.state = state, !.owner = owner, !.live = TRUE, !.generation = @ + 1]

Init ==
  /\ row = [m \in Messages |->
       [state |-> "absent", owner |-> Nobody, generation |-> 0,
        live |-> FALSE, attempt |-> 0]]
  /\ desk = [d \in Dispatchers |-> IdleDesk]
  /\ hand = [w \in Workers |-> IdleHand]
  /\ ready = [m \in Messages |-> 0]
  /\ overtaken = {}
  /\ budget = MaxFaults

(* confirmContentPublishing *)
Post(m) ==
  /\ row[m].state = "absent"
  /\ row' = [row EXCEPT ![m].state = "pending"]
  /\ UNCHANGED <<desk, hand, ready, overtaken, budget>>

(* prepareYouTubeDisconnect and terminalizeDisconnectedYouTubeExecutions: the
   rows of a disconnected channel die in whatever state they are. *)
Cancel(m) ==
  /\ row[m].state \notin Ended \cup {"absent"}
  /\ row' = [row EXCEPT ![m] = Free(@, "dead")]
  /\ UNCHANGED <<desk, hand, ready, overtaken, budget>>

-----------------------------------------------------------------------------
(* The dispatcher *)

(* claimNextOutboxForDispatch *)
Dispatchable(m) ==
  \/ row[m].state = "pending"
  \/ row[m].state = "dispatching" /\ ~ row[m].live

ClaimDispatch(d, m) ==
  /\ desk[d].step = "idle"
  /\ Dispatchable(m)
  /\ row' = [row EXCEPT ![m] = Taken(@, "dispatching", d)]
  /\ desk' = [desk EXCEPT ![d] =
       [step |-> "claimed", message |-> m, generation |-> row[m].generation + 1]]
  /\ UNCHANGED <<hand, ready, overtaken, budget>>

OwnsDispatch(d) ==
  LET r == row[desk[d].message] IN
  /\ r.state = "dispatching"
  /\ r.owner = d
  /\ r.generation = desk[d].generation

(* RabbitCommandPublisher.publish, confirmed. *)
PublishConfirmed(d) ==
  /\ desk[d].step = "claimed"
  /\ ready' = [ready EXCEPT ![desk[d].message] = @ + 1]
  /\ desk' = [desk EXCEPT ![d].step = "sent"]
  /\ UNCHANGED <<row, hand, overtaken, budget>>

(* publish throws: no connection, no route, or no confirmation of a command the
   broker may have queued. *)
PublishFailed(d) ==
  /\ desk[d].step = "claimed"
  /\ Spend
  /\ \E queued \in {0, 1} :
       ready' = [ready EXCEPT ![desk[d].message] = @ + queued]
  /\ desk' = [desk EXCEPT ![d].step = "failed"]
  /\ UNCHANGED <<row, hand, overtaken>>

(* completeOutboxDispatch: it throws when the claim is lost, except to a worker
   that already took the command, or to the end of the row. *)
DispatchUnfenced(d) ==  \* mutant: only the state is compared
  row[desk[d].message].state = "dispatching"
DispatchCurrent(d) == OwnsDispatch(d) /\ row[desk[d].message].live

CompleteDispatch(d) ==
  LET m == desk[d].message IN
  /\ desk[d].step = "sent"
  /\ IF DispatchCurrent(d)
     THEN /\ row' = [row EXCEPT ![m] = Free(@, "dispatched")]
          /\ desk' = [desk EXCEPT ![d] = IdleDesk]
     ELSE /\ desk' = [desk EXCEPT ![d] =
               IF row[m].state \in {"claimed"} \cup Ended
               THEN IdleDesk ELSE [@ EXCEPT !.step = "failed"]]
          /\ UNCHANGED row
  /\ UNCHANGED <<hand, ready, overtaken, budget>>

(* The same, ending in an error of the database's own, before or after its
   commit. *)
CompleteError(d) ==
  /\ desk[d].step = "sent"
  /\ Spend
  /\ \/ UNCHANGED row
     \/ /\ DispatchCurrent(d)
        /\ row' = [row EXCEPT ![desk[d].message] = Free(@, "dispatched")]
  /\ desk' = [desk EXCEPT ![d].step = "failed"]
  /\ UNCHANGED <<hand, ready, overtaken>>

(* releaseOutboxDispatch, which does not ask whether the claim has expired. *)
ReleaseDispatch(d) ==
  /\ desk[d].step = "failed"
  /\ row' = IF OwnsDispatch(d)
            THEN [row EXCEPT ![desk[d].message] = Free(@, "pending")]
            ELSE row
  /\ desk' = [desk EXCEPT ![d] = IdleDesk]
  /\ UNCHANGED <<hand, ready, overtaken, budget>>

(* The process dies, or its release fails: the row stays dispatching. *)
AbandonDispatch(d) ==
  /\ desk[d].step # "idle"
  /\ Spend
  /\ desk' = [desk EXCEPT ![d] = IdleDesk]
  /\ UNCHANGED <<row, hand, ready, overtaken>>

-----------------------------------------------------------------------------
(* The consumer *)

(* Disposition "retry": the delivery goes back to the queue, unless it already
   did when the connection ended. *)
Requeued(w) ==
  ready' = [ready EXCEPT ![hand[w].message] =
              @ + IF hand[w].attached THEN 1 ELSE 0]

Receive(w, m) ==
  /\ hand[w].step = "idle"
  /\ ready[m] > 0
  /\ ready' = [ready EXCEPT ![m] = @ - 1]
  /\ hand' = [hand EXCEPT ![w] =
       [step |-> "received", message |-> m, generation |-> 0, attached |-> TRUE]]
  /\ UNCHANGED <<row, desk, overtaken, budget>>

(* claimQueuedOutboxMessage *)
ClaimableDispatched(m) ==  \* mutant: an expired claim is not taken over
  row[m].state \in {"dispatching", "dispatched"}
Claimable(m) ==
  \/ row[m].state \in {"dispatching", "dispatched"}
  \/ row[m].state = "claimed" /\ ~ row[m].live

ClaimedBy(w) == Taken(row[hand[w].message], "claimed", w)

Overtaken(w) == IF hand[w].attached THEN overtaken \ {hand[w].message}
                                    ELSE overtaken \cup {hand[w].message}

ClaimMessage(w) ==
  LET m == hand[w].message IN
  /\ hand[w].step = "received"
  /\ Claimable(m)
  /\ row' = [row EXCEPT ![m] = ClaimedBy(w)]
  /\ hand' = [hand EXCEPT ![w].step = "working",
                          ![w].generation = row[m].generation + 1]
  /\ overtaken' = Overtaken(w)
  /\ UNCHANGED <<desk, ready, budget>>

(* "busy": somebody works on the row, or it waits to be dispatched again. *)
BounceBusy(w) ==
  LET m == hand[w].message IN
  /\ hand[w].step = "received"
  /\ ~ Claimable(m) /\ row[m].state \notin Ended
  /\ Requeued(w)
  /\ hand' = [hand EXCEPT ![w] = IdleHand]
  /\ UNCHANGED <<row, desk, overtaken, budget>>

(* "terminal" *)
AckEnded(w) ==
  /\ hand[w].step = "received"
  /\ row[hand[w].message].state \in Ended
  /\ hand' = [hand EXCEPT ![w] = IdleHand]
  /\ UNCHANGED <<row, desk, ready, overtaken, budget>>

(* The claim ends in an error of the database's own, before or after its
   commit; the handler throws and the delivery is requeued. *)
ClaimError(w) ==
  LET m == hand[w].message IN
  /\ hand[w].step = "received"
  /\ Spend
  /\ \/ UNCHANGED <<row, overtaken>>
     \/ /\ Claimable(m)
        /\ row' = [row EXCEPT ![m] = ClaimedBy(w)]
        /\ overtaken' = Overtaken(w)
  /\ Requeued(w)
  /\ hand' = [hand EXCEPT ![w] = IdleHand]
  /\ UNCHANGED desk

(* The compare-and-set of finishOutboxMessage and of every ending transaction *)
HoldsExpiredClaim(w) ==  \* mutant: the term is not compared
  LET r == row[hand[w].message] IN
  r.state = "claimed" /\ r.owner = w /\ r.generation = hand[w].generation
HoldsClaim(w) ==
  LET r == row[hand[w].message] IN
  /\ r.state = "claimed"
  /\ r.owner = w
  /\ r.generation = hand[w].generation
  /\ r.live

(* finishOutboxMessage with the outcome "retry" *)
GiveBack(w) ==
  LET m == hand[w].message IN
  /\ hand[w].step = "working"
  /\ HoldsClaim(w)
  /\ row[m].attempt < MaxRetries
  /\ row' = [row EXCEPT ![m] =
                          [Free(@, "pending") EXCEPT !.attempt = row[m].attempt + 1]]
  /\ hand' = [hand EXCEPT ![w].step = "done"]
  /\ UNCHANGED <<desk, ready, overtaken, budget>>

(* ...AndCompleteOutbox *)
EndMessage(w) ==
  LET m == hand[w].message IN
  /\ hand[w].step = "working"
  /\ HoldsClaim(w)
  /\ \E end \in Ended : row' = [row EXCEPT ![m] = Free(@, end)]
  /\ hand' = [hand EXCEPT ![w].step = "done"]
  /\ UNCHANGED <<desk, ready, overtaken, budget>>

(* The stale worker writes nothing and returns "retry". *)
WorkFenced(w) ==
  /\ hand[w].step = "working"
  /\ ~ HoldsClaim(w)
  /\ Requeued(w)
  /\ hand' = [hand EXCEPT ![w] = IdleHand]
  /\ UNCHANGED <<row, desk, overtaken, budget>>

(* The work ends without a write to the row: a lost channel lease, or an error
   in the catch block. The row stays claimed until the claim expires. *)
WorkAbandoned(w) ==
  /\ hand[w].step = "working"
  /\ Spend
  /\ Requeued(w)
  /\ hand' = [hand EXCEPT ![w] = IdleHand]
  /\ UNCHANGED <<row, desk, overtaken>>

(* Disposition "ack", after the commit. *)
Ack(w) ==
  /\ hand[w].step = "done"
  /\ hand' = [hand EXCEPT ![w] = IdleHand]
  /\ UNCHANGED <<row, desk, ready, overtaken, budget>>

(* The connection ends while the handler runs on: its delivery goes back. *)
ConnectionLost(w) ==
  /\ hand[w].attached
  /\ Spend
  /\ ready' = [ready EXCEPT ![hand[w].message] = @ + 1]
  /\ hand' = [hand EXCEPT ![w].attached = FALSE]
  /\ UNCHANGED <<row, desk, overtaken>>

Crash(w) ==
  /\ hand[w].step # "idle"
  /\ Spend
  /\ Requeued(w)
  /\ hand' = [hand EXCEPT ![w] = IdleHand]
  /\ UNCHANGED <<row, desk, overtaken>>

-----------------------------------------------------------------------------
(* Time *)

(* claim_until passes: of itself once nobody is at the row, through a stall of
   the process while somebody is (a dispatch has one minute, a worker's claim
   is renewed every 30 seconds). *)
Attended(m) ==
  \/ \E d \in Dispatchers : desk[d].message = m /\ OwnsDispatch(d)
  \/ \E w \in Workers : /\ hand[w].step = "working" /\ hand[w].message = m
                        /\ HoldsClaim(w)

Expire(m) ==
  /\ row[m].live
  /\ IF Attended(m) THEN Spend ELSE UNCHANGED budget
  /\ row' = [row EXCEPT ![m].live = FALSE]
  /\ UNCHANGED <<desk, hand, ready, overtaken>>

-----------------------------------------------------------------------------
(* The specification *)

Dispatching(d) ==
  \/ \E m \in Messages : ClaimDispatch(d, m)
  \/ PublishConfirmed(d) \/ CompleteDispatch(d) \/ ReleaseDispatch(d)

Consuming(w) ==
  \/ \E m \in Messages : Receive(w, m)
  \/ ClaimMessage(w) \/ BounceBusy(w) \/ AckEnded(w)
  \/ GiveBack(w) \/ EndMessage(w) \/ WorkFenced(w) \/ Ack(w)

Next ==
  \/ \E m \in Messages : Post(m) \/ Cancel(m) \/ Expire(m)
  \/ \E d \in Dispatchers :
       Dispatching(d) \/ PublishFailed(d) \/ CompleteError(d) \/ AbandonDispatch(d)
  \/ \E w \in Workers :
       Consuming(w) \/ ClaimError(w) \/ WorkAbandoned(w) \/ ConnectionLost(w) \/ Crash(w)

Spec == Init /\ [][Next]_vars

(* Both polling loops and the consumer run until they are told to stop, and
   time passes. *)
Fairness ==
  /\ \A d \in Dispatchers : WF_vars(Dispatching(d))
  /\ \A w \in Workers : WF_vars(Consuming(w))
  /\ \A m \in Messages : WF_vars(Expire(m))

FairSpec == Spec /\ Fairness

-----------------------------------------------------------------------------
(* Properties *)

(* Rows, desks and hands have the shapes the schema and the processes give
   them; a row names an owner exactly while it is dispatching or claimed. *)
TypeOK ==
  /\ row \in [Messages ->
       [state : {"absent", "pending", "dispatching", "dispatched", "claimed"} \cup Ended,
        owner : Dispatchers \cup Workers \cup {Nobody},
        generation : Nat, live : BOOLEAN, attempt : Nat]]
  /\ \A m \in Messages :
       /\ row[m].state = "dispatching" <=> row[m].owner \in Dispatchers
       /\ row[m].state = "claimed" <=> row[m].owner \in Workers
       /\ row[m].live => row[m].owner # Nobody
  /\ desk \in [Dispatchers ->
       [step : {"idle", "claimed", "sent", "failed"},
        message : Messages \cup {NoMessage}, generation : Nat]]
  /\ hand \in [Workers ->
       [step : {"idle", "received", "working", "done"},
        message : Messages \cup {NoMessage}, generation : Nat, attached : BOOLEAN]]
  /\ \A d \in Dispatchers : desk[d].step # "idle" => desk[d].message \in Messages
  /\ \A w \in Workers : hand[w].step # "idle" => hand[w].message \in Messages
  /\ ready \in [Messages -> Nat]
  /\ overtaken \subseteq Messages
  /\ budget \in Nat

(* A command is with the broker, or with a worker that will give it back to
   the broker unless it ends the row's need of it. *)
Kept(m) ==
  \/ ready[m] > 0
  \/ \E w \in Workers : /\ hand[w].attached /\ hand[w].message = m
                        /\ hand[w].step \in {"received", "working"}

(* No row is forgotten: nothing but a command brings a dispatched or claimed
   row to a worker again, for the dispatcher takes over expired dispatches only,
   so there always is one; except for a claim made for a delivery that the
   broker had already taken back, whose command somebody else may have used up. *)
NoLostMessage == \A m \in Messages :
  \/ row[m].state = "dispatched"
  \/ row[m].state = "claimed" /\ m \notin overtaken
  => Kept(m)

(* The row behaves as the publishing code expects of it, through the broker as
   through the database alone: dispatching is invisible to it. *)
Standing(r) ==
  CASE r.state \in {"pending", "dispatching", "dispatched"} -> "waiting"
    [] r.state = "claimed" -> IF r.live THEN "held" ELSE "lapsed"
    [] OTHER -> r.state

Contract == INSTANCE OutboxContract WITH
  standing <- [m \in Messages |-> Standing(row[m])],
  holder <- [m \in Messages |->
               IF row[m].state = "claimed" THEN row[m].owner ELSE Nobody]

(* Nobody ends or gives back a row whose claim has lapsed, an ended row never
   comes back, and a lapsed row returns only through another claim. *)
HonoursContract == Contract!Spec

(* Every confirmed command comes to an end, with the same exception: a worker
   that dies after such a claim leaves a row that nobody looks at again. *)
EventuallyEnded == \A m \in Messages :
  row[m].state = "pending" ~> row[m].state \in Ended \/ m \in overtaken

=============================================================================
