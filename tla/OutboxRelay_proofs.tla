------------------------- MODULE OutboxRelay_proofs -------------------------
(***************************************************************************)
(* Theorems about OutboxRelay, for every number of dispatchers, workers and *)
(* rows and every bound.                                                    *)
(***************************************************************************)
EXTENDS OutboxRelay, TLAPS

RowStates == {"absent", "pending", "dispatching", "dispatched", "claimed"} \cup Ended

RowRecords ==
  [state : RowStates, owner : Dispatchers \cup Workers \cup {Nobody},
   generation : Nat, live : BOOLEAN, attempt : Nat]

(* What TypeOK says of one row, of the rows, and of the processes' memory. *)
SoundRow(r) ==
  /\ r \in RowRecords
  /\ r.state = "dispatching" <=> r.owner \in Dispatchers
  /\ r.state = "claimed" <=> r.owner \in Workers
  /\ r.live => r.owner # Nobody

RowsOK ==
  /\ row \in [Messages -> RowRecords]
  /\ \A m \in Messages : SoundRow(row[m])

MemoryOK ==
  /\ desk \in [Dispatchers ->
       [step : {"idle", "claimed", "sent", "failed"},
        message : Messages \cup {NoMessage}, generation : Nat]]
  /\ hand \in [Workers ->
       [step : {"idle", "received", "working", "done"},
        message : Messages \cup {NoMessage}, generation : Nat, attached : BOOLEAN]]
  /\ \A d \in Dispatchers : desk[d].step # "idle" => desk[d].message \in Messages
  /\ \A w \in Workers : hand[w].step # "idle" => hand[w].message \in Messages

CountsOK ==
  /\ ready \in [Messages -> Nat]
  /\ overtaken \subseteq Messages
  /\ budget \in Nat

(* A dispatcher that sent its command and still owns the row has not lost it:
   a worker that used it up would have taken the row over. *)
SentKept == \A d \in Dispatchers :
  desk[d].step = "sent" /\ OwnsDispatch(d) => Kept(desk[d].message)

(* NoLostMessage is not inductive alone: a row becomes dispatched some time
   after its command was sent. *)
IInv == TypeOK /\ NoLostMessage /\ SentKept

HolderOf(r) == IF r.state = "claimed" THEN r.owner ELSE Nobody

Honoured == [Contract!Next]_(Contract!vars)

(* What a step is shown to do to the rows alone, and altogether. *)
RowsSafe == RowsOK' /\ Honoured

Safe == IInv' /\ Honoured

LEMMA TypeParts == TypeOK <=> RowsOK /\ MemoryOK /\ CountsOK
BY DEF TypeOK, RowsOK, MemoryOK, CountsOK, SoundRow, RowRecords, RowStates

LEMMA TypePartsNext == RowsOK' /\ MemoryOK' /\ CountsOK' => TypeOK'
BY DEF TypeOK, RowsOK, MemoryOK, CountsOK, SoundRow, RowRecords, RowStates

-----------------------------------------------------------------------------
(* Rows *)

LEMMA FreeRow ==
  ASSUME NEW r, SoundRow(r), NEW state \in {"pending", "dispatched"} \cup Ended
  PROVE  /\ SoundRow(Free(r, state))
         /\ Free(r, state).state = state
         /\ Free(r, state).owner = Nobody
BY NullAssumption DEF SoundRow, Free, RowRecords, RowStates, Ended

LEMMA TakenRow ==
  ASSUME NEW r, SoundRow(r), NEW state, NEW owner,
         \/ state = "dispatching" /\ owner \in Dispatchers
         \/ state = "claimed" /\ owner \in Workers
  PROVE  /\ SoundRow(Taken(r, state, owner))
         /\ Taken(r, state, owner).state = state
         /\ Taken(r, state, owner).owner = owner
         /\ Taken(r, state, owner).live
<1>1. r.generation + 1 \in Nat
  BY DEF SoundRow, RowRecords
<1> QED
  BY <1>1, NullAssumption, RoleAssumption DEF SoundRow, Taken, RowRecords, RowStates

LEMMA RowStep ==
  ASSUME RowsOK, NEW m \in Messages, NEW r, SoundRow(r),
         row' = [row EXCEPT ![m] = r]
  PROVE  RowsOK' /\ Contract!Move(m, Standing(r), HolderOf(r))
<1>1. RowsOK'
  BY DEF RowsOK, SoundRow
<1>2. Contract!Move(m, Standing(r), HolderOf(r))
  BY DEF RowsOK, Contract!Move, Standing, HolderOf
<1> QED
  BY <1>1, <1>2

LEMMA RowsUnchanged ==
  ASSUME RowsOK, UNCHANGED row
  PROVE  RowsSafe
BY DEF RowsOK, SoundRow, RowsSafe, Honoured, Contract!vars, Standing

(* What only the dispatchers see of a row. *)
LEMMA HiddenStep ==
  ASSUME RowsOK, NEW m \in Messages, NEW r, SoundRow(r),
         row' = [row EXCEPT ![m] = r],
         row[m].state \in {"pending", "dispatching", "dispatched"},
         r.state \in {"pending", "dispatching", "dispatched"}
  PROVE  RowsSafe
<1>1. RowsOK'
  BY RowStep
<1>2. UNCHANGED Contract!vars
  BY DEF RowsOK, Contract!vars, Standing
<1> QED
  BY <1>1, <1>2 DEF RowsSafe, Honoured

LEMMA TakeRow ==
  ASSUME RowsOK, NEW w \in Workers, NEW m \in Messages, Claimable(m),
         row' = [row EXCEPT ![m] = Taken(row[m], "claimed", w)]
  PROVE  RowsSafe
<1>1. PICK r : r = Taken(row[m], "claimed", w)
  OBVIOUS
<1>2. SoundRow(r) /\ Standing(r) = "held" /\ HolderOf(r) = w
  BY <1>1, TakenRow DEF RowsOK, Standing, HolderOf
<1>3. Contract!Claim(m, w)
  BY <1>1, <1>2, RowStep DEF Contract!Claim, Claimable, Standing
<1> QED
  BY <1>1, <1>2, <1>3, RowStep DEF RowsSafe, Honoured, Contract!Next

LEMMA UnchangedMemory ==
  ASSUME MemoryOK, UNCHANGED <<desk, hand>>
  PROVE  MemoryOK'
BY DEF MemoryOK

-----------------------------------------------------------------------------
(* Commands *)

(* A step leaves a row and its command alone, or keeps the command of a row
   that still needs it. *)
Tended(m) ==
  \/ /\ row'[m] = row[m]
     /\ m \in overtaken => m \in overtaken'
     /\ Kept(m) => Kept(m)'
  \/ row'[m].state \in {"dispatching", "dispatched", "claimed"} =>
       \/ Kept(m)'
       \/ row'[m].state = "claimed" /\ m \in overtaken'

LEMMA TendedStep ==
  ASSUME IInv, \A m \in Messages : Tended(m),
         \A d \in Dispatchers : desk'[d].step = "sent" => desk'[d] = desk[d]
  PROVE  NoLostMessage' /\ SentKept'
<1>1. NoLostMessage'
  BY DEF IInv, NoLostMessage, Tended
<1>2. ASSUME NEW d \in Dispatchers, desk'[d].step = "sent", OwnsDispatch(d)'
      PROVE  Kept(desk[d].message)'
  <2>1. PICK m \in Messages : m = desk[d].message
    BY <1>2, TypeParts DEF IInv, MemoryOK
  <2>2. desk'[d] = desk[d] /\ row'[m].state = "dispatching"
    BY <1>2, <2>1 DEF OwnsDispatch
  <2>3. Kept(m) \/ row'[m] # row[m]
    BY <1>2, <2>1, <2>2 DEF IInv, SentKept, OwnsDispatch
  <2>4. Kept(m)'
    BY <2>2, <2>3 DEF Tended
  <2> QED
    BY <2>1, <2>2, <2>4
<1>3. SentKept'
  BY <1>2 DEF SentKept
<1> QED
  BY <1>1, <1>3

-----------------------------------------------------------------------------
(* Steps *)

LEMMA PostStep ==
  ASSUME IInv, NEW m \in Messages, Post(m)
  PROVE  Safe
<1>1. RowsSafe
  <2>1. PICK r : r = [row[m] EXCEPT !.state = "pending"]
    OBVIOUS
  <2>2. SoundRow(r) /\ Standing(r) = "waiting" /\ HolderOf(r) = Nobody
    BY <2>1, TypeParts, NullAssumption, RoleAssumption
    DEF IInv, RowsOK, Post, SoundRow, RowRecords, RowStates, Standing, HolderOf
  <2>3. row' = [row EXCEPT ![m] = r]
    BY <2>1, TypeParts DEF IInv, RowsOK, RowRecords, Post
  <2>4. Contract!Post(m)
    BY <2>2, <2>3, RowStep, TypeParts DEF IInv, Post, Contract!Post, Standing
  <2> QED
    BY <2>2, <2>3, <2>4, RowStep, TypeParts DEF IInv, RowsSafe, Honoured, Contract!Next
<1>2. MemoryOK' /\ CountsOK'
  BY TypeParts DEF IInv, MemoryOK, CountsOK, RowsOK, RowRecords, Post
<1>3. NoLostMessage'
  BY RoleAssumption, NullAssumption
  DEF IInv, TypeOK, NoLostMessage, SentKept, Kept, OwnsDispatch, Post, Ended
<1>4. SentKept'
  BY RoleAssumption, NullAssumption
  DEF IInv, TypeOK, SentKept, Kept, OwnsDispatch, Post, Ended
<1> QED
  BY <1>1, <1>2, <1>3, <1>4, TypePartsNext DEF Safe, IInv, RowsSafe

LEMMA CancelStep ==
  ASSUME IInv, NEW m \in Messages, Cancel(m)
  PROVE  Safe
<1>1. RowsSafe
  <2>1. PICK r : r = Free(row[m], "dead")
    OBVIOUS
  <2>2. SoundRow(r) /\ Standing(r) = "dead" /\ HolderOf(r) = Nobody
    BY <2>1, FreeRow, TypeParts DEF IInv, RowsOK, Ended, Standing, HolderOf
  <2>3. row' = [row EXCEPT ![m] = r]
    BY <2>1 DEF Cancel
  <2>4. RowsOK' /\ Contract!Move(m, "dead", Nobody)
    BY <2>2, <2>3, RowStep, TypeParts DEF IInv
  <2>5. Contract!Cancel({m})
    BY <2>4 DEF Contract!Cancel, Contract!Move, Contract!Ends, Cancel, Ended, Standing
  <2> QED
    BY <2>4, <2>5 DEF RowsSafe, Honoured, Contract!Next
<1>2. MemoryOK' /\ CountsOK'
  BY TypeParts DEF IInv, MemoryOK, CountsOK, RowsOK, RowRecords, Cancel, Free
<1>3. ASSUME NEW n \in Messages PROVE Tended(n)
  BY TypeParts DEF IInv, RowsOK, MemoryOK, CountsOK, Tended, Kept, Cancel, Free, Ended
<1>4. \A c \in Dispatchers : desk'[c].step = "sent" => desk'[c] = desk[c]
  BY TypeParts DEF IInv, MemoryOK, Cancel, Free
<1>5. NoLostMessage' /\ SentKept'
  BY <1>3, <1>4, TendedStep
<1> QED
  BY <1>1, <1>2, <1>5, TypePartsNext DEF Safe, IInv, RowsSafe

LEMMA ExpireStep ==
  ASSUME IInv, NEW m \in Messages, Expire(m)
  PROVE  Safe
<1>1. RowsSafe
  <2>1. PICK r : r = [row[m] EXCEPT !.live = FALSE]
    OBVIOUS
  <2>2. SoundRow(r) /\ r.state = row[m].state /\ HolderOf(r) = HolderOf(row[m])
    BY <2>1, TypeParts DEF IInv, RowsOK, SoundRow, RowRecords, HolderOf
  <2>3. row' = [row EXCEPT ![m] = r]
    BY <2>1, TypeParts DEF IInv, RowsOK, RowRecords, Expire
  <2>4. CASE row[m].state = "claimed"
    <3>1. Standing(r) = "lapsed" /\ Standing(row[m]) = "held"
      BY <2>1, <2>2, <2>4, TypeParts DEF IInv, RowsOK, RowRecords, Standing, Expire
    <3>2. PICK w : w = row[m].owner
      OBVIOUS
    <3>3. HolderOf(r) = w
      BY <2>2, <2>4, <3>2 DEF HolderOf
    <3>4. Contract!Move(m, "lapsed", w)
      BY <2>2, <2>3, <3>1, <3>3, RowStep, TypeParts DEF IInv
    <3>5. Contract!Lapse(m)
      BY <2>4, <3>1, <3>2, <3>4 DEF Contract!Lapse, Contract!Move
    <3> QED
      BY <2>2, <2>3, <3>5, RowStep, TypeParts DEF IInv, RowsSafe, Honoured, Contract!Next
  <2>5. CASE row[m].state = "dispatching"
    BY <2>2, <2>3, <2>5, HiddenStep, TypeParts DEF IInv
  <2> QED
    BY <2>4, <2>5, TypeParts DEF IInv, RowsOK, SoundRow, RowRecords, Expire
<1>2. MemoryOK' /\ CountsOK'
  BY TypeParts DEF IInv, MemoryOK, CountsOK, RowsOK, RowRecords, Expire, Spend
<1>3. NoLostMessage'
  BY RoleAssumption, NullAssumption
  DEF IInv, TypeOK, NoLostMessage, SentKept, Kept, OwnsDispatch, Expire, Spend, Ended
<1>4. SentKept'
  BY RoleAssumption, NullAssumption
  DEF IInv, TypeOK, SentKept, Kept, OwnsDispatch, Expire, Spend, Ended
<1> QED
  BY <1>1, <1>2, <1>3, <1>4, TypePartsNext DEF Safe, IInv, RowsSafe

LEMMA ClaimDispatchStep ==
  ASSUME IInv, NEW d \in Dispatchers, NEW m \in Messages, ClaimDispatch(d, m)
  PROVE  Safe
<1>1. RowsSafe
  <2>1. PICK r : r = Taken(row[m], "dispatching", d)
    OBVIOUS
  <2>2. SoundRow(r) /\ r.state = "dispatching"
    BY <2>1, TakenRow, TypeParts DEF IInv, RowsOK
  <2> QED
    BY <2>1, <2>2, HiddenStep, TypeParts DEF IInv, ClaimDispatch, Dispatchable
<1>2. MemoryOK' /\ CountsOK'
  BY TypeParts
  DEF IInv, MemoryOK, CountsOK, RowsOK, RowRecords, ClaimDispatch, Dispatchable, Taken,
      IdleDesk
<1>3. NoLostMessage'
  BY RoleAssumption, NullAssumption
  DEF IInv, TypeOK, NoLostMessage, SentKept, Kept, OwnsDispatch, ClaimDispatch,
      Dispatchable, Taken, IdleDesk, Ended
<1>4. SentKept'
  BY RoleAssumption, NullAssumption
  DEF IInv, TypeOK, SentKept, Kept, OwnsDispatch, ClaimDispatch, Dispatchable, Taken,
      IdleDesk, Ended
<1> QED
  BY <1>1, <1>2, <1>3, <1>4, TypePartsNext DEF Safe, IInv, RowsSafe

LEMMA PublishConfirmedStep ==
  ASSUME IInv, NEW d \in Dispatchers, PublishConfirmed(d)
  PROVE  Safe
<1>1. RowsSafe
  BY RowsUnchanged, TypeParts DEF IInv, PublishConfirmed
<1>2. MemoryOK' /\ CountsOK'
  BY TypeParts DEF IInv, MemoryOK, CountsOK, RowsOK, RowRecords, PublishConfirmed
<1>3. NoLostMessage'
  BY RoleAssumption, NullAssumption
  DEF IInv, TypeOK, NoLostMessage, SentKept, Kept, OwnsDispatch, PublishConfirmed, Ended
<1>4. SentKept'
  BY RoleAssumption, NullAssumption
  DEF IInv, TypeOK, SentKept, Kept, OwnsDispatch, PublishConfirmed, Ended
<1> QED
  BY <1>1, <1>2, <1>3, <1>4, TypePartsNext DEF Safe, IInv, RowsSafe

LEMMA PublishFailedStep ==
  ASSUME IInv, NEW d \in Dispatchers, PublishFailed(d)
  PROVE  Safe
<1>1. RowsSafe
  BY RowsUnchanged, TypeParts DEF IInv, PublishFailed
<1>2. MemoryOK' /\ CountsOK'
  BY TypeParts DEF IInv, MemoryOK, CountsOK, RowsOK, RowRecords, PublishFailed, Spend
<1>3. NoLostMessage'
  BY RoleAssumption, NullAssumption
  DEF IInv, TypeOK, NoLostMessage, SentKept, Kept, OwnsDispatch, PublishFailed, Spend, Ended
<1>4. SentKept'
  BY RoleAssumption, NullAssumption
  DEF IInv, TypeOK, SentKept, Kept, OwnsDispatch, PublishFailed, Spend, Ended
<1> QED
  BY <1>1, <1>2, <1>3, <1>4, TypePartsNext DEF Safe, IInv, RowsSafe

LEMMA CompleteDispatchStep ==
  ASSUME IInv, NEW d \in Dispatchers, CompleteDispatch(d)
  PROVE  Safe
<1>1. RowsSafe
  <2> DEFINE m == desk[d].message
  <2>1. CASE UNCHANGED row
    BY <2>1, RowsUnchanged, TypeParts DEF IInv
  <2>2. CASE OwnsDispatch(d) /\ row' = [row EXCEPT ![m] = Free(row[m], "dispatched")]
    <3>1. m \in Messages
      BY TypeParts DEF IInv, MemoryOK, CompleteDispatch
    <3>2. PICK r : r = Free(row[m], "dispatched")
      OBVIOUS
    <3>3. SoundRow(r) /\ r.state = "dispatched"
      BY <3>1, <3>2, FreeRow, TypeParts DEF IInv, RowsOK
    <3> QED
      BY <2>2, <3>1, <3>2, <3>3, HiddenStep, TypeParts DEF IInv, OwnsDispatch
  <2> QED
    BY <2>1, <2>2 DEF CompleteDispatch, DispatchCurrent
<1>2. MemoryOK' /\ CountsOK'
  BY TypeParts
  DEF IInv, MemoryOK, CountsOK, RowsOK, RowRecords, CompleteDispatch, DispatchCurrent,
      IdleDesk, Free
<1>3. ASSUME NEW n \in Messages PROVE Tended(n)
  <2>1. CASE UNCHANGED row
    BY <2>1 DEF Tended, Kept, CompleteDispatch
  <2>2. CASE /\ DispatchCurrent(d)
             /\ row' = [row EXCEPT ![desk[d].message] = Free(@, "dispatched")]
    <3>1. Kept(desk[d].message)
      BY <2>2 DEF IInv, SentKept, DispatchCurrent, CompleteDispatch
    <3>2. n = desk[d].message => Kept(n)
      BY <3>1
    <3>3. n # desk[d].message => row'[n] = row[n]
      BY <2>2, TypeParts DEF IInv, RowsOK
    <3>4. Kept(n) => Kept(n)'
      BY DEF Kept, CompleteDispatch
    <3> QED
      BY <3>2, <3>3, <3>4 DEF Tended, CompleteDispatch
  <2> QED
    BY <2>1, <2>2 DEF CompleteDispatch
<1>4. \A c \in Dispatchers : desk'[c].step = "sent" => desk'[c] = desk[c]
  BY TypeParts DEF IInv, MemoryOK, CompleteDispatch, DispatchCurrent, IdleDesk, Free
<1>5. NoLostMessage' /\ SentKept'
  BY <1>3, <1>4, TendedStep
<1> QED
  BY <1>1, <1>2, <1>5, TypePartsNext DEF Safe, IInv, RowsSafe

LEMMA CompleteErrorStep ==
  ASSUME IInv, NEW d \in Dispatchers, CompleteError(d)
  PROVE  Safe
<1>1. RowsSafe
  <2> DEFINE m == desk[d].message
  <2>1. CASE UNCHANGED row
    BY <2>1, RowsUnchanged, TypeParts DEF IInv
  <2>2. CASE OwnsDispatch(d) /\ row' = [row EXCEPT ![m] = Free(row[m], "dispatched")]
    <3>1. m \in Messages
      BY TypeParts DEF IInv, MemoryOK, CompleteError
    <3>2. PICK r : r = Free(row[m], "dispatched")
      OBVIOUS
    <3>3. SoundRow(r) /\ r.state = "dispatched"
      BY <3>1, <3>2, FreeRow, TypeParts DEF IInv, RowsOK
    <3> QED
      BY <2>2, <3>1, <3>2, <3>3, HiddenStep, TypeParts DEF IInv, OwnsDispatch
  <2> QED
    BY <2>1, <2>2 DEF CompleteError, DispatchCurrent
<1>2. MemoryOK' /\ CountsOK'
  BY TypeParts
  DEF IInv, MemoryOK, CountsOK, RowsOK, RowRecords, CompleteError, DispatchCurrent, Free,
      Spend
<1>3. ASSUME NEW n \in Messages PROVE Tended(n)
  <2>1. CASE UNCHANGED row
    BY <2>1 DEF Tended, Kept, CompleteError
  <2>2. CASE /\ DispatchCurrent(d)
             /\ row' = [row EXCEPT ![desk[d].message] = Free(@, "dispatched")]
    <3>1. Kept(desk[d].message)
      BY <2>2 DEF IInv, SentKept, DispatchCurrent, CompleteError
    <3>2. n = desk[d].message => Kept(n)
      BY <3>1
    <3>3. n # desk[d].message => row'[n] = row[n]
      BY <2>2, TypeParts DEF IInv, RowsOK
    <3>4. Kept(n) => Kept(n)'
      BY DEF Kept, CompleteError
    <3> QED
      BY <3>2, <3>3, <3>4 DEF Tended, CompleteError
  <2> QED
    BY <2>1, <2>2 DEF CompleteError
<1>4. \A c \in Dispatchers : desk'[c].step = "sent" => desk'[c] = desk[c]
  BY TypeParts DEF IInv, MemoryOK, CompleteError, DispatchCurrent, Free, Spend
<1>5. NoLostMessage' /\ SentKept'
  BY <1>3, <1>4, TendedStep
<1> QED
  BY <1>1, <1>2, <1>5, TypePartsNext DEF Safe, IInv, RowsSafe

LEMMA ReleaseDispatchStep ==
  ASSUME IInv, NEW d \in Dispatchers, ReleaseDispatch(d)
  PROVE  Safe
<1>1. RowsSafe
  <2> DEFINE m == desk[d].message
  <2>1. CASE UNCHANGED row
    BY <2>1, RowsUnchanged, TypeParts DEF IInv
  <2>2. CASE OwnsDispatch(d) /\ row' = [row EXCEPT ![m] = Free(row[m], "pending")]
    <3>1. m \in Messages
      BY TypeParts DEF IInv, MemoryOK, ReleaseDispatch
    <3>2. PICK r : r = Free(row[m], "pending")
      OBVIOUS
    <3>3. SoundRow(r) /\ r.state = "pending"
      BY <3>1, <3>2, FreeRow, TypeParts DEF IInv, RowsOK
    <3> QED
      BY <2>2, <3>1, <3>2, <3>3, HiddenStep, TypeParts DEF IInv, OwnsDispatch
  <2> QED
    BY <2>1, <2>2 DEF ReleaseDispatch
<1>2. MemoryOK' /\ CountsOK'
  BY TypeParts
  DEF IInv, MemoryOK, CountsOK, RowsOK, RowRecords, ReleaseDispatch, IdleDesk, Free
<1>3. NoLostMessage'
  BY RoleAssumption, NullAssumption
  DEF IInv, TypeOK, NoLostMessage, SentKept, Kept, OwnsDispatch, ReleaseDispatch,
      IdleDesk, Free, Ended
<1>4. SentKept'
  BY RoleAssumption, NullAssumption
  DEF IInv, TypeOK, SentKept, Kept, OwnsDispatch, ReleaseDispatch, IdleDesk, Free, Ended
<1> QED
  BY <1>1, <1>2, <1>3, <1>4, TypePartsNext DEF Safe, IInv, RowsSafe

LEMMA AbandonDispatchStep ==
  ASSUME IInv, NEW d \in Dispatchers, AbandonDispatch(d)
  PROVE  Safe
<1>1. RowsSafe
  BY RowsUnchanged, TypeParts DEF IInv, AbandonDispatch
<1>2. MemoryOK' /\ CountsOK'
  BY TypeParts
  DEF IInv, MemoryOK, CountsOK, RowsOK, RowRecords, AbandonDispatch, IdleDesk, Spend
<1>3. NoLostMessage'
  BY RoleAssumption, NullAssumption
  DEF IInv, TypeOK, NoLostMessage, SentKept, Kept, OwnsDispatch, AbandonDispatch,
      IdleDesk, Spend, Ended
<1>4. SentKept'
  BY RoleAssumption, NullAssumption
  DEF IInv, TypeOK, SentKept, Kept, OwnsDispatch, AbandonDispatch, IdleDesk, Spend, Ended
<1> QED
  BY <1>1, <1>2, <1>3, <1>4, TypePartsNext DEF Safe, IInv, RowsSafe

LEMMA ReceiveStep ==
  ASSUME IInv, NEW w \in Workers, NEW m \in Messages, Receive(w, m)
  PROVE  Safe
<1>1. RowsSafe
  BY RowsUnchanged, TypeParts DEF IInv, Receive
<1>2. MemoryOK' /\ CountsOK'
  <2>1. ready[m] - 1 \in Nat
    BY TypeParts DEF IInv, CountsOK, Receive
  <2> QED
    BY <2>1, TypeParts DEF IInv, MemoryOK, CountsOK, Receive
<1>3. ASSUME NEW n \in Messages PROVE Tended(n)
  BY TypeParts DEF IInv, RowsOK, MemoryOK, CountsOK, Tended, Kept, Receive, Ended
<1>4. \A c \in Dispatchers : desk'[c].step = "sent" => desk'[c] = desk[c]
  BY TypeParts DEF IInv, MemoryOK, Receive
<1>5. NoLostMessage' /\ SentKept'
  BY <1>3, <1>4, TendedStep
<1> QED
  BY <1>1, <1>2, <1>5, TypePartsNext DEF Safe, IInv, RowsSafe

LEMMA ClaimMessageStep ==
  ASSUME IInv, NEW w \in Workers, ClaimMessage(w)
  PROVE  Safe
<1>1. RowsSafe
  BY TakeRow, TypeParts DEF IInv, MemoryOK, ClaimMessage, ClaimedBy
<1>2. MemoryOK' /\ CountsOK'
  <2>1. hand[w].message \in Messages /\ row[hand[w].message].generation + 1 \in Nat
    BY TypeParts DEF IInv, MemoryOK, RowsOK, RowRecords, ClaimMessage
  <2> QED
    BY <2>1, TypeParts DEF IInv, MemoryOK, CountsOK, ClaimMessage, Overtaken
<1>3. ASSUME NEW n \in Messages PROVE Tended(n)
  <2>1. CASE n = hand[w].message
    <3>1. row'[n].state = "claimed"
      BY <2>1, TypeParts DEF IInv, RowsOK, ClaimMessage, ClaimedBy, Taken
    <3>2. hand[w].attached => Kept(n)'
      BY <2>1, TypeParts DEF IInv, MemoryOK, ClaimMessage, Kept
    <3>3. ~ hand[w].attached => n \in overtaken'
      BY <2>1 DEF ClaimMessage, Overtaken
    <3> QED
      BY <3>1, <3>2, <3>3 DEF Tended
  <2>2. CASE n # hand[w].message
    <3>1. row'[n] = row[n] /\ (n \in overtaken => n \in overtaken')
      BY <2>2, TypeParts DEF IInv, RowsOK, ClaimMessage, Overtaken
    <3>2. Kept(n) => Kept(n)'
      BY <2>2, TypeParts DEF IInv, MemoryOK, ClaimMessage, Kept
    <3> QED
      BY <3>1, <3>2 DEF Tended
  <2> QED
    BY <2>1, <2>2
<1>4. \A c \in Dispatchers : desk'[c].step = "sent" => desk'[c] = desk[c]
  BY TypeParts DEF IInv, MemoryOK, ClaimMessage, Claimable, ClaimedBy, Taken, Overtaken
<1>5. NoLostMessage' /\ SentKept'
  BY <1>3, <1>4, TendedStep
<1> QED
  BY <1>1, <1>2, <1>5, TypePartsNext DEF Safe, IInv, RowsSafe

LEMMA BounceBusyStep ==
  ASSUME IInv, NEW w \in Workers, BounceBusy(w)
  PROVE  Safe
<1>1. RowsSafe
  BY RowsUnchanged, TypeParts DEF IInv, BounceBusy
<1>2. MemoryOK' /\ CountsOK'
  BY TypeParts
  DEF IInv, MemoryOK, CountsOK, RowsOK, RowRecords, BounceBusy, Requeued, IdleHand,
      Claimable
<1>3. ASSUME NEW n \in Messages PROVE Tended(n)
  BY TypeParts
  DEF IInv, RowsOK, MemoryOK, CountsOK, Tended, Kept, BounceBusy, Requeued, IdleHand,
      Claimable, Ended
<1>4. \A c \in Dispatchers : desk'[c].step = "sent" => desk'[c] = desk[c]
  BY TypeParts DEF IInv, MemoryOK, BounceBusy, Requeued, IdleHand, Claimable
<1>5. NoLostMessage' /\ SentKept'
  BY <1>3, <1>4, TendedStep
<1> QED
  BY <1>1, <1>2, <1>5, TypePartsNext DEF Safe, IInv, RowsSafe

LEMMA AckEndedStep ==
  ASSUME IInv, NEW w \in Workers, AckEnded(w)
  PROVE  Safe
<1>1. RowsSafe
  BY RowsUnchanged, TypeParts DEF IInv, AckEnded
<1>2. MemoryOK' /\ CountsOK'
  BY TypeParts DEF IInv, MemoryOK, CountsOK, RowsOK, RowRecords, AckEnded, IdleHand
<1>3. ASSUME NEW n \in Messages PROVE Tended(n)
  BY TypeParts DEF IInv, RowsOK, MemoryOK, CountsOK, Tended, Kept, AckEnded, IdleHand, Ended
<1>4. \A c \in Dispatchers : desk'[c].step = "sent" => desk'[c] = desk[c]
  BY TypeParts DEF IInv, MemoryOK, AckEnded, IdleHand
<1>5. NoLostMessage' /\ SentKept'
  BY <1>3, <1>4, TendedStep
<1> QED
  BY <1>1, <1>2, <1>5, TypePartsNext DEF Safe, IInv, RowsSafe

LEMMA ClaimErrorStep ==
  ASSUME IInv, NEW w \in Workers, ClaimError(w)
  PROVE  Safe
<1>1. RowsSafe
  BY TakeRow, RowsUnchanged, TypeParts DEF IInv, MemoryOK, ClaimError, ClaimedBy
<1>2. MemoryOK' /\ CountsOK'
  BY TypeParts
  DEF IInv, MemoryOK, CountsOK, RowsOK, RowRecords, ClaimError, Requeued, IdleHand,
      Claimable, ClaimedBy, Taken, Overtaken, Spend
<1>3. ASSUME NEW n \in Messages PROVE Tended(n)
  <2>1. CASE n = hand[w].message /\ hand[w].attached
    <3>1. Kept(n)'
      BY <2>1, TypeParts DEF IInv, CountsOK, ClaimError, Requeued, Kept
    <3> QED
      BY <3>1 DEF Tended
  <2>2. CASE ~ (n = hand[w].message /\ hand[w].attached)
    <3>1. \A v \in Workers : hand[v].attached /\ hand[v].message = n => hand'[v] = hand[v]
      BY <2>2, TypeParts DEF IInv, MemoryOK, ClaimError
    <3>2. ready[n] > 0 => ready'[n] > 0
      BY <2>2, TypeParts DEF IInv, CountsOK, ClaimError, Requeued
    <3>3. Kept(n) => Kept(n)'
      BY <3>1, <3>2 DEF Kept
    <3>4. \/ row'[n] = row[n] /\ (n \in overtaken => n \in overtaken')
          \/ row'[n].state = "claimed" /\ n \in overtaken'
      <4>1. CASE n = hand[w].message
        <5>1. CASE UNCHANGED <<row, overtaken>>
          BY <5>1
        <5>2. CASE row' = [row EXCEPT ![n] = ClaimedBy(w)] /\ overtaken' = Overtaken(w)
          <6>1. row'[n].state = "claimed"
            BY <4>1, <5>2, TypeParts DEF IInv, RowsOK, ClaimedBy, Taken, RowRecords
          <6>2. n \in overtaken'
            BY <2>2, <4>1, <5>2 DEF Overtaken
          <6> QED
            BY <6>1, <6>2
        <5> QED
          BY <4>1, <5>1, <5>2 DEF ClaimError
      <4>2. CASE n # hand[w].message
        BY <4>2, TypeParts DEF IInv, RowsOK, ClaimError, Overtaken
      <4> QED
        BY <4>1, <4>2
    <3> QED
      BY <3>3, <3>4 DEF Tended
  <2> QED
    BY <2>1, <2>2
<1>4. \A c \in Dispatchers : desk'[c].step = "sent" => desk'[c] = desk[c]
  BY TypeParts
  DEF IInv, MemoryOK, ClaimError, Requeued, IdleHand, Claimable, ClaimedBy, Taken,
      Overtaken, Spend
<1>5. NoLostMessage' /\ SentKept'
  BY <1>3, <1>4, TendedStep
<1> QED
  BY <1>1, <1>2, <1>5, TypePartsNext DEF Safe, IInv, RowsSafe

LEMMA GiveBackStep ==
  ASSUME IInv, NEW w \in Workers, GiveBack(w)
  PROVE  Safe
<1>1. RowsSafe
  <2>m. PICK m \in Messages : m = hand[w].message
    BY TypeParts DEF IInv, MemoryOK, GiveBack
  <2>1. PICK r : r = [Free(row[m], "pending") EXCEPT !.attempt = row[m].attempt + 1]
    OBVIOUS
  <2>2. row[m].attempt + 1 \in Nat
    BY TypeParts DEF IInv, MemoryOK, RowsOK, RowRecords, GiveBack
  <2>3. SoundRow(r) /\ Standing(r) = "waiting" /\ HolderOf(r) = Nobody
    BY <2>1, <2>2, FreeRow, TypeParts
    DEF IInv, RowsOK, SoundRow, RowRecords, Standing, HolderOf
  <2>4. row' = [row EXCEPT ![m] = r]
    BY <2>m, <2>1 DEF GiveBack
  <2>5. RowsOK' /\ Contract!Move(m, "waiting", Nobody)
    BY <2>3, <2>4, RowStep, TypeParts DEF IInv
  <2>6. Contract!GiveBack(m, w)
    BY <2>m, <2>5 DEF Contract!GiveBack, GiveBack, HoldsClaim, Standing
  <2> QED
    BY <2>5, <2>6 DEF RowsSafe, Honoured, Contract!Next
<1>2. MemoryOK' /\ CountsOK'
  BY TypeParts DEF IInv, MemoryOK, CountsOK, RowsOK, RowRecords, GiveBack, HoldsClaim, Free
<1>3. NoLostMessage'
  BY RoleAssumption, NullAssumption
  DEF IInv, TypeOK, NoLostMessage, SentKept, Kept, OwnsDispatch, GiveBack, HoldsClaim,
      Free, Ended
<1>4. SentKept'
  BY RoleAssumption, NullAssumption
  DEF IInv, TypeOK, SentKept, Kept, OwnsDispatch, GiveBack, HoldsClaim, Free, Ended
<1> QED
  BY <1>1, <1>2, <1>3, <1>4, TypePartsNext DEF Safe, IInv, RowsSafe

LEMMA EndMessageStep ==
  ASSUME IInv, NEW w \in Workers, EndMessage(w)
  PROVE  Safe
<1>1. RowsSafe
  <2> DEFINE m == hand[w].message
  <2>1. PICK end \in Ended : row' = [row EXCEPT ![m] = Free(row[m], end)]
    BY DEF EndMessage
  <2>2. PICK r : r = Free(row[m], end)
    OBVIOUS
  <2>3. m \in Messages
    BY TypeParts DEF IInv, MemoryOK, EndMessage
  <2>4. SoundRow(r) /\ Standing(r) = end /\ HolderOf(r) = Nobody
    BY <2>2, <2>3, FreeRow, TypeParts DEF IInv, RowsOK, Ended, Standing, HolderOf
  <2>5. RowsOK' /\ Contract!Move(m, end, Nobody)
    BY <2>1, <2>2, <2>3, <2>4, RowStep, TypeParts DEF IInv
  <2>6. Contract!End(m, w)
    BY <2>3, <2>5 DEF Contract!End, Contract!Ends, Ended, EndMessage, HoldsClaim, Standing
  <2> QED
    BY <2>3, <2>5, <2>6 DEF RowsSafe, Honoured, Contract!Next
<1>2. MemoryOK' /\ CountsOK'
  BY TypeParts
  DEF IInv, MemoryOK, CountsOK, RowsOK, RowRecords, EndMessage, HoldsClaim, Free
<1>3. ASSUME NEW n \in Messages PROVE Tended(n)
  BY TypeParts
  DEF IInv, RowsOK, MemoryOK, CountsOK, Tended, Kept, EndMessage, HoldsClaim, Free, Ended
<1>4. \A c \in Dispatchers : desk'[c].step = "sent" => desk'[c] = desk[c]
  BY TypeParts DEF IInv, MemoryOK, EndMessage, HoldsClaim, Free
<1>5. NoLostMessage' /\ SentKept'
  BY <1>3, <1>4, TendedStep
<1> QED
  BY <1>1, <1>2, <1>5, TypePartsNext DEF Safe, IInv, RowsSafe

LEMMA WorkFencedStep ==
  ASSUME IInv, NEW w \in Workers, WorkFenced(w)
  PROVE  Safe
<1>1. RowsSafe
  BY RowsUnchanged, TypeParts DEF IInv, WorkFenced
<1>2. MemoryOK' /\ CountsOK'
  BY TypeParts
  DEF IInv, MemoryOK, CountsOK, RowsOK, RowRecords, WorkFenced, Requeued, IdleHand
<1>3. ASSUME NEW n \in Messages PROVE Tended(n)
  BY TypeParts
  DEF IInv, RowsOK, MemoryOK, CountsOK, Tended, Kept, WorkFenced, Requeued, IdleHand,
      Ended
<1>4. \A c \in Dispatchers : desk'[c].step = "sent" => desk'[c] = desk[c]
  BY TypeParts DEF IInv, MemoryOK, WorkFenced, Requeued, IdleHand
<1>5. NoLostMessage' /\ SentKept'
  BY <1>3, <1>4, TendedStep
<1> QED
  BY <1>1, <1>2, <1>5, TypePartsNext DEF Safe, IInv, RowsSafe

LEMMA WorkAbandonedStep ==
  ASSUME IInv, NEW w \in Workers, WorkAbandoned(w)
  PROVE  Safe
<1>1. RowsSafe
  BY RowsUnchanged, TypeParts DEF IInv, WorkAbandoned
<1>2. MemoryOK' /\ CountsOK'
  BY TypeParts
  DEF IInv, MemoryOK, CountsOK, RowsOK, RowRecords, WorkAbandoned, Requeued, IdleHand,
      Spend
<1>3. ASSUME NEW n \in Messages PROVE Tended(n)
  BY TypeParts
  DEF IInv, RowsOK, MemoryOK, CountsOK, Tended, Kept, WorkAbandoned, Requeued, IdleHand,
      Spend, Ended
<1>4. \A c \in Dispatchers : desk'[c].step = "sent" => desk'[c] = desk[c]
  BY TypeParts DEF IInv, MemoryOK, WorkAbandoned, Requeued, IdleHand, Spend
<1>5. NoLostMessage' /\ SentKept'
  BY <1>3, <1>4, TendedStep
<1> QED
  BY <1>1, <1>2, <1>5, TypePartsNext DEF Safe, IInv, RowsSafe

LEMMA AckStep ==
  ASSUME IInv, NEW w \in Workers, Ack(w)
  PROVE  Safe
<1>1. RowsSafe
  BY RowsUnchanged, TypeParts DEF IInv, Ack
<1>2. MemoryOK' /\ CountsOK'
  BY TypeParts DEF IInv, MemoryOK, CountsOK, RowsOK, RowRecords, Ack, IdleHand
<1>3. NoLostMessage'
  BY RoleAssumption, NullAssumption
  DEF IInv, TypeOK, NoLostMessage, SentKept, Kept, OwnsDispatch, Ack, IdleHand, Ended
<1>4. SentKept'
  BY RoleAssumption, NullAssumption
  DEF IInv, TypeOK, SentKept, Kept, OwnsDispatch, Ack, IdleHand, Ended
<1> QED
  BY <1>1, <1>2, <1>3, <1>4, TypePartsNext DEF Safe, IInv, RowsSafe

LEMMA ConnectionLostStep ==
  ASSUME IInv, NEW w \in Workers, ConnectionLost(w)
  PROVE  Safe
<1>1. RowsSafe
  BY RowsUnchanged, TypeParts DEF IInv, ConnectionLost
<1>2. MemoryOK' /\ CountsOK'
  <2>1. hand[w].message \in Messages => ready[hand[w].message] + 1 \in Nat
    BY TypeParts DEF IInv, CountsOK
  <2>2. ready' \in [Messages -> Nat]
    BY <2>1, TypeParts DEF IInv, CountsOK, ConnectionLost
  <2>3. MemoryOK'
    BY TypeParts DEF IInv, MemoryOK, ConnectionLost
  <2> QED
    BY <2>2, <2>3, TypeParts DEF IInv, CountsOK, ConnectionLost, Spend
<1>3. NoLostMessage'
  BY RoleAssumption, NullAssumption
  DEF IInv, TypeOK, NoLostMessage, SentKept, Kept, OwnsDispatch, ConnectionLost, Spend,
      Ended
<1>4. SentKept'
  BY RoleAssumption, NullAssumption
  DEF IInv, TypeOK, SentKept, Kept, OwnsDispatch, ConnectionLost, Spend, Ended
<1> QED
  BY <1>1, <1>2, <1>3, <1>4, TypePartsNext DEF Safe, IInv, RowsSafe

LEMMA CrashStep ==
  ASSUME IInv, NEW w \in Workers, Crash(w)
  PROVE  Safe
<1>1. RowsSafe
  BY RowsUnchanged, TypeParts DEF IInv, Crash
<1>2. MemoryOK' /\ CountsOK'
  BY TypeParts
  DEF IInv, MemoryOK, CountsOK, RowsOK, RowRecords, Crash, Requeued, IdleHand, Spend
<1>3. NoLostMessage'
  BY RoleAssumption, NullAssumption
  DEF IInv, TypeOK, NoLostMessage, SentKept, Kept, OwnsDispatch, Crash, Requeued,
      IdleHand, Spend, Ended
<1>4. SentKept'
  BY RoleAssumption, NullAssumption
  DEF IInv, TypeOK, SentKept, Kept, OwnsDispatch, Crash, Requeued, IdleHand, Spend, Ended
<1> QED
  BY <1>1, <1>2, <1>3, <1>4, TypePartsNext DEF Safe, IInv, RowsSafe

LEMMA Stutter ==
  ASSUME IInv, UNCHANGED vars
  PROVE  Safe
<1>1. RowsSafe
  BY RowsUnchanged, TypeParts DEF IInv, vars
<1>2. MemoryOK' /\ CountsOK'
  BY TypeParts DEF IInv, MemoryOK, CountsOK, vars
<1>3. NoLostMessage' /\ SentKept'
  BY DEF IInv, NoLostMessage, SentKept, Kept, OwnsDispatch, vars
<1> QED
  BY <1>1, <1>2, <1>3, TypePartsNext DEF Safe, IInv, RowsSafe

-----------------------------------------------------------------------------
(* The theorems *)

LEMMA InitIInv == Init => IInv /\ Contract!Init
<1> SUFFICES ASSUME Init PROVE IInv /\ Contract!Init
  OBVIOUS
<1> USE DEF Init
<1>1. RowsOK
  BY NullAssumption DEF RowsOK, SoundRow, RowRecords, RowStates
<1>2. MemoryOK /\ CountsOK
  BY BoundAssumption DEF MemoryOK, CountsOK, IdleDesk, IdleHand
<1>3. NoLostMessage /\ SentKept
  BY DEF NoLostMessage, SentKept, IdleDesk
<1>4. Contract!Init
  BY DEF Contract!Init, Standing
<1> QED
  BY <1>1, <1>2, <1>3, <1>4, TypeParts DEF IInv

LEMMA NextSafe == IInv /\ [Next]_vars => Safe
<1> SUFFICES ASSUME IInv, [Next]_vars PROVE Safe
  OBVIOUS
<1>1. ASSUME NEW m \in Messages, Post(m) \/ Cancel(m) \/ Expire(m) PROVE Safe
  BY <1>1, PostStep, CancelStep, ExpireStep
<1>2. ASSUME NEW d \in Dispatchers, Dispatching(d) PROVE Safe
  BY <1>2, ClaimDispatchStep, PublishConfirmedStep, CompleteDispatchStep,
     ReleaseDispatchStep DEF Dispatching
<1>3. ASSUME NEW d \in Dispatchers,
             PublishFailed(d) \/ CompleteError(d) \/ AbandonDispatch(d)
      PROVE  Safe
  BY <1>3, PublishFailedStep, CompleteErrorStep, AbandonDispatchStep
<1>4. ASSUME NEW w \in Workers, Consuming(w) PROVE Safe
  BY <1>4, ReceiveStep, ClaimMessageStep, BounceBusyStep, AckEndedStep,
     GiveBackStep, EndMessageStep, WorkFencedStep, AckStep DEF Consuming
<1>5. ASSUME NEW w \in Workers,
             ClaimError(w) \/ WorkAbandoned(w) \/ ConnectionLost(w) \/ Crash(w)
      PROVE  Safe
  BY <1>5, ClaimErrorStep, WorkAbandonedStep, ConnectionLostStep, CrashStep
<1>6. CASE UNCHANGED vars
  BY <1>6, Stutter
<1> QED
  BY <1>1, <1>2, <1>3, <1>4, <1>5, <1>6 DEF Next

(* The inductive invariant holds of every behaviour. *)
THEOREM RelayInvariance == Spec => []IInv
<1>1. Init => IInv
  BY InitIInv
<1>2. IInv /\ [Next]_vars => IInv'
  BY NextSafe DEF Safe
<1> QED
  BY <1>1, <1>2, PTL DEF Spec

(* Rows, dispatchers, workers and the queue keep their shapes. *)
THEOREM RelayTypeCorrect == Spec => []TypeOK
<1>1. IInv => TypeOK
  BY DEF IInv
<1> QED
  BY <1>1, RelayInvariance, PTL

(* Whatever fails, in whatever order the broker delivers, a dispatched row has
   a command somewhere, and so has a claimed one unless it was claimed for a
   delivery that had been taken back. *)
THEOREM NothingIsLost == Spec => []NoLostMessage
<1>1. IInv => NoLostMessage
  BY DEF IInv
<1> QED
  BY <1>1, RelayInvariance, PTL

(* The broker's transport honours the contract of the outbox, the one that the
   database's transport honours in PublishExecution. *)
THEOREM RelayImplementsContract == Spec => HonoursContract
<1>1. Init => Contract!Init
  BY InitIInv
<1>2. IInv /\ [Next]_vars => [Contract!Next]_(Contract!vars)
  BY NextSafe DEF Safe, Honoured
<1> QED
  BY <1>1, <1>2, RelayInvariance, PTL DEF Spec, HonoursContract, Contract!Spec

=============================================================================
