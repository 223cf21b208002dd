--------------------------- MODULE OutboxContract ---------------------------
(***************************************************************************)
(* What the publishing code relies on when it works on a row of the outbox, *)
(* whatever brings the row to a worker: a row waits until a worker holds it, *)
(* is ended or given back by a worker only while it is held, lapses when its *)
(* holder goes silent, can then only be claimed again or cancelled, and an   *)
(* end is final.                                                            *)
(***************************************************************************)
CONSTANTS
  Messages,   \* rows of the outbox
  Workers,
  Nobody

Ends == {"completed", "dead"}
Standings == {"absent", "waiting", "held", "lapsed"} \cup Ends

VARIABLES
  standing,   \* where a row stands
  holder      \* who holds it, or held it last when it lapsed

vars == <<standing, holder>>

Init ==
  /\ standing = [m \in Messages |-> "absent"]
  /\ holder = [m \in Messages |-> Nobody]

Move(m, state, w) ==
  /\ standing' = [standing EXCEPT ![m] = state]
  /\ holder' = [holder EXCEPT ![m] = w]

Post(m) == standing[m] = "absent" /\ Move(m, "waiting", Nobody)

Claim(m, w) == standing[m] \in {"waiting", "lapsed"} /\ Move(m, "held", w)

Lapse(m) == standing[m] = "held" /\ Move(m, "lapsed", holder[m])

GiveBack(m, w) ==
  standing[m] = "held" /\ holder[m] = w /\ Move(m, "waiting", Nobody)

End(m, w) ==
  /\ standing[m] = "held" /\ holder[m] = w
  /\ \E end \in Ends : Move(m, end, Nobody)

(* Rows that are taken back together, whoever holds them. *)
Cancel(rows) ==
  /\ \A m \in rows : standing[m] \notin Ends \cup {"absent"}
  /\ standing' = [m \in Messages |-> IF m \in rows THEN "dead" ELSE standing[m]]
  /\ holder' = [m \in Messages |-> IF m \in rows THEN Nobody ELSE holder[m]]

Next ==
  \/ \E m \in Messages :
       \/ Post(m) \/ Lapse(m)
       \/ \E w \in Workers : Claim(m, w) \/ GiveBack(m, w) \/ End(m, w)
  \/ \E rows \in SUBSET Messages : Cancel(rows)

Spec == Init /\ [][Next]_vars

=============================================================================
