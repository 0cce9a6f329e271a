---------------------------- MODULE BookingPromise ----------------------------
(***************************************************************************)
(* What a paid booking promises its client, without rows, webhooks or      *)
(* sweeps: the coach is asked only once the money is held, agrees only     *)
(* once it is charged, a charge always leads to an agreed session, and a   *)
(* hold is given back only when the session is over (payments.go:6-8).     *)
(***************************************************************************)
CONSTANT Sessions

VARIABLES
  money,   \* "none", "held", "charged" or "returned"
  meeting  \* "none", "asked", "agreed", "reasked" (moved by the client) or "over"

vars == <<money, meeting>>

Init ==
  /\ money = [s \in Sessions |-> "none"]
  /\ meeting = [s \in Sessions |-> "none"]

\* Session s's money goes from a to b while its meeting is one of M.
Money(s, a, b, M) ==
  /\ money[s] = a /\ money'[s] = b
  /\ meeting[s] \in M /\ meeting'[s] = meeting[s]

\* Session s's meeting goes from a to b while its money is one of M.
Meeting(s, a, b, M) ==
  /\ meeting[s] = a /\ meeting'[s] = b
  /\ money[s] \in M /\ money'[s] = money[s]

Hold(s)     == Money(s, "none", "held", {"none", "over"})
Charge(s)   == Money(s, "held", "charged", {"asked"})
GiveBack(s) == Money(s, "held", "returned", {"over"})
Refund(s)   == Money(s, "charged", "returned", {"over"})

Ask(s)    == Meeting(s, "none", "asked", {"held"})
Agree(s)  == \E a \in {"asked", "reasked"} : Meeting(s, a, "agreed", {"charged"})
Reopen(s) == Meeting(s, "agreed", "reasked", {"charged"})
\* A request that was charged for ends only by way of an agreed session.
End(s) ==
  \/ Meeting(s, "none", "over", {"none", "held"})
  \/ Meeting(s, "asked", "over", {"held"})
  \/ \E a \in {"agreed", "reasked"} : Meeting(s, a, "over", {"charged"})

Step(s) ==
  \/ Hold(s) \/ Charge(s) \/ GiveBack(s) \/ Refund(s)
  \/ Ask(s) \/ Agree(s) \/ Reopen(s) \/ End(s)
  \/ money'[s] = money[s] /\ meeting'[s] = meeting[s]

\* One timer may end several sessions at once.
Next == \A s \in Sessions : Step(s)

Spec == Init /\ [][Next]_vars
=============================================================================
