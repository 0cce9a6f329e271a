---------------------------- MODULE DeletionPromise ----------------------------
(***************************************************************************)
(* What DELETE /me promises the owner of an account, without outbox, broker *)
(* or worker (auth/service.go:133-136, account/queue.go:52-53): a deletion  *)
(* that was accepted is carried out, or else an operator has it.            *)
(***************************************************************************)
CONSTANT Users

VARIABLES
  deletion, \* "none", "due" or "done"
  letter    \* whether a dead letter tells the operator of the account

vars == <<deletion, letter>>

Init ==
  /\ deletion = [u \in Users |-> "none"]
  /\ letter = [u \in Users |-> FALSE]

Accept(u) ==
  /\ deletion[u] = "none"
  /\ deletion' = [deletion EXCEPT ![u] = "due"]
  /\ UNCHANGED letter

CarryOut(u) ==
  /\ deletion[u] = "due"
  /\ deletion' = [deletion EXCEPT ![u] = "done"]
  /\ UNCHANGED letter

\* Only an accepted deletion reaches the operator, and it stays there.
TellOperator(u) ==
  /\ deletion[u] # "none" /\ ~letter[u]
  /\ letter' = [letter EXCEPT ![u] = TRUE]
  /\ UNCHANGED deletion

\* What may not stay undone: a due deletion nobody else has been told of.
Settle(u) == deletion[u] = "due" /\ ~letter[u] /\ (CarryOut(u) \/ TellOperator(u))

Next == \E u \in Users : Accept(u) \/ CarryOut(u) \/ TellOperator(u)

Spec     == Init /\ [][Next]_vars
FairSpec == Spec /\ \A u \in Users : WF_vars(Settle(u))
=============================================================================
