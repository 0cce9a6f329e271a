------------------------------ MODULE RunSequence ------------------------------
(***************************************************************************)
(* What re-analysis promises the owner of a conversation: its runs follow   *)
(* one another, each newer than all before it and begun when they are over, *)
(* and a run that is over is not begun again (analysis/service.go:197-202). *)
(***************************************************************************)
EXTENDS Integers

CONSTANTS
  Convs, \* conversations
  Runs,  \* their runs, numbered by age
  None   \* the conversation of a run that is not there yet

VARIABLES
  conv,  \* the conversation each run scores
  state  \* "none", "active" or "ended"

vars == <<conv, state>>

RunsFor(c) == {r \in Runs : conv[r] = c}

Init ==
  /\ conv = [r \in Runs |-> None]
  /\ state = [r \in Runs |-> "none"]

Start(c, r) ==
  /\ state[r] = "none"
  /\ \A p \in RunsFor(c) : p < r /\ state[p] = "ended"
  /\ conv' = [conv EXCEPT ![r] = c]
  /\ state' = [state EXCEPT ![r] = "active"]

End(r) ==
  /\ state[r] = "active"
  /\ state' = [state EXCEPT ![r] = "ended"]
  /\ UNCHANGED conv

Next == \E r \in Runs : End(r) \/ \E c \in Convs : Start(c, r)

Spec == Init /\ [][Next]_vars
=============================================================================
