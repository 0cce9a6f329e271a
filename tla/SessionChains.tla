----------------------------- MODULE SessionChains -----------------------------
(***************************************************************************)
(* What refresh tokens promise their account: a session is a chain of       *)
(* tokens that starts at a sign-in, only its last token can be exchanged,   *)
(* and it ends for a cause and for good (auth/refresh.go:77-93).            *)
(***************************************************************************)
CONSTANT Tokens

VARIABLES
  head,   \* the last token of each chain; a chain is named after its first
  issued, \* every token ever handed out
  aged,   \* tokens past their expiry
  alarm   \* a spent token was presented, or the account is to be deleted

vars == <<head, issued, aged, alarm>>

Init ==
  /\ head = [f \in Tokens |-> {}]
  /\ issued = {} /\ aged = {} /\ alarm = FALSE

Open(f) ==
  /\ f \notin issued
  /\ head' = [head EXCEPT ![f] = {f}]
  /\ issued' = issued \cup {f}
  /\ UNCHANGED <<aged, alarm>>

Exchange(f, n) ==
  /\ n \notin issued /\ \E t \in issued : head[f] = {t}
  /\ head' = [head EXCEPT ![f] = {n}]
  /\ issued' = issued \cup {n}
  /\ UNCHANGED <<aged, alarm>>

\* Any number of chains end together, for a cause.
End ==
  /\ head' = [f \in Tokens |-> head'[f]]
  /\ \A f \in Tokens :
       head'[f] = head[f] \/ (head'[f] = {} /\ (alarm \/ head[f] \subseteq aged))
  /\ UNCHANGED <<issued, aged, alarm>>

Age(t) ==
  /\ t \in issued
  /\ aged' = aged \cup {t}
  /\ UNCHANGED <<head, issued, alarm>>

Alarm == alarm' = TRUE /\ UNCHANGED <<head, issued, aged>>

Next ==
  \/ \E f \in Tokens : Open(f) \/ Age(f) \/ \E n \in Tokens : Exchange(f, n)
  \/ End \/ Alarm

Spec == Init /\ [][Next]_vars
=============================================================================
