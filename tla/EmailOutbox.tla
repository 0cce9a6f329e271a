----------------------------- MODULE EmailOutbox -----------------------------
(***************************************************************************)
(* The mails that services record with the change they announce, and the    *)
(* relays of the workers that deliver them: Drain of notify/outbox.go over  *)
(* the email_outbox statements.  Several workers list the same rows; each   *)
(* handles its list mail by mail.  Addresses, texts and the order of a list *)
(* are left out.                                                            *)
(***************************************************************************)
EXTENDS Integers, FiniteSets

CONSTANTS
  Mails,        \* bound: mails recorded in all
  Relays,       \* the workers' relays
  MaxAttempts,  \* MaxAttempts
  MaxFaults,    \* bound: sends that fail though accepted, lost statements, dead workers
  NULL

ASSUME OutboxAssumption ==
  MaxAttempts \in Nat \ {0} /\ MaxFaults \in Nat /\ NULL \notin Mails /\ IsFiniteSet(Relays)

VARIABLES
  row,       \* each mail's row: recorded, due, sent_at set, attempts
  relay,     \* each relay: the rest of its list, the mail in hand, what became of it
  delivered, \* how often each mail was accepted by the server
  again,     \* how many of those no row will ever tell of
  rounds,    \* how often each mail became due
  faults     \* how much of MaxFaults is used

vars == <<row, relay, delivered, again, rounds, faults>>

Idle == [at |-> "idle", todo |-> {}, mail |-> NULL]

TypeOK ==
  /\ row \in [Mails -> [recorded : BOOLEAN, due : BOOLEAN, sent : BOOLEAN, attempts : Nat]]
  /\ relay \in [Relays -> [at : {"idle", "pass", "sent", "failed"}, todo : SUBSET Mails, mail : Mails \cup {NULL}]]
  /\ {delivered, again, rounds} \subseteq [Mails -> Nat]
  /\ faults \in 0..MaxFaults
  /\ \A m \in Mails : row[m].attempts < MaxAttempts + Cardinality(Relays)
  /\ \A r \in Relays : relay[r].mail # NULL <=> relay[r].at \in {"sent", "failed"}

Init ==
  /\ row = [m \in Mails |-> [recorded |-> FALSE, due |-> FALSE, sent |-> FALSE, attempts |-> 0]]
  /\ relay = [r \in Relays |-> Idle]
  /\ delivered = [m \in Mails |-> 0] /\ again = [m \in Mails |-> 0] /\ rounds = [m \in Mails |-> 0]
  /\ faults = 0

Fault == faults < MaxFaults /\ faults' = faults + 1
-----------------------------------------------------------------------------
(* The statements *)

EnqueueEmail(m) == row' = [row EXCEPT ![m].recorded = TRUE, ![m].due = TRUE]

\* Faulty variant: off by one.
PendingOnceMore == {m \in Mails : row[m].recorded /\ ~row[m].sent /\ row[m].due /\ row[m].attempts <= MaxAttempts}

PendingEmails == {m \in Mails : row[m].recorded /\ ~row[m].sent /\ row[m].due /\ row[m].attempts < MaxAttempts}

\* Faulty variant: sent_at stays empty.
MarkAttempted(m) == row' = [row EXCEPT ![m].attempts = @ + 1]

MarkEmailSent(m) ==
  row' = IF row[m].sent THEN row ELSE [row EXCEPT ![m].sent = TRUE, ![m].attempts = @ + 1]

\* Faulty variant: the next attempt is not put off.
MarkFailedDue(m) == row' = IF row[m].sent THEN row ELSE [row EXCEPT ![m].attempts = @ + 1]

\* next_attempt_at is retryDelay away.
MarkEmailFailed(m) ==
  row' = IF row[m].sent THEN row ELSE [row EXCEPT ![m].attempts = @ + 1, ![m].due = FALSE]
-----------------------------------------------------------------------------
\* A service commits a change and its mail.
Record(m) ==
  /\ ~row[m].recorded
  /\ EnqueueEmail(m)
  /\ rounds' = [rounds EXCEPT ![m] = 1]
  /\ UNCHANGED <<relay, delivered, again, faults>>

\* retryDelay passes.
Due(m) ==
  /\ row[m].recorded /\ ~row[m].sent /\ ~row[m].due
  /\ row' = [row EXCEPT ![m].due = TRUE]
  /\ rounds' = [rounds EXCEPT ![m] = @ + 1]
  /\ UNCHANGED <<relay, delivered, again, faults>>

\* A tick: Drain lists what is pending.
Drain(r) ==
  /\ relay[r].at = "idle" /\ PendingEmails # {}
  /\ relay' = [relay EXCEPT ![r] = [at |-> "pass", todo |-> PendingEmails, mail |-> NULL]]
  /\ UNCHANGED <<row, delivered, again, rounds, faults>>

Takes(r, m, at) ==
  /\ relay[r].at = "pass" /\ m \in relay[r].todo
  /\ relay' = [relay EXCEPT ![r] = [at |-> at, todo |-> @.todo \ {m}, mail |-> m]]

\* notifier.Send: whatever has happened to the row since it was listed.
SendAccepted(r, m) ==
  /\ Takes(r, m, "sent")
  /\ delivered' = [delivered EXCEPT ![m] = @ + 1]
  /\ UNCHANGED <<row, again, rounds, faults>>

\* The server refuses, cannot be reached, or its answer is lost.
SendRefused(r, m) ==
  /\ Takes(r, m, "failed")
  /\ \/ UNCHANGED <<delivered, again, faults>>
     \/ /\ delivered' = [delivered EXCEPT ![m] = @ + 1]
        /\ again' = [again EXCEPT ![m] = @ + 1]
        /\ Fault
  /\ UNCHANGED <<row, rounds>>

\* Faulty variant: a mail that is refused ends the pass unrecorded.
RecordsNothing(r) ==
  /\ relay[r].at \in {"sent", "failed"}
  /\ IF relay[r].at = "sent" THEN MarkEmailSent(relay[r].mail) ELSE UNCHANGED row
  /\ relay' = [relay EXCEPT ![r] = Idle]
  /\ UNCHANGED <<delivered, again, rounds, faults>>

\* The outcome is recorded; the pass goes on, or is over.
RecordOutcome(r) ==
  /\ relay[r].at \in {"sent", "failed"}
  /\ IF relay[r].at = "sent" THEN MarkEmailSent(relay[r].mail) ELSE MarkEmailFailed(relay[r].mail)
  /\ relay' = [relay EXCEPT ![r] = IF @.todo = {} THEN Idle ELSE [@ EXCEPT !.at = "pass", !.mail = NULL]]
  /\ UNCHANGED <<delivered, again, rounds, faults>>

\* A statement fails and ends the pass, or the worker dies and starts anew.
PassFails(r) ==
  /\ relay[r].at # "idle" /\ Fault
  /\ relay' = [relay EXCEPT ![r] = Idle]
  /\ again' = IF relay[r].at = "sent" THEN [again EXCEPT ![relay[r].mail] = @ + 1] ELSE again
  /\ UNCHANGED <<row, delivered, rounds>>
-----------------------------------------------------------------------------
RelayStep(r) ==
  \/ Drain(r) \/ RecordOutcome(r)
  \/ \E m \in Mails : SendAccepted(r, m) \/ SendRefused(r, m)

Next ==
  \/ \E m \in Mails : Record(m) \/ Due(m)
  \/ \E r \in Relays : RelayStep(r) \/ PassFails(r)

Spec == Init /\ [][Next]_vars

\* Relays tick, sends are bounded by their timeout, and time passes.
FairSpec == Spec /\ (\A r \in Relays : WF_vars(RelayStep(r))) /\ (\A m \in Mails : WF_vars(Due(m)))
-----------------------------------------------------------------------------
\* A mail marked sent was accepted; and it is accepted at most once for each relay,
\* sends apart whose success was lost on the way back or with the worker.
DeliveredAsMarked ==
  \A m \in Mails :
    /\ row[m].sent => delivered[m] > 0
    /\ delivered[m] <= Cardinality(Relays) + again[m]

\* outbox.go:18-22: an outage is ridden out because attempts are spaced. However the
\* relays overlap, a mail loses at most one attempt for each of them before the next
\* delay.
AttemptsAreSpaced ==
  \A m \in Mails : row[m].attempts <= Cardinality(Relays) * rounds[m]

\* "certain to be attempted even when SMTP is down": every mail recorded is delivered
\* or used up its attempts.
MailsEnd ==
  \A m \in Mails : row[m].recorded ~> row[m].sent \/ row[m].attempts >= MaxAttempts
-----------------------------------------------------------------------------
(* What the passes under way imply: the proofs' induction.                  *)

\* The relays whose send of m was accepted and is to be recorded, and those that may
\* still send it or record a failure.
HasSent(p, m) == p.at = "sent" /\ p.mail = m
Faces(p, m)   == m \in p.todo \/ (p.at = "failed" /\ p.mail = m)
Accepted(m)   == {r \in Relays : HasSent(relay[r], m)}
Facing(m)     == {r \in Relays : Faces(relay[r], m)}

RelayAgrees(r) ==
  /\ relay[r].at = "idle" => relay[r].todo = {}
  /\ relay[r].mail \notin relay[r].todo

\* Each relay that has a mail in its list can still cost it an attempt, and can still
\* deliver it; a mail is listed only while it is due, which ends with the first failure.
MailAgrees(m) ==
  LET open == Cardinality(Accepted(m)) + Cardinality(Facing(m))
      most == Cardinality(Relays)
  IN /\ row[m].attempts + open < MaxAttempts + most
     /\ row[m].attempts + open <= most * rounds[m]
     /\ row[m].recorded /\ row[m].due /\ ~row[m].sent => row[m].attempts + most <= most * rounds[m]
     /\ ~row[m].recorded => rounds[m] = 0
     /\ ~row[m].sent => delivered[m] = again[m] + Cardinality(Accepted(m))
     /\ row[m].sent => delivered[m] > 0
     /\ delivered[m] + Cardinality(Facing(m)) <= again[m] + most

OutboxAgrees == (\A r \in Relays : RelayAgrees(r)) /\ \A m \in Mails : MailAgrees(m)
=============================================================================
