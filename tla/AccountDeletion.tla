---------------------------- MODULE AccountDeletion ----------------------------
(***************************************************************************)
(* From DELETE /me to the last trace of the account: DeleteAccount of       *)
(* auth/service.go, the outbox table account_deletions, the job queue with  *)
(* its retry and dead-letter queues, the relay and the worker of account/.  *)
(*                                                                         *)
(* One SQL statement, Redis command or publish is one step, and every one   *)
(* of them may fail or take effect without its caller learning of it.  The  *)
(* refresh tokens that DeleteAccount and the cascade remove are in          *)
(* RefreshRotation.                                                         *)
(***************************************************************************)
EXTENDS Integers

CONSTANTS
  Users,       \* accounts
  Requests,    \* calls of DELETE /me; bound: each id is used once
  Relays,      \* worker processes' relays
  Workers,     \* worker processes' consumers, one delivery at a time each
  Jobs,        \* bound: as many messages may be queued at once
  MaxAttempts, \* maxAttempts
  MaxFaults,   \* bound: failures and crashes in all
  NULL         \* no message, no account

ASSUME AttemptsAssumption == MaxAttempts \in Nat \ {0} /\ MaxFaults \in Nat
ASSUME NamesAssumption == NULL \notin Jobs /\ Requests \cap Relays = {}

VARIABLES
  account, \* the users row: "active", "marked" (deleted_at is set) or "gone"
  outbox,  \* account_deletions: "none", "pending" or "published"
  revoked, \* accounts whose sessions have been revoked
  job,     \* the broker's messages: the queue each is in and its header
  pub,     \* how far each request and each relay is with one deletion
  todo,    \* the accounts a relay's pass has read and not yet taken up
  worker,  \* how far each worker is with the delivery it holds
  faults   \* how much of MaxFaults is used

rows    == <<account, outbox>>
vars    == <<rows, revoked, job, pub, todo, worker, faults>>

Publishers == Requests \cup Relays

\* A message: its header counts failed attempts; "tries" is how often it and the
\* messages it replaced were handed to the handler, counted up to MaxAttempts.
Messages == [user : Users, attempts : 0..(MaxAttempts - 1), tries : 0..MaxAttempts,
             at : {"queue", "held", "retry", "dead"}]
ASSUME NullAssumption == NULL \notin Messages

Free == [at |-> "idle", user |-> NULL]
Off  == [at |-> "idle", job |-> NULL]

TypeOK ==
  /\ account \in [Users -> {"active", "marked", "gone"}]
  /\ outbox \in [Users -> {"none", "pending", "published"}]
  /\ revoked \subseteq Users
  /\ job \in [Jobs -> Messages \cup {NULL}]
  /\ pub \in [Publishers -> {Free} \cup
                [at : {"revoke", "publish", "again", "mark", "done"}, user : Users]]
  /\ todo \in [Relays -> SUBSET Users]
  /\ worker \in [Workers -> {Off} \cup
                   [at : {"revoke", "delete", "finish", "failed", "ack"}, job : Jobs]]
  /\ faults \in 0..MaxFaults

Init ==
  /\ account = [u \in Users |-> "active"]
  /\ outbox = [u \in Users |-> "none"]
  /\ revoked = {}
  /\ job = [j \in Jobs |-> NULL]
  /\ pub = [p \in Publishers |-> Free]
  /\ todo = [r \in Relays |-> {}]
  /\ worker = [w \in Workers |-> Off]
  /\ faults = 0

Fault == faults < MaxFaults /\ faults' = faults + 1

\* The messages are told apart by name only: a new one takes a free name.
Room    == \E j \in Jobs : job[j] = NULL
NewName == CHOOSE j \in Jobs : job[j] = NULL

\* Message m enters the broker.
Enqueue(m) == Room /\ job' = [job EXCEPT ![NewName] = m]

\* A publish that failed for its caller: the broker may have the message.
MaybeEnqueue(m) == UNCHANGED job \/ Enqueue(m)

NewJob(u) == [user |-> u, attempts |-> 0, tries |-> 0, at |-> "queue"]

-----------------------------------------------------------------------------
\* RequestUserDeletion: mark and outbox row in one statement; a repeated request
\* makes the outbox row pending again, and one for a removed row does nothing.
RecordDeletion(r, u) ==
  /\ pub[r] = Free /\ account[u] # "gone"
  /\ account' = [account EXCEPT ![u] = "marked"]
  /\ outbox' = [outbox EXCEPT ![u] = "pending"]
  /\ pub' = [pub EXCEPT ![r] = [at |-> "revoke", user |-> u]]
  /\ UNCHANGED <<revoked, job, todo, worker, faults>>

\* DeleteAccount's own revocation, whose failure is only logged.
RequestRevokes(r) ==
  /\ pub[r].at = "revoke"
  /\ \/ revoked' = revoked \cup {pub[r].user} /\ UNCHANGED faults
     \/ UNCHANGED revoked /\ Fault
  /\ pub' = [pub EXCEPT ![r].at = "publish"]
  /\ UNCHANGED <<rows, job, todo, worker>>

\* The caller of JobPublisher is done with this deletion.
Through(p) == IF p \in Relays THEN Free ELSE [pub[p] EXCEPT !.at = "done"]

\* A relay that fails gives up the rest of its pass.
EndPass(p) ==
  /\ pub' = [pub EXCEPT ![p] = Through(p)]
  /\ todo' = [r \in Relays |-> IF r = p THEN {} ELSE todo[r]]

\* JobPublisher.Publish, confirmed by the broker.
Publish(p) ==
  /\ pub[p].at \in {"publish", "again"}
  /\ Enqueue(NewJob(pub[p].user))
  /\ pub' = [pub EXCEPT ![p].at = "mark"]
  /\ UNCHANGED <<rows, revoked, todo, worker, faults>>

\* A publish that is refused or whose confirm is lost is tried once more on a
\* fresh channel, if there is one; a second failure leaves it to the relay.
PublishFails(p) ==
  /\ pub[p].at \in {"publish", "again"} /\ Fault
  /\ MaybeEnqueue(NewJob(pub[p].user))
  /\ \/ pub[p].at = "publish" /\ pub' = [pub EXCEPT ![p].at = "again"] /\ UNCHANGED todo
     \/ EndPass(p)
  /\ UNCHANGED <<rows, revoked, worker>>

\* MarkDeletionPublished writes a pending row only.
Published(u) ==
  outbox' = [outbox EXCEPT ![u] = IF @ = "pending" THEN "published" ELSE @]

MarkPublished(p) ==
  /\ pub[p].at = "mark"
  /\ \/ /\ Published(pub[p].user) /\ UNCHANGED <<faults, todo>>
        /\ pub' = [pub EXCEPT ![p] = Through(p)]
     \/ (Published(pub[p].user) \/ UNCHANGED outbox) /\ Fault /\ EndPass(p)
  /\ UNCHANGED <<account, revoked, job, worker>>

\* The process dies, or the caller's context ends, between two steps.
PublisherDies(p) ==
  /\ pub[p].at \in {"revoke", "publish", "again", "mark"} /\ Fault
  /\ EndPass(p)
  /\ UNCHANGED <<rows, revoked, job, worker>>

\* PendingDeletions.
Pending == {u \in Users : outbox[u] = "pending"}

\* Drain lists the pending rows once, then publishes and marks one by one.
RelayLists(r) ==
  /\ pub[r] = Free /\ todo[r] = {} /\ Pending # {}
  /\ todo' = [todo EXCEPT ![r] = Pending]
  /\ UNCHANGED <<rows, revoked, job, pub, worker, faults>>

RelayTakes(r) ==
  /\ pub[r] = Free
  /\ \E u \in todo[r] :
       /\ todo' = [todo EXCEPT ![r] = @ \ {u}]
       /\ pub' = [pub EXCEPT ![r] = [at |-> "publish", user |-> u]]
  /\ UNCHANGED <<rows, revoked, job, worker, faults>>

-----------------------------------------------------------------------------
UserOf(w) == job[worker[w].job].user
Goto(w, at) == worker' = [worker EXCEPT ![w].at = at]

HandedOver(msg) ==
  [user |-> msg.user, attempts |-> msg.attempts, at |-> "held",
   tries |-> IF msg.tries < MaxAttempts THEN msg.tries + 1 ELSE msg.tries]

\* Consume hands worker w a delivery.
Deliver(w, j) ==
  /\ worker[w] = Off /\ job[j] # NULL /\ job[j].at = "queue"
  /\ worker' = [worker EXCEPT ![w] = [at |-> "revoke", job |-> j]]
  /\ job' = [job EXCEPT ![j] = HandedOver(@)]
  /\ UNCHANGED <<rows, revoked, pub, todo, faults>>

HandleRevokes(w) ==
  /\ worker[w].at = "revoke"
  /\ revoked' = revoked \cup {UserOf(w)}
  /\ Goto(w, "delete")
  /\ UNCHANGED <<rows, job, pub, todo, faults>>

\* Faulty variants: the rows go although the sessions are not revoked; a marked
\* account is taken for a deleted one.
RevokeFailsIgnored(w) ==
  /\ worker[w].at = "revoke" /\ Fault
  /\ Goto(w, "delete")
  /\ UNCHANGED <<rows, revoked, job, pub, todo>>
RevokeFailsHidden(w) ==
  /\ worker[w].at = "revoke" /\ Fault
  /\ Goto(w, IF account[UserOf(w)] # "active" THEN "finish" ELSE "failed")
  /\ UNCHANGED <<rows, revoked, job, pub, todo>>

\* A failed revocation fails the attempt, unless the row is seen to be gone.
RevokeFails(w) ==
  /\ worker[w].at = "revoke" /\ Fault
  /\ \/ account[UserOf(w)] = "gone" /\ Goto(w, "finish")
     \/ Goto(w, "failed")
  /\ UNCHANGED <<rows, revoked, job, pub, todo>>

\* DeleteUser, with its cascade; a second pass finds no row and goes on.
DeleteUser(w) ==
  /\ worker[w].at = "delete"
  /\ account' = [account EXCEPT ![UserOf(w)] = "gone"]
  /\ Goto(w, "finish")
  /\ UNCHANGED <<outbox, revoked, job, pub, todo, faults>>

DeleteFails(w) ==
  /\ worker[w].at = "delete" /\ Fault
  /\ \/ UNCHANGED account
     \/ account' = [account EXCEPT ![UserOf(w)] = "gone"]
  /\ Goto(w, "failed")
  /\ UNCHANGED <<outbox, revoked, job, pub, todo>>

\* FinishUserDeletion.
Finish(w) ==
  /\ worker[w].at = "finish"
  /\ outbox' = [outbox EXCEPT ![UserOf(w)] = "none"]
  /\ Goto(w, "ack")
  /\ UNCHANGED <<account, revoked, job, pub, todo, faults>>

\* Faulty variant: a failure to clear the outbox is only logged.
FinishFailsIgnored(w) ==
  /\ worker[w].at = "finish" /\ Fault
  /\ Goto(w, "ack")
  /\ UNCHANGED <<rows, revoked, job, pub, todo>>

FinishFails(w) ==
  /\ worker[w].at = "finish" /\ Fault
  /\ \/ UNCHANGED outbox
     \/ outbox' = [outbox EXCEPT ![UserOf(w)] = "none"]
  /\ Goto(w, "failed")
  /\ UNCHANGED <<account, revoked, job, pub, todo>>

LastAttemptLate(w) == job[worker[w].job].attempts >= MaxAttempts

LastAttempt(w) == job[worker[w].job].attempts + 1 >= MaxAttempts

\* Nack without requeue after the last attempt.
DeadLetter(w) ==
  /\ worker[w].at = "failed" /\ LastAttempt(w)
  /\ job' = [job EXCEPT ![worker[w].job].at = "dead"]
  /\ worker' = [worker EXCEPT ![w] = Off]
  /\ UNCHANGED <<rows, revoked, pub, todo, faults>>

\* The next attempt's message waits in the retry queue; the delivery is then
\* acknowledged.
NextAttempt(j) ==
  [user |-> job[j].user, attempts |-> job[j].attempts + 1, at |-> "retry",
   tries |-> job[j].tries]

Retry(w) ==
  /\ worker[w].at = "failed" /\ ~LastAttempt(w)
  /\ Enqueue(NextAttempt(worker[w].job))
  /\ Goto(w, "ack")
  /\ UNCHANGED <<rows, revoked, pub, todo, faults>>

\* The delivery goes back to the queue as it was, with j's new copy or without.
Requeued(w, all) == [all EXCEPT ![worker[w].job].at = "queue"]

\* Faulty variant: the delivery is dropped when its retry is not confirmed.
RetryFailsDrops(w) ==
  /\ worker[w].at = "failed" /\ ~LastAttempt(w) /\ Fault
  /\ job' = [job EXCEPT ![worker[w].job] = NULL]
  /\ worker' = [worker EXCEPT ![w] = Off]
  /\ UNCHANGED <<rows, revoked, pub, todo>>

\* The retry is not confirmed: Nack with requeue repeats the attempt.
RetryFails(w) ==
  /\ worker[w].at = "failed" /\ ~LastAttempt(w) /\ Fault
  /\ \/ job' = Requeued(w, job)
     \/ Room /\ job' = [Requeued(w, job) EXCEPT ![NewName] = NextAttempt(worker[w].job)]
  /\ worker' = [worker EXCEPT ![w] = Off]
  /\ UNCHANGED <<rows, revoked, pub, todo>>

Ack(w) ==
  /\ worker[w].at = "ack"
  /\ job' = [job EXCEPT ![worker[w].job] = NULL]
  /\ worker' = [worker EXCEPT ![w] = Off]
  /\ UNCHANGED <<rows, revoked, pub, todo, faults>>

\* The worker dies or loses its channel: the broker delivers again, header as is.
WorkerDies(w) ==
  /\ worker[w] # Off /\ Fault
  /\ job' = Requeued(w, job)
  /\ worker' = [worker EXCEPT ![w] = Off]
  /\ UNCHANGED <<rows, revoked, pub, todo>>

\* The retry queue's TTL runs out.
RetryDue(j) ==
  /\ job[j] # NULL /\ job[j].at = "retry"
  /\ job' = [job EXCEPT ![j].at = "queue"]
  /\ UNCHANGED <<rows, revoked, pub, todo, worker, faults>>

-----------------------------------------------------------------------------
RequestStep(r) == (\E u \in Users : RecordDeletion(r, u)) \/ RequestRevokes(r)

PublishStep(p) ==
  Publish(p) \/ PublishFails(p) \/ MarkPublished(p) \/ PublisherDies(p)

RelayStep(r) == RelayLists(r) \/ RelayTakes(r)

Handle(w) ==
  \/ HandleRevokes(w) \/ RevokeFails(w) \/ DeleteUser(w) \/ DeleteFails(w)
  \/ Finish(w) \/ FinishFails(w)

Consume(w) ==
  \/ \E j \in Jobs : Deliver(w, j)
  \/ Handle(w)
  \/ DeadLetter(w) \/ Retry(w) \/ RetryFails(w) \/ Ack(w) \/ WorkerDies(w)

Next ==
  \/ \E r \in Requests : RequestStep(r)
  \/ \E r \in Relays : RelayStep(r)
  \/ \E p \in Publishers : PublishStep(p)
  \/ \E w \in Workers : Consume(w)
  \/ \E j \in Jobs : RetryDue(j)

Spec == Init /\ [][Next]_vars

\* The relays tick, the workers consume and the broker's TTL runs; no request
\* need finish.
Fairness ==
  /\ \A r \in Relays : WF_vars(RelayStep(r) \/ PublishStep(r))
  /\ \A w \in Workers : WF_vars(Consume(w))
  /\ \A j \in Jobs : WF_vars(RetryDue(j))

FairSpec == Spec /\ Fairness

-----------------------------------------------------------------------------
\* There is a message for account u that is not just being acknowledged.
Acked(j)  == \E w \in Workers : worker[w].job = j /\ worker[w].at = "ack"
Queued(u) == \E j \in Jobs : job[j] # NULL /\ job[j].user = u /\ ~Acked(j)

Cleared(u) == account[u] = "gone" /\ outbox[u] = "none"

\* A delivery is with one worker.
HoldsAgree(w) == worker[w] # Off =>
  /\ job[worker[w].job] # NULL /\ job[worker[w].job].at = "held"
  /\ \A v \in Workers \ {w} : worker[v].job # worker[w].job

\* What worker w has done so far has taken effect.
WorkerAgrees(w) ==
  /\ worker[w].at = "delete" => UserOf(w) \in revoked
  /\ worker[w].at = "finish" => account[UserOf(w)] = "gone"
  /\ worker[w].at = "ack" => Queued(UserOf(w)) \/ Cleared(UserOf(w))

PublisherAgrees(p) ==
  /\ pub[p] # Free => account[pub[p].user] # "active"
  /\ pub[p].at = "mark" => Queued(pub[p].user) \/ Cleared(pub[p].user)

MessageAgrees(j) == job[j] # NULL =>
  /\ account[job[j].user] # "active"
  /\ job[j].tries >= job[j].attempts
  /\ job[j].at = "held" => job[j].tries > job[j].attempts
  /\ job[j].at = "dead" => job[j].tries = MaxAttempts

AccountAgrees(u) ==
  /\ account[u] = "active" => outbox[u] = "none"
  /\ account[u] = "marked" => outbox[u] # "none"
  /\ account[u] = "gone" => u \in revoked
  /\ outbox[u] = "published" => Queued(u)

\* Tables, messages, publishers and workers tell one story of each deletion.
DeletionAgrees ==
  /\ \A w \in Workers : HoldsAgree(w) /\ WorkerAgrees(w)
  /\ \A p \in Publishers : PublisherAgrees(p)
  /\ \A r \in Relays : \A u \in todo[r] : account[u] # "active"
  /\ \A j \in Jobs : MessageAgrees(j)
  /\ \A u \in Users : AccountAgrees(u)

\* A recorded deletion is never lost: until the rows are gone the outbox has it,
\* and once the outbox says published some message of it is still to be handled
\* or lies with the operator, whatever publishes, confirms, retries and workers
\* failed, and also when two requests and relays worked on it at once
\* (auth/service.go, DeleteAccount; account/relay.go, Drain).
RecordedIsCertain ==
  \A u \in Users :
    /\ account[u] = "marked" => outbox[u] # "none"
    /\ outbox[u] = "published" => Queued(u)

\* The rows are removed only after the sessions were revoked, on every path of
\* Handle and with several workers on the same account (account/worker.go:43-46).
GoneWasRevoked == \A u \in Users : account[u] = "gone" => u \in revoked

\* A deletion is given up only after MaxAttempts deliveries to the handler,
\* redeliveries after a crash and unconfirmed retries notwithstanding
\* (account/queue.go:18-22).
GivenUpLate ==
  \A j \in Jobs : job[j] # NULL /\ job[j].at = "dead" => job[j].tries = MaxAttempts

\* Every accepted deletion is carried out or reaches the operator, and only
\* accepted ones do: requests, outbox, relay, queue and worker keep the promise,
\* and with the relay and the workers running they keep it in the end.
Deletion(u) == CASE account[u] = "active" -> "none"
                 [] account[u] = "marked" -> "due"
                 [] OTHER -> "done"
Letter(u) == \E j \in Jobs : job[j] # NULL /\ job[j].at = "dead" /\ job[j].user = u
Promise == INSTANCE DeletionPromise
  WITH deletion <- [u \in Users |-> Deletion(u)], letter <- [u \in Users |-> Letter(u)]
KeepsPromise == Promise!FairSpec

\* The safety part of it: no step undoes a deletion, loses a letter to the
\* operator or deletes an account whose deletion nobody asked for, whichever
\* requests, relays and workers repeat each other's work.
BreaksNoPromise == Promise!Spec

\* The instruction to delete does not outlive its deletion, unless the operator
\* has a letter about it: a worker that failed to clear the outbox comes back.
OutboxClears ==
  \A u \in Users : account[u] = "gone" ~> outbox[u] = "none" \/ Letter(u)
=============================================================================
