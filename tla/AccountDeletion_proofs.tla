------------------------ MODULE AccountDeletion_proofs ------------------------
(***************************************************************************)
(* What AccountDeletion guarantees for any number of accounts, requests,    *)
(* relays, workers, messages, attempts and faults.                          *)
(***************************************************************************)
EXTENDS AccountDeletion, TLAPS

-----------------------------------------------------------------------------
(* Types. *)

\* The name a new message takes is free.
LEMMA NewNameIsFree ==
  ASSUME Room
  PROVE  NewName \in Jobs /\ job[NewName] = NULL
  BY DEF Room, NewName

\* A publish enters one message under a free name.
LEMMA EnqueueAddsOne ==
  ASSUME NEW msg, Enqueue(msg)
  PROVE  \E j \in Jobs : job[j] = NULL /\ job' = [job EXCEPT ![j] = msg]
  BY NewNameIsFree DEF Enqueue

LEMMA NewJobIsMessage == \A u \in Users : NewJob(u) \in Messages
  BY AttemptsAssumption DEF NewJob, Messages

\* A message stays one when it is handed over or tried again.
LEMMA HandedOverIsMessage ==
  ASSUME NEW msg \in Messages
  PROVE  /\ HandedOver(msg) \in Messages
         /\ HandedOver(msg).user = msg.user /\ HandedOver(msg).attempts = msg.attempts
         /\ HandedOver(msg).at = "held"
         /\ HandedOver(msg).tries = IF msg.tries < MaxAttempts THEN msg.tries + 1 ELSE msg.tries
  BY AttemptsAssumption DEF HandedOver, Messages

LEMMA NextAttemptIsMessage ==
  ASSUME NEW j \in Jobs, job[j] \in Messages, job[j].attempts + 1 < MaxAttempts
  PROVE  /\ NextAttempt(j) \in Messages
         /\ NextAttempt(j).user = job[j].user /\ NextAttempt(j).attempts = job[j].attempts + 1
         /\ NextAttempt(j).at = "retry" /\ NextAttempt(j).tries = job[j].tries
  BY AttemptsAssumption DEF NextAttempt, Messages

\* A publisher's step keeps the types.
LEMMA PublisherKeepsTypes ==
  ASSUME TypeOK,
         \/ \E r \in Requests : RequestStep(r)
         \/ \E r \in Relays : RelayStep(r)
         \/ \E p \in Publishers : PublishStep(p)
  PROVE  TypeOK'
<1> USE AttemptsAssumption, NamesAssumption DEF TypeOK, Publishers, rows, Free
<1>1. ASSUME NEW r \in Requests, NEW u \in Users, RecordDeletion(r, u) PROVE TypeOK'
  BY <1>1 DEF RecordDeletion
<1>2. ASSUME NEW r \in Requests, RequestRevokes(r) PROVE TypeOK'
  BY <1>2 DEF RequestRevokes, Fault
<1>3. ASSUME NEW r \in Relays, RelayStep(r) PROVE TypeOK'
  BY <1>3 DEF RelayStep, RelayLists, RelayTakes, Pending
<1>4. ASSUME NEW p \in Publishers, EndPass(p), pub[p] # Free
      PROVE  pub' \in [Publishers -> {Free} \cup
                [at : {"revoke", "publish", "again", "mark", "done"}, user : Users]]
             /\ todo' \in [Relays -> SUBSET Users]
  BY <1>4 DEF EndPass, Through
<1>5. ASSUME NEW p \in Publishers, Publish(p) PROVE TypeOK'
  BY <1>5, EnqueueAddsOne, NewJobIsMessage DEF Publish
<1>6. ASSUME NEW p \in Publishers, PublishFails(p) PROVE TypeOK'
  BY <1>4, <1>6, EnqueueAddsOne, NewJobIsMessage DEF PublishFails, MaybeEnqueue, Fault
<1>7. ASSUME NEW p \in Publishers, MarkPublished(p) PROVE TypeOK'
  BY <1>4, <1>7 DEF MarkPublished, Published, Through, Fault
<1>8. ASSUME NEW p \in Publishers, PublisherDies(p) PROVE TypeOK'
  BY <1>4, <1>8 DEF PublisherDies, Fault
<1> QED BY <1>1, <1>2, <1>3, <1>5, <1>6, <1>7, <1>8 DEF RequestStep, PublishStep

\* A worker's step, or the broker's, keeps the types; a message in a worker's
\* hands is one.
LEMMA WorkerKeepsTypes ==
  ASSUME TypeOK, \A w \in Workers : HoldsAgree(w),
         \/ \E w \in Workers : Consume(w)
         \/ \E j \in Jobs : RetryDue(j)
  PROVE  TypeOK'
<1> USE AttemptsAssumption, NamesAssumption DEF TypeOK, rows, Off
<1>1. ASSUME NEW j \in Jobs, RetryDue(j) PROVE TypeOK'
  BY <1>1 DEF RetryDue, Messages
<1>2. ASSUME NEW w \in Workers, NEW j \in Jobs, Deliver(w, j) PROVE TypeOK'
  BY <1>2, HandedOverIsMessage DEF Deliver
<1>3. ASSUME NEW w \in Workers, worker[w] # Off
      PROVE  worker[w].job \in Jobs /\ job[worker[w].job] \in Messages /\ UserOf(w) \in Users
  BY <1>3 DEF HoldsAgree, UserOf, Messages
<1>0. ASSUME NEW w \in Workers, worker[w] # Off,
             NEW at \in {"revoke", "delete", "finish", "failed", "ack"}, Goto(w, at)
      PROVE  worker' \in [Workers -> {Off} \cup
               [at : {"revoke", "delete", "finish", "failed", "ack"}, job : Jobs]]
  BY <1>0 DEF Goto
<1>4. ASSUME NEW w \in Workers, Handle(w) PROVE TypeOK'
  <2>1. worker[w] # Off
    BY <1>4 DEF Handle, HandleRevokes, RevokeFails, DeleteUser, DeleteFails, Finish, FinishFails
  <2>2. CASE HandleRevokes(w) \/ RevokeFails(w)
    BY <1>3, <1>0, <2>1, <2>2 DEF HandleRevokes, RevokeFails, Fault
  <2>3. CASE DeleteUser(w) \/ DeleteFails(w)
    BY <1>3, <1>0, <2>1, <2>3 DEF DeleteUser, DeleteFails, Fault
  <2>4. CASE Finish(w) \/ FinishFails(w)
    BY <1>3, <1>0, <2>1, <2>4 DEF Finish, FinishFails, Fault
  <2> QED BY <1>4, <2>2, <2>3, <2>4 DEF Handle
<1>5. ASSUME NEW w \in Workers, DeadLetter(w) \/ Ack(w) PROVE TypeOK'
  BY <1>3, <1>5 DEF DeadLetter, Ack, Messages
<1>6. ASSUME NEW w \in Workers, worker[w] # Off, ~LastAttempt(w)
      PROVE  NextAttempt(worker[w].job) \in Messages
  <2>1. job[worker[w].job].attempts \in Nat
    BY <1>3, <1>6 DEF Messages
  <2>2. job[worker[w].job].attempts + 1 < MaxAttempts
    BY <1>6, <2>1 DEF LastAttempt
  <2> QED BY <1>3, <1>6, <2>2, NextAttemptIsMessage
<1>7. ASSUME NEW w \in Workers, Retry(w) PROVE TypeOK'
  <2>1. worker[w] # Off
    BY <1>7 DEF Retry
  <2> QED BY <1>0, <1>6, <1>7, <2>1, EnqueueAddsOne DEF Retry
<1>8. ASSUME NEW w \in Workers, worker[w] # Off
      PROVE  Requeued(w, job) \in [Jobs -> Messages \cup {NULL}]
  BY <1>3, <1>8 DEF Requeued, Messages
<1>9. ASSUME NEW w \in Workers, RetryFails(w) PROVE TypeOK'
  BY <1>3, <1>6, <1>8, <1>9, NewNameIsFree DEF RetryFails, Fault
<1>10. ASSUME NEW w \in Workers, WorkerDies(w) PROVE TypeOK'
  BY <1>3, <1>8, <1>10 DEF WorkerDies, Fault
<1> QED BY <1>1, <1>2, <1>4, <1>5, <1>7, <1>9, <1>10 DEF Consume

\* Every step keeps the types.
LEMMA StepKeepsTypes ==
  ASSUME TypeOK, DeletionAgrees, [Next]_vars
  PROVE  TypeOK'
<1>1. CASE Next
  BY <1>1, PublisherKeepsTypes, WorkerKeepsTypes DEF Next, DeletionAgrees
<1>2. CASE UNCHANGED vars
  BY <1>2 DEF vars, rows, TypeOK
<1> QED BY <1>1, <1>2

-----------------------------------------------------------------------------
(* Steps of requests and relays. *)

\* While the messages and workers stay as they are and no account comes back to
\* life, what was said of messages stays true.
LEMMA NothingSent ==
  ASSUME TypeOK, DeletionAgrees, UNCHANGED <<job, worker>>,
         \A v \in Users : account[v] # "active" => account'[v] # "active"
  PROVE  /\ \A w \in Workers : HoldsAgree(w)' /\ UserOf(w)' = UserOf(w)
         /\ \A v \in Users : Queued(v) => Queued(v)'
         /\ \A j \in Jobs : MessageAgrees(j)'
<1>1. \A j \in Jobs : MessageAgrees(j)'
  BY DEF DeletionAgrees, MessageAgrees, TypeOK, Messages
<1>2. \A w \in Workers : HoldsAgree(w)' /\ UserOf(w)' = UserOf(w)
  BY DEF DeletionAgrees, HoldsAgree, UserOf
<1>3. \A v \in Users : Queued(v) => Queued(v)'
  BY DEF Queued, Acked
<1> QED BY <1>1, <1>2, <1>3

\* A job that enters the queue leaves the other messages and the workers alone.
LEMMA OneSent ==
  ASSUME TypeOK, DeletionAgrees, UNCHANGED <<worker, account>>,
         NEW u \in Users, account[u] # "active", Enqueue(NewJob(u))
  PROVE  /\ \A w \in Workers : HoldsAgree(w)' /\ (worker[w] # Off => UserOf(w)' = UserOf(w))
         /\ \A v \in Users : Queued(v) => Queued(v)'
         /\ \A j \in Jobs : MessageAgrees(j)'
         /\ Queued(u)'
<1>1. PICK k \in Jobs : job[k] = NULL /\ job' = [job EXCEPT ![k] = NewJob(u)]
  BY EnqueueAddsOne
<1>2. \A j \in Jobs : j # k => job'[j] = job[j]
  BY <1>1 DEF TypeOK
<1>3. /\ job'[k] = NewJob(u) /\ NewJob(u) # NULL
      /\ NewJob(u).user = u /\ NewJob(u).at = "queue"
      /\ NewJob(u).attempts = 0 /\ NewJob(u).tries = 0
  BY <1>1, NewJobIsMessage, NullAssumption DEF TypeOK, NewJob
<1>4. \A w \in Workers : worker[w] # Off => worker[w].job \in Jobs /\ worker[w].job # k
  BY <1>1 DEF DeletionAgrees, HoldsAgree, TypeOK, Off
<1>5. ~Acked(k)'
  BY <1>4, NamesAssumption DEF Acked, Off
<1>6. \A w \in Workers : HoldsAgree(w)' /\ (worker[w] # Off => UserOf(w)' = UserOf(w))
  BY <1>2, <1>4 DEF DeletionAgrees, HoldsAgree, UserOf
<1>7. \A v \in Users : Queued(v) => Queued(v)'
  BY <1>1, <1>2 DEF Queued, Acked
<1>8. Queued(u)'
  BY <1>3, <1>5 DEF Queued
<1>9. \A j \in Jobs : MessageAgrees(j)'
  BY <1>2, <1>3, AttemptsAssumption DEF DeletionAgrees, MessageAgrees
<1> QED BY <1>6, <1>7, <1>8, <1>9

\* A step that only moves one publisher on keeps the agreement, if what it says
\* of its new place is true.
LEMMA PublisherMoves ==
  ASSUME TypeOK, TypeOK', DeletionAgrees, UNCHANGED <<worker, account, revoked>>,
         NEW p \in Publishers, \A q \in Publishers \ {p} : pub'[q] = pub[q],
         pub'[p] # Free => pub'[p].user = pub[p].user /\ pub[p] # Free,
         pub'[p].at = "mark" => Queued(pub[p].user)' \/ pub[p].at = "mark",
         \A r \in Relays : todo'[r] \subseteq todo[r],
         \/ UNCHANGED job
         \/ pub[p] # Free /\ Enqueue(NewJob(pub[p].user)),
         UNCHANGED outbox \/ (pub[p].at = "mark" /\ Published(pub[p].user))
  PROVE  DeletionAgrees'
<1>1. pub[p] # Free => pub[p].user \in Users /\ account[pub[p].user] # "active"
  BY DEF DeletionAgrees, PublisherAgrees, TypeOK
<1>2. /\ \A w \in Workers : HoldsAgree(w)' /\ (worker[w] # Off => UserOf(w)' = UserOf(w))
      /\ \A v \in Users : Queued(v) => Queued(v)'
      /\ \A j \in Jobs : MessageAgrees(j)'
  BY <1>1, NothingSent, OneSent
<1>3. \A v \in Users : /\ Cleared(v) => Cleared(v)'
                       /\ outbox'[v] = "none" <=> outbox[v] = "none"
                       /\ outbox'[v] = "published" =>
                            outbox[v] = "published" \/ (pub[p].at = "mark" /\ v = pub[p].user)
  BY DEF Cleared, Published, TypeOK
<1>4. ASSUME NEW w \in Workers PROVE WorkerAgrees(w)'
  <2>1. CASE worker[w] = Off
    BY <2>1 DEF WorkerAgrees, Off
  <2>2. CASE worker[w] # Off
    <3>1. UserOf(w) \in Users /\ UserOf(w)' = UserOf(w)
      BY <1>2, <2>2 DEF DeletionAgrees, HoldsAgree, UserOf, TypeOK, Messages
    <3> QED BY <1>2, <1>3, <3>1 DEF WorkerAgrees, DeletionAgrees
  <2> QED BY <2>1, <2>2
<1>5. ASSUME NEW q \in Publishers PROVE PublisherAgrees(q)'
  <2>1. CASE q # p
    BY <1>2, <1>3, <2>1 DEF PublisherAgrees, DeletionAgrees, TypeOK, Free
  <2>2. CASE q = p
    BY <1>1, <1>2, <1>3, <2>2 DEF PublisherAgrees, DeletionAgrees, Free
  <2> QED BY <2>1, <2>2
<1>6. ASSUME NEW v \in Users PROVE AccountAgrees(v)'
  <2>1. pub[p].at = "mark" => Queued(pub[p].user) \/ Cleared(pub[p].user)
    BY DEF DeletionAgrees, PublisherAgrees
  <2>2. outbox'[v] = "published" => Queued(v)
    BY <1>3, <2>1 DEF DeletionAgrees, AccountAgrees, Cleared
  <2> QED BY <1>2, <1>3, <2>2 DEF AccountAgrees, DeletionAgrees
<1> QED BY <1>2, <1>4, <1>5, <1>6 DEF DeletionAgrees

\* Publishing, its failures and the mark keep the agreement.
LEMMA PublishStepAgrees ==
  ASSUME TypeOK, TypeOK', DeletionAgrees, NEW p \in Publishers, PublishStep(p)
  PROVE  DeletionAgrees'
<1> USE DEF rows
<1>1. pub[p] # Free /\ pub[p].user \in Users
  BY DEF PublishStep, Publish, PublishFails, MarkPublished, PublisherDies, Free, TypeOK
<1>2. account[pub[p].user] # "active"
  BY <1>1 DEF DeletionAgrees, PublisherAgrees
<1>3. ASSUME EndPass(p)
      PROVE  /\ \A q \in Publishers \ {p} : pub'[q] = pub[q]
             /\ pub'[p] # Free => pub'[p].user = pub[p].user
             /\ pub'[p].at # "mark" /\ \A r \in Relays : todo'[r] \subseteq todo[r]
  BY <1>1, <1>3 DEF EndPass, Through, TypeOK, Free
<1>4. CASE Publish(p)
  <2>1. /\ \A q \in Publishers \ {p} : pub'[q] = pub[q]
        /\ pub'[p].user = pub[p].user
    BY <1>4 DEF Publish, TypeOK
  <2>2. Queued(pub[p].user)'
    BY <1>1, <1>2, <1>4, OneSent DEF Publish
  <2> QED BY <1>1, <1>4, <2>1, <2>2, PublisherMoves DEF Publish
<1>5. CASE PublishFails(p)
  <2>1. /\ \A q \in Publishers \ {p} : pub'[q] = pub[q]
        /\ pub'[p] # Free => pub'[p].user = pub[p].user
        /\ pub'[p].at # "mark" /\ \A r \in Relays : todo'[r] \subseteq todo[r]
    BY <1>3, <1>5 DEF PublishFails, TypeOK
  <2> QED BY <1>1, <1>5, <2>1, PublisherMoves DEF PublishFails, MaybeEnqueue
<1>6. CASE MarkPublished(p)
  <2>1. /\ \A q \in Publishers \ {p} : pub'[q] = pub[q]
        /\ pub'[p] # Free => pub'[p].user = pub[p].user
        /\ \A r \in Relays : todo'[r] \subseteq todo[r]
    BY <1>3, <1>6 DEF MarkPublished, Through, TypeOK
  <2> QED BY <1>1, <1>6, <2>1, PublisherMoves DEF MarkPublished
<1>7. CASE PublisherDies(p)
  BY <1>1, <1>3, <1>7, PublisherMoves DEF PublisherDies
<1> QED BY <1>4, <1>5, <1>6, <1>7 DEF PublishStep

\* So do the request's own steps; recording a deletion keeps every job that is
\* already on its way.
LEMMA RequestStepAgrees ==
  ASSUME TypeOK, TypeOK', DeletionAgrees, NEW r \in Requests, RequestStep(r)
  PROVE  DeletionAgrees'
<1> USE DEF rows, Publishers
<1>1. ASSUME NEW u \in Users, RecordDeletion(r, u) PROVE DeletionAgrees'
  <2>1. \A v \in Users : account[v] # "active" => account'[v] # "active"
    BY <1>1 DEF RecordDeletion, TypeOK
  <2>2. /\ \A w \in Workers : HoldsAgree(w)' /\ UserOf(w)' = UserOf(w)
        /\ \A v \in Users : Queued(v) => Queued(v)'
        /\ \A j \in Jobs : MessageAgrees(j)'
    BY <1>1, <2>1, NothingSent DEF RecordDeletion
  <2>3. /\ \A v \in Users : v # u => account'[v] = account[v] /\ outbox'[v] = outbox[v]
        /\ account'[u] = "marked" /\ outbox'[u] = "pending" /\ account[u] # "gone"
    BY <1>1 DEF RecordDeletion, TypeOK
  <2>4. \A v \in Users : Cleared(v) => Cleared(v)'
    BY <2>3 DEF Cleared
  <2>5. ASSUME NEW w \in Workers PROVE WorkerAgrees(w)'
    <3>1. CASE worker[w] = Off
      BY <1>1, <3>1 DEF WorkerAgrees, RecordDeletion, Off
    <3>2. CASE worker[w] # Off
      <4>1. UserOf(w) \in Users
        BY <3>2 DEF DeletionAgrees, HoldsAgree, UserOf, TypeOK, Messages
      <4> QED BY <1>1, <2>2, <2>3, <2>4, <4>1 DEF WorkerAgrees, DeletionAgrees, RecordDeletion
    <3> QED BY <3>1, <3>2
  <2>6. ASSUME NEW p \in Publishers PROVE PublisherAgrees(p)'
    <3>1. CASE p # r
      BY <1>1, <2>1, <2>2, <2>4, <3>1 DEF PublisherAgrees, DeletionAgrees, RecordDeletion, TypeOK, Free
    <3>2. CASE p = r
      BY <1>1, <2>3, <3>2 DEF PublisherAgrees, RecordDeletion, TypeOK
    <3> QED BY <3>1, <3>2
  <2>7. \A v \in Users : AccountAgrees(v)'
    BY <1>1, <2>2, <2>3 DEF AccountAgrees, DeletionAgrees, RecordDeletion
  <2>8. \A y \in Relays : \A v \in todo'[y] : account'[v] # "active"
    BY <1>1, <2>1 DEF DeletionAgrees, RecordDeletion, TypeOK
  <2> QED BY <2>2, <2>5, <2>6, <2>7, <2>8 DEF DeletionAgrees
<1>2. CASE RequestRevokes(r)
  <2>1. /\ \A w \in Workers : HoldsAgree(w)' /\ UserOf(w)' = UserOf(w)
        /\ \A v \in Users : Queued(v) => Queued(v)'
        /\ \A j \in Jobs : MessageAgrees(j)'
    BY <1>2, NothingSent DEF RequestRevokes
  <2>2. \A v \in Users : Cleared(v) => Cleared(v)'
    BY <1>2 DEF Cleared, RequestRevokes
  <2>3. \A v \in revoked : v \in revoked'
    BY <1>2 DEF RequestRevokes
  <2>4. ASSUME NEW w \in Workers PROVE WorkerAgrees(w)'
    <3>1. CASE worker[w] = Off
      BY <1>2, <3>1 DEF WorkerAgrees, RequestRevokes, Off
    <3>2. CASE worker[w] # Off
      <4>1. UserOf(w) \in Users
        BY <3>2 DEF DeletionAgrees, HoldsAgree, UserOf, TypeOK, Messages
      <4> QED BY <1>2, <2>1, <2>2, <2>3, <4>1 DEF WorkerAgrees, DeletionAgrees, RequestRevokes
    <3> QED BY <3>1, <3>2
  <2>5. ASSUME NEW p \in Publishers PROVE PublisherAgrees(p)'
    BY <1>2, <2>1, <2>2 DEF PublisherAgrees, DeletionAgrees, RequestRevokes, TypeOK, Free
  <2>6. \A v \in Users : AccountAgrees(v)'
    BY <1>2, <2>1, <2>3 DEF AccountAgrees, DeletionAgrees, RequestRevokes
  <2> QED BY <1>2, <2>1, <2>4, <2>5, <2>6 DEF DeletionAgrees, RequestRevokes
<1> QED BY <1>1, <1>2 DEF RequestStep

\* The relay only takes up deletions that were recorded.
LEMMA RelayStepAgrees ==
  ASSUME TypeOK, TypeOK', DeletionAgrees, NEW r \in Relays, RelayStep(r)
  PROVE  DeletionAgrees'
<1> USE DEF rows, Publishers
<1>1. UNCHANGED <<account, outbox, revoked, job, worker>>
  BY DEF RelayStep, RelayLists, RelayTakes
<1>2. /\ \A w \in Workers : HoldsAgree(w)' /\ UserOf(w)' = UserOf(w)
      /\ \A v \in Users : Queued(v) => Queued(v)'
      /\ \A j \in Jobs : MessageAgrees(j)'
  BY <1>1, NothingSent
<1>3. \A v \in Users : Cleared(v) => Cleared(v)'
  BY <1>1 DEF Cleared
<1>4. ASSUME NEW w \in Workers PROVE WorkerAgrees(w)'
  <2>1. CASE worker[w] = Off
    BY <1>1, <2>1 DEF WorkerAgrees, Off
  <2>2. CASE worker[w] # Off
    <3>1. UserOf(w) \in Users
      BY <2>2 DEF DeletionAgrees, HoldsAgree, UserOf, TypeOK, Messages
    <3> QED BY <1>1, <1>2, <1>3, <3>1 DEF WorkerAgrees, DeletionAgrees
  <2> QED BY <2>1, <2>2
<1>5. \A v \in Users : AccountAgrees(v)'
  BY <1>1, <1>2 DEF AccountAgrees, DeletionAgrees
<1>6. \A y \in Relays : \A v \in todo'[y] : account'[v] # "active"
  <2>1. \A v \in Pending : account[v] # "active"
    BY DEF Pending, DeletionAgrees, AccountAgrees
  <2> QED BY <1>1, <2>1 DEF RelayStep, RelayLists, RelayTakes, DeletionAgrees, TypeOK
<1>7. ASSUME NEW p \in Publishers PROVE PublisherAgrees(p)'
  <2>1. pub'[p] = pub[p] \/ \E u \in todo[r] : p = r /\ pub'[p] = [at |-> "publish", user |-> u]
    BY DEF RelayStep, RelayLists, RelayTakes, TypeOK
  <2>2. CASE pub'[p] = pub[p]
    BY <1>1, <1>2, <1>3, <2>2 DEF PublisherAgrees, DeletionAgrees, TypeOK, Free
  <2>3. ASSUME NEW u \in todo[r], pub'[p] = [at |-> "publish", user |-> u] PROVE PublisherAgrees(p)'
    BY <1>1, <2>3 DEF PublisherAgrees, DeletionAgrees
  <2> QED BY <2>1, <2>2, <2>3
<1> QED BY <1>2, <1>4, <1>5, <1>6, <1>7 DEF DeletionAgrees

-----------------------------------------------------------------------------
(* Steps of workers and of the broker. *)

\* Every worker that has a delivery has a message of its own.
LEMMA Deliveries ==
  ASSUME TypeOK, DeletionAgrees, NEW w \in Workers, worker[w] # Off
  PROVE  /\ worker[w].job \in Jobs /\ job[worker[w].job] \in Messages
         /\ job[worker[w].job] # NULL /\ job[worker[w].job].at = "held"
         /\ UserOf(w) \in Users /\ UserOf(w) = job[worker[w].job].user
         /\ account[UserOf(w)] # "active"
         /\ job[worker[w].job].tries > job[worker[w].job].attempts
         /\ \A v \in Workers \ {w} : worker[v].job # worker[w].job
  BY DEF DeletionAgrees, HoldsAgree, MessageAgrees, UserOf, TypeOK, Messages, Off

\* A handler's step that goes on to "at" keeps the agreement if rows are deleted
\* only after the revocation, the outbox is cleared only after the rows, and the
\* delivery is acknowledged only when both are gone.
LEMMA HandlerMoves ==
  ASSUME TypeOK, TypeOK', DeletionAgrees, UNCHANGED <<job, pub, todo>>,
         NEW w \in Workers, worker[w] # Off, NEW at, at # "idle", Goto(w, at),
         revoked \subseteq revoked',
         \/ UNCHANGED account
         \/ UserOf(w) \in revoked /\ account' = [account EXCEPT ![UserOf(w)] = "gone"],
         \/ UNCHANGED outbox
         \/ account[UserOf(w)] = "gone" /\ outbox' = [outbox EXCEPT ![UserOf(w)] = "none"],
         at = "delete" => UserOf(w) \in revoked',
         at = "finish" => account'[UserOf(w)] = "gone",
         at = "ack" => Cleared(UserOf(w))'
  PROVE  DeletionAgrees'
<1>1. /\ UserOf(w) \in Users /\ account[UserOf(w)] # "active"
      /\ worker[w].job \in Jobs /\ job[worker[w].job].user = UserOf(w)
  BY Deliveries
<1>2. /\ worker'[w].at = at /\ worker'[w].job = worker[w].job
      /\ \A v \in Workers \ {w} : worker'[v] = worker[v]
  BY DEF Goto, TypeOK, Off
<1>3. \A v \in Users : /\ v # UserOf(w) => account'[v] = account[v] /\ outbox'[v] = outbox[v]
                       /\ account[v] # "active" => account'[v] # "active"
                       /\ Cleared(v) => Cleared(v)'
  BY <1>1 DEF TypeOK, Cleared
<1>4. \A v \in Workers : HoldsAgree(v)' /\ UserOf(v)' = UserOf(v)
  <2>1. \A v \in Workers : worker'[v].job = worker[v].job
    BY <1>2
  <2>2. \A v \in Workers : worker'[v] # Off => worker[v] # Off
    BY <1>2
  <2> QED BY <2>1, <2>2 DEF HoldsAgree, UserOf, DeletionAgrees
<1>5. \A j \in Jobs : MessageAgrees(j)'
  BY <1>3 DEF MessageAgrees, DeletionAgrees, TypeOK, Messages
<1>6. ASSUME NEW v \in Users, Queued(v) PROVE Queued(v)' \/ (v = UserOf(w) /\ Cleared(v)')
  <2>1. PICK j \in Jobs : job[j] # NULL /\ job[j].user = v /\ ~Acked(j)
    BY <1>6 DEF Queued
  <2>2. CASE Acked(j)'
    <3>1. worker'[w].job = j /\ at = "ack"
      BY <1>2, <2>1, <2>2 DEF Acked
    <3> QED BY <1>1, <1>2, <1>4, <2>1, <3>1 DEF Cleared
  <2>3. CASE ~Acked(j)'
    BY <2>1, <2>3 DEF Queued
  <2> QED BY <2>2, <2>3
<1>7. \A v \in Workers : WorkerAgrees(v)'
  <2>1. ASSUME NEW v \in Workers \ {w}, worker[v] # Off PROVE WorkerAgrees(v)'
    <3>1. UserOf(v) \in Users
      BY <2>1, Deliveries
    <3>2. account[UserOf(v)] = "gone" => account'[UserOf(v)] = "gone"
      BY <1>1, <3>1 DEF TypeOK
    <3> QED BY <1>2, <1>3, <1>4, <1>6, <2>1, <3>1, <3>2 DEF WorkerAgrees, DeletionAgrees
  <2>2. ASSUME NEW v \in Workers \ {w}, worker[v] = Off PROVE WorkerAgrees(v)'
    BY <1>2, <2>2 DEF WorkerAgrees, Off
  <2>3. WorkerAgrees(w)'
    BY <1>2, <1>4 DEF WorkerAgrees
  <2> QED BY <2>1, <2>2, <2>3
<1>8. \A p \in Publishers : PublisherAgrees(p)'
  BY <1>3, <1>6 DEF PublisherAgrees, DeletionAgrees, TypeOK, Free
<1>9. ASSUME NEW v \in Users PROVE AccountAgrees(v)'
  <2>1. CASE v # UserOf(w)
    BY <1>3, <1>6, <2>1 DEF AccountAgrees, DeletionAgrees
  <2>2. CASE v = UserOf(w)
    <3>1. AccountAgrees(v)
      BY DEF DeletionAgrees
    <3>2. outbox'[v] = "published" => outbox[v] = "published"
      BY <1>1, <2>2 DEF TypeOK
    <3>3. ~(outbox'[v] = "published" /\ Cleared(v)')
      BY DEF Cleared
    <3>4. \/ account'[v] = account[v] /\ outbox'[v] = outbox[v]
          \/ account'[v] = "gone" /\ v \in revoked'
      BY <1>1, <2>2, <3>1 DEF AccountAgrees, TypeOK
    <3> QED BY <1>6, <2>2, <3>1, <3>2, <3>3, <3>4 DEF AccountAgrees
  <2> QED BY <2>1, <2>2
<1>10. \A r \in Relays : \A v \in todo'[r] : account'[v] # "active"
  BY <1>3 DEF DeletionAgrees, TypeOK
<1> QED BY <1>4, <1>5, <1>7, <1>8, <1>9, <1>10 DEF DeletionAgrees

LEMMA HandleAgrees ==
  ASSUME TypeOK, TypeOK', DeletionAgrees, NEW w \in Workers, Handle(w)
  PROVE  DeletionAgrees'
<1> USE DEF rows
<1>1. worker[w] # Off
  BY DEF Handle, HandleRevokes, RevokeFails, DeleteUser, DeleteFails, Finish, FinishFails, Off
<1>2. UserOf(w) \in Users
  BY <1>1, Deliveries
<1>3. WorkerAgrees(w)
  BY DEF DeletionAgrees
<1>4. CASE HandleRevokes(w)
  BY <1>1, <1>4, HandlerMoves DEF HandleRevokes
<1>5. CASE RevokeFails(w)
  BY <1>1, <1>5, HandlerMoves DEF RevokeFails
<1>6. CASE DeleteUser(w)
  <2>1. account'[UserOf(w)] = "gone"
    BY <1>2, <1>6 DEF DeleteUser, TypeOK
  <2> QED BY <1>1, <1>3, <1>6, <2>1, HandlerMoves DEF DeleteUser, WorkerAgrees
<1>7. CASE DeleteFails(w)
  BY <1>1, <1>3, <1>7, HandlerMoves DEF DeleteFails, WorkerAgrees
<1>8. CASE Finish(w)
  <2>1. Cleared(UserOf(w))'
    <3>1. account'[UserOf(w)] = "gone" /\ outbox'[UserOf(w)] = "none"
      BY <1>2, <1>3, <1>8 DEF Finish, WorkerAgrees, TypeOK
    <3>2. UserOf(w)' = UserOf(w)
      BY <1>1, <1>8, Deliveries DEF Finish, Goto, UserOf, TypeOK, Off
    <3> QED BY <3>1, <3>2 DEF Cleared
  <2> QED BY <1>1, <1>3, <1>8, <2>1, HandlerMoves DEF Finish, WorkerAgrees
<1>9. CASE FinishFails(w)
  BY <1>1, <1>3, <1>9, HandlerMoves DEF FinishFails, WorkerAgrees
<1> QED BY <1>4, <1>5, <1>6, <1>7, <1>8, <1>9 DEF Handle

\* A step of the queue, in which worker w alone moves and the messages of each
\* account stay or are replaced, keeps the agreement.
LEMMA QueueMoves ==
  ASSUME TypeOK, TypeOK', DeletionAgrees, UNCHANGED <<rows, revoked, pub, todo>>,
         NEW w \in Workers, \A v \in Workers \ {w} : worker'[v] = worker[v],
         \A v \in Workers \ {w} : worker[v] # Off =>
           job'[worker[v].job] = job[worker[v].job] /\ worker'[w].job # worker[v].job,
         HoldsAgree(w)', WorkerAgrees(w)',
         \A j \in Jobs : job'[j] # job[j] => MessageAgrees(j)',
         \A u \in Users : Queued(u) => Queued(u)'
  PROVE  DeletionAgrees'
<1> USE DEF rows
<1>1. \A u \in Users : Cleared(u) => Cleared(u)'
  BY DEF Cleared
<1>2. ASSUME NEW v \in Workers, v # w PROVE HoldsAgree(v)' /\ WorkerAgrees(v)'
  <2>1. CASE worker[v] = Off
    BY <1>2, <2>1 DEF HoldsAgree, WorkerAgrees, Off
  <2>2. CASE worker[v] # Off
    <3>1. UserOf(v)' = UserOf(v) /\ UserOf(v) \in Users
      BY <1>2, <2>2, Deliveries DEF UserOf
    <3>2. HoldsAgree(v)'
      BY <1>2, <2>2, Deliveries DEF HoldsAgree
    <3>3. WorkerAgrees(v)'
      BY <1>1, <1>2, <3>1 DEF WorkerAgrees, DeletionAgrees
    <3> QED BY <3>2, <3>3
  <2> QED BY <2>1, <2>2
<1>3. \A j \in Jobs : MessageAgrees(j)'
  BY DEF MessageAgrees, DeletionAgrees
<1>4. \A p \in Publishers : PublisherAgrees(p)'
  BY <1>1 DEF PublisherAgrees, DeletionAgrees, TypeOK, Free
<1>5. \A u \in Users : AccountAgrees(u)'
  BY DEF AccountAgrees, DeletionAgrees
<1>6. \A r \in Relays : \A v \in todo'[r] : account'[v] # "active"
  BY DEF DeletionAgrees
<1> QED BY <1>2, <1>3, <1>4, <1>5, <1>6 DEF DeletionAgrees

\* An account's message survives in a step that keeps the messages and their
\* accounts and acknowledges none of them.
LEMMA StillQueued ==
  ASSUME NEW u \in Users,
         \A j \in Jobs : job[j] # NULL /\ job[j].user = u /\ ~Acked(j) =>
           job'[j] # NULL /\ job'[j].user = u /\ ~Acked(j)'
  PROVE  Queued(u) => Queued(u)'
  BY DEF Queued

\* Delivering a message and the retry queue's TTL.
LEMMA BrokerAgrees ==
  ASSUME TypeOK, TypeOK', DeletionAgrees, NEW j \in Jobs,
         RetryDue(j) \/ \E w \in Workers : Deliver(w, j)
  PROVE  DeletionAgrees'
<1> USE DEF rows
<1>1. \A v \in Workers : worker[v] # Off => worker[v].job # j
  BY Deliveries DEF RetryDue, Deliver
<1>2. /\ job[j] \in Messages /\ account[job[j].user] # "active"
      /\ job[j].tries >= job[j].attempts
  BY DEF RetryDue, Deliver, TypeOK, DeletionAgrees, MessageAgrees
<1>3. CASE RetryDue(j)
  <2>1. /\ \A k \in Jobs : k # j => job'[k] = job[k]
        /\ job'[j].user = job[j].user /\ job'[j].at = "queue" /\ job'[j] # NULL
        /\ job'[j].attempts = job[j].attempts /\ job'[j].tries = job[j].tries
    BY <1>2, <1>3, NullAssumption DEF RetryDue, TypeOK, Messages
  <2>2. MessageAgrees(j)'
    BY <1>2, <1>3, <2>1 DEF MessageAgrees, RetryDue
  <2>3. \A u \in Users : Queued(u) => Queued(u)'
    BY <1>3, <2>1, StillQueued DEF RetryDue, Acked
  <2>4. CASE Workers = {}
    BY <1>3, <2>1, <2>2, <2>3, <2>4
       DEF DeletionAgrees, MessageAgrees, PublisherAgrees, AccountAgrees, Cleared, RetryDue, TypeOK, Free
  <2>5. ASSUME NEW w \in Workers PROVE DeletionAgrees'
    <3>1. HoldsAgree(w)' /\ WorkerAgrees(w)'
      <4>1. CASE worker[w] = Off
        BY <1>3, <4>1 DEF HoldsAgree, WorkerAgrees, RetryDue, Off
      <4>2. CASE worker[w] # Off
        <5>1. job'[worker[w].job] = job[worker[w].job] /\ UserOf(w) \in Users
          BY <1>1, <2>1, <4>2, Deliveries
        <5>2. UserOf(w)' = UserOf(w)
          BY <1>3, <5>1 DEF RetryDue, UserOf
        <5> QED BY <1>3, <2>3, <5>1, <5>2 DEF DeletionAgrees, HoldsAgree, WorkerAgrees, RetryDue, Cleared
      <4> QED BY <4>1, <4>2
    <3>2. \A v \in Workers \ {w} : worker[v] # Off =>
            job'[worker[v].job] = job[worker[v].job] /\ worker'[w].job # worker[v].job
      BY <1>1, <1>3, <2>1, Deliveries DEF RetryDue
    <3> QED BY <1>3, <2>1, <2>2, <2>3, <3>1, <3>2, QueueMoves DEF RetryDue
  <2> QED BY <2>4, <2>5
<1>4. ASSUME NEW w \in Workers, Deliver(w, j) PROVE DeletionAgrees'
  <2>1. /\ \A k \in Jobs : k # j => job'[k] = job[k]
        /\ job'[j] = HandedOver(job[j]) /\ job'[j] # NULL
    BY <1>2, <1>4, HandedOverIsMessage, NullAssumption DEF Deliver, TypeOK
  <2>2. /\ worker'[w].at = "revoke" /\ worker'[w].job = j
        /\ \A v \in Workers \ {w} : worker'[v] = worker[v]
    BY <1>4 DEF Deliver, TypeOK
  <2>3. MessageAgrees(j)'
    <3>1. job[j].attempts < MaxAttempts /\ job[j].attempts \in Nat /\ job[j].tries \in Nat
      BY <1>2, AttemptsAssumption DEF Messages
    <3> QED BY <1>2, <1>4, <2>1, <3>1, HandedOverIsMessage, AttemptsAssumption DEF MessageAgrees, Deliver
  <2>4. \A k \in Jobs : ~Acked(k) => ~Acked(k)'
    BY <1>1, <1>4, <2>2 DEF Acked, Deliver, Off
  <2>5. \A u \in Users : Queued(u) => Queued(u)'
    BY <1>2, <2>1, <2>4, HandedOverIsMessage, StillQueued
  <2>6. HoldsAgree(w)' /\ WorkerAgrees(w)'
    <3>1. \A v \in Workers \ {w} : worker[v].job # j
      BY <1>1, NamesAssumption DEF Off
    <3> QED BY <1>2, <2>1, <2>2, <3>1, HandedOverIsMessage DEF HoldsAgree, WorkerAgrees
  <2> QED BY <1>1, <1>4, <2>1, <2>2, <2>3, <2>5, <2>6, Deliveries, QueueMoves DEF Deliver
<1> QED BY <1>3, <1>4

\* What a worker does with its delivery once the handler is through.
LEMMA WorkerQueueAgrees ==
  ASSUME TypeOK, TypeOK', DeletionAgrees, NEW w \in Workers,
         DeadLetter(w) \/ Retry(w) \/ RetryFails(w) \/ Ack(w) \/ WorkerDies(w)
  PROVE  DeletionAgrees'
<1> USE DEF rows
<1>1. worker[w] # Off
  BY DEF DeadLetter, Retry, RetryFails, Ack, WorkerDies, Off
<1>0. PICK j \in Jobs : j = worker[w].job
  BY <1>1, Deliveries
<1>2. /\ job[j] \in Messages /\ job[j] # NULL /\ job[j].at = "held"
      /\ UserOf(w) \in Users /\ UserOf(w) = job[j].user /\ account[job[j].user] # "active"
      /\ job[j].tries > job[j].attempts
      /\ \A v \in Workers \ {w} : worker[v].job # j
  BY <1>0, <1>1, Deliveries
<1>3. /\ job[j].attempts \in Nat /\ job[j].tries \in Nat /\ job[j].tries <= MaxAttempts
  BY <1>2, AttemptsAssumption DEF Messages
\* A worker that lets go of its delivery has nothing left to agree with.
<1>4. ASSUME worker' = [worker EXCEPT ![w] = Off]
      PROVE  /\ HoldsAgree(w)' /\ WorkerAgrees(w)'
             /\ \A v \in Workers \ {w} : worker'[v] = worker[v]
             /\ \A v \in Workers \ {w} : worker[v] # Off => worker'[w].job # worker[v].job
             /\ \A k \in Jobs : ~Acked(k) => ~Acked(k)'
  <2>1. worker'[w] = Off /\ \A v \in Workers \ {w} : worker'[v] = worker[v]
    BY <1>4 DEF TypeOK
  <2>2. HoldsAgree(w)' /\ WorkerAgrees(w)'
    BY <2>1 DEF HoldsAgree, WorkerAgrees, Off
  <2>3. \A v \in Workers \ {w} : worker[v] # Off => worker'[w].job # worker[v].job
    BY <2>1, Deliveries, NamesAssumption DEF Off
  <2>4. \A k \in Jobs : ~Acked(k) => ~Acked(k)'
    BY <2>1, NamesAssumption DEF Acked, Off
  <2> QED BY <2>1, <2>2, <2>3, <2>4
\* The delivery goes back to the queue, header and all.
<1>5. /\ Requeued(w, job) \in [Jobs -> Messages \cup {NULL}]
      /\ \A k \in Jobs : k # j => Requeued(w, job)[k] = job[k]
      /\ Requeued(w, job)[j] # NULL /\ Requeued(w, job)[j].at = "queue"
      /\ Requeued(w, job)[j].user = job[j].user
      /\ Requeued(w, job)[j].attempts = job[j].attempts
      /\ Requeued(w, job)[j].tries = job[j].tries
  BY <1>0, <1>2, NullAssumption DEF Requeued, TypeOK, Messages
<1>6. ASSUME worker[w].at # "ack" PROVE ~Acked(j)
  BY <1>0, <1>2, <1>6 DEF Acked
\* The next attempt's message.
<1>7. ASSUME ~LastAttempt(w)
      PROVE  /\ NextAttempt(j) \in Messages /\ NextAttempt(j) # NULL
             /\ NextAttempt(j).user = job[j].user /\ NextAttempt(j).at = "retry"
             /\ NextAttempt(j).attempts = job[j].attempts + 1
             /\ NextAttempt(j).tries = job[j].tries
  <2>1. job[j].attempts + 1 < MaxAttempts
    BY <1>0, <1>3, <1>7, AttemptsAssumption DEF LastAttempt
  <2> QED BY <1>2, <2>1, NextAttemptIsMessage, NullAssumption
<1>8. ASSUME NEW k \in Jobs, job[k] = NULL
      PROVE  k # j /\ (\A v \in Workers : worker[v] # Off => worker[v].job # k) /\ ~Acked(k)
  <2>1. \A v \in Workers : worker[v] # Off => worker[v].job # k
    BY <1>8, Deliveries
  <2>2. ~Acked(k)
    BY <2>1 DEF Acked, Off
  <2> QED BY <1>2, <1>8, <2>1, <2>2
<1>9. CASE DeadLetter(w)
  <2>1. /\ \A k \in Jobs : k # j => job'[k] = job[k]
        /\ job'[j].user = job[j].user /\ job'[j].at = "dead" /\ job'[j] # NULL
        /\ job'[j].attempts = job[j].attempts /\ job'[j].tries = job[j].tries
    BY <1>0, <1>2, <1>9, NullAssumption DEF DeadLetter, TypeOK, Messages
  <2>2. MessageAgrees(j)'
    <3>1. job[j].tries = MaxAttempts
      BY <1>0, <1>2, <1>3, <1>9, AttemptsAssumption DEF DeadLetter, LastAttempt
    <3>2. account' = account
      BY <1>9 DEF DeadLetter, rows
    <3>3. account'[job'[j].user] # "active"
      BY <1>2, <2>1, <3>2
    <3> QED BY <1>2, <1>3, <2>1, <3>1, <3>3, AttemptsAssumption DEF MessageAgrees
  <2>3. \A u \in Users : Queued(u) => Queued(u)'
    BY <1>4, <1>9, <2>1, StillQueued DEF DeadLetter
  <2> QED BY <1>0, <1>2, <1>4, <1>9, <2>1, <2>2, <2>3, QueueMoves DEF DeadLetter
<1>10. CASE Retry(w)
  <2>1. PICK k \in Jobs : job[k] = NULL /\ job' = [job EXCEPT ![k] = NextAttempt(j)]
    BY <1>0, <1>10, EnqueueAddsOne DEF Retry
  <2>2. job'[k] = NextAttempt(j) /\ \A i \in Jobs : i # k => job'[i] = job[i]
    BY <2>1 DEF TypeOK
  <2>3. /\ worker'[w].at = "ack" /\ worker'[w].job = j
        /\ \A v \in Workers \ {w} : worker'[v] = worker[v]
    BY <1>0, <1>10 DEF Retry, Goto, TypeOK, Off
  <2>4. ~Acked(k)'
    BY <1>8, <2>1, <2>3, NamesAssumption DEF Acked, Off
  <2>5. \A u \in Users : u = job[j].user => Queued(u)'
    BY <1>7, <1>10, <2>1, <2>2, <2>4 DEF Queued, Retry
  <2>6. ASSUME NEW u \in Users, Queued(u) PROVE Queued(u)'
    <3>1. PICK i \in Jobs : job[i] # NULL /\ job[i].user = u /\ ~Acked(i)
      BY <2>6 DEF Queued
    <3>2. CASE i = j
      BY <2>5, <3>1, <3>2
    <3>3. CASE i # j
      <4>1. ~Acked(i)'
        BY <2>3, <3>1, <3>3 DEF Acked
      <4> QED BY <2>1, <2>2, <3>1, <4>1 DEF Queued
    <3> QED BY <3>2, <3>3
  <2>7. MessageAgrees(k)'
    BY <1>2, <1>3, <1>7, <1>10, <2>2 DEF MessageAgrees, Retry
  <2>8. HoldsAgree(w)' /\ WorkerAgrees(w)'
    <3>1. job'[j] = job[j] /\ UserOf(w)' = job[j].user
      BY <1>2, <1>8, <2>1, <2>2, <2>3 DEF UserOf
    <3> QED BY <1>2, <2>3, <2>5, <3>1 DEF HoldsAgree, WorkerAgrees
  <2>9. \A v \in Workers \ {w} : worker[v] # Off =>
          job'[worker[v].job] = job[worker[v].job] /\ worker'[w].job # worker[v].job
    BY <1>2, <1>8, <2>1, <2>2, <2>3, Deliveries
  <2> QED BY <1>10, <2>2, <2>3, <2>6, <2>7, <2>8, <2>9, QueueMoves DEF Retry
<1>11. ASSUME worker' = [worker EXCEPT ![w] = Off], job' = Requeued(w, job),
              UNCHANGED <<rows, revoked, pub, todo>>
       PROVE  DeletionAgrees'
  <2>1. MessageAgrees(j)'
    BY <1>2, <1>3, <1>5, <1>11 DEF MessageAgrees
  <2>2. \A u \in Users : Queued(u) => Queued(u)'
    BY <1>4, <1>5, <1>11, StillQueued
  <2> QED BY <1>2, <1>4, <1>5, <1>11, <2>1, <2>2, Deliveries, QueueMoves
<1>12. CASE RetryFails(w)
  <2>1. CASE job' = Requeued(w, job)
    BY <1>11, <1>12, <2>1 DEF RetryFails
  <2>2. ASSUME Room, job' = [Requeued(w, job) EXCEPT ![NewName] = NextAttempt(worker[w].job)]
        PROVE  DeletionAgrees'
    <3>1. PICK k \in Jobs : k = NewName /\ job[k] = NULL
      BY <2>2, NewNameIsFree
    <3>2. /\ k # j /\ job'[k] = NextAttempt(j) /\ job'[j] = Requeued(w, job)[j]
          /\ \A i \in Jobs : i # k /\ i # j => job'[i] = job[i]
      BY <1>5, <1>8, <1>0, <2>2, <3>1
    <3>3. MessageAgrees(j)' /\ MessageAgrees(k)'
      BY <1>2, <1>3, <1>5, <1>7, <1>12, <3>2 DEF MessageAgrees, RetryFails
    <3>4. \A u \in Users : Queued(u) => Queued(u)'
      BY <1>4, <1>5, <1>12, <3>1, <3>2, StillQueued DEF RetryFails
    <3> QED BY <1>2, <1>4, <1>8, <1>12, <3>1, <3>2, <3>3, <3>4, Deliveries, QueueMoves DEF RetryFails
  <2> QED BY <1>0, <1>12, <2>1, <2>2 DEF RetryFails
<1>13. CASE WorkerDies(w)
  BY <1>11, <1>13 DEF WorkerDies
<1>14. CASE Ack(w)
  <2>1. job'[j] = NULL /\ \A k \in Jobs : k # j => job'[k] = job[k]
    BY <1>0, <1>2, <1>14 DEF Ack, TypeOK
  <2>2. MessageAgrees(j)'
    BY <2>1 DEF MessageAgrees
  <2>3. Acked(j)
    BY <1>0, <1>14 DEF Ack, Acked
  <2>4. \A u \in Users : Queued(u) => Queued(u)'
    BY <1>4, <1>14, <2>1, <2>3, StillQueued DEF Ack
  <2> QED BY <1>2, <1>4, <1>14, <2>1, <2>2, <2>4, Deliveries, QueueMoves DEF Ack
<1> QED BY <1>9, <1>10, <1>12, <1>13, <1>14

-----------------------------------------------------------------------------
(* The invariant and what follows from it. *)

LEMMA StepAgrees ==
  ASSUME TypeOK, DeletionAgrees, [Next]_vars
  PROVE  DeletionAgrees'
<1>1. TypeOK'
  BY StepKeepsTypes
<1>2. CASE UNCHANGED vars
  <2>1. /\ \A w \in Workers : HoldsAgree(w)' /\ UserOf(w)' = UserOf(w)
        /\ \A v \in Users : Queued(v) => Queued(v)'
        /\ \A j \in Jobs : MessageAgrees(j)'
    BY <1>2, NothingSent DEF vars, rows
  <2>2. \A w \in Workers : WorkerAgrees(w)'
    BY <1>2 DEF DeletionAgrees, WorkerAgrees, UserOf, Queued, Acked, Cleared, vars, rows
  <2>3. (\A p \in Publishers : PublisherAgrees(p)') /\ (\A u \in Users : AccountAgrees(u)')
    BY <1>2 DEF DeletionAgrees, PublisherAgrees, AccountAgrees, Queued, Acked, Cleared, vars, rows
  <2> QED BY <1>2, <2>1, <2>2, <2>3 DEF DeletionAgrees, vars, rows
<1>3. CASE Next
  BY <1>1, <1>3, RequestStepAgrees, RelayStepAgrees, PublishStepAgrees, BrokerAgrees,
     HandleAgrees, WorkerQueueAgrees DEF Next, Consume
<1> QED BY <1>2, <1>3

\* Rows, messages, publishers and workers keep their types and tell one story of
\* each deletion, for any number of each and any faults.
THEOREM DeletionAlwaysAgrees == Spec => [](TypeOK /\ DeletionAgrees)
<1>1. Init => TypeOK /\ DeletionAgrees
  BY AttemptsAssumption, NullAssumption
     DEF Init, TypeOK, DeletionAgrees, HoldsAgree, WorkerAgrees, PublisherAgrees,
         MessageAgrees, AccountAgrees, Publishers, Free, Off
<1>2. TypeOK /\ DeletionAgrees /\ [Next]_vars => (TypeOK /\ DeletionAgrees)'
  BY StepKeepsTypes, StepAgrees
<1> QED BY <1>1, <1>2, PTL DEF Spec

\* Every row, message and program counter keeps its type.
THEOREM TypeCorrect == Spec => []TypeOK
BY DeletionAlwaysAgrees, PTL

\* No recorded deletion is ever lost between outbox, queues and workers.
THEOREM RecordedCertain == Spec => []RecordedIsCertain
<1>1. DeletionAgrees => RecordedIsCertain
  BY DEF DeletionAgrees, AccountAgrees, RecordedIsCertain
<1> QED BY <1>1, DeletionAlwaysAgrees, PTL

\* No account's rows are removed before its sessions were revoked.
THEOREM GoneRevoked == Spec => []GoneWasRevoked
<1>1. DeletionAgrees => GoneWasRevoked
  BY DEF DeletionAgrees, AccountAgrees, GoneWasRevoked
<1> QED BY <1>1, DeletionAlwaysAgrees, PTL

\* No deletion reaches the operator before MaxAttempts deliveries.
THEOREM GivenUpOnlyLate == Spec => []GivenUpLate
<1>1. DeletionAgrees => GivenUpLate
  BY DEF DeletionAgrees, MessageAgrees, GivenUpLate
<1> QED BY <1>1, DeletionAlwaysAgrees, PTL

-----------------------------------------------------------------------------
(* The abstract promise. *)

Dead(j) == job[j] # NULL /\ job[j].at = "dead"

\* If no dead letter comes, goes or changes, no account's letter does.
LEMMA LettersStay ==
  ASSUME \A j \in Jobs : job'[j] = job[j] \/ (~Dead(j) /\ ~Dead(j)')
  PROVE  \A u \in Users : Letter(u)' = Letter(u)
<1> TAKE u \in Users
<1>1. ASSUME Letter(u) PROVE Letter(u)'
  <2>1. PICK j \in Jobs : Dead(j) /\ job[j].user = u
    BY <1>1 DEF Letter, Dead
  <2> QED BY <2>1 DEF Letter, Dead
<1>2. ASSUME Letter(u)' PROVE Letter(u)
  <2>1. PICK j \in Jobs : Dead(j)' /\ job'[j].user = u
    BY <1>2 DEF Letter, Dead
  <2> QED BY <2>1 DEF Letter, Dead
<1>3. Letter(u) \in BOOLEAN /\ Letter(u)' \in BOOLEAN
  BY DEF Letter
<1> QED BY <1>1, <1>2, <1>3

\* A step that touches neither rows nor letters is a stutter of the promise, one
\* that touches one account or one letter is a step of it.
LEMMA RowsUntouched ==
  ASSUME account' = account, \A u \in Users : Letter(u)' = Letter(u)
  PROVE  UNCHANGED Promise!vars
  BY DEF Promise!vars, Deletion

LEMMA OneAccountMoves ==
  ASSUME TypeOK, \A v \in Users : Letter(v)' = Letter(v),
         NEW u \in Users, NEW to, account' = [account EXCEPT ![u] = to],
         \/ account[u] = "active" /\ to = "marked"
         \/ account[u] = "marked" /\ to = "gone"
         \/ account[u] = to
  PROVE  [Promise!Next]_(Promise!vars)
<1> DEFINE D == [v \in Users |-> Deletion(v)]
<1>1. UNCHANGED [v \in Users |-> Letter(v)]
  OBVIOUS
<1>2. CASE account[u] = "active" /\ to = "marked"
  <2>1. D[u] = "none" /\ D' = [D EXCEPT ![u] = "due"]
    BY <1>2 DEF Deletion, TypeOK
  <2> QED BY <1>1, <2>1 DEF Promise!Next, Promise!Accept
<1>3. CASE account[u] = "marked" /\ to = "gone"
  <2>1. D[u] = "due" /\ D' = [D EXCEPT ![u] = "done"]
    BY <1>3 DEF Deletion, TypeOK
  <2> QED BY <1>1, <2>1 DEF Promise!Next, Promise!CarryOut
<1>4. CASE account[u] = to
  <2>1. account' = account
    BY <1>4 DEF TypeOK
  <2> QED BY <2>1, RowsUntouched
<1> QED BY <1>2, <1>3, <1>4

\* A message is enqueued: no dead letter is among those before and after.
LEMMA EnqueueLeavesLetters ==
  ASSUME TypeOK, NEW msg, msg.at # "dead", Enqueue(msg)
  PROVE  \A u \in Users : Letter(u)' = Letter(u)
<1>1. PICK k \in Jobs : job[k] = NULL /\ job' = [job EXCEPT ![k] = msg]
  BY EnqueueAddsOne
<1>2. job'[k] = msg /\ \A j \in Jobs : j # k => job'[j] = job[j]
  BY <1>1 DEF TypeOK
<1>3. \A j \in Jobs : job'[j] = job[j] \/ (~Dead(j) /\ ~Dead(j)')
  BY <1>1, <1>2 DEF Dead
<1> QED BY <1>3, LettersStay

\* No step of a worker that holds a delivery but DeadLetter makes or takes a letter.
LEMMA WorkerLeavesLetters ==
  ASSUME TypeOK, DeletionAgrees, NEW w \in Workers,
         Retry(w) \/ RetryFails(w) \/ Ack(w) \/ WorkerDies(w)
  PROVE  \A u \in Users : Letter(u)' = Letter(u)
<1> DEFINE j == worker[w].job
<1>0. worker[w] # Off
  BY DEF Retry, RetryFails, Ack, WorkerDies, Off
<1>1. j \in Jobs /\ job[j] # NULL /\ job[j] \in Messages /\ job[j].at = "held"
  BY <1>0, Deliveries
<1>2. NextAttempt(j).at = "retry"
  BY DEF NextAttempt
<1>3. CASE Retry(w)
  BY <1>2, <1>3, EnqueueLeavesLetters DEF Retry
<1>4. /\ Requeued(w, job)[j].at = "queue"
      /\ \A k \in Jobs : k # j => Requeued(w, job)[k] = job[k]
  BY <1>1 DEF Requeued, TypeOK, Messages
<1>5. CASE job' = Requeued(w, job)
  BY <1>1, <1>4, <1>5, LettersStay DEF Dead
<1>6. CASE Room /\ job' = [Requeued(w, job) EXCEPT ![NewName] = NextAttempt(j)]
  <2>1. NewName \in Jobs /\ job[NewName] = NULL
    BY <1>6, NewNameIsFree
  <2>2. job'[NewName].at = "retry" /\ job'[j].at = "queue"
    BY <1>1, <1>2, <1>4, <1>6, <2>1 DEF Requeued, TypeOK
  <2>3. \A k \in Jobs : k # j /\ k # NewName => job'[k] = job[k]
    BY <1>4, <1>6, <2>1
  <2> QED BY <1>1, <2>1, <2>2, <2>3, LettersStay DEF Dead
<1>7. CASE Ack(w)
  <2>1. job'[j] = NULL /\ \A k \in Jobs : k # j => job'[k] = job[k]
    BY <1>1, <1>7 DEF Ack, TypeOK
  <2> QED BY <1>1, <2>1, LettersStay DEF Dead
<1> QED BY <1>3, <1>5, <1>6, <1>7 DEF RetryFails, WorkerDies

\* Every step is one the promise allows, or none it sees.
LEMMA StepPromised ==
  ASSUME TypeOK, DeletionAgrees, [Next]_vars
  PROVE  [Promise!Next]_(Promise!vars)
<1>1. ASSUME UNCHANGED job PROVE \A u \in Users : Letter(u)' = Letter(u)
  BY <1>1, LettersStay
<1>2. ASSUME UNCHANGED <<account, job>> PROVE [Promise!Next]_(Promise!vars)
  BY <1>1, <1>2, RowsUntouched
<1>3. CASE UNCHANGED vars
  BY <1>2, <1>3 DEF vars, rows
<1>4. ASSUME NEW r \in Requests, RequestStep(r) PROVE [Promise!Next]_(Promise!vars)
  <2>1. CASE RequestRevokes(r)
    BY <1>2, <2>1 DEF RequestRevokes, rows
  <2>2. ASSUME NEW u \in Users, RecordDeletion(r, u) PROVE [Promise!Next]_(Promise!vars)
    <3>1. account[u] = "active" \/ account[u] = "marked"
      BY <2>2 DEF RecordDeletion, TypeOK
    <3> QED BY <1>1, <2>2, <3>1, OneAccountMoves DEF RecordDeletion
  <2> QED BY <1>4, <2>1, <2>2 DEF RequestStep
<1>5. ASSUME NEW r \in Relays, RelayStep(r) PROVE [Promise!Next]_(Promise!vars)
  BY <1>2, <1>5 DEF RelayStep, RelayLists, RelayTakes, rows
<1>6. ASSUME NEW p \in Publishers, PublishStep(p) PROVE [Promise!Next]_(Promise!vars)
  <2>1. CASE UNCHANGED <<account, job>>
    BY <1>2, <2>1
  <2>2. CASE UNCHANGED account /\ Enqueue(NewJob(pub[p].user))
    BY <2>2, EnqueueLeavesLetters, RowsUntouched DEF NewJob
  <2> QED
    BY <1>6, <2>1, <2>2 DEF PublishStep, Publish, PublishFails, MaybeEnqueue, MarkPublished,
                            PublisherDies, rows
<1>7. ASSUME NEW w \in Workers, Handle(w) PROVE [Promise!Next]_(Promise!vars)
  <2>1. CASE UNCHANGED <<account, job>>
    BY <1>2, <2>1
  <2>2. CASE DeleteUser(w) \/ (DeleteFails(w) /\ ~UNCHANGED account)
    <3>1. /\ account' = [account EXCEPT ![UserOf(w)] = "gone"] /\ UNCHANGED job
          /\ worker[w] # Off
      BY <2>2 DEF DeleteUser, DeleteFails, Off
    <3>2. UserOf(w) \in Users /\ account[UserOf(w)] \in {"marked", "gone"}
      BY <3>1, Deliveries DEF TypeOK
    <3> QED BY <1>1, <3>1, <3>2, OneAccountMoves
  <2> QED
    BY <1>7, <2>1, <2>2 DEF Handle, HandleRevokes, RevokeFails, DeleteUser, DeleteFails,
                            Finish, FinishFails, rows
<1>8. ASSUME NEW w \in Workers, NEW j \in Jobs, Deliver(w, j)
      PROVE  [Promise!Next]_(Promise!vars)
  <2>1. /\ job[j].at = "queue" /\ job'[j].at = "held"
        /\ \A k \in Jobs : k # j => job'[k] = job[k]
    BY <1>8 DEF Deliver, HandedOver, TypeOK
  <2> QED BY <1>8, <2>1, LettersStay, RowsUntouched DEF Deliver, Dead, rows
<1>9. ASSUME NEW w \in Workers, Retry(w) \/ RetryFails(w) \/ Ack(w) \/ WorkerDies(w)
      PROVE  [Promise!Next]_(Promise!vars)
  <2>1. account' = account
    BY <1>9 DEF Retry, RetryFails, Ack, WorkerDies, rows
  <2> QED BY <1>9, <2>1, WorkerLeavesLetters, RowsUntouched
<1>10. ASSUME NEW w \in Workers, DeadLetter(w) PROVE [Promise!Next]_(Promise!vars)
  <2> DEFINE j == worker[w].job
             L == [v \in Users |-> Letter(v)]
  <2>1. PICK u \in Users : u = job[j].user /\ account[u] # "active" /\ j \in Jobs
                           /\ job[j] # NULL /\ job[j].at = "held" /\ job[j] \in Messages
    BY <1>10, Deliveries DEF DeadLetter, Off
  <2>2. /\ job'[j].user = u /\ job'[j].at = "dead" /\ job'[j] # NULL
        /\ \A k \in Jobs : k # j => job'[k] = job[k]
    BY <1>10, <2>1, NullAssumption DEF DeadLetter, TypeOK, Messages
  <2>3. account' = account
    BY <1>10 DEF DeadLetter, rows
  <2>4. Letter(u)'
    BY <2>1, <2>2 DEF Letter
  <2>5. ASSUME NEW v \in Users, v # u PROVE Letter(v)' = Letter(v)
    <3>1. ASSUME Letter(v) PROVE Letter(v)'
      <4>1. PICK k \in Jobs : job[k] # NULL /\ job[k].at = "dead" /\ job[k].user = v
        BY <3>1 DEF Letter
      <4> QED BY <2>1, <2>2, <4>1 DEF Letter
    <3>2. ASSUME Letter(v)' PROVE Letter(v)
      <4>1. PICK k \in Jobs : job'[k] # NULL /\ job'[k].at = "dead" /\ job'[k].user = v
        BY <3>2 DEF Letter
      <4> QED BY <2>2, <2>5, <4>1 DEF Letter
    <3>3. Letter(v) \in BOOLEAN /\ Letter(v)' \in BOOLEAN
      BY DEF Letter
    <3> QED BY <3>1, <3>2, <3>3
  <2>6. CASE Letter(u)
    <3>1. Letter(u) \in BOOLEAN /\ Letter(u)' \in BOOLEAN
      BY DEF Letter
    <3> QED BY <2>3, <2>4, <2>5, <2>6, <3>1, RowsUntouched
  <2>7. CASE ~Letter(u)
    <3>1. UNCHANGED [v \in Users |-> Deletion(v)]
      BY <2>3 DEF Deletion
    <3>2. Deletion(u) # "none"
      BY <2>1 DEF Deletion
    <3>3. Letter(u)' = TRUE
      BY <2>4 DEF Letter
    <3>4. L' = [L EXCEPT ![u] = TRUE]
      BY <2>5, <3>3
    <3> QED BY <2>7, <3>1, <3>2, <3>4 DEF Promise!Next, Promise!TellOperator
  <2> QED BY <2>6, <2>7
<1>11. ASSUME NEW j \in Jobs, RetryDue(j) PROVE [Promise!Next]_(Promise!vars)
  <2>1. /\ job[j].at = "retry" /\ job'[j].at = "queue"
        /\ \A k \in Jobs : k # j => job'[k] = job[k]
    BY <1>11 DEF RetryDue, TypeOK, Messages
  <2> QED BY <1>11, <2>1, LettersStay, RowsUntouched DEF RetryDue, Dead, rows
<1> QED
  BY <1>3, <1>4, <1>5, <1>6, <1>7, <1>8, <1>9, <1>10, <1>11 DEF Next, Consume

\* Requests, relays and workers only ever take steps the promise allows.
THEOREM PromiseUnbroken == Spec => BreaksNoPromise
<1>1. Init => Promise!Init
  BY DEF Init, Promise!Init, Deletion, Letter
<1>2. TypeOK /\ DeletionAgrees /\ [Next]_vars => [Promise!Next]_(Promise!vars)
  BY StepPromised
<1> QED
  BY <1>1, <1>2, DeletionAlwaysAgrees, PTL DEF Spec, BreaksNoPromise, Promise!Spec
=============================================================================
