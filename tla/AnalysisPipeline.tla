--------------------------- MODULE AnalysisPipeline ---------------------------
(***************************************************************************)
(* Scoring a pasted conversation: Submit and Reanalyze of                   *)
(* analysis/service.go, the RabbitMQ queue of analysis/queue.go, Handle of  *)
(* analysis/worker.go and the statements of store/db/analysis.sql.go.       *)
(*                                                                         *)
(* Requests are numbered in the order they begin their transaction, which   *)
(* is the created_at of the row they insert: now() is the time of BEGIN.    *)
(* A request inserts at most one run, so the run bears its number.          *)
(***************************************************************************)
EXTENDS Integers

CONSTANTS
  Convs,          \* conversations
  MaxRequests,    \* bound: requests in all
  Handlers,       \* handler goroutines of all workers (prefetchCount each)
  MaxFaults,      \* bound: failed publishes, dropped channels, deaths, cancelled contexts
  LastMayBeCut,   \* a cancelled context may strike a job's last delivery
  MayOvertake,    \* a transaction may begin first and take the lock second
  NULL

ASSUME PipelineAssumption ==
  /\ MaxRequests \in Nat /\ MaxFaults \in Nat /\ LastMayBeCut \in BOOLEAN /\ MayOvertake \in BOOLEAN
  /\ NULL \notin 1..MaxRequests /\ NULL \notin Convs

Requests == 1..MaxRequests
Messages == Requests \X {1, 2}      \* the job of a run, published once or twice

VARIABLES
  started, \* requests so far
  req,     \* how far each request is
  row,     \* analysis_results.status of each request's run
  lock,    \* holder of the conversation's row lock
  msg,     \* the broker's messages; "again" is Redelivered, "by" the holder
  hand,    \* how far each handler is with its delivery
  faults   \* how much of MaxFaults is used

queue == <<msg, hand>>
vars  == <<started, req, row, lock, queue, faults>>

Active   == {"pending", "running"}
Terminal == {"succeeded", "failed"}
NoReq    == [at |-> "none", call |-> "none", conv |-> NULL]
Off      == [at |-> "off", m |-> NULL, last |-> FALSE]
Unsent   == [at |-> "unsent", again |-> FALSE, by |-> NULL]

TypeOK ==
  /\ started \in 0..MaxRequests
  /\ req \in [Requests -> {NoReq} \cup
       [at : {"begun", "insert", "publish", "republish", "cleanup", "done", "lost"},
        call : {"submit", "reanalyze"}, conv : Convs]]
  /\ row \in [Requests -> {"none"} \cup Active \cup Terminal]
  /\ lock \in [Convs -> Requests \cup {NULL}]
  /\ msg \in [Messages -> [at : {"unsent", "queued", "held", "gone"}, again : BOOLEAN,
                           by : Handlers \cup {NULL}]]
  /\ hand \in [Handlers -> {Off} \cup
       [at : {"claim", "score"}, m : Messages, last : BOOLEAN]]
  /\ faults \in 0..MaxFaults

Init ==
  /\ started = 0
  /\ req = [q \in Requests |-> NoReq]
  /\ row = [q \in Requests |-> "none"]
  /\ lock = [c \in Convs |-> NULL]
  /\ msg = [m \in Messages |-> Unsent]
  /\ hand = [h \in Handlers |-> Off]
  /\ faults = 0

Fault == faults < MaxFaults /\ faults' = faults + 1
Goes(q, at) == req' = [req EXCEPT ![q].at = at]
RunOf(h) == hand[h].m[1]

RunsOf(c) == {q \in Requests : row[q] # "none" /\ req[q].conv = c}
-----------------------------------------------------------------------------
(* The statements *)

CreateAnalysisResult(q) == row' = [row EXCEPT ![q] = "pending"]

\* The newest run: ORDER BY created_at DESC LIMIT 1.
GetLatestAnalysisForConversation(c) ==
  CHOOSE q \in RunsOf(c) : \A p \in RunsOf(c) : p <= q

\* Faulty variant: the conversation is read without FOR UPDATE.
LockConversationReads(c, q) == UNCHANGED lock

\* SELECT ... FOR UPDATE, held to the end of the transaction of q.
LockConversation(c, q) == lock[c] = NULL /\ lock' = [lock EXCEPT ![c] = q]

\* A run pending or running becomes running; a finished one gives no row.
ClaimAnalysis(q) == row[q] \in Active /\ row' = [row EXCEPT ![q] = "running"]

CompleteAnalysis(q) == row' = [row EXCEPT ![q] = "succeeded"]

\* Faulty variant: a failure is not recorded.
FailAnalysisForgets(q) == UNCHANGED row

\* Faulty variant: a status that the table's CHECK does not list.
FailAnalysisMisnamed(q) == row' = [row EXCEPT ![q] = "error"]

FailAnalysis(q) == row' = [row EXCEPT ![q] = "failed"]

FailPendingAnalysis(q) ==
  row' = IF row[q] = "pending" THEN [row EXCEPT ![q] = "failed"] ELSE row
-----------------------------------------------------------------------------
(* The API's requests *)

Begin(call, c, at) ==
  /\ started < MaxRequests
  /\ started' = started + 1
  /\ req' = [req EXCEPT ![started + 1] = [at |-> at, call |-> call, conv |-> c]]

\* Submit, of a body that passes its checks, inserts the conversation, its messages and the first run in one
\* transaction that nobody else can see the rows of before it commits.
Submit(c) ==
  /\ RunsOf(c) = {}
  /\ Begin("submit", c, "publish")
  /\ CreateAnalysisResult(started + 1)
  /\ UNCHANGED <<lock, queue, faults>>

\* Reanalyze by the owner; for anybody else ownedConversation ends it here.
Reanalyze(c) ==
  /\ RunsOf(c) # {}
  /\ Begin("reanalyze", c, "begun")
  /\ UNCHANGED <<row, lock, queue, faults>>

InTurn(q) == \A p \in Requests : req[p].at = "begun" /\ req[p].conv = req[q].conv => q <= p

\* Under the conversation's lock: a latest run still pending or running is returned
\* as it is and the transaction rolled back.
LockAndLook(q) ==
  LET c == req[q].conv
      busy == row[GetLatestAnalysisForConversation(c)] \in Active
  IN /\ req[q].at = "begun"
     /\ MayOvertake \/ InTurn(q)
     /\ \/ busy /\ lock[c] = NULL /\ Goes(q, "done") /\ UNCHANGED lock
        \/ ~busy /\ LockConversation(c, q) /\ Goes(q, "insert")
     /\ UNCHANGED <<started, row, queue, faults>>

InsertAndCommit(q) ==
  /\ req[q].at = "insert"
  /\ CreateAnalysisResult(q)
  /\ lock' = [lock EXCEPT ![req[q].conv] = NULL]
  /\ Goes(q, "publish")
  /\ UNCHANGED <<started, queue, faults>>

Send(m) == msg' = [msg EXCEPT ![m].at = "queued"]

\* Queue.Publish on the first channel: 1, or on a fresh one: 2.
Attempt(q) == IF req[q].at = "publish" THEN <<q, 1>> ELSE <<q, 2>>

PublishConfirmed(q) ==
  /\ req[q].at \in {"publish", "republish"}
  /\ Send(Attempt(q))
  /\ Goes(q, "done")
  /\ UNCHANGED <<started, row, lock, hand, faults>>

\* Dial, publish or confirm fails; the broker may hold the job all the same. Only
\* the first failure is tried again, unless dialling failed or the caller has left.
PublishFails(q) ==
  /\ req[q].at \in {"publish", "republish"} /\ Fault
  /\ Send(Attempt(q)) \/ UNCHANGED msg
  /\ Goes(q, "cleanup") \/ (req[q].at = "publish" /\ Goes(q, "republish"))
  /\ UNCHANGED <<started, row, lock, hand>>

\* A Submit fails the run whatever became of it since, a Reanalyze only while it is
\* pending: the lost confirmation was not a lost job if a worker has claimed it.
CleanUp(q) ==
  /\ req[q].at = "cleanup"
  /\ IF req[q].call = "submit" THEN FailAnalysis(q) ELSE FailPendingAnalysis(q)
  /\ Goes(q, "done")
  /\ UNCHANGED <<started, lock, queue, faults>>

\* The API process dies, or the clean-up statement fails: nobody is left to tell.
RequestLost(q) ==
  /\ req[q].at \in {"begun", "insert", "publish", "republish", "cleanup"} /\ Fault
  /\ Goes(q, "lost")
  /\ lock' = [c \in Convs |-> IF lock[c] = q THEN NULL ELSE lock[c]]
  /\ UNCHANGED <<started, row, queue>>
-----------------------------------------------------------------------------
(* The worker's handlers *)

Deliver(h, m) ==
  /\ hand[h] = Off /\ msg[m].at = "queued"
  /\ hand' = [hand EXCEPT ![h] = [at |-> "claim", m |-> m, last |-> msg[m].again]]
  /\ msg' = [msg EXCEPT ![m].at = "held", ![m].by = h]
  /\ UNCHANGED <<started, req, row, lock, faults>>

\* The handler is done: what it still holds leaves the queue or returns to it.
\* (An ack that is lost is a ChannelDrops before it.)
Settle(h, at) ==
  /\ hand' = [hand EXCEPT ![h] = Off]
  /\ LET m == hand[h].m IN
     msg' = IF msg[m].by # h THEN msg
            ELSE [msg EXCEPT ![m] = [at |-> at, again |-> at = "queued", by |-> NULL]]
Ack(h) == Settle(h, "gone")

\* An error on the first delivery requeues the job, on the second drops it.
Nack(h) == Settle(h, IF hand[h].last THEN "gone" ELSE "queued")

\* Handle: a job whose run is finished is acked unscored.
HandleClaims(h) ==
  /\ hand[h].at = "claim"
  /\ \/ ClaimAnalysis(RunOf(h)) /\ hand' = [hand EXCEPT ![h].at = "score"] /\ UNCHANGED msg
     \/ row[RunOf(h)] \in Terminal /\ Ack(h) /\ UNCHANGED row
  /\ UNCHANGED <<started, req, lock, faults>>

\* The analyzer answers: the result is stored whatever became of the row since; then
\* notifyReady, of which a failure is logged only.
HandleCompletes(h) ==
  /\ hand[h].at = "score"
  /\ CompleteAnalysis(RunOf(h))
  /\ Ack(h)
  /\ UNCHANGED <<started, req, lock, faults>>

\* fail(): the job is given back, or on its last delivery the failure recorded.
GiveUp(h) ==
  IF hand[h].last THEN FailAnalysis(RunOf(h)) /\ Ack(h) ELSE UNCHANGED row /\ Nack(h)

\* Loading the conversation or its owner's preferences fails, or the analyzer does.
HandleFails(h) ==
  /\ hand[h].at = "score"
  /\ GiveUp(h)
  /\ UNCHANGED <<started, req, lock, faults>>

\* SIGTERM cancels the context of every call a handler makes (or a statement
\* fails): Handle returns the error and Consume still sends its Nack.
Cancelled(h) ==
  /\ hand[h] # Off /\ Fault
  /\ LastMayBeCut \/ ~hand[h].last
  /\ Nack(h)
  /\ UNCHANGED <<started, req, row, lock>>

\* Faulty variant: the broker forgets a job whose worker died.
GivenBackNot(m) == msg' = [msg EXCEPT ![m] = [at |-> "gone", again |-> FALSE, by |-> NULL]]

\* What was held on a closed channel goes back to the queue, marked Redelivered.
GivenBack(m) == msg' = [msg EXCEPT ![m] = [at |-> "queued", again |-> TRUE, by |-> NULL]]

\* The channel drops under a handler, which runs on and cannot ack any more.
ChannelDrops(h) ==
  /\ hand[h] # Off /\ msg[hand[h].m].by = h /\ Fault
  /\ GivenBack(hand[h].m)
  /\ UNCHANGED <<started, req, row, lock, hand>>

WorkerDies(h) ==
  /\ hand[h] # Off /\ Fault
  /\ IF msg[hand[h].m].by = h THEN GivenBack(hand[h].m) ELSE UNCHANGED msg
  /\ hand' = [hand EXCEPT ![h] = Off]
  /\ UNCHANGED <<started, req, row, lock>>
-----------------------------------------------------------------------------
RequestStep(q) ==
  \/ LockAndLook(q) \/ InsertAndCommit(q) \/ PublishConfirmed(q) \/ PublishFails(q) \/ CleanUp(q)
HandlerStep(h) ==
  \/ \E m \in Messages : Deliver(h, m)
  \/ HandleClaims(h) \/ HandleCompletes(h) \/ HandleFails(h)

Next ==
  \/ \E c \in Convs : Submit(c) \/ Reanalyze(c)
  \/ \E q \in Requests : RequestStep(q) \/ RequestLost(q)
  \/ \E h \in Handlers : HandlerStep(h) \/ Cancelled(h) \/ ChannelDrops(h) \/ WorkerDies(h)

Spec == Init /\ [][Next]_vars

\* Requests run on while their process lives, and workers consume: handlers use
\* timeouts, and the worker restarts its consumer whenever it ends.
FairSpec ==
  /\ Spec
  /\ \A q \in Requests : WF_vars(RequestStep(q))
  /\ \A h \in Handlers : WF_vars(HandlerStep(h))
-----------------------------------------------------------------------------
\* "repeated calls enqueue at most one job" (Reanalyze): a conversation never has two
\* runs pending or running, however its requests interleave with each other and with
\* workers, clean-ups and redeliveries.
OneActiveRun ==
  \A c \in Convs : \A p, q \in RunsOf(c) :
    row[p] \in Active /\ row[q] \in Active => p = q

\* All of a conversation's runs are told as one sequence: a run is begun only when those
\* before it are over, it is the newest, and no redelivery or late handler begins it again.
RunState(q) == CASE row[q] \in Active   -> "active"
                 [] row[q] \in Terminal -> "ended"
                 [] OTHER                -> "none"
Sequence == INSTANCE RunSequence
  WITH Runs <- Requests, None <- NULL, state <- [q \in Requests |-> RunState(q)],
       conv <- [q \in Requests |-> IF row[q] = "none" THEN NULL ELSE req[q].conv]
KeepsRuns == Sequence!Spec

Carried(q) ==
  \/ req[q].at \in {"publish", "republish", "cleanup"}
  \/ \E k \in {1, 2} : msg[<<q, k>>].at \in {"queued", "held"}
  \/ \E h \in Handlers : hand[h] # Off /\ RunOf(h) = q

\* A run shown as pending or running has somebody to finish it: its request, a queued
\* job or a handler, whatever was redelivered or published twice; except when the
\* request died with the run not yet queued. Reanalyze returns such a run for ever.
ActiveRunIsCarried ==
  \A q \in Requests : row[q] \in Active /\ req[q].at # "lost" => Carried(q)

\* Every run ends: analyzer failures, redeliveries, double publishes and worker deaths
\* never leave one pending or running for ever.
RunsEnd ==
  \A q \in Requests : row[q] \in Active ~> (row[q] \in Terminal \/ req[q].at = "lost")
-----------------------------------------------------------------------------
(* What the requests and handlers under way imply: the proofs' induction.   *)

Waiting(c) == {q \in Requests : req[q].at = "begun" /\ req[q].conv = c}

\* A run exists from its request's commit on, and only then has it a job.
RunKnown(q) ==
  /\ q > started => req[q] = NoReq /\ row[q] = "none"
  /\ req[q].at \in {"begun", "insert"} => row[q] = "none"
  /\ req[q].at \in {"publish", "republish", "cleanup"} => row[q] # "none"

RunsAgree ==
  /\ \A q \in Requests : RunKnown(q)
  /\ \A m \in Messages : msg[m].at # "unsent" => row[m[1]] # "none"
  /\ \A h \in Handlers : hand[h] # Off => msg[hand[h].m].at # "unsent"

\* Runs are inserted in the order of their numbers, and only the newest is active: a
\* request about to insert holds the lock, has seen every run finished, and has nobody
\* older waiting behind it.
TurnTaken(q) ==
  LET c == req[q].conv IN
  /\ req[q].at \in {"begun", "insert"} => RunsOf(c) # {} /\ \A p \in RunsOf(c) : p < q
  /\ req[q].at = "insert" =>
       /\ lock[c] = q
       /\ \A p \in RunsOf(c) : row[p] \notin Active
       /\ \A p \in Waiting(c) : q < p
  /\ row[q] \in Active => \A p \in RunsOf(c) : p <= q

TurnsAgree ==
  /\ \A q \in Requests : TurnTaken(q)
  /\ \A c \in Convs : RunsOf(c) # {} => \E q \in RunsOf(c) : \A p \in RunsOf(c) : p <= q

\* A message is held by the handler that has it in hand, one that left the queue left a
\* finished run, and an active run was sent unless its request still has to.
JobsAgree ==
  /\ \A m \in Messages :
       /\ msg[m].at = "held" =>
            msg[m].by \in Handlers /\ hand[msg[m].by] # Off /\ hand[msg[m].by].m = m
       /\ msg[m].at = "gone" => row[m[1]] \in Terminal
  /\ \A q \in Requests :
       \/ row[q] = "running"
       \/ row[q] = "pending" /\ req[q].at \notin {"publish", "republish", "cleanup", "lost"}
       => \E k \in {1, 2} : msg[<<q, k>>].at # "unsent"
=============================================================================
