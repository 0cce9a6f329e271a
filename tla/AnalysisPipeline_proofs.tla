------------------------- MODULE AnalysisPipeline_proofs -------------------------
(***************************************************************************)
(* What AnalysisPipeline guarantees for any number of conversations,        *)
(* requests, handlers and faults.                                           *)
(***************************************************************************)
EXTENDS AnalysisPipeline, TLAPS

ReqStates == [at : {"begun", "insert", "publish", "republish", "cleanup", "done", "lost"},
              call : {"submit", "reanalyze"}, conv : Convs]
HandStates == [at : {"claim", "score"}, m : Messages, last : BOOLEAN]
-----------------------------------------------------------------------------
(* What the parts of a step do. *)

\* A request that has begun is one that names a conversation.
LEMMA Begun ==
  ASSUME TypeOK, NEW q \in Requests, req[q] # NoReq
  PROVE  /\ req[q] \in ReqStates /\ req[q].at # "none"
         /\ \A at \in {"insert", "publish", "republish", "cleanup", "done", "lost"} :
              [req[q] EXCEPT !.at = at] \in ReqStates
BY DEF TypeOK, ReqStates, NoReq

\* Goes changes how far a request is, and nothing else.
LEMMA GoesOn ==
  ASSUME TypeOK, NEW q \in Requests, req[q].at # "none",
         NEW at \in {"insert", "publish", "republish", "cleanup", "done", "lost"}, Goes(q, at)
  PROVE  /\ req' \in [Requests -> {NoReq} \cup ReqStates]
         /\ req[q] # NoReq /\ req'[q] # NoReq
         /\ req'[q].at = at /\ req'[q].conv = req[q].conv /\ req[q].conv \in Convs
         /\ \A p \in Requests \ {q} : req'[p] = req[p]
<1>1. req[q] # NoReq
  BY DEF NoReq
<1>2. req[q] \in ReqStates /\ [req[q] EXCEPT !.at = at] \in ReqStates
  BY <1>1, Begun
<1>3. req' = [req EXCEPT ![q] = [req[q] EXCEPT !.at = at]]
  BY DEF Goes
<1>4. req \in [Requests -> {NoReq} \cup ReqStates]
  BY DEF TypeOK, ReqStates
<1>5. [req[q] EXCEPT !.at = at].at = at /\ [req[q] EXCEPT !.at = at].conv = req[q].conv
  BY <1>2 DEF ReqStates
<1>6. req'[q] # NoReq
  BY <1>2, <1>3, <1>4, <1>5 DEF NoReq
<1> QED BY <1>1, <1>2, <1>3, <1>4, <1>5, <1>6 DEF ReqStates

\* Begin takes the next number.
LEMMA BeginsNext ==
  ASSUME TypeOK, NEW call \in {"submit", "reanalyze"}, NEW c \in Convs,
         NEW at \in {"begun", "publish"}, Begin(call, c, at)
  PROVE  /\ started' \in 0..MaxRequests /\ req' \in [Requests -> {NoReq} \cup ReqStates]
         /\ \E n \in Requests :
              /\ n = started + 1 /\ started' = n /\ req'[n].at = at /\ req'[n].conv = c
              /\ \A p \in Requests \ {n} : req'[p] = req[p]
<1> DEFINE n == started + 1
           r == [at |-> at, call |-> call, conv |-> c]
<1>1. n \in Requests /\ n \in 0..MaxRequests
  BY PipelineAssumption DEF TypeOK, Begin, Requests
<1>2. req \in [Requests -> {NoReq} \cup ReqStates] /\ r \in ReqStates
  BY DEF TypeOK, ReqStates
<1>3. started' = n /\ req' = [req EXCEPT ![n] = r]
  BY DEF Begin
<1>4. req'[n] = r /\ \A p \in Requests \ {n} : req'[p] = req[p]
  BY <1>1, <1>2, <1>3
<1> QED BY <1>1, <1>2, <1>3, <1>4

\* A handler that has a job has it in one of two places.
LEMMA InHand ==
  ASSUME TypeOK, NEW h \in Handlers, hand[h] # Off
  PROVE  /\ hand[h] \in HandStates /\ hand[h].m \in Messages /\ RunOf(h) \in Requests
         /\ [hand[h] EXCEPT !.at = "score"] \in HandStates
BY DEF TypeOK, HandStates, RunOf, Messages

\* A handler lets go of its job, which leaves the queue or returns to it.
LEMMA Settled ==
  ASSUME TypeOK, NEW h \in Handlers, hand[h] # Off, NEW at \in {"gone", "queued"}, Settle(h, at)
  PROVE  /\ hand' \in [Handlers -> {Off} \cup HandStates]
         /\ hand'[h] = Off /\ \A g \in Handlers \ {h} : hand'[g] = hand[g]
         /\ \A m \in Messages : msg'[m] = IF m = hand[h].m /\ msg[m].by = h
              THEN [at |-> at, again |-> at = "queued", by |-> NULL] ELSE msg[m]
         /\ msg' \in [Messages -> [at : {"unsent", "queued", "held", "gone"}, again : BOOLEAN,
                                   by : Handlers \cup {NULL}]]
<1>1. hand[h].m \in Messages
  BY InHand
<1>2. /\ hand \in [Handlers -> {Off} \cup HandStates]
      /\ msg \in [Messages -> [at : {"unsent", "queued", "held", "gone"}, again : BOOLEAN,
                               by : Handlers \cup {NULL}]]
  BY DEF TypeOK, HandStates
<1>3. [at |-> at, again |-> at = "queued", by |-> NULL]
        \in [at : {"unsent", "queued", "held", "gone"}, again : BOOLEAN, by : Handlers \cup {NULL}]
  OBVIOUS
<1>4. hand' = [hand EXCEPT ![h] = Off]
  BY DEF Settle
<1>5. CASE msg[hand[h].m].by # h
  <2>1. msg' = msg
    BY <1>5 DEF Settle
  <2> QED BY <1>2, <1>4, <1>5, <2>1
<1>6. CASE msg[hand[h].m].by = h
  <2>1. msg' = [msg EXCEPT ![hand[h].m] = [at |-> at, again |-> at = "queued", by |-> NULL]]
    BY <1>6 DEF Settle
  <2> QED BY <1>1, <1>2, <1>3, <1>4, <1>6, <2>1
<1> QED BY <1>5, <1>6
-----------------------------------------------------------------------------
(* Types *)

LEMMA TypeKept ==
  ASSUME TypeOK, [Next]_vars
  PROVE  TypeOK'
<1> DEFINE MsgStates == [at : {"unsent", "queued", "held", "gone"}, again : BOOLEAN, by : Handlers \cup {NULL}]
<1>0. /\ started \in 0..MaxRequests
      /\ req \in [Requests -> {NoReq} \cup ReqStates]
      /\ row \in [Requests -> {"none"} \cup Active \cup Terminal]
      /\ lock \in [Convs -> Requests \cup {NULL}]
      /\ msg \in [Messages -> MsgStates]
      /\ hand \in [Handlers -> {Off} \cup HandStates]
      /\ faults \in 0..MaxFaults
  BY DEF TypeOK, ReqStates, HandStates
<1>f. ASSUME Fault PROVE faults' \in 0..MaxFaults
  BY <1>0, <1>f, PipelineAssumption DEF Fault
<1> SUFFICES /\ started' \in 0..MaxRequests
             /\ req' \in [Requests -> {NoReq} \cup ReqStates]
             /\ row' \in [Requests -> {"none"} \cup Active \cup Terminal]
             /\ lock' \in [Convs -> Requests \cup {NULL}]
             /\ msg' \in [Messages -> MsgStates]
             /\ hand' \in [Handlers -> {Off} \cup HandStates]
             /\ faults' \in 0..MaxFaults
  BY DEF TypeOK, ReqStates, HandStates
<1>1. ASSUME NEW c \in Convs, Submit(c) PROVE TypeOK'
  <2>1. /\ started' \in 0..MaxRequests /\ req' \in [Requests -> {NoReq} \cup ReqStates]
    BY <1>1, BeginsNext DEF Submit
  <2>2. row' \in [Requests -> {"none"} \cup Active \cup Terminal]
    BY <1>0, <1>1 DEF Submit, CreateAnalysisResult, Active
  <2> QED BY <1>0, <1>1, <2>1, <2>2 DEF Submit, queue, TypeOK, ReqStates, HandStates
<1>2. ASSUME NEW c \in Convs, Reanalyze(c) PROVE TypeOK'
  <2>1. /\ started' \in 0..MaxRequests /\ req' \in [Requests -> {NoReq} \cup ReqStates]
    BY <1>2, BeginsNext DEF Reanalyze
  <2> QED BY <1>0, <1>2, <2>1 DEF Reanalyze, queue, TypeOK, ReqStates, HandStates
<1>3. ASSUME NEW q \in Requests, LockAndLook(q) PROVE TypeOK'
  <2>1. req[q].at # "none"
    BY <1>3 DEF LockAndLook
  <2>2. req' \in [Requests -> {NoReq} \cup ReqStates]
    BY <1>3, <2>1, GoesOn DEF LockAndLook
  <2>3. lock' \in [Convs -> Requests \cup {NULL}]
    BY <1>0, <1>3 DEF LockAndLook, LockConversation
  <2> QED BY <1>0, <1>3, <2>2, <2>3 DEF LockAndLook, queue, TypeOK, ReqStates, HandStates
<1>4. ASSUME NEW q \in Requests, InsertAndCommit(q) PROVE TypeOK'
  <2>1. req[q].at # "none"
    BY <1>4 DEF InsertAndCommit
  <2>2. req' \in [Requests -> {NoReq} \cup ReqStates]
    BY <1>4, <2>1, GoesOn DEF InsertAndCommit
  <2> QED BY <1>0, <1>4, <2>2 DEF InsertAndCommit, CreateAnalysisResult, Active, queue, TypeOK, ReqStates, HandStates
<1>m. ASSUME NEW q \in Requests, Send(Attempt(q)) PROVE msg' \in [Messages -> MsgStates]
  <2>1. Attempt(q) \in Messages
    BY DEF Attempt, Messages
  <2>2. msg' = [msg EXCEPT ![Attempt(q)] = [msg[Attempt(q)] EXCEPT !.at = "queued"]]
    BY <1>m DEF Send
  <2>3. [msg[Attempt(q)] EXCEPT !.at = "queued"] \in MsgStates
    BY <1>0, <2>1
  <2> QED BY <1>0, <2>1, <2>2, <2>3
<1>5. ASSUME NEW q \in Requests, PublishConfirmed(q) PROVE TypeOK'
  <2>1. req' \in [Requests -> {NoReq} \cup ReqStates]
    BY <1>5, GoesOn DEF PublishConfirmed
  <2> QED BY <1>0, <1>5, <1>m, <2>1 DEF PublishConfirmed, TypeOK, ReqStates, HandStates
<1>6. ASSUME NEW q \in Requests, PublishFails(q) PROVE TypeOK'
  <2>1. req' \in [Requests -> {NoReq} \cup ReqStates]
    BY <1>6, GoesOn DEF PublishFails
  <2>2. msg' \in [Messages -> MsgStates]
    BY <1>0, <1>6, <1>m DEF PublishFails
  <2> QED BY <1>0, <1>6, <1>f, <2>1, <2>2 DEF PublishFails, TypeOK, ReqStates, HandStates
<1>7. ASSUME NEW q \in Requests, CleanUp(q) PROVE TypeOK'
  <2>1. req' \in [Requests -> {NoReq} \cup ReqStates]
    BY <1>7, GoesOn DEF CleanUp
  <2>2. row' \in [Requests -> {"none"} \cup Active \cup Terminal]
    BY <1>0, <1>7 DEF CleanUp, FailAnalysis, FailPendingAnalysis, Terminal
  <2> QED BY <1>0, <1>7, <2>1, <2>2 DEF CleanUp, queue, TypeOK, ReqStates, HandStates
<1>8. ASSUME NEW q \in Requests, RequestLost(q) PROVE TypeOK'
  <2>1. req' \in [Requests -> {NoReq} \cup ReqStates]
    BY <1>8, GoesOn DEF RequestLost
  <2>2. lock' \in [Convs -> Requests \cup {NULL}]
    BY <1>0, <1>8 DEF RequestLost
  <2> QED BY <1>0, <1>8, <1>f, <2>1, <2>2 DEF RequestLost, queue, TypeOK, ReqStates, HandStates
<1>9. ASSUME NEW h \in Handlers, NEW m \in Messages, Deliver(h, m) PROVE TypeOK'
  <2>1. hand' \in [Handlers -> {Off} \cup HandStates]
    BY <1>0, <1>9 DEF Deliver, HandStates
  <2>2. msg' \in [Messages -> MsgStates]
    BY <1>0, <1>9 DEF Deliver
  <2> QED BY <1>0, <1>9, <2>1, <2>2 DEF Deliver, TypeOK, ReqStates, HandStates
<1>s. ASSUME NEW h \in Handlers, hand[h] # Off, NEW at \in {"gone", "queued"}, Settle(h, at)
      PROVE  hand' \in [Handlers -> {Off} \cup HandStates] /\ msg' \in [Messages -> MsgStates]
  BY <1>s, Settled
<1>10. ASSUME NEW h \in Handlers, HandleClaims(h) PROVE TypeOK'
  <2>1. hand[h] # Off /\ hand[h].at = "claim"
    BY <1>10 DEF HandleClaims, Off
  <2>2. RunOf(h) \in Requests /\ [hand[h] EXCEPT !.at = "score"] \in HandStates
    BY <2>1, InHand
  <2>3. CASE ClaimAnalysis(RunOf(h)) /\ hand' = [hand EXCEPT ![h].at = "score"] /\ UNCHANGED msg
    <3>1. row' \in [Requests -> {"none"} \cup Active \cup Terminal]
      BY <1>0, <2>2, <2>3 DEF ClaimAnalysis, Active
    <3>2. hand' = [hand EXCEPT ![h] = [hand[h] EXCEPT !.at = "score"]]
      BY <2>3
    <3>3. hand' \in [Handlers -> {Off} \cup HandStates]
      BY <1>0, <2>2, <3>2
    <3> QED BY <1>0, <1>10, <2>3, <3>1, <3>3 DEF HandleClaims, TypeOK, ReqStates, HandStates
  <2>4. CASE Ack(h) /\ UNCHANGED row
    BY <1>0, <1>10, <1>s, <2>1, <2>4 DEF HandleClaims, Ack, TypeOK, ReqStates, HandStates
  <2> QED BY <1>10, <2>3, <2>4 DEF HandleClaims
<1>11. ASSUME NEW h \in Handlers, HandleCompletes(h) PROVE TypeOK'
  <2>1. hand[h] # Off
    BY <1>11 DEF HandleCompletes, Off
  <2>2. RunOf(h) \in Requests
    BY <2>1, InHand
  <2>3. row' \in [Requests -> {"none"} \cup Active \cup Terminal]
    BY <1>0, <1>11, <2>2 DEF HandleCompletes, CompleteAnalysis, Terminal
  <2> QED BY <1>0, <1>11, <1>s, <2>1, <2>3 DEF HandleCompletes, Ack, TypeOK, ReqStates, HandStates
<1>12. ASSUME NEW h \in Handlers, HandleFails(h) PROVE TypeOK'
  <2>1. hand[h] # Off
    BY <1>12 DEF HandleFails, Off
  <2>2. RunOf(h) \in Requests
    BY <2>1, InHand
  <2>3. row' \in [Requests -> {"none"} \cup Active \cup Terminal]
    BY <1>0, <1>12, <2>2 DEF HandleFails, GiveUp, FailAnalysis, Terminal
  <2>4. hand' \in [Handlers -> {Off} \cup HandStates] /\ msg' \in [Messages -> MsgStates]
    BY <1>12, <1>s, <2>1 DEF HandleFails, GiveUp, Ack, Nack
  <2> QED BY <1>0, <1>12, <2>3, <2>4 DEF HandleFails, TypeOK, ReqStates, HandStates
<1>13. ASSUME NEW h \in Handlers, Cancelled(h) PROVE TypeOK'
  <2>1. hand' \in [Handlers -> {Off} \cup HandStates] /\ msg' \in [Messages -> MsgStates]
    BY <1>13, <1>s DEF Cancelled, Nack
  <2> QED BY <1>0, <1>13, <1>f, <2>1 DEF Cancelled, TypeOK, ReqStates, HandStates
<1>g. ASSUME NEW m \in Messages, GivenBack(m) PROVE msg' \in [Messages -> MsgStates]
  BY <1>0, <1>g DEF GivenBack
<1>14. ASSUME NEW h \in Handlers, ChannelDrops(h) \/ WorkerDies(h) PROVE TypeOK'
  <2>1. hand[h].m \in Messages
    BY <1>14, InHand DEF ChannelDrops, WorkerDies
  <2>2. msg' \in [Messages -> MsgStates]
    BY <1>0, <1>14, <1>g, <2>1 DEF ChannelDrops, WorkerDies
  <2>3. hand' \in [Handlers -> {Off} \cup HandStates]
    BY <1>0, <1>14 DEF ChannelDrops, WorkerDies
  <2> QED BY <1>0, <1>14, <1>f, <2>2, <2>3 DEF ChannelDrops, WorkerDies, TypeOK, ReqStates, HandStates
<1>15. CASE UNCHANGED vars
  BY <1>0, <1>15 DEF vars, queue
<1> QED
  BY <1>1, <1>2, <1>3, <1>4, <1>5, <1>6, <1>7, <1>8, <1>9, <1>10, <1>11, <1>12, <1>13, <1>14, <1>15
     DEF Next, RequestStep, HandlerStep, TypeOK, ReqStates, HandStates

LEMMA TypeAtInit ==
  Init => TypeOK
BY PipelineAssumption DEF Init, TypeOK, Active, Terminal, Unsent, NoReq, Off

\* The columns keep to the values the table's CHECKs list, and every job, handler and
\* lock names a request that exists.
THEOREM TypeCorrect ==
  Spec => []TypeOK
<1>1. Init => TypeOK
  BY TypeAtInit
<1>2. TypeOK /\ [Next]_vars => TypeOK'
  BY TypeKept
<1> QED BY <1>1, <1>2, PTL DEF Spec
-----------------------------------------------------------------------------
(* A run's row, job and handlers *)

Base == TypeOK /\ RunsAgree

\* At most one row changes, rows only gain a status, and a finished run stays finished.
RowsGoOn ==
  /\ \A q \in Requests :
       /\ row'[q] = "none" <=> row[q] = "none"
       /\ row'[q] \in Active => row[q] \in Active
       /\ row[q] \in Terminal => row'[q] \in Terminal
  /\ \A p, q \in Requests : row'[p] # row[p] /\ row'[q] # row[q] => p = q

\* A statement on the row of one run that exists.
LEMMA RowGoesOn ==
  ASSUME TypeOK, NEW q \in Requests, row[q] # "none",
         \/ ClaimAnalysis(q) \/ CompleteAnalysis(q) \/ FailAnalysis(q) \/ FailPendingAnalysis(q)
         \/ UNCHANGED row
  PROVE  RowsGoOn
<1>1. row \in [Requests -> {"none"} \cup Active \cup Terminal]
  BY DEF TypeOK
<1>2. CASE ClaimAnalysis(q)
  BY <1>1, <1>2 DEF ClaimAnalysis, RowsGoOn, Active, Terminal
<1>3. CASE CompleteAnalysis(q)
  BY <1>1, <1>3 DEF CompleteAnalysis, RowsGoOn, Active, Terminal
<1>4. CASE FailAnalysis(q) \/ FailPendingAnalysis(q)
  BY <1>1, <1>4 DEF FailAnalysis, FailPendingAnalysis, RowsGoOn, Active, Terminal
<1>5. CASE UNCHANGED row
  BY <1>5 DEF RowsGoOn
<1> QED BY <1>2, <1>3, <1>4, <1>5

\* What the steps of a handler do to rows and messages.
LEMMA HandlerMoves ==
  ASSUME Base, NEW h \in Handlers,
         HandlerStep(h) \/ Cancelled(h) \/ ChannelDrops(h) \/ WorkerDies(h)
  PROVE  /\ UNCHANGED <<started, req, lock>> /\ RowsGoOn
         /\ \A m \in Messages : msg'[m].at = "unsent" <=> msg[m].at = "unsent"
         /\ \A g \in Handlers : hand'[g] # Off =>
              hand'[g].m \in Messages /\ msg[hand'[g].m].at # "unsent"
<1>0. TypeOK
  BY DEF Base
<1>1. UNCHANGED <<started, req, lock>>
  BY DEF HandlerStep, Deliver, HandleClaims, HandleCompletes, HandleFails, Cancelled, ChannelDrops, WorkerDies
<1>2. \A g \in Handlers : hand[g] # Off =>
        /\ hand[g].m \in Messages /\ msg[hand[g].m].at # "unsent"
        /\ RunOf(g) \in Requests /\ row[RunOf(g)] # "none"
  BY <1>0, InHand DEF Base, RunsAgree, RunOf
<1>3. /\ hand \in [Handlers -> {Off} \cup HandStates]
      /\ msg \in [Messages -> [at : {"unsent", "queued", "held", "gone"}, again : BOOLEAN, by : Handlers \cup {NULL}]]
  BY <1>0 DEF TypeOK, HandStates
<1>s. ASSUME hand[h] # Off, NEW at \in {"gone", "queued"}, Settle(h, at)
      PROVE  /\ \A m \in Messages : msg'[m].at = "unsent" <=> msg[m].at = "unsent"
             /\ \A g \in Handlers : hand'[g] \in {Off, hand[g]}
  <2>1. /\ \A g \in Handlers : hand'[g] \in {Off, hand[g]}
        /\ \A m \in Messages : msg'[m] = IF m = hand[h].m /\ msg[m].by = h
              THEN [at |-> at, again |-> at = "queued", by |-> NULL] ELSE msg[m]
    BY <1>0, <1>s, Settled
  <2> QED BY <1>2, <1>s, <2>1
<1>r. ASSUME hand[h] # Off,
             \/ ClaimAnalysis(RunOf(h)) \/ CompleteAnalysis(RunOf(h)) \/ FailAnalysis(RunOf(h)) \/ UNCHANGED row
      PROVE  RowsGoOn
  BY <1>0, <1>2, <1>r, RowGoesOn
<1>4. ASSUME NEW m \in Messages, Deliver(h, m)
      PROVE  /\ RowsGoOn /\ \A k \in Messages : msg'[k].at = "unsent" <=> msg[k].at = "unsent"
             /\ \A g \in Handlers : hand'[g] # Off => hand'[g].m \in Messages /\ msg[hand'[g].m].at # "unsent"
  <2>1. /\ msg[m].at = "queued" /\ UNCHANGED row
        /\ hand' = [hand EXCEPT ![h] = [at |-> "claim", m |-> m, last |-> msg[m].again]]
        /\ msg' = [msg EXCEPT ![m] = [msg[m] EXCEPT !.at = "held", !.by = h]]
    BY <1>4 DEF Deliver
  <2>2. hand'[h].m = m /\ \A g \in Handlers \ {h} : hand'[g] = hand[g]
    BY <1>3, <2>1
  <2>3. [msg[m] EXCEPT !.at = "held", !.by = h].at = "held"
    BY <1>3
  <2>4. msg'[m].at = "held" /\ \A k \in Messages \ {m} : msg'[k] = msg[k]
    BY <1>3, <2>1, <2>3
  <2>5. \A g \in Handlers : hand'[g] # Off => hand'[g].m \in Messages /\ msg[hand'[g].m].at # "unsent"
    BY <1>2, <2>1, <2>2
  <2> QED BY <2>1, <2>4, <2>5 DEF RowsGoOn
<1>5. ASSUME HandleClaims(h) \/ HandleCompletes(h) \/ HandleFails(h) \/ Cancelled(h)
      PROVE  hand[h] # Off
  BY <1>5 DEF HandleClaims, HandleCompletes, HandleFails, Cancelled, Off
<1>6. CASE HandleClaims(h)
  <2>1. CASE ClaimAnalysis(RunOf(h)) /\ hand' = [hand EXCEPT ![h].at = "score"] /\ UNCHANGED msg
    <3>1. hand' = [hand EXCEPT ![h] = [hand[h] EXCEPT !.at = "score"]] /\ hand[h] \in HandStates
      BY <1>0, <1>5, <1>6, <2>1, InHand
    <3>2. [hand[h] EXCEPT !.at = "score"].m = hand[h].m
      BY <3>1 DEF HandStates
    <3>3. hand'[h].m = hand[h].m /\ \A g \in Handlers \ {h} : hand'[g] = hand[g]
      BY <1>3, <3>1, <3>2
    <3> QED BY <1>1, <1>2, <1>5, <1>6, <1>r, <2>1, <3>3
  <2>2. CASE Ack(h) /\ UNCHANGED row
    BY <1>1, <1>2, <1>5, <1>6, <1>r, <1>s, <2>2 DEF Ack
  <2> QED BY <1>6, <2>1, <2>2 DEF HandleClaims
<1>7. CASE HandleCompletes(h)
  BY <1>1, <1>2, <1>5, <1>7, <1>r, <1>s DEF HandleCompletes, Ack
<1>8. CASE HandleFails(h)
  <2>1. FailAnalysis(RunOf(h)) \/ UNCHANGED row
    BY <1>8 DEF HandleFails, GiveUp
  <2>2. PICK at \in {"gone", "queued"} : Settle(h, at)
    BY <1>8 DEF HandleFails, GiveUp, Ack, Nack
  <2> QED BY <1>1, <1>2, <1>5, <1>8, <1>r, <1>s, <2>1, <2>2
<1>9. CASE Cancelled(h)
  <2>1. PICK at \in {"gone", "queued"} : Settle(h, at)
    BY <1>9 DEF Cancelled, Nack
  <2> QED BY <1>1, <1>2, <1>5, <1>9, <1>r, <1>s, <2>1 DEF Cancelled
<1>10. CASE ChannelDrops(h) \/ WorkerDies(h)
  <2>1. hand[h] # Off /\ UNCHANGED row /\ \A g \in Handlers : hand'[g] \in {Off, hand[g]}
    BY <1>3, <1>10 DEF ChannelDrops, WorkerDies
  <2>2. \A m \in Messages : msg'[m].at = "unsent" <=> msg[m].at = "unsent"
    BY <1>2, <1>3, <1>10, <2>1 DEF ChannelDrops, WorkerDies, GivenBack
  <2> QED BY <1>1, <1>2, <1>r, <2>1, <2>2
<1> QED BY <1>1, <1>4, <1>6, <1>7, <1>8, <1>9, <1>10 DEF HandlerStep

\* A request goes on to at, having sent its job or not.
LEMMA RequestMoves ==
  ASSUME Base, NEW q \in Requests,
         PublishConfirmed(q) \/ PublishFails(q) \/ CleanUp(q) \/ RequestLost(q)
  PROVE  /\ UNCHANGED <<started, hand>> /\ RowsGoOn
         /\ \E at \in {"republish", "cleanup", "done", "lost"} :
              req'[q].at = at /\ (at \in {"republish", "cleanup"} => row[q] # "none")
         /\ req'[q].conv = req[q].conv /\ req[q] # NoReq /\ req'[q] # NoReq
         /\ \A p \in Requests \ {q} : req'[p] = req[p]
         /\ \A m \in Messages :
              msg'[m] = msg[m] \/ (m[1] = q /\ row[q] # "none" /\ msg'[m] = [msg[m] EXCEPT !.at = "queued"])
<1>0. TypeOK /\ RunKnown(q)
  BY DEF Base, RunsAgree
<1>1. req[q].at # "none" /\ UNCHANGED <<started, hand>>
  BY DEF PublishConfirmed, PublishFails, CleanUp, RequestLost, queue
<1>2. PICK at \in {"republish", "cleanup", "done", "lost"} :
        Goes(q, at) /\ (at \in {"republish", "cleanup"} => row[q] # "none")
  BY <1>0 DEF PublishConfirmed, PublishFails, CleanUp, RequestLost, RunKnown
<1>3. /\ req'[q].at = at /\ req'[q].conv = req[q].conv /\ req[q] # NoReq /\ req'[q] # NoReq
      /\ \A p \in Requests \ {q} : req'[p] = req[p]
  BY <1>0, <1>1, <1>2, GoesOn
<1>4. RowsGoOn
  <2>1. CASE CleanUp(q)
    <3>1. row[q] # "none" /\ (FailAnalysis(q) \/ FailPendingAnalysis(q))
      BY <1>0, <2>1 DEF CleanUp, RunKnown
    <3> QED BY <1>0, <3>1, RowGoesOn
  <2>2. CASE ~CleanUp(q)
    BY <2>2 DEF RowsGoOn, PublishConfirmed, PublishFails, RequestLost
  <2> QED BY <2>1, <2>2
<1>5. ASSUME NEW m \in Messages
      PROVE  msg'[m] = msg[m] \/ (m[1] = q /\ row[q] # "none" /\ msg'[m] = [msg[m] EXCEPT !.at = "queued"])
  <2>1. CASE UNCHANGED msg
    BY <2>1
  <2>2. CASE Send(Attempt(q)) /\ req[q].at \in {"publish", "republish"}
    <3>1. Attempt(q)[1] = q /\ Attempt(q) \in Messages /\ row[q] # "none"
      BY <1>0, <2>2 DEF Attempt, Messages, RunKnown
    <3>2. msg' = [msg EXCEPT ![Attempt(q)] = [msg[Attempt(q)] EXCEPT !.at = "queued"]]
      BY <2>2 DEF Send
    <3>3. DOMAIN msg = Messages
      BY <1>0 DEF TypeOK
    <3> QED BY <3>1, <3>2, <3>3
  <2> QED BY <2>1, <2>2 DEF PublishConfirmed, PublishFails, CleanUp, RequestLost, queue
<1> QED BY <1>1, <1>2, <1>3, <1>4, <1>5

LEMMA BaseKept ==
  ASSUME Base, [Next]_vars
  PROVE  Base'
<1>0. TypeOK /\ TypeOK' /\ \A q \in Requests : RunKnown(q)
  BY TypeKept DEF Base, RunsAgree
<1>t. Requests \subseteq Int /\ started \in Int
  BY <1>0 DEF Requests, TypeOK
<1>a. ASSUME NEW r, NEW s \in Requests, UNCHANGED queue,
             \A q \in Requests \ {s} : row'[q] = row[q], row[s] = "none" \/ row'[s] # "none",
             \A q \in Requests : RunKnown(q)'
      PROVE  Base'
  <2>1. \A m \in Messages : m[1] \in Requests
    BY DEF Messages
  <2> QED BY <1>0, <1>a, <2>1 DEF Base, RunsAgree, queue
<1>1. ASSUME NEW c \in Convs, Submit(c) \/ Reanalyze(c) PROVE Base'
  <2>1. PICK n \in Requests :
          /\ n = started + 1 /\ started' = n /\ UNCHANGED queue
          /\ \A p \in Requests \ {n} : req'[p] = req[p]
          /\ \/ req'[n].at = "begun" /\ UNCHANGED row
             \/ req'[n].at = "publish" /\ CreateAnalysisResult(n)
    <3>1. CASE Submit(c)
      BY <1>0, <3>1, BeginsNext DEF Submit
    <3>2. CASE Reanalyze(c)
      BY <1>0, <3>2, BeginsNext DEF Reanalyze
    <3> QED BY <1>1, <3>1, <3>2
  <2>2. row[n] = "none" /\ n > started
    BY <1>0, <1>t, <2>1 DEF RunKnown
  <2>3. /\ \A p \in Requests \ {n} : row'[p] = row[p]
        /\ row'[n] = IF req'[n].at = "begun" THEN "none" ELSE "pending"
    BY <1>0, <2>1, <2>2 DEF CreateAnalysisResult, TypeOK
  <2>4. RunKnown(n)'
    BY <1>t, <2>1, <2>3 DEF RunKnown
  <2>5. ASSUME NEW p \in Requests \ {n} PROVE RunKnown(p)'
    <3>1. RunKnown(p) /\ req'[p] = req[p] /\ row'[p] = row[p] /\ (p > started' => p > started)
      BY <1>0, <1>t, <2>1, <2>3
    <3> QED BY <3>1 DEF RunKnown
  <2>6. \A p \in Requests : RunKnown(p)'
    BY <2>4, <2>5
  <2> QED BY <1>a, <2>1, <2>2, <2>3, <2>6
<1>2. ASSUME NEW q \in Requests, LockAndLook(q) PROVE Base'
  <2>1. req[q].at = "begun" /\ UNCHANGED <<started, row, queue>>
    BY <1>2 DEF LockAndLook
  <2>2. PICK at \in {"done", "insert"} : Goes(q, at)
    BY <1>2 DEF LockAndLook
  <2>3. /\ req'[q].at = at /\ req[q] # NoReq /\ \A p \in Requests \ {q} : req'[p] = req[p]
    BY <1>0, <2>1, <2>2, GoesOn
  <2>4. \A p \in Requests : RunKnown(p)'
    BY <1>0, <2>1, <2>3 DEF RunKnown
  <2> QED BY <1>a, <2>1, <2>4
<1>3. ASSUME NEW q \in Requests, InsertAndCommit(q) PROVE Base'
  <2>1. req[q].at = "insert" /\ UNCHANGED <<started, queue>> /\ CreateAnalysisResult(q) /\ Goes(q, "publish")
    BY <1>3 DEF InsertAndCommit
  <2>2. /\ req'[q].at = "publish" /\ req[q] # NoReq /\ \A p \in Requests \ {q} : req'[p] = req[p]
    BY <1>0, <2>1, GoesOn
  <2>3. row'[q] = "pending" /\ \A p \in Requests \ {q} : row'[p] = row[p]
    BY <1>0, <2>1 DEF CreateAnalysisResult, TypeOK
  <2>4. \A p \in Requests : RunKnown(p)'
    BY <1>0, <2>1, <2>2, <2>3 DEF RunKnown
  <2> QED BY <1>a, <2>1, <2>3, <2>4
<1>4. ASSUME NEW q \in Requests, PublishConfirmed(q) \/ PublishFails(q) \/ CleanUp(q) \/ RequestLost(q)
      PROVE  Base'
  <2>1. /\ UNCHANGED <<started, hand>> /\ RowsGoOn
        /\ \E at \in {"republish", "cleanup", "done", "lost"} :
             req'[q].at = at /\ (at \in {"republish", "cleanup"} => row[q] # "none")
        /\ req[q] # NoReq /\ \A p \in Requests \ {q} : req'[p] = req[p]
        /\ \A m \in Messages :
             msg'[m] = msg[m] \/ (m[1] = q /\ row[q] # "none" /\ msg'[m] = [msg[m] EXCEPT !.at = "queued"])
    BY <1>4, RequestMoves
  <2>2. \A p \in Requests : RunKnown(p)'
    BY <1>0, <2>1 DEF RunKnown, RowsGoOn
  <2>3. ASSUME NEW m \in Messages, msg'[m].at # "unsent" PROVE row'[m[1]] # "none"
    <3>1. row[m[1]] # "none" /\ m[1] \in Requests
      BY <2>1, <2>3 DEF Base, RunsAgree, Messages
    <3> QED BY <2>1, <3>1 DEF RowsGoOn
  <2>4. ASSUME NEW h \in Handlers, hand'[h] # Off PROVE msg'[hand'[h].m].at # "unsent"
    <3> DEFINE m == hand[h].m
    <3>1. m \in Messages /\ msg[m].at # "unsent" /\ hand'[h] = hand[h]
      BY <1>0, <2>1, <2>4, InHand DEF Base, RunsAgree
    <3>2. [msg[m] EXCEPT !.at = "queued"].at = "queued"
      BY <1>0, <3>1 DEF TypeOK
    <3> QED BY <2>1, <3>1, <3>2
  <2> QED BY <1>0, <2>2, <2>3, <2>4 DEF Base, RunsAgree
<1>5. ASSUME NEW h \in Handlers, HandlerStep(h) \/ Cancelled(h) \/ ChannelDrops(h) \/ WorkerDies(h)
      PROVE  Base'
  <2>1. /\ UNCHANGED <<started, req, lock>> /\ RowsGoOn
        /\ \A m \in Messages : msg'[m].at = "unsent" <=> msg[m].at = "unsent"
        /\ \A g \in Handlers : hand'[g] # Off =>
             hand'[g].m \in Messages /\ msg[hand'[g].m].at # "unsent"
    BY <1>5, HandlerMoves
  <2>2. \A q \in Requests : RunKnown(q)'
    BY <1>0, <2>1 DEF RunKnown, RowsGoOn
  <2>3. ASSUME NEW m \in Messages, msg'[m].at # "unsent" PROVE row'[m[1]] # "none"
    BY <2>1, <2>3 DEF Base, RunsAgree, Messages, RowsGoOn
  <2> QED BY <1>0, <2>1, <2>2, <2>3 DEF Base, RunsAgree
<1>6. CASE UNCHANGED vars
  <2>1. \A q \in Requests : RunKnown(q)'
    BY <1>0, <1>6 DEF RunKnown, vars
  <2> QED BY <1>0, <1>6, <2>1 DEF Base, RunsAgree, vars, queue
<1> QED BY <1>1, <1>2, <1>3, <1>4, <1>5, <1>6 DEF Next, RequestStep
-----------------------------------------------------------------------------
(* One run at a time *)

Turns == Base /\ TurnsAgree

\* The newest run being finished, all are.
LEMMA NewestDecides ==
  ASSUME Turns, NEW c \in Convs, RunsOf(c) # {},
         row[GetLatestAnalysisForConversation(c)] \notin Active
  PROVE  \A p \in RunsOf(c) : row[p] \notin Active
<1> DEFINE n == GetLatestAnalysisForConversation(c)
<1>1. RunsOf(c) \subseteq Int
  BY DEF RunsOf, Requests
<1>2. n \in RunsOf(c) /\ \A p \in RunsOf(c) : p <= n
  BY DEF GetLatestAnalysisForConversation, Turns, TurnsAgree
<1>3. ASSUME NEW p \in RunsOf(c), row[p] \in Active PROVE FALSE
  <2>1. p \in Requests /\ req[p].conv = c
    BY DEF RunsOf
  <2>2. n <= p
    BY <1>2, <1>3, <2>1 DEF Turns, TurnsAgree, TurnTaken
  <2>3. n = p
    BY <1>1, <1>2, <2>2
  <2> QED BY <1>3, <2>3
<1> QED BY <1>3

\* A step that starts no request and inserts no run, and neither takes a lock away from a
\* request about to insert nor sends one there, keeps everybody's turn.
LEMMA TurnsStay ==
  ASSUME Turns, Base', UNCHANGED started,
         \A q \in Requests :
           /\ req'[q].conv = req[q].conv
           /\ req'[q].at \in {"begun", "insert"} => req'[q].at = req[q].at
           /\ row'[q] = "none" <=> row[q] = "none"
           /\ row'[q] \in Active => row[q] \in Active
           /\ req'[q].at = "insert" => lock'[req[q].conv] = lock[req[q].conv]
  PROVE  Turns'
<1>1. \A c : RunsOf(c)' = RunsOf(c)
  BY DEF RunsOf
<1>2. \A c : Waiting(c)' \subseteq Waiting(c)
  BY DEF Waiting
<1>3. ASSUME NEW q \in Requests PROVE TurnTaken(q)'
  <2>1. TurnTaken(q)
    BY DEF Turns, TurnsAgree
  <2>2. req'[q].conv = req[q].conv /\ RunsOf(req[q].conv)' = RunsOf(req[q].conv)
    BY <1>1
  <2>3. \A p \in RunsOf(req[q].conv) : row'[p] \in Active => row[p] \in Active
    BY DEF RunsOf
  <2> QED BY <1>2, <2>1, <2>2, <2>3 DEF TurnTaken
<1>4. \A c \in Convs : RunsOf(c)' # {} => \E q \in RunsOf(c)' : \A p \in RunsOf(c)' : p <= q
  BY <1>1 DEF Turns, TurnsAgree
<1> QED BY <1>3, <1>4 DEF Turns, TurnsAgree

\* The run n, newer than all others of its conversation and than every request waiting
\* there, is inserted when none of the others is active.
LEMMA RunInserted ==
  ASSUME Turns, Base', NEW n \in Requests, n <= started', row[n] = "none",
         started' \in {started, started + 1}, NEW c \in Convs,
         CreateAnalysisResult(n), req'[n].conv = c, req'[n].at = "publish",
         \A p \in RunsOf(c) : p < n /\ row[p] \notin Active,
         \A p \in Requests \ {n} :
           /\ req'[p] = req[p]
           /\ req[p].at \in {"begun", "insert"} /\ req[p].conv = c => req[p].at = "begun" /\ n < p,
         \A d \in Convs \ {c} : lock'[d] = lock[d]
  PROVE  Turns'
<1>1. /\ row'[n] = "pending" /\ \A p \in Requests \ {n} : row'[p] = row[p]
  BY DEF CreateAnalysisResult, Turns, Base, TypeOK
<1>2. RunsOf(c)' = RunsOf(c) \cup {n}
  BY <1>1 DEF RunsOf
<1>3. ASSUME NEW d, d # c PROVE RunsOf(d)' = RunsOf(d) /\ Waiting(d)' \subseteq Waiting(d)
  BY <1>1, <1>3 DEF RunsOf, Waiting
<1>t. Requests \subseteq Int /\ started \in Int
  BY DEF Requests, Turns, Base, TypeOK
<1>4. TurnTaken(n)'
  BY <1>1, <1>2, <1>t DEF TurnTaken, RunsOf
<1>5. ASSUME NEW q \in Requests \ {n} PROVE TurnTaken(q)'
  <2>1. TurnTaken(q) /\ req'[q] = req[q] /\ row'[q] = row[q]
    BY <1>1 DEF Turns, TurnsAgree
  <2>3. CASE req[q].conv # c
    <3>1. req[q].at = "insert" => req[q] # NoReq
      BY DEF NoReq
    <3>2. req[q].at = "insert" => req[q].conv \in Convs \ {c}
      BY <2>3, <3>1, Begun DEF Turns, Base, ReqStates
    <3>3. \A p \in RunsOf(req[q].conv) : row'[p] = row[p]
      BY <1>1, <2>3 DEF RunsOf
    <3> QED BY <1>3, <2>1, <2>3, <3>2, <3>3 DEF TurnTaken
  <2>4. CASE req[q].conv = c
    <3>1. req[q].at \in {"begun", "insert"} => req[q].at = "begun" /\ n < q
      BY <2>4
    <3>2. row[q] \in Active => FALSE
      <4>1. row[q] \in Active => q \in RunsOf(c)
        BY <2>4 DEF RunsOf, Active
      <4> QED BY <4>1
    <3> QED BY <1>1, <1>2, <1>t, <2>1, <2>4, <3>1, <3>2 DEF TurnTaken
  <2> QED BY <2>3, <2>4
<1>6. \A d \in Convs : RunsOf(d)' # {} => \E q \in RunsOf(d)' : \A p \in RunsOf(d)' : p <= q
  <2>1. \A p \in RunsOf(c)' : p <= n
    BY <1>2, <1>t DEF RunsOf
  <2> QED BY <1>2, <1>3, <2>1 DEF Turns, TurnsAgree
<1> QED BY <1>4, <1>5, <1>6 DEF Turns, TurnsAgree

LEMMA TurnsKept ==
  ASSUME Turns, [Next]_vars, ~MayOvertake
  PROVE  Turns'
<1>0. TypeOK /\ Base /\ Base' /\ \A q \in Requests : TurnTaken(q) /\ RunKnown(q)
  BY BaseKept DEF Turns, TurnsAgree, Base, RunsAgree
<1>t. Requests \subseteq Int /\ started \in Int
  BY <1>0 DEF Requests, TypeOK
<1>1. ASSUME NEW c \in Convs, Submit(c) PROVE Turns'
  <2>1. PICK n \in Requests :
          /\ n = started + 1 /\ started' = n /\ req'[n].at = "publish" /\ req'[n].conv = c
          /\ \A p \in Requests \ {n} : req'[p] = req[p]
    BY <1>0, <1>1, BeginsNext DEF Submit
  <2>2. row[n] = "none"
    BY <1>0, <1>t, <2>1 DEF RunKnown
  <2>3. RunsOf(c) = {} /\ CreateAnalysisResult(n) /\ UNCHANGED lock
    BY <1>1, <2>1 DEF Submit
  <2>4. \A p \in Requests : req[p].at \in {"begun", "insert"} => req[p].conv # c
    BY <1>0, <2>3 DEF TurnTaken
  <2>5. n <= started'
    BY <1>t, <2>1
  <2> QED BY <1>0, <2>1, <2>2, <2>3, <2>4, <2>5, RunInserted
<1>2. ASSUME NEW c \in Convs, Reanalyze(c) PROVE Turns'
  <2>0. RunsOf(c) # {} /\ UNCHANGED <<row, lock>>
    BY <1>2 DEF Reanalyze
  <2>1. PICK n \in Requests :
          /\ n = started + 1 /\ started' = n /\ req'[n].at = "begun" /\ req'[n].conv = c
          /\ \A p \in Requests \ {n} : req'[p] = req[p]
    BY <1>0, <1>2, BeginsNext DEF Reanalyze
  <2>2. row[n] = "none"
    BY <1>0, <1>t, <2>1 DEF RunKnown
  <2>3. \A d : RunsOf(d)' = RunsOf(d)
    BY <2>0, <2>1, <2>2 DEF RunsOf
  <2>4. \A p \in RunsOf(c) : p < n
    <3>1. ASSUME NEW p \in RunsOf(c) PROVE ~(p > started)
      BY <1>0 DEF RunsOf, RunKnown
    <3> QED BY <1>t, <2>1, <3>1 DEF RunsOf
  <2>5. TurnTaken(n)'
    BY <2>0, <2>1, <2>2, <2>3, <2>4 DEF TurnTaken, Active
  <2>6. ASSUME NEW q \in Requests \ {n} PROVE TurnTaken(q)'
    <3>1. TurnTaken(q) /\ req'[q] = req[q]
      BY <1>0, <2>1
    <3>2. req[q].at = "insert" => q < n
      <4>1. req[q].at = "insert" => req[q] # NoReq
        BY DEF NoReq
      <4> QED BY <1>0, <1>t, <4>1, <2>1 DEF RunKnown
    <3>3. \A d : Waiting(d)' \subseteq Waiting(d) \cup {n}
      BY <2>1 DEF Waiting
    <3> QED BY <2>0, <2>3, <3>1, <3>2, <3>3 DEF TurnTaken
  <2>7. \A d \in Convs : RunsOf(d)' # {} => \E q \in RunsOf(d)' : \A p \in RunsOf(d)' : p <= q
    BY <2>3 DEF Turns, TurnsAgree
  <2>8. \A q \in Requests : TurnTaken(q)'
    BY <2>5, <2>6
  <2> QED BY <1>0, <2>7, <2>8 DEF Turns, TurnsAgree
<1>3. ASSUME NEW q \in Requests, LockAndLook(q) PROVE Turns'
  <2> DEFINE c == req[q].conv
  <2>1. req[q].at = "begun" /\ TurnTaken(q) /\ UNCHANGED <<started, row>> /\ InTurn(q)
    BY <1>0, <1>3 DEF LockAndLook
  <2>2. req[q] # NoReq
    BY <2>1 DEF NoReq
  <2>3. CASE Goes(q, "done") /\ UNCHANGED lock
    <3>1. /\ req'[q].at = "done" /\ req'[q].conv = req[q].conv /\ req'[q] # NoReq
          /\ \A p \in Requests \ {q} : req'[p] = req[p]
      BY <1>0, <2>1, <2>3, GoesOn
    <3> QED BY <1>0, <2>1, <2>2, <2>3, <3>1, TurnsStay
  <2>4. CASE row[GetLatestAnalysisForConversation(c)] \notin Active /\ LockConversation(c, q) /\ Goes(q, "insert")
    <3>1. /\ req'[q].at = "insert" /\ req'[q].conv = c /\ req'[q] # NoReq /\ c \in Convs
          /\ \A p \in Requests \ {q} : req'[p] = req[p]
      BY <1>0, <2>1, <2>4, GoesOn
    <3>2. RunsOf(c) # {} /\ \A p \in RunsOf(c) : p < q /\ row[p] \notin Active
      BY <2>1, <2>4, <3>1, NewestDecides DEF TurnTaken
    <3>3. lock'[c] = q /\ lock[c] = NULL /\ \A d \in Convs \ {c} : lock'[d] = lock[d]
      BY <1>0, <2>4, <3>1 DEF LockConversation, TypeOK
    <3>4. \A d : RunsOf(d)' = RunsOf(d) /\ Waiting(d)' \subseteq Waiting(d) \ {q}
      BY <2>1, <3>1 DEF RunsOf, Waiting
    <3>5. \A p \in Waiting(c) \ {q} : q < p
      BY <1>t, <2>1 DEF InTurn, Waiting
    <3>6. TurnTaken(q)'
      BY <2>1, <3>1, <3>2, <3>3, <3>4, <3>5 DEF TurnTaken
    <3>7. ASSUME NEW p \in Requests \ {q} PROVE TurnTaken(p)'
      <4>1. TurnTaken(p) /\ req'[p] = req[p]
        BY <1>0, <3>1
      <4>2. req[p].at = "insert" => req[p].conv \in Convs /\ lock[req[p].conv] = p /\ p # NULL
        <5>1. req[p].at = "insert" => req[p] # NoReq
          BY DEF NoReq
        <5> QED BY <1>0, <4>1, <5>1, Begun, PipelineAssumption DEF TurnTaken, Requests, ReqStates
      <4>3. req[p].at = "insert" => lock'[req[p].conv] = lock[req[p].conv]
        BY <3>3, <4>2
      <4> QED BY <2>1, <3>4, <4>1, <4>3 DEF TurnTaken
    <3>8. \A d \in Convs : RunsOf(d)' # {} => \E p \in RunsOf(d)' : \A r \in RunsOf(d)' : r <= p
      BY <3>4 DEF Turns, TurnsAgree
    <3> QED BY <1>0, <3>6, <3>7, <3>8 DEF Turns, TurnsAgree
  <2> QED BY <1>3, <2>3, <2>4 DEF LockAndLook
<1>4. ASSUME NEW q \in Requests, InsertAndCommit(q) PROVE Turns'
  <2> DEFINE c == req[q].conv
  <2>1. req[q].at = "insert" /\ TurnTaken(q) /\ UNCHANGED started /\ CreateAnalysisResult(q)
    BY <1>0, <1>4 DEF InsertAndCommit
  <2>2. /\ req'[q].at = "publish" /\ req'[q].conv = c /\ c \in Convs /\ req[q] # NoReq
        /\ \A p \in Requests \ {q} : req'[p] = req[p]
    BY <1>0, <1>4, <2>1, GoesOn DEF InsertAndCommit
  <2>3. /\ row[q] = "none" /\ q <= started
        /\ \A p \in RunsOf(c) : p < q /\ row[p] \notin Active
    BY <1>0, <1>t, <2>1, <2>2 DEF TurnTaken, RunKnown
  <2>4. \A d \in Convs \ {c} : lock'[d] = lock[d]
    BY <1>0, <1>4 DEF InsertAndCommit, TypeOK
  <2>5. ASSUME NEW p \in Requests \ {q}, req[p].at \in {"begun", "insert"}, req[p].conv = c
        PROVE  req[p].at = "begun" /\ q < p
    <3>1. req[p].at # "insert"
      BY <1>0, <2>1, <2>5 DEF TurnTaken
    <3> QED BY <2>1, <2>5, <3>1 DEF TurnTaken, Waiting
  <2> QED BY <1>0, <2>1, <2>2, <2>3, <2>4, <2>5, RunInserted
<1>5. ASSUME NEW q \in Requests, PublishConfirmed(q) \/ PublishFails(q) \/ CleanUp(q) \/ RequestLost(q)
      PROVE  Turns'
  <2>1. /\ UNCHANGED started /\ RowsGoOn
        /\ req'[q].at \in {"republish", "cleanup", "done", "lost"} /\ req'[q].conv = req[q].conv
        /\ \A p \in Requests \ {q} : req'[p] = req[p]
    BY <1>0, <1>5, RequestMoves
  <2>2. ASSUME NEW p \in Requests \ {q}, req[p].at = "insert" PROVE lock'[req[p].conv] = lock[req[p].conv]
    <3>1. req[p] # NoReq
      BY <2>2 DEF NoReq
    <3>2. lock[req[p].conv] = p /\ req[p].conv \in Convs
      BY <1>0, <2>2, <3>1, Begun DEF TurnTaken, ReqStates
    <3>3. CASE RequestLost(q)
      BY <3>2, <3>3 DEF RequestLost
    <3>4. CASE UNCHANGED lock
      BY <3>4
    <3> QED BY <1>5, <3>3, <3>4 DEF PublishConfirmed, PublishFails, CleanUp
  <2> QED BY <1>0, <2>1, <2>2, TurnsStay DEF RowsGoOn
<1>6. ASSUME NEW h \in Handlers, HandlerStep(h) \/ Cancelled(h) \/ ChannelDrops(h) \/ WorkerDies(h)
      PROVE  Turns'
  <2>1. UNCHANGED <<started, req, lock>> /\ RowsGoOn
    BY <1>0, <1>6, HandlerMoves
  <2> QED BY <1>0, <2>1, TurnsStay DEF RowsGoOn
<1>7. CASE UNCHANGED vars
  <2>1. UNCHANGED <<started, req, row, lock>>
    BY <1>7 DEF vars
  <2> QED BY <1>0, <2>1, TurnsStay
<1> QED BY <1>1, <1>2, <1>3, <1>4, <1>5, <1>6, <1>7 DEF Next, RequestStep

LEMMA RunsAgreeAtInit ==
  Init => RunsAgree /\ TurnsAgree /\ JobsAgree
BY PipelineAssumption DEF Init, RunsAgree, RunKnown, TurnsAgree, TurnTaken, JobsAgree, RunsOf, Waiting,
   NoReq, Off, Unsent, Requests, Messages, Active

\* When transactions take a conversation's lock in the order they began, it never has two
\* runs pending or running: created_at then orders the runs as the lock does.
THEOREM OneRunAtATime ==
  ASSUME ~MayOvertake
  PROVE  Spec => []OneActiveRun
<1>1. Init => Turns
  BY TypeAtInit, RunsAgreeAtInit DEF Turns, Base
<1>2. Turns /\ [Next]_vars => Turns'
  BY TurnsKept
<1>3. Turns => OneActiveRun
  <2> SUFFICES ASSUME Turns, NEW c \in Convs, NEW p \in RunsOf(c), NEW q \in RunsOf(c),
                      row[p] \in Active, row[q] \in Active
               PROVE  p = q
    BY DEF OneActiveRun
  <2>1. p \in Int /\ q \in Int /\ req[p].conv = c /\ req[q].conv = c
    BY DEF RunsOf, Requests
  <2>2. p <= q /\ q <= p
    BY <2>1 DEF Turns, TurnsAgree, TurnTaken, RunsOf
  <2> QED BY <2>1, <2>2
<1> QED BY <1>1, <1>2, <1>3, PTL DEF Spec
-----------------------------------------------------------------------------
(* One sequence of runs *)

\* What the mapping shows of a run, by its row.
LEMMA Mapping ==
  ASSUME TypeOK, NEW q \in Requests
  PROVE  /\ RunState(q) = "none" <=> row[q] = "none"
         /\ RunState(q) = "active" <=> row[q] \in Active
         /\ RunState(q) = "ended" <=> row[q] \in Terminal
  BY DEF TypeOK, RunState, Active, Terminal

\* A step that inserts no run ends at most one.
LEMMA SequenceGoesOn ==
  ASSUME TypeOK, TypeOK', RowsGoOn,
         \A q \in Requests : row[q] # "none" => req'[q].conv = req[q].conv
  PROVE  Sequence!Next \/ UNCHANGED Sequence!vars
<1> DEFINE conv == [q \in Requests |-> IF row[q] = "none" THEN NULL ELSE req[q].conv]
           state == [q \in Requests |-> RunState(q)]
<1>1. conv' = conv
  BY DEF RowsGoOn
<1>2. CASE \A q \in Requests : RunState(q)' = RunState(q)
  <2>1. state' = state
    BY <1>2
  <2> QED BY <1>1, <2>1 DEF Sequence!vars
<1>3. ASSUME NEW q \in Requests, RunState(q)' # RunState(q) PROVE Sequence!End(q)
  <2>1. row'[q] # row[q]
    BY <1>3 DEF RunState
  <2>2. row[q] \in Active /\ row'[q] \in Terminal
    BY <1>3, <2>1 DEF RowsGoOn, TypeOK, RunState, Active, Terminal
  <2>3. RunState(q) = "active" /\ RunState(q)' = "ended"
    BY <2>2 DEF RunState, Active, Terminal
  <2>4. \A p \in Requests \ {q} : row'[p] = row[p]
    BY <2>1 DEF RowsGoOn
  <2>5. \A p \in Requests \ {q} : RunState(p)' = RunState(p)
    BY <2>4 DEF RunState
  <2>6. state' = [state EXCEPT ![q] = "ended"]
    BY <2>3, <2>5
  <2> QED BY <1>1, <2>3, <2>6 DEF Sequence!End
<1> QED BY <1>2, <1>3 DEF Sequence!Next

\* The run n of conversation c, newer than all others there, is inserted when they are over.
LEMMA SequenceStarts ==
  ASSUME TypeOK, NEW n \in Requests, NEW c \in Convs, row[n] = "none", CreateAnalysisResult(n),
         req'[n].conv = c, \A p \in Requests \ {n} : req'[p] = req[p],
         \A p \in RunsOf(c) : p < n /\ row[p] \notin Active
  PROVE  Sequence!Start(c, n)
<1> DEFINE conv == [q \in Requests |-> IF row[q] = "none" THEN NULL ELSE req[q].conv]
           state == [q \in Requests |-> RunState(q)]
<1>1. row'[n] = "pending" /\ \A p \in Requests \ {n} : row'[p] = row[p]
  BY DEF CreateAnalysisResult, TypeOK
<1>2. /\ RunState(n) = "none" /\ RunState(n)' = "active"
      /\ \A p \in Requests \ {n} : RunState(p)' = RunState(p)
  BY <1>1 DEF RunState, Active, Terminal
<1>3. Sequence!RunsFor(c) = RunsOf(c)
  BY PipelineAssumption DEF Sequence!RunsFor, RunsOf
<1>4. \A p \in RunsOf(c) : RunState(p) = "ended"
  BY Mapping DEF RunsOf, TypeOK
<1>5. conv' = [conv EXCEPT ![n] = c]
  BY <1>1
<1>6. state' = [state EXCEPT ![n] = "active"]
  BY <1>2
<1>7. \A p \in Sequence!RunsFor(c) : p < n /\ state[p] = "ended"
  BY <1>3, <1>4 DEF RunsOf
<1> QED BY <1>2, <1>5, <1>6, <1>7 DEF Sequence!Start

\* A request that begins, waits or takes the lock shows nothing yet.
LEMMA SequenceWaits ==
  ASSUME UNCHANGED row, \A q \in Requests : row[q] # "none" => req'[q].conv = req[q].conv
  PROVE  UNCHANGED Sequence!vars
  BY DEF Sequence!vars, RunState

LEMMA SequenceStep ==
  ASSUME Turns, [Next]_vars, ~MayOvertake
  PROVE  [Sequence!Next]_Sequence!vars
<1>0. TypeOK /\ TypeOK' /\ Base /\ \A q \in Requests : TurnTaken(q) /\ RunKnown(q)
  BY BaseKept DEF Turns, TurnsAgree, Base, RunsAgree
<1>t. Requests \subseteq Int /\ started \in Int
  BY <1>0 DEF Requests, TypeOK
<1>1. ASSUME NEW c \in Convs, Submit(c) PROVE Sequence!Next
  <2>1. PICK n \in Requests :
          /\ n = started + 1 /\ req'[n].conv = c
          /\ \A p \in Requests \ {n} : req'[p] = req[p]
    BY <1>0, <1>1, BeginsNext DEF Submit
  <2>2. row[n] = "none"
    BY <1>0, <1>t, <2>1 DEF RunKnown
  <2>3. RunsOf(c) = {} /\ CreateAnalysisResult(n)
    BY <1>1, <2>1 DEF Submit
  <2>4. Sequence!Start(c, n)
    BY <1>0, <2>1, <2>2, <2>3, SequenceStarts
  <2> QED BY <2>4 DEF Sequence!Next
<1>2. ASSUME NEW c \in Convs, Reanalyze(c) PROVE UNCHANGED Sequence!vars
  <2>1. PICK n \in Requests :
          /\ n = started + 1 /\ UNCHANGED row
          /\ \A p \in Requests \ {n} : req'[p] = req[p]
    BY <1>0, <1>2, BeginsNext DEF Reanalyze
  <2>2. row[n] = "none"
    BY <1>0, <1>t, <2>1 DEF RunKnown
  <2> QED BY <2>1, <2>2, SequenceWaits
<1>3. ASSUME NEW q \in Requests, LockAndLook(q) PROVE UNCHANGED Sequence!vars
  <2>1. row[q] = "none" /\ UNCHANGED row
    BY <1>0, <1>3 DEF LockAndLook, RunKnown
  <2>2. \A p \in Requests \ {q} : req'[p] = req[p]
    BY <1>0, <1>3 DEF LockAndLook, Goes, TypeOK
  <2> QED BY <2>1, <2>2, SequenceWaits
<1>4. ASSUME NEW q \in Requests, InsertAndCommit(q) PROVE Sequence!Next
  <2> DEFINE c == req[q].conv
  <2>1. req[q].at = "insert" /\ TurnTaken(q) /\ CreateAnalysisResult(q)
    BY <1>0, <1>4 DEF InsertAndCommit
  <2>2. req'[q].conv = c /\ c \in Convs /\ \A p \in Requests \ {q} : req'[p] = req[p]
    BY <1>0, <1>4, <2>1, GoesOn DEF InsertAndCommit
  <2>3. row[q] = "none" /\ \A p \in RunsOf(c) : p < q /\ row[p] \notin Active
    BY <1>0, <2>1 DEF TurnTaken, RunKnown
  <2>4. Sequence!Start(c, q)
    BY <1>0, <2>1, <2>2, <2>3, SequenceStarts
  <2> QED BY <2>2, <2>4 DEF Sequence!Next
<1>5. ASSUME NEW q \in Requests, PublishConfirmed(q) \/ PublishFails(q) \/ CleanUp(q) \/ RequestLost(q)
      PROVE  Sequence!Next \/ UNCHANGED Sequence!vars
  <2>1. /\ RowsGoOn /\ req'[q].conv = req[q].conv
        /\ \A p \in Requests \ {q} : req'[p] = req[p]
    BY <1>0, <1>5, RequestMoves
  <2> QED BY <1>0, <2>1, SequenceGoesOn
<1>6. ASSUME NEW h \in Handlers, HandlerStep(h) \/ Cancelled(h) \/ ChannelDrops(h) \/ WorkerDies(h)
      PROVE  Sequence!Next \/ UNCHANGED Sequence!vars
  <2>1. UNCHANGED req /\ RowsGoOn
    BY <1>0, <1>6, HandlerMoves
  <2> QED BY <1>0, <2>1, SequenceGoesOn
<1>7. CASE UNCHANGED vars
  BY <1>7, SequenceWaits DEF vars
<1> QED BY <1>1, <1>2, <1>3, <1>4, <1>5, <1>6, <1>7 DEF Next, RequestStep

\* When transactions take a conversation's lock in the order they began, the pipeline
\* implements RunSequence: the runs of a conversation follow one another by age, and a
\* redelivered job, a late handler or a clean-up never begins one again that is over.
THEOREM RunsFollow ==
  ASSUME ~MayOvertake
  PROVE  Spec => KeepsRuns
<1>1. Init => Turns
  BY TypeAtInit, RunsAgreeAtInit DEF Turns, Base
<1>2. Turns /\ [Next]_vars => Turns'
  BY TurnsKept
<1>3. Init => Sequence!Init
  BY DEF Init, Sequence!Init, RunState, Active, Terminal
<1>4. Turns /\ [Next]_vars => [Sequence!Next]_Sequence!vars
  BY SequenceStep
<1> QED BY <1>1, <1>2, <1>3, <1>4, PTL DEF Spec, KeepsRuns, Sequence!Spec

\* In whatever order locks are taken: a run that is over is never pending or running
\* again, though its job be delivered, its clean-up late and its result stored twice.
FinishedIsFinal ==
  [][\A q \in Requests : row[q] \in Terminal => row'[q] \in Terminal]_vars

THEOREM RunsStayFinished ==
  Spec => FinishedIsFinal
<1>1. Init => Base
  BY TypeAtInit, RunsAgreeAtInit DEF Base
<1>2. Base /\ [Next]_vars => Base'
  BY BaseKept
<1>3. Base /\ [Next]_vars => [\A q \in Requests : row[q] \in Terminal => row'[q] \in Terminal]_vars
  <2> SUFFICES ASSUME Base, Next, NEW q \in Requests, row[q] \in Terminal
               PROVE  row'[q] \in Terminal
    OBVIOUS
  <2>0. TypeOK /\ \A r \in Requests : RunKnown(r)
    BY DEF Base, RunsAgree
  <2>1. ASSUME NEW r \in Requests, row[r] = "none", CreateAnalysisResult(r) PROVE row'[q] = row[q]
    BY <2>0, <2>1 DEF CreateAnalysisResult, TypeOK, Terminal
  <2>2. ASSUME NEW c \in Convs, Submit(c) PROVE row'[q] = row[q]
    <3>1. started + 1 \in Requests /\ started + 1 > started
      BY <2>0, <2>2, PipelineAssumption DEF Submit, Begin, TypeOK, Requests
    <3>2. row[started + 1] = "none"
      BY <2>0, <3>1 DEF RunKnown
    <3> QED BY <2>1, <2>2, <3>1, <3>2 DEF Submit
  <2>3. ASSUME NEW r \in Requests, InsertAndCommit(r) PROVE row'[q] = row[q]
    BY <2>0, <2>1, <2>3 DEF InsertAndCommit, RunKnown
  <2>4. ASSUME NEW r \in Requests, PublishConfirmed(r) \/ PublishFails(r) \/ CleanUp(r) \/ RequestLost(r)
        PROVE  RowsGoOn
    BY <2>4, RequestMoves
  <2>5. ASSUME NEW h \in Handlers, HandlerStep(h) \/ Cancelled(h) \/ ChannelDrops(h) \/ WorkerDies(h)
        PROVE  RowsGoOn
    BY <2>5, HandlerMoves
  <2>6. (\E c \in Convs : Reanalyze(c)) \/ (\E r \in Requests : LockAndLook(r)) => row'[q] = row[q]
    BY DEF Reanalyze, LockAndLook
  <2> QED BY <2>2, <2>3, <2>4, <2>5, <2>6 DEF Next, RequestStep, RowsGoOn
<1> QED BY <1>1, <1>2, <1>3, PTL DEF Spec, FinishedIsFinal
-----------------------------------------------------------------------------
(* Every active run is carried *)

Jobs == Base /\ JobsAgree

Sent(q) == \E k \in {1, 2} : msg[<<q, k>>].at # "unsent"

\* Handler h lets go of its job; if the job leaves the queue, its run is finished.
LEMMA JobSettled ==
  ASSUME Jobs, Base', NEW h \in Handlers, hand[h] # Off, NEW at \in {"gone", "queued"}, Settle(h, at),
         RowsGoOn, UNCHANGED req, at = "gone" => row'[RunOf(h)] \in Terminal,
         \A q \in Requests : row'[q] = "running" => row[q] = "running"
  PROVE  Jobs'
<1>0. TypeOK /\ hand[h].m \in Messages
  BY InHand DEF Jobs, Base
<1>1. /\ hand'[h] = Off /\ \A g \in Handlers \ {h} : hand'[g] = hand[g]
      /\ \A m \in Messages : msg'[m] = IF m = hand[h].m /\ msg[m].by = h
           THEN [at |-> at, again |-> at = "queued", by |-> NULL] ELSE msg[m]
  BY <1>0, Settled
<1>2. ASSUME NEW m \in Messages
      PROVE  /\ msg'[m].at = "held" =>
                  msg'[m].by \in Handlers /\ hand'[msg'[m].by] # Off /\ hand'[msg'[m].by].m = m
             /\ msg'[m].at = "gone" => row'[m[1]] \in Terminal
  <2>1. m[1] \in Requests
    BY DEF Messages
  <2>2. CASE m = hand[h].m /\ msg[m].by = h
    BY <1>1, <2>2 DEF RunOf
  <2>3. CASE ~(m = hand[h].m /\ msg[m].by = h)
    <3>1. msg'[m] = msg[m]
      BY <1>1, <2>3
    <3>2. msg[m].at = "held" => msg[m].by \in Handlers /\ hand[msg[m].by] # Off /\ hand[msg[m].by].m = m
      BY DEF Jobs, JobsAgree
    <3>3. msg[m].at = "held" => msg[m].by # h
      BY <2>3, <3>2
    <3> QED BY <1>1, <2>1, <3>1, <3>2, <3>3 DEF Jobs, JobsAgree, RowsGoOn
  <2> QED BY <2>2, <2>3
<1>3. \A m \in Messages : msg[m].at # "unsent" => msg'[m].at # "unsent"
  BY <1>1
<1>4. ASSUME NEW q \in Requests, Sent(q) PROVE Sent(q)'
  BY <1>3, <1>4 DEF Sent, Messages
<1>5. \A q \in Requests : row'[q] = "pending" => row[q] \in Active
  BY DEF RowsGoOn, Active
<1> QED BY <1>2, <1>4, <1>5 DEF Jobs, JobsAgree, Sent, Active

\* A step of a request that sends or not; runs inserted are about to be sent.
LEMMA RequestJobs ==
  ASSUME Jobs, Base', NEW n \in Requests, UNCHANGED hand,
         \A p \in Requests \ {n} : req'[p] = req[p] /\ row'[p] = row[p],
         \A m \in Messages :
           msg'[m] = msg[m] \/ (m[1] = n /\ row[n] # "none" /\ msg'[m] = [msg[m] EXCEPT !.at = "queued"]),
         row[n] \in Terminal => row'[n] \in Terminal,
         \/ row'[n] = "running"
         \/ row'[n] = "pending" /\ req'[n].at \notin {"publish", "republish", "cleanup", "lost"}
         => Sent(n)'
  PROVE  Jobs'
<1>0. TypeOK
  BY DEF Jobs, Base
<1>1. ASSUME NEW m \in Messages
      PROVE  /\ msg'[m].at \in {msg[m].at, "queued"} /\ msg'[m].by = msg[m].by /\ m[1] \in Requests
  <2>1. [msg[m] EXCEPT !.at = "queued"].at = "queued" /\ [msg[m] EXCEPT !.at = "queued"].by = msg[m].by
    BY <1>0 DEF TypeOK
  <2> QED BY <2>1 DEF Messages
<1>2. ASSUME NEW m \in Messages
      PROVE  /\ msg'[m].at = "held" =>
                  msg'[m].by \in Handlers /\ hand'[msg'[m].by] # Off /\ hand'[msg'[m].by].m = m
             /\ msg'[m].at = "gone" => row'[m[1]] \in Terminal
  BY <1>1 DEF Jobs, JobsAgree
<1>3. ASSUME NEW q \in Requests \ {n},
             \/ row'[q] = "running"
             \/ row'[q] = "pending" /\ req'[q].at \notin {"publish", "republish", "cleanup", "lost"}
      PROVE  Sent(q)'
  <2>1. PICK k \in {1, 2} : msg[<<q, k>>].at # "unsent"
    BY <1>3 DEF Jobs, JobsAgree
  <2>2. <<q, k>> \in Messages
    BY DEF Messages
  <2> QED BY <1>1, <2>1, <2>2 DEF Sent
<1> QED BY <1>2, <1>3 DEF Jobs, JobsAgree, Sent

LEMMA JobsKept ==
  ASSUME Jobs, [Next]_vars, ~LastMayBeCut
  PROVE  Jobs'
<1>0. TypeOK /\ Base /\ Base' /\ \A q \in Requests : RunKnown(q)
  BY BaseKept DEF Jobs, Base, RunsAgree
<1>t. Requests \subseteq Int /\ started \in Int /\ row \in [Requests -> {"none"} \cup Active \cup Terminal]
  BY <1>0 DEF Requests, TypeOK
<1>1. ASSUME NEW c \in Convs, Submit(c) PROVE Jobs'
  <2>1. PICK n \in Requests :
          /\ n = started + 1 /\ req'[n].at = "publish"
          /\ \A p \in Requests \ {n} : req'[p] = req[p]
    BY <1>0, <1>1, BeginsNext DEF Submit
  <2>2. row[n] = "none"
    BY <1>0, <1>t, <2>1 DEF RunKnown
  <2>3. row'[n] = "pending" /\ (\A p \in Requests \ {n} : row'[p] = row[p]) /\ UNCHANGED <<msg, hand>>
    BY <1>t, <1>1, <2>1 DEF Submit, CreateAnalysisResult, queue
  <2> QED BY <1>0, <2>1, <2>2, <2>3, RequestJobs DEF Terminal
<1>2. ASSUME NEW c \in Convs, Reanalyze(c) PROVE Jobs'
  <2>1. PICK n \in Requests :
          /\ n = started + 1 /\ \A p \in Requests \ {n} : req'[p] = req[p]
    BY <1>0, <1>2, BeginsNext DEF Reanalyze
  <2>2. row[n] = "none" /\ UNCHANGED <<row, msg, hand>>
    BY <1>0, <1>t, <1>2, <2>1 DEF RunKnown, Reanalyze, queue
  <2> QED BY <1>0, <2>1, <2>2, RequestJobs
<1>3. ASSUME NEW q \in Requests, LockAndLook(q) PROVE Jobs'
  <2>1. row[q] = "none" /\ UNCHANGED <<row, msg, hand>>
    BY <1>0, <1>3 DEF LockAndLook, RunKnown, queue
  <2>2. \A p \in Requests \ {q} : req'[p] = req[p]
    BY <1>0, <1>3, GoesOn DEF LockAndLook
  <2> QED BY <1>0, <2>1, <2>2, RequestJobs
<1>4. ASSUME NEW q \in Requests, InsertAndCommit(q) PROVE Jobs'
  <2>1. req[q].at = "insert" /\ CreateAnalysisResult(q) /\ Goes(q, "publish") /\ UNCHANGED <<msg, hand>>
    BY <1>4 DEF InsertAndCommit, queue
  <2>2. req'[q].at = "publish" /\ \A p \in Requests \ {q} : req'[p] = req[p]
    BY <1>0, <2>1, GoesOn
  <2>3. row[q] = "none" /\ row'[q] = "pending" /\ \A p \in Requests \ {q} : row'[p] = row[p]
    BY <1>0, <1>t, <2>1 DEF CreateAnalysisResult, RunKnown
  <2> QED BY <1>0, <2>1, <2>2, <2>3, RequestJobs DEF Terminal
<1>5. ASSUME NEW q \in Requests, PublishConfirmed(q) \/ PublishFails(q) \/ CleanUp(q) \/ RequestLost(q)
      PROVE  Jobs'
  <2>1. /\ UNCHANGED hand /\ RowsGoOn /\ \A p \in Requests \ {q} : req'[p] = req[p]
        /\ \A m \in Messages :
             msg'[m] = msg[m] \/ (m[1] = q /\ row[q] # "none" /\ msg'[m] = [msg[m] EXCEPT !.at = "queued"])
    BY <1>0, <1>5, RequestMoves
  <2>2. \A p \in Requests \ {q} : row'[p] = row[p]
    BY <1>t, <1>5 DEF PublishConfirmed, PublishFails, CleanUp, RequestLost, FailAnalysis, FailPendingAnalysis
  <2>3. ASSUME Sent(q) PROVE Sent(q)'
    <3>1. PICK k \in {1, 2} : msg[<<q, k>>].at # "unsent"
      BY <2>3 DEF Sent
    <3>2. <<q, k>> \in Messages
      BY DEF Messages
    <3>3. [msg[<<q, k>>] EXCEPT !.at = "queued"].at = "queued"
      BY <1>0, <3>2 DEF TypeOK
    <3> QED BY <2>1, <3>1, <3>2, <3>3 DEF Sent
  <2>4. ASSUME \/ row'[q] = "running"
               \/ row'[q] = "pending" /\ req'[q].at \notin {"publish", "republish", "cleanup", "lost"}
        PROVE  Sent(q)'
    <3>1. row[q] = "running" => Sent(q)
      BY DEF Jobs, JobsAgree, Sent
    <3>2. CASE PublishConfirmed(q)
      <4>1. Attempt(q) \in Messages /\ Attempt(q) \in {<<q, 1>>, <<q, 2>>}
        BY DEF Attempt, Messages
      <4>2. msg' = [msg EXCEPT ![Attempt(q)] = [msg[Attempt(q)] EXCEPT !.at = "queued"]]
        BY <3>2 DEF PublishConfirmed, Send
      <4>3. msg'[Attempt(q)].at = "queued"
        BY <1>0, <4>1, <4>2 DEF TypeOK
      <4> QED BY <4>1, <4>3 DEF Sent
    <3>3. CASE PublishFails(q) \/ RequestLost(q)
      <4>1. UNCHANGED row
        BY <3>3 DEF PublishFails, RequestLost
      <4>2. \E at \in {"republish", "cleanup", "lost"} : Goes(q, at)
        BY <3>3 DEF PublishFails, RequestLost
      <4>3. req[q].at # "none"
        BY <3>3 DEF PublishFails, RequestLost
      <4>4. req'[q].at \in {"republish", "cleanup", "lost"}
        BY <1>0, <4>2, <4>3, GoesOn
      <4> QED BY <2>3, <2>4, <3>1, <4>1, <4>4
    <3>4. CASE CleanUp(q)
      <4>1. row'[q] = "running" /\ row[q] = "running"
        BY <1>t, <2>4, <3>4 DEF CleanUp, FailAnalysis, FailPendingAnalysis
      <4> QED BY <2>3, <3>1, <4>1
    <3> QED BY <1>5, <3>2, <3>3, <3>4
  <2> QED BY <1>0, <2>1, <2>2, <2>4, RequestJobs DEF RowsGoOn
<1>h. ASSUME NEW h \in Handlers, hand[h] # Off
      PROVE  /\ RunOf(h) \in Requests /\ row[RunOf(h)] # "none" /\ Sent(RunOf(h)) /\ hand[h].m \in Messages
             /\ msg[hand[h].m].at # "unsent"
  <2>1. hand[h].m \in Messages /\ msg[hand[h].m].at # "unsent" /\ row[hand[h].m[1]] # "none"
    BY <1>0, <1>h, InHand DEF Base, RunsAgree
  <2>2. PICK q \in Requests, k \in {1, 2} : hand[h].m = <<q, k>>
    BY <2>1 DEF Messages
  <2> QED BY <2>1, <2>2 DEF RunOf, Sent
<1>6. ASSUME NEW h \in Handlers, NEW m \in Messages, Deliver(h, m) PROVE Jobs'
  <2>1. /\ hand[h] = Off /\ msg[m].at = "queued" /\ UNCHANGED <<req, row>>
        /\ hand' = [hand EXCEPT ![h] = [at |-> "claim", m |-> m, last |-> msg[m].again]]
        /\ msg' = [msg EXCEPT ![m] = [msg[m] EXCEPT !.at = "held", !.by = h]]
    BY <1>6 DEF Deliver
  <2>2. /\ hand'[h].m = m /\ hand'[h] # Off /\ \A g \in Handlers \ {h} : hand'[g] = hand[g]
    BY <1>0, <2>1 DEF TypeOK, Off
  <2>3. /\ msg'[m].at = "held" /\ msg'[m].by = h /\ \A k \in Messages \ {m} : msg'[k] = msg[k]
    BY <1>0, <2>1 DEF TypeOK
  <2>4. ASSUME NEW k \in Messages
        PROVE  /\ msg'[k].at = "held" =>
                    msg'[k].by \in Handlers /\ hand'[msg'[k].by] # Off /\ hand'[msg'[k].by].m = k
               /\ msg'[k].at = "gone" => row'[k[1]] \in Terminal
    BY <2>1, <2>2, <2>3 DEF Jobs, JobsAgree
  <2>5. ASSUME NEW q \in Requests, Sent(q) PROVE Sent(q)'
    BY <2>3, <2>5 DEF Sent, Messages
  <2> QED BY <1>0, <2>1, <2>4, <2>5 DEF Jobs, JobsAgree, Sent
<1>7. ASSUME NEW h \in Handlers, HandleClaims(h) PROVE Jobs'
  <2>0. hand[h] # Off /\ hand[h].at = "claim" /\ UNCHANGED req /\ RowsGoOn
    BY <1>0, <1>7, HandlerMoves DEF HandleClaims, Off, HandlerStep
  <2>1. CASE ClaimAnalysis(RunOf(h)) /\ hand' = [hand EXCEPT ![h].at = "score"] /\ UNCHANGED msg
    <3>1. hand' = [hand EXCEPT ![h] = [hand[h] EXCEPT !.at = "score"]] /\ hand[h] \in HandStates
      BY <1>0, <2>0, <2>1, InHand
    <3>2. [hand[h] EXCEPT !.at = "score"].m = hand[h].m /\ [hand[h] EXCEPT !.at = "score"] # Off
      BY <3>1 DEF HandStates, Off
    <3>3. \A g \in Handlers : hand[g] # Off => hand'[g] # Off /\ hand'[g].m = hand[g].m
      BY <1>0, <3>1, <3>2 DEF TypeOK
    <3>4. \A q \in Requests : row'[q] = row[q] \/ q = RunOf(h)
      BY <1>t, <2>1 DEF ClaimAnalysis
    <3>5. \A q \in Requests : Sent(q) => Sent(q)'
      BY <2>1 DEF Sent
    <3>6. \A q \in Requests :
            \/ row'[q] = "running"
            \/ row'[q] = "pending" /\ req'[q].at \notin {"publish", "republish", "cleanup", "lost"}
            => Sent(q)'
      BY <1>h, <2>0, <3>4, <3>5 DEF Jobs, JobsAgree, Sent
    <3>7. ASSUME NEW m \in Messages
          PROVE  /\ msg'[m].at = "held" =>
                      msg'[m].by \in Handlers /\ hand'[msg'[m].by] # Off /\ hand'[msg'[m].by].m = m
                 /\ msg'[m].at = "gone" => row'[m[1]] \in Terminal
      <4>1. m[1] \in Requests
        BY DEF Messages
      <4> QED BY <2>0, <2>1, <3>3, <4>1 DEF Jobs, JobsAgree, RowsGoOn
    <3> QED BY <1>0, <3>6, <3>7 DEF Jobs, JobsAgree, Sent
  <2>2. CASE row[RunOf(h)] \in Terminal /\ Ack(h) /\ UNCHANGED row
    BY <1>0, <2>0, <2>2, JobSettled DEF Ack
  <2> QED BY <1>7, <2>1, <2>2 DEF HandleClaims
<1>8. ASSUME NEW h \in Handlers, HandleCompletes(h) PROVE Jobs'
  <2>1. hand[h] # Off /\ UNCHANGED req /\ RowsGoOn /\ CompleteAnalysis(RunOf(h)) /\ Settle(h, "gone")
    BY <1>0, <1>8, HandlerMoves DEF HandleCompletes, Off, HandlerStep, Ack
  <2>2. /\ row'[RunOf(h)] \in Terminal
        /\ \A q \in Requests : row'[q] = "running" => row[q] = "running"
    BY <1>h, <1>t, <2>1 DEF CompleteAnalysis, Terminal
  <2> QED BY <1>0, <2>1, <2>2, JobSettled
<1>9. ASSUME NEW h \in Handlers, HandleFails(h) PROVE Jobs'
  <2>1. hand[h] # Off /\ UNCHANGED req /\ RowsGoOn
    BY <1>0, <1>9, HandlerMoves DEF HandleFails, Off, HandlerStep
  <2>2. CASE hand[h].last
    <3>1. FailAnalysis(RunOf(h)) /\ Settle(h, "gone")
      BY <1>9, <2>2 DEF HandleFails, GiveUp, Ack
    <3>2. /\ row'[RunOf(h)] \in Terminal
          /\ \A q \in Requests : row'[q] = "running" => row[q] = "running"
      BY <1>h, <1>t, <2>1, <3>1 DEF FailAnalysis, Terminal
    <3> QED BY <1>0, <2>1, <3>1, <3>2, JobSettled
  <2>3. CASE ~hand[h].last
    <3>1. UNCHANGED row /\ Settle(h, "queued")
      BY <1>9, <2>3 DEF HandleFails, GiveUp, Nack
    <3> QED BY <1>0, <2>1, <3>1, JobSettled
  <2> QED BY <2>2, <2>3
<1>10. ASSUME NEW h \in Handlers, Cancelled(h) PROVE Jobs'
  <2>1. hand[h] # Off /\ UNCHANGED <<req, row>> /\ RowsGoOn /\ Settle(h, "queued")
    BY <1>0, <1>10, HandlerMoves DEF Cancelled, Nack
  <2> QED BY <1>0, <2>1, JobSettled
<1>11. ASSUME NEW h \in Handlers, ChannelDrops(h) \/ WorkerDies(h) PROVE Jobs'
  <2> DEFINE m == hand[h].m
  <2>1. hand[h] # Off /\ UNCHANGED <<req, row>> /\ m \in Messages
    BY <1>11, <1>h DEF ChannelDrops, WorkerDies
  <2>2. \A k \in Messages : msg'[k] = msg[k] \/ (k = m /\ msg'[k].at = "queued")
    BY <1>0, <1>11, <2>1 DEF ChannelDrops, WorkerDies, GivenBack, TypeOK
  <2>3. \A g \in Handlers \ {h} : hand'[g] = hand[g]
    BY <1>0, <1>11 DEF ChannelDrops, WorkerDies, TypeOK
  <2>4. hand'[h] = hand[h] \/ ~(msg'[m].at = "held" /\ msg'[m].by = h)
    BY <1>0, <1>11, <2>1 DEF ChannelDrops, WorkerDies, GivenBack, TypeOK
  <2>5. ASSUME NEW k \in Messages
        PROVE  /\ msg'[k].at = "held" =>
                    msg'[k].by \in Handlers /\ hand'[msg'[k].by] # Off /\ hand'[msg'[k].by].m = k
               /\ msg'[k].at = "gone" => row'[k[1]] \in Terminal
    BY <2>1, <2>2, <2>3, <2>4 DEF Jobs, JobsAgree
  <2>6. ASSUME NEW q \in Requests, Sent(q) PROVE Sent(q)'
    BY <2>2, <2>6 DEF Sent, Messages
  <2> QED BY <1>0, <2>1, <2>5, <2>6 DEF Jobs, JobsAgree, Sent
<1>12. CASE UNCHANGED vars
  BY <1>0, <1>12 DEF vars, queue, Jobs, JobsAgree
<1> QED
  BY <1>1, <1>2, <1>3, <1>4, <1>5, <1>6, <1>7, <1>8, <1>9, <1>10, <1>11, <1>12
     DEF Next, RequestStep, HandlerStep

\* When no cancelled context strikes a job's last delivery, a run shown as pending or
\* running has somebody to finish it, however often it was published or redelivered and
\* whichever workers and channels died: only the death of its request leaves it to nobody.
THEOREM RunsAreCarried ==
  ASSUME ~LastMayBeCut
  PROVE  Spec => []ActiveRunIsCarried
<1>1. Init => Jobs
  BY TypeAtInit, RunsAgreeAtInit DEF Jobs, Base
<1>2. Jobs /\ [Next]_vars => Jobs'
  BY JobsKept
<1>3. Jobs => ActiveRunIsCarried
  <2> SUFFICES ASSUME Jobs, NEW q \in Requests, row[q] \in Active, req[q].at # "lost"
               PROVE  Carried(q)
    BY DEF ActiveRunIsCarried
  <2>1. CASE req[q].at \in {"publish", "republish", "cleanup"}
    BY <2>1 DEF Carried
  <2>2. CASE req[q].at \notin {"publish", "republish", "cleanup"}
    <3>1. PICK k \in {1, 2} : msg[<<q, k>>].at # "unsent"
      BY <2>2 DEF Jobs, JobsAgree, Active
    <3>2. <<q, k>> \in Messages /\ <<q, k>>[1] = q
      BY DEF Messages
    <3>3. msg[<<q, k>>].at # "gone"
      BY <3>2 DEF Jobs, JobsAgree, Active, Terminal
    <3>4. msg[<<q, k>>].at \in {"queued", "held"}
      BY <3>1, <3>2, <3>3 DEF Jobs, Base, TypeOK
    <3> QED BY <3>4 DEF Carried
  <2> QED BY <2>1, <2>2
<1> QED BY <1>1, <1>2, <1>3, PTL DEF Spec
=============================================================================
