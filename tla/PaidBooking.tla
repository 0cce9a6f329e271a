----------------------------- MODULE PaidBooking -----------------------------
(***************************************************************************)
(* The life of a coaching session from the booking call to the last        *)
(* payment clean-up: coaching/service.go, coaching/payment.go and the      *)
(* statements of store/queries/coaching.sql they run.                      *)
(*                                                                         *)
(* The table coaching_sessions is one function per column, for the rows of *)
(* one coach.  Concurrent with the row's owner run the provider and its    *)
(* webhooks, the coach's answer (whose transaction keeps the row locked    *)
(* while the card is captured), the participants' cancels and moves, and   *)
(* any number of payment sweeps.                                           *)
(***************************************************************************)
EXTENDS Integers

CONSTANTS
  Sessions,        \* ids of the coaching_sessions rows
  Sweepers,        \* worker processes that run SweepPayments
  Starts,          \* start times a client or coach may ask for
  MaxTime,         \* bound: the clock stops here
  MaxMoves,        \* bound: how often sessions are rescheduled in all
  MaxAborts,       \* bound: how many sweep passes are cut short in all
  Duration,        \* duration_minutes of every session
  HoldTTL,         \* Service.holdTTL
  CheckoutWindow,  \* minCheckoutWindow
  RespondWindow,   \* respondWindow
  RespondLead,     \* respondLeadTime
  PaymentModes,    \* what payments.Provider.Enabled() says: rows of both modes may coexist
  CaptureMayBeLost,\* whether a capture may succeed and its transaction fail
  NULL             \* SQL NULL

ASSUME TimesAssumption ==
  /\ MaxTime \in Nat /\ MaxMoves \in Nat /\ MaxAborts \in Nat
  /\ Starts \subseteq Nat
  /\ Duration \in Nat \ {0}
  /\ {HoldTTL, CheckoutWindow, RespondWindow, RespondLead} \subseteq Nat

PaymentsOn  == TRUE \in PaymentModes
PaymentsOff == FALSE \in PaymentModes

ASSUME ModeAssumption ==
  /\ PaymentModes \subseteq BOOLEAN /\ CaptureMayBeLost \in BOOLEAN
  /\ NULL \notin Nat /\ NULL \notin Sessions

VARIABLES
  now,        \* the clock, read by the services and by the database
  status, pay, start, ref, holdUntil, respondBy, \* columns of the table
  applied,    \* payment_events: the webhook events already recorded
  checkout, card, events, \* the provider: hosted page, card hold, webhooks
  booking,    \* how far the BookSession call for the row has come
  answer,     \* the open transaction of a coach's confirm, if any
  moving,     \* what a coach's Reschedule call has read and not yet written
  sweep,      \* where each sweep pass is
  moves, aborts \* how much of MaxMoves and MaxAborts is used

table    == <<status, pay, start, ref, holdUntil, respondBy>>
provider == <<checkout, card, events>>
calls    == <<booking, answer, moving, moves>>
sweeps   == <<sweep, aborts>>
vars     == <<now, table, applied, provider, calls, sweeps>>

Statuses == {"none", "pending_payment", "pending", "scheduled", "declined",
             "expired", "completed", "cancelled", "no_show"}
PayStatuses == {"not_required", "pending", "authorized", "paid", "releasing",
                "released", "expiring", "failed", "refund_due", "refunded"}
\* The statuses whose rows the exclusion constraint keeps apart.
Holding == {"pending_payment", "pending", "scheduled"}
\* Payment states in which no authorisation has been recorded yet.
Unrecorded == {"pending", "expiring", "failed"}
\* Faulty variant: the sweep stops before the refunds.
StagesNoRefund == 2

\* What each stage of a sweep works off, and what its mark makes of it.
Stages  == 3
Owed    == <<"expiring", "releasing", "refund_due">>
Settled == <<"failed", "released", "refunded">>
Idle    == [at |-> "idle", stage |-> 0, todo |-> {}, row |-> NULL]
Working(stage, todo)     == [at |-> "work", stage |-> stage, todo |-> todo, row |-> NULL]
Called(stage, todo, row) == [at |-> "called", stage |-> stage, todo |-> todo, row |-> row]

Times == Nat \cup {NULL}

TypeOK ==
  /\ now \in Nat /\ moves \in Nat /\ aborts \in Nat
  /\ status \in [Sessions -> Statuses]
  /\ pay \in [Sessions -> PayStatuses]
  /\ start \in [Sessions -> Nat]
  /\ ref \in [Sessions -> BOOLEAN]
  /\ holdUntil \in [Sessions -> Times]
  /\ respondBy \in [Sessions -> Times]
  /\ events \subseteq Sessions \X {"authorized", "expired"}
  /\ applied \subseteq events
  /\ checkout \in [Sessions -> {"none", "open", "completed", "closed"}]
  /\ card \in [Sessions -> {"none", "held", "captured", "released", "refunded"}]
  /\ booking \in [Sessions -> {"none", "inserted", "created", "returned",
                               "lapsed", "failed", "crashed"}]
  /\ answer \in [Sessions -> {"none", "confirming", "captured"}]
  /\ moving \in [Sessions -> [to : Starts, was : Statuses, deadline : Times]
                               \cup {NULL}]
  /\ sweep \in [Sweepers -> [at : {"idle", "work", "called"}, stage : 0..Stages,
                             todo : SUBSET Sessions, row : Sessions \cup {NULL}]]
  /\ \A w \in Sweepers : sweep[w].at = "called" =>
       sweep[w].stage \in 1..Stages /\ sweep[w].row \in Sessions

-----------------------------------------------------------------------------
Sooner(a, b) == IF a <= b THEN a ELSE b

\* respondDeadline: RespondWindow from now but RespondLead before the start;
\* inside that lead time, the start itself.
RespondDeadline(t, begin) ==
  LET deadline == Sooner(t + RespondWindow, begin - RespondLead)
  IN  IF deadline < t THEN begin ELSE deadline

Overlap(a, b) == a < b + Duration /\ b < a + Duration

\* Faulty variant: the constraint as the first migration had it.
SlotFreeOfScheduled(s, t) ==
  \A o \in Sessions \ {s} : status[o] = "scheduled" => ~Overlap(start[o], t)

\* coaching_sessions_no_overlap, for row s starting at t.
SlotFree(s, t) ==
  \A o \in Sessions \ {s} : status[o] \in Holding => ~Overlap(start[o], t)

\* The row is not locked by the transaction of an answer.
Unlocked(s) == answer[s] = "none"

\* Faulty variants of MoneyBack: the hold is forgotten, the charge is, the
\* charge is released like a hold, a status the column does not allow.
MoneyBackNoRelease(p) == IF p = "paid" THEN "refund_due" ELSE p
MoneyBackNoRefund(p) == IF p = "authorized" THEN "releasing" ELSE p
MoneyBackReleaseAll(p) == IF p \in {"authorized", "paid"} THEN "releasing" ELSE p
MoneyBackMisspelt(p) == IF p = "authorized" THEN "release_due" ELSE p

\* What becomes of the money of a request that is declined or expires.
MoneyBack(p) == CASE p = "authorized" -> "releasing"
                  [] p = "paid"       -> "refund_due"
                  [] OTHER            -> p

Init ==
  /\ now = 0 /\ moves = 0 /\ aborts = 0
  /\ status    = [s \in Sessions |-> "none"]
  /\ pay       = [s \in Sessions |-> "not_required"]
  /\ start     = [s \in Sessions |-> 0]
  /\ ref       = [s \in Sessions |-> FALSE]
  /\ holdUntil = [s \in Sessions |-> NULL]
  /\ respondBy = [s \in Sessions |-> NULL]
  /\ events = {} /\ applied = {}
  /\ checkout  = [s \in Sessions |-> "none"]
  /\ card      = [s \in Sessions |-> "none"]
  /\ booking   = [s \in Sessions |-> "none"]
  /\ answer    = [s \in Sessions |-> "none"]
  /\ moving    = [s \in Sessions |-> NULL]
  /\ sweep     = [w \in Sweepers |-> Idle]

Tick ==
  /\ now < MaxTime
  /\ now' = now + 1
  /\ UNCHANGED <<table, applied, provider, calls, sweeps>>

-----------------------------------------------------------------------------
(* BookSession *)

CreateCoachingSession(s, t) ==
  /\ status' = [status EXCEPT ![s] = "pending"]
  /\ start' = [start EXCEPT ![s] = t]
  /\ respondBy' = [respondBy EXCEPT ![s] = RespondDeadline(now, t)]

\* Payments off: the request goes straight to the coach.
BookUnpaid(s, t) ==
  /\ PaymentsOff
  /\ booking[s] = "none"
  /\ t >= now
  /\ SlotFree(s, t)
  /\ CreateCoachingSession(s, t)
  /\ booking' = [booking EXCEPT ![s] = "returned"]
  /\ UNCHANGED <<now, pay, ref, holdUntil, applied, provider, answer, moving,
                 moves, sweeps>>

CreatePendingPaymentSession(s, t) ==
  /\ status' = [status EXCEPT ![s] = "pending_payment"]
  /\ pay' = [pay EXCEPT ![s] = "pending"]
  /\ start' = [start EXCEPT ![s] = t]
  /\ holdUntil' = [holdUntil EXCEPT ![s] = Sooner(now + HoldTTL, t)]

\* bookPaid, up to the insert of the hold.
InsertHold(s, t) ==
  /\ PaymentsOn
  /\ booking[s] = "none"
  /\ t - now >= CheckoutWindow
  /\ SlotFree(s, t)
  /\ CreatePendingPaymentSession(s, t)
  /\ booking' = [booking EXCEPT ![s] = "inserted"]
  /\ UNCHANGED <<now, ref, respondBy, applied, provider, answer, moving, moves,
                 sweeps>>

CreateCheckout(s) ==
  /\ booking[s] = "inserted"
  /\ booking' = [booking EXCEPT ![s] = "created"]
  /\ checkout' = [checkout EXCEPT ![s] = "open"]
  /\ UNCHANGED <<now, table, applied, card, events, answer, moving, moves,
                 sweeps>>

\* CancelPendingPaymentSession: the checkout is closed or was never created.
CancelHold(s) ==
  IF status[s] = "pending_payment"
  THEN /\ status' = [status EXCEPT ![s] = "cancelled"]
       /\ pay' = [pay EXCEPT ![s] = "failed"]
  ELSE UNCHANGED <<status, pay>>

\* The provider refuses the checkout: the hold is released.
CheckoutFails(s) ==
  /\ booking[s] = "inserted"
  /\ CancelHold(s)
  /\ booking' = [booking EXCEPT ![s] = "failed"]
  /\ UNCHANGED <<now, start, ref, holdUntil, respondBy, applied, provider,
                 answer, moving, moves, sweeps>>

\* The write of AttachCheckout: a hold already gone leaves clean-up owed.
AttachRef(s) ==
  /\ ref' = [ref EXCEPT ![s] = TRUE]
  /\ pay' = [pay EXCEPT ![s] =
               IF status[s] = "pending_payment" THEN @ ELSE "expiring"]

\* The reference is stored; only if the hold still stands does the client get
\* the URL.
AttachCheckout(s) ==
  /\ booking[s] = "created"
  /\ AttachRef(s)
  /\ booking' = [booking EXCEPT ![s] =
                   IF status[s] = "pending_payment" THEN "returned" ELSE "lapsed"]
  /\ UNCHANGED <<now, status, start, holdUntil, respondBy, applied, provider,
                 answer, moving, moves, sweeps>>

\* The provider closes an open page and reports it; a page that was completed
\* or closed before is left alone.
ClosePage(s) ==
  IF checkout[s] = "open"
  THEN /\ checkout' = [checkout EXCEPT ![s] = "closed"]
       /\ events' = events \cup {<<s, "expired">>}
  ELSE UNCHANGED <<checkout, events>>

\* AttachCheckout reports an error, its write lost or not.  The page is closed;
\* the clean-up that should release the hold names the row returned by the
\* failed query, which is the zero id, so it changes nothing.
AttachFails(s) ==
  /\ booking[s] = "created"
  /\ AttachRef(s) \/ UNCHANGED <<ref, pay>>
  /\ ClosePage(s) \/ UNCHANGED <<checkout, events>>
  /\ booking' = [booking EXCEPT ![s] = "failed"]
  /\ UNCHANGED <<now, status, start, holdUntil, respondBy, applied, card,
                 answer, moving, moves, sweeps>>

\* MarkCheckoutExpired.
MarkExpired(s) ==
  pay' = [pay EXCEPT ![s] = IF @ = "expiring" THEN "failed" ELSE @]

\* The hold lapsed before the reference was stored: the page is closed at once.
CloseLapsed(s) ==
  /\ booking[s] = "lapsed"
  /\ ClosePage(s)
  /\ MarkExpired(s)
  /\ booking' = [booking EXCEPT ![s] = "failed"]
  /\ UNCHANGED <<now, status, start, ref, holdUntil, respondBy, applied, card,
                 answer, moving, moves, sweeps>>

\* The API process dies in the middle of bookPaid, or its clean-up fails.
BookCrash(s) ==
  /\ booking[s] \in {"inserted", "created", "lapsed"}
  /\ booking' = [booking EXCEPT ![s] = "crashed"]
  /\ UNCHANGED <<now, table, applied, provider, answer, moving, moves, sweeps>>

-----------------------------------------------------------------------------
(* The provider, its customer and its webhooks *)

\* The client completes the hosted page they were sent to.
Authorise(s) ==
  /\ booking[s] = "returned"
  /\ checkout[s] = "open"
  /\ checkout' = [checkout EXCEPT ![s] = "completed"]
  /\ card' = [card EXCEPT ![s] = "held"]
  /\ events' = events \cup {<<s, "authorized">>}
  /\ UNCHANGED <<now, table, applied, calls, sweeps>>

\* The page's own ExpiresAt.
PageExpires(s) ==
  /\ checkout[s] = "open"
  /\ ClosePage(s)
  /\ UNCHANGED <<now, table, applied, card, calls, sweeps>>

\* The row is found once its reference is stored, and waited for while locked.
GetSessionByPaymentRefForUpdate(s) == ref[s] /\ Unlocked(s)

\* RecordPaymentEvent finds the event new.
NewEvent(s, kind) ==
  /\ <<s, kind>> \in events \ applied
  /\ GetSessionByPaymentRefForUpdate(s)
  /\ applied' = applied \cup {<<s, kind>>}

\* AuthorizeSession and ReinstateAuthorizedSession: the coach is asked.
RequestCoach(s) ==
  /\ status' = [status EXCEPT ![s] = "pending"]
  /\ pay' = [pay EXCEPT ![s] = "authorized"]
  /\ holdUntil' = [holdUntil EXCEPT ![s] = NULL]
  /\ respondBy' = [respondBy EXCEPT ![s] = RespondDeadline(now, start[s])]

\* The lapsed hold ReinstateAuthorizedSession may bring back.
Revivable(s) ==
  /\ status[s] = "expired" /\ holdUntil[s] # NULL /\ pay[s] \in Unrecorded
  /\ SlotFree(s, start[s])

\* Faulty variant: a checkout the sweeper already closed is not expected to
\* have been authorised.
MarkToReleaseNotFailed(s) ==
  pay' = [pay EXCEPT ![s] =
            IF /\ status[s] \notin {"pending", "scheduled"}
               /\ @ \in {"pending", "expiring", "authorized"}
            THEN "releasing" ELSE @]

\* MarkAuthorizationToRelease.
MarkToRelease(s) ==
  pay' = [pay EXCEPT ![s] =
            IF /\ status[s] \notin {"pending", "scheduled"}
               /\ @ \in Unrecorded \cup {"authorized"}
            THEN "releasing" ELSE @]

\* The session has started: the hold is over and its money owed back.
ExpireLateAuthorizedHold(s) ==
  /\ status[s] = "pending_payment"
  /\ status' = [status EXCEPT ![s] = "expired"]
  /\ pay' = [pay EXCEPT ![s] = "releasing"]

\* ApplyPaymentEvent of an authorisation.
ApplyAuthorized(s) ==
  /\ NewEvent(s, "authorized")
  /\ \/ /\ start[s] > now
        /\ status[s] = "pending_payment" \/ Revivable(s)
        /\ RequestCoach(s)
     \/ /\ start[s] <= now
        /\ ExpireLateAuthorizedHold(s)
        /\ UNCHANGED <<holdUntil, respondBy>>
     \/ /\ status[s] # "pending_payment"
        /\ start[s] <= now \/ ~Revivable(s)
        /\ MarkToRelease(s)
        /\ UNCHANGED <<status, holdUntil, respondBy>>
  /\ UNCHANGED <<now, start, ref, provider, calls, sweeps>>

\* ApplyPaymentEvent of a page that expired.
ApplyExpired(s) ==
  /\ NewEvent(s, "expired")
  /\ CancelHold(s)
  /\ UNCHANGED <<now, start, ref, holdUntil, respondBy, provider, calls, sweeps>>

-----------------------------------------------------------------------------
(* The coach's answer: respond, and ExpirePending for the missing answer *)

\* The condition ConfirmSession and DeclineSession update under.
Answerable(s) ==
  /\ status[s] = "pending" /\ Unlocked(s)
  /\ respondBy[s] = NULL \/ respondBy[s] >= now

ConfirmSession(s) ==
  /\ status' = [status EXCEPT ![s] = "scheduled"]
  /\ respondBy' = [respondBy EXCEPT ![s] = NULL]

MarkSessionCaptured(s) ==
  pay' = [pay EXCEPT ![s] = IF @ = "authorized" THEN "paid" ELSE @]

\* Faulty variant: every confirm is one transaction, captured or not.
ConfirmUncaptured(s) ==
  /\ Answerable(s)
  /\ ConfirmSession(s)
  /\ UNCHANGED <<now, pay, start, ref, holdUntil, applied, provider, calls, sweeps>>

\* Nothing to capture: the confirm is one transaction.
Confirm(s) ==
  /\ Answerable(s)
  /\ pay[s] # "authorized"
  /\ ConfirmSession(s)
  /\ UNCHANGED <<now, pay, start, ref, holdUntil, applied, provider, calls, sweeps>>

\* The confirm has updated the row and holds its lock; the capture is next.
BeginConfirm(s) ==
  /\ Answerable(s)
  /\ pay[s] = "authorized"
  /\ answer' = [answer EXCEPT ![s] = "confirming"]
  /\ UNCHANGED <<now, table, applied, provider, booking, moving, moves, sweeps>>

\* Provider.Capture, idempotent by the session id.
Capture(s) ==
  /\ answer[s] = "confirming"
  /\ ref[s] /\ card[s] \in {"held", "captured"}
  /\ card' = [card EXCEPT ![s] = "captured"]
  /\ answer' = [answer EXCEPT ![s] = "captured"]
  /\ UNCHANGED <<now, table, applied, checkout, events, booking, moving, moves,
                 sweeps>>

CommitConfirm(s) ==
  /\ answer[s] = "captured"
  /\ ConfirmSession(s) /\ MarkSessionCaptured(s)
  /\ answer' = [answer EXCEPT ![s] = "none"]
  /\ UNCHANGED <<now, start, ref, holdUntil, applied, provider, booking, moving,
                 moves, sweeps>>

\* The capture fails, or the process or the commit does: all is rolled back,
\* except a capture that already went through.
RollbackConfirm(s) ==
  /\ answer[s] = "confirming" \/ (CaptureMayBeLost /\ answer[s] = "captured")
  /\ answer' = [answer EXCEPT ![s] = "none"]
  /\ UNCHANGED <<now, table, applied, provider, booking, moving, moves, sweeps>>

DeclineSession(s) ==
  /\ status' = [status EXCEPT ![s] = "declined"]
  /\ pay' = [pay EXCEPT ![s] = MoneyBack(@)]
  /\ respondBy' = [respondBy EXCEPT ![s] = NULL]

Decline(s) ==
  /\ Answerable(s)
  /\ DeclineSession(s)
  /\ UNCHANGED <<now, start, ref, holdUntil, applied, provider, calls, sweeps>>

\* ExpirePendingSessions skips the rows an answer has locked.
Overdue(s) ==
  /\ status[s] = "pending" /\ Unlocked(s)
  /\ respondBy[s] # NULL /\ respondBy[s] < now

ExpirePending ==
  /\ \E s \in Sessions : Overdue(s)
  /\ status' = [s \in Sessions |-> IF Overdue(s) THEN "expired" ELSE status[s]]
  /\ pay' = [s \in Sessions |-> IF Overdue(s) THEN MoneyBack(pay[s]) ELSE pay[s]]
  /\ UNCHANGED <<now, start, ref, holdUntil, respondBy, applied, provider, calls,
                 sweeps>>

-----------------------------------------------------------------------------
(* SetStatus and Reschedule *)

\* The checkout may be open: closing it is owed.  No hold is left to revive.
ReleasePendingPaymentSession(s) ==
  /\ status[s] = "pending_payment"
  /\ status' = [status EXCEPT ![s] = "cancelled"]
  /\ pay' = [pay EXCEPT ![s] = IF ref[s] THEN "expiring" ELSE "failed"]
  /\ holdUntil' = [holdUntil EXCEPT ![s] = NULL]

\* A participant walks away from the payment page.
CancelUnpaid(s) ==
  /\ ReleasePendingPaymentSession(s)
  /\ UNCHANGED <<now, start, ref, respondBy, applied, provider, calls, sweeps>>

UpdateSessionStatus(s, to) ==
  /\ status' = [status EXCEPT ![s] = to]
  /\ pay' = [pay EXCEPT ![s] =
               IF to = "cancelled" /\ @ = "authorized" THEN "releasing" ELSE @]

\* Only along statusTransitions.
SetStatus(s, to) ==
  /\ \/ status[s] \in {"pending", "scheduled"} /\ to = "cancelled"
     \/ status[s] = "scheduled" /\ to \in {"completed", "no_show"}
  /\ Unlocked(s)
  /\ UpdateSessionStatus(s, to)
  /\ UNCHANGED <<now, start, ref, holdUntil, respondBy, applied, provider, calls,
                 sweeps>>

Movable(s, t) ==
  /\ status[s] \in {"pending", "scheduled"}
  /\ t >= now
  /\ moves < MaxMoves

\* Only if the row still has the status the caller read.
RescheduleSession(s, was, t, to, deadline) ==
  /\ Unlocked(s) /\ status[s] = was /\ SlotFree(s, t)
  /\ start' = [start EXCEPT ![s] = t]
  /\ status' = [status EXCEPT ![s] = to]
  /\ respondBy' = [respondBy EXCEPT ![s] = deadline]

\* The client's move asks the coach again.
ClientReschedule(s, t) ==
  /\ Movable(s, t)
  /\ RescheduleSession(s, status[s], t, "pending", RespondDeadline(now, t))
  /\ moves' = moves + 1
  /\ UNCHANGED <<now, pay, ref, holdUntil, applied, provider, booking, answer,
                 moving, sweeps>>

\* The coach's move reads the row outside its transaction ...
CoachReadsSession(s, t) ==
  /\ Movable(s, t)
  /\ moving[s] = NULL
  /\ moving' = [moving EXCEPT ![s] =
                  [to |-> t, was |-> status[s], deadline |-> respondBy[s]]]
  /\ moves' = moves + 1
  /\ UNCHANGED <<now, table, applied, provider, booking, answer, sweeps>>

\* ... and writes the deadline it read, if the status is still the same.
CoachReschedules(s) ==
  /\ moving[s] # NULL
  /\ moving' = [moving EXCEPT ![s] = NULL]
  /\ \/ RescheduleSession(s, moving[s].was, moving[s].to, moving[s].was, moving[s].deadline)
     \/ UNCHANGED <<start, status, respondBy>>   \* refused, or the call failed
  /\ UNCHANGED <<now, pay, ref, holdUntil, applied, provider, booking,
                 answer, moves, sweeps>>

-----------------------------------------------------------------------------
(* SweepPayments *)

\* Faulty variant: a hold without a checkout is taken for one still being made.
LapsedWithRef(s) ==
  /\ status[s] = "pending_payment" /\ ref[s]
  /\ holdUntil[s] # NULL /\ holdUntil[s] < now

\* ExpirePaymentHolds, one statement over all rows.
Lapsed(s) ==
  /\ status[s] = "pending_payment"
  /\ holdUntil[s] # NULL /\ holdUntil[s] < now

SweepHolds(w) ==
  /\ PaymentsOn     \* the worker runs no sweep otherwise
  /\ sweep[w].at = "idle"
  /\ status' = [s \in Sessions |-> IF Lapsed(s) THEN "expired" ELSE status[s]]
  /\ pay' = [s \in Sessions |->
               IF ~Lapsed(s) THEN pay[s]
               ELSE IF ref[s] THEN "expiring" ELSE "failed"]
  /\ sweep' = [sweep EXCEPT ![w] = Working(0, {})]
  /\ UNCHANGED <<now, start, ref, holdUntil, respondBy, applied, provider, calls,
                 aborts>>

ListCheckoutsToExpire == {s \in Sessions : pay[s] = "expiring" /\ ref[s]}

\* Faulty variant: live authorisations are listed too.
ListLiveAuthorizations == {s \in Sessions : pay[s] \in {"authorized", "releasing"} /\ ref[s]}

ListAuthorizationsToRelease == {s \in Sessions : pay[s] = "releasing" /\ ref[s]}
ListRefundsDue == {s \in Sessions : pay[s] = "refund_due" /\ ref[s]}

Listed(stage) == CASE stage = 1 -> ListCheckoutsToExpire
                   [] stage = 2 -> ListAuthorizationsToRelease
                   [] stage = 3 -> ListRefundsDue

\* The rows of the next stage are listed once; the pass ends after the last.
SweepList(w) ==
  /\ sweep[w].at = "work" /\ sweep[w].todo = {}
  /\ LET next == sweep[w].stage + 1
     IN  sweep' = [sweep EXCEPT ![w] =
           IF next > Stages THEN Idle
           ELSE Working(next, Listed(next))]
  /\ UNCHANGED <<now, table, applied, provider, calls, aborts>>

\* What the provider does for a listed row: ExpireCheckout, Release or Refund.
ProviderCleanup(s, stage) ==
  \/ stage = 1 /\ ClosePage(s) /\ UNCHANGED card
  \/ /\ stage = 2
     /\ card' = [card EXCEPT ![s] = IF @ = "held" THEN "released" ELSE @]
     /\ UNCHANGED <<checkout, events>>
  \/ /\ stage = 3
     /\ card' = [card EXCEPT ![s] = IF @ = "captured" THEN "refunded" ELSE @]
     /\ UNCHANGED <<checkout, events>>

SweepCall(w, s) ==
  /\ sweep[w].at = "work" /\ s \in sweep[w].todo
  /\ ProviderCleanup(s, sweep[w].stage)
  /\ sweep' = [sweep EXCEPT ![w] = Called(@.stage, @.todo, s)]
  /\ UNCHANGED <<now, table, applied, calls, aborts>>

\* MarkCheckoutExpired, MarkAuthorizationReleased, MarkSessionRefunded.
SweepMark(w) ==
  /\ sweep[w].at = "called"
  /\ LET s == sweep[w].row  stage == sweep[w].stage
     IN  /\ pay' = [pay EXCEPT ![s] = IF @ = Owed[stage] THEN Settled[stage] ELSE @]
         /\ sweep' = [sweep EXCEPT ![w] = Working(stage, @.todo \ {s})]
  /\ UNCHANGED <<now, status, start, ref, holdUntil, respondBy, applied,
                 provider, calls, aborts>>

\* The provider or the database fails, or the worker dies: the pass ends.
SweepAbort(w) ==
  /\ sweep[w].at # "idle"
  /\ aborts < MaxAborts
  /\ sweep' = [sweep EXCEPT ![w] = Idle]
  /\ aborts' = aborts + 1
  /\ UNCHANGED <<now, table, applied, provider, calls>>

-----------------------------------------------------------------------------
BookStep(s) ==
  \/ \E t \in Starts : BookUnpaid(s, t) \/ InsertHold(s, t)
  \/ CreateCheckout(s) \/ CheckoutFails(s)
  \/ AttachCheckout(s) \/ AttachFails(s)
  \/ CloseLapsed(s) \/ BookCrash(s)

ProviderStep(s) == Authorise(s) \/ PageExpires(s)

WebhookStep(s) == ApplyAuthorized(s) \/ ApplyExpired(s)

AnswerStep(s) ==
  \/ Confirm(s) \/ BeginConfirm(s) \/ Capture(s)
  \/ CommitConfirm(s) \/ RollbackConfirm(s) \/ Decline(s)

ParticipantStep(s) ==
  \/ CancelUnpaid(s)
  \/ \E to \in {"cancelled", "completed", "no_show"} : SetStatus(s, to)
  \/ \E t \in Starts : ClientReschedule(s, t) \/ CoachReadsSession(s, t)
  \/ CoachReschedules(s)

SweepStep(w) ==
  \/ SweepHolds(w) \/ SweepList(w)
  \/ \E s \in Sessions : SweepCall(w, s)
  \/ SweepMark(w) \/ SweepAbort(w)

Next ==
  \/ Tick
  \/ ExpirePending
  \/ \E s \in Sessions : \/ BookStep(s) \/ ProviderStep(s) \/ WebhookStep(s)
                         \/ AnswerStep(s) \/ ParticipantStep(s)
  \/ \E w \in Sweepers : SweepStep(w)

Spec == Init /\ [][Next]_vars

\* Timers fire, webhooks are redelivered until they are taken, an open answer
\* ends one way or the other and a sweep goes on; no person has to act.
SweepProgress(w) ==
  SweepHolds(w) \/ SweepList(w) \/ SweepMark(w) \/ \E s \in Sessions : SweepCall(w, s)

Fairness ==
  /\ WF_vars(Tick) /\ WF_vars(ExpirePending)
  /\ \A s \in Sessions : /\ WF_vars(WebhookStep(s))
                         /\ WF_vars(Capture(s) \/ RollbackConfirm(s))
                         /\ WF_vars(CommitConfirm(s))
  /\ \A w \in Sweepers : WF_vars(SweepProgress(w))

FairSpec == Spec /\ Fairness

-----------------------------------------------------------------------------
(* What the runs check *)

\* The inductive invariant behind the money properties, in named parts.
Announced(s) == <<s, "authorized">> \in events
Known(s)     == <<s, "authorized">> \in applied

\* How far the booking call is bounds what the row and the provider hold.
BookedSoFar(s) ==
  /\ booking[s] = "none" <=> status[s] = "none"
  /\ booking[s] \in {"none", "inserted"} => checkout[s] = "none"
  /\ booking[s] \in {"none", "inserted", "created"} => ~ref[s]
  /\ booking[s] \in {"inserted", "created"} => pay[s] \in {"pending", "failed"}
  /\ card[s] # "none" => booking[s] = "returned" /\ checkout[s] = "completed"
  /\ card[s] # "none" <=> Announced(s)

\* The two status columns agree; without payments nothing is ever owed.
ColumnsAgree(s) ==
  /\ status[s] = "none" => pay[s] = "not_required"
  /\ pay[s] = "not_required" => checkout[s] = "none" /\ (status[s] = "none" \/ PaymentsOff)
  /\ status[s] = "pending_payment" => pay[s] = "pending"
  /\ status[s] = "pending" => pay[s] \in {"authorized", "paid", "not_required"}
  /\ status[s] \in {"scheduled", "completed", "no_show"} => pay[s] \in {"paid", "not_required"}
  /\ pay[s] = "authorized" => status[s] = "pending"
  /\ pay[s] = "paid" => status[s] \notin {"none", "declined", "expired"}

\* What the payment status says of the card at the provider.
CardMatches(s) ==
  /\ Known(s) => pay[s] \notin Unrecorded
  /\ Announced(s) /\ ~Known(s) => pay[s] \in Unrecorded
  /\ pay[s] = "not_required" => card[s] = "none"
  /\ pay[s] \in Unrecorded => card[s] \in {"none", "held"}
  /\ pay[s] = "authorized" =>
       card[s] = "held" \/ (card[s] = "captured" /\ (answer[s] = "captured" \/ CaptureMayBeLost))
  /\ pay[s] = "paid" => card[s] = "captured"
  /\ pay[s] = "releasing" => card[s] \in {"held", "released"} \/ (card[s] = "captured" /\ CaptureMayBeLost)
  /\ pay[s] = "released" => card[s] = "released" \/ (card[s] = "captured" /\ CaptureMayBeLost)
  /\ pay[s] = "refund_due" => card[s] \in {"captured", "refunded"}
  /\ pay[s] = "refunded" => card[s] = "refunded"

\* An open answer keeps its row as it found it.
AnswerHolds(s) ==
  /\ answer[s] # "none" => status[s] = "pending" /\ pay[s] = "authorized"
  /\ answer[s] = "captured" => card[s] = "captured"

\* A sweep's list may be stale, but only in rows that are settled by now.
ListIsOwed(w) ==
  /\ sweep[w].stage = 0 => sweep[w].todo = {}
  /\ sweep[w].stage = 2 => \A s \in sweep[w].todo : pay[s] \in {"releasing", "released"}
  /\ sweep[w].stage = 3 => \A s \in sweep[w].todo : pay[s] \in {"refund_due", "refunded"}

\* Between the provider call and its mark, the call has taken effect.
CallIsDone(w) == sweep[w].at = "called" =>
  /\ sweep[w].row \in sweep[w].todo
  /\ sweep[w].stage = 2 => card[sweep[w].row] # "held"
  /\ sweep[w].stage = 3 => card[sweep[w].row] # "captured"

\* However bookings, webhooks, answers and sweeps interleave, row, webhook log,
\* provider and sweep lists tell one story of each session's money.
BooksAgree ==
  /\ \A s \in Sessions : BookedSoFar(s) /\ ColumnsAgree(s) /\ CardMatches(s) /\ AnswerHolds(s)
  /\ \A w \in Sweepers : ListIsOwed(w) /\ CallIsDone(w)

\* Every card hold is either in a request the coach can still answer, owed a
\* release, or in a webhook the service has yet to record: a late, early or
\* repeated event, a lapse and a cancel never leave a hold nobody will settle
\* (payment.go, ApplyPaymentEvent and SweepPayments).
HoldIsAccountedFor ==
  \A s \in Sessions : card[s] = "held" =>
    \/ pay[s] = "releasing" \/ (pay[s] = "authorized" /\ status[s] = "pending")
    \/ <<s, "authorized">> \in events \ applied

\* The row was booked while payments were off, and no page was ever made for it.
BookedUnpaid(s) ==
  PaymentsOff /\ pay[s] = "not_required" /\ checkout[s] = "none"

\* No session is held, or was held, without its payment having been captured,
\* whatever moves, second answers and lost answers came before.
ScheduledIsPaid ==
  \A s \in Sessions : status[s] \in {"scheduled", "completed", "no_show"} =>
    (pay[s] = "paid" /\ card[s] = "captured") \/ BookedUnpaid(s)

\* The coach is asked only about requests whose money is still there: no sweep
\* with an old list releases or refunds the card of a live request.
RequestIsBacked ==
  \A s \in Sessions : status[s] = "pending" =>
    \/ pay[s] = "authorized" /\ card[s] \in {"held", "captured"}
    \/ pay[s] = "paid" /\ card[s] = "captured"
    \/ BookedUnpaid(s)

\* A client is charged only for a session the coach agreed to, or the money is
\* owed back; the one exception is an answer that is just being committed.  A
\* session cancelled after the coach agreed stays paid.
ChargeIsAccountedFor ==
  \A s \in Sessions : card[s] = "captured" =>
    \/ pay[s] = "refund_due" \/ answer[s] = "captured"
    \/ pay[s] = "paid" /\ status[s] \notin {"declined", "expired"}

\* What a sweep has recorded as settled is so at the provider.
SettledIsTrue ==
  \A s \in Sessions : /\ pay[s] = "released" => card[s] = "released"
                      /\ pay[s] = "refunded" => card[s] = "refunded"

\* Two live sessions of a coach never overlap, whichever of booking, revival of
\* a lapsed hold and the two kinds of move put them where they are.
NoDoubleBooking ==
  \A s, o \in Sessions :
    s # o /\ {status[s], status[o]} \subseteq Holding => ~Overlap(start[s], start[o])

\* A session that is over stays over; only a hold that timed out before its
\* authorisation was recorded may come back (ReinstateAuthorizedSession).
Over(s) ==
  \/ status[s] \in {"declined", "cancelled", "completed", "no_show"}
  \/ status[s] = "expired" /\ pay[s] \notin Unrecorded
OverIsFinal == [][\A s \in Sessions : Over(s) => Over(s)']_vars

\* As long as no capture is lost, all this keeps the promise made to the client, whether or
\* not payments were on when other rows were booked.  A lapsed hold that may still be revived
\* has not come to anything yet, and a row booked without payment is not in the promise.
Money(s) == CASE card[s] = "captured" -> "charged"
              [] card[s] \in {"released", "refunded"} -> "returned"
              [] OTHER -> card[s]
Meeting(s) ==
  CASE \/ status[s] \in {"none", "pending_payment"} \/ pay[s] = "not_required"
       \/ status[s] = "expired" /\ pay[s] \in Unrecorded  -> "none"
    [] status[s] = "pending" /\ pay[s] = "authorized"      -> "asked"
    [] status[s] = "pending" /\ pay[s] = "paid"            -> "reasked"
    [] status[s] = "scheduled" /\ pay[s] # "not_required"  -> "agreed"
    [] OTHER                                               -> "over"
Promise == INSTANCE BookingPromise
  WITH money <- [s \in Sessions |-> Money(s)], meeting <- [s \in Sessions |-> Meeting(s)]
KeepsPromise == Promise!Spec

\* Every card hold ends as a charge or a release, with no person doing anything.
HoldsEnd ==
  \A s \in Sessions : card[s] = "held" ~> card[s] \in {"captured", "released"}

\* Every refund that is owed is issued.
RefundsEnd ==
  \A s \in Sessions : pay[s] = "refund_due" ~> card[s] = "refunded"

\* No session keeps its slot for ever without being agreed: holds lapse and
\* unanswered requests expire.
UndecidedEnds ==
  \A s \in Sessions : status[s] \in {"pending_payment", "pending"} ~>
    status[s] \notin {"pending_payment", "pending"}

\* payment.go:34-36, "If the checkout cannot be started, or its reference cannot
\* be stored, the hold is released again".  The code does not keep this: see AttachFails.
FailedBookingReleasesHold ==
  \A s \in Sessions : booking[s] = "failed" => status[s] # "pending_payment"

\* service.go:51-52, a coach may answer "never later than respondLeadTime before
\* the session starts"; respondDeadline relaxes that to the start itself.  The code
\* does not keep it: a coach's move to an earlier time keeps the old deadline.
AnswerBeforeStart ==
  \A s \in Sessions : status[s] = "pending" => respondBy[s] <= start[s]

\* 000007_payments.up.sql:4-5, the authorisation is "captured when the coach
\* confirms and released when they decline or the request expires".  With a capture
\* whose transaction is lost the code does not keep this.
DeclinedIsNotCharged ==
  \A s \in Sessions : status[s] \in {"declined", "expired"} /\ card[s] = "captured" =>
    pay[s] = "refund_due"
=============================================================================
