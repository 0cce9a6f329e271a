-------------------------- MODULE PaidBooking_proofs --------------------------
(***************************************************************************)
(* Theorems of PaidBooking, for any number of sessions, workers and        *)
(* times.  BooksAgree is the inductive invariant the money properties      *)
(* follow from.                                                            *)
(***************************************************************************)
EXTENDS PaidBooking, TLAPS

\* respondDeadline returns a time whenever the session is not over already.
LEMMA DeadlineIsTime ==
  ASSUME NEW t \in Nat, NEW begin \in Nat
  PROVE  RespondDeadline(t, begin) \in Nat
  BY TimesAssumption DEF RespondDeadline, Sooner

\* The statements an action runs are expanded with it.
USE DEF CreateCoachingSession, CreatePendingPaymentSession, GetSessionByPaymentRefForUpdate,
        ExpireLateAuthorizedHold, ConfirmSession, MarkSessionCaptured, DeclineSession,
        ReleasePendingPaymentSession, UpdateSessionStatus, RescheduleSession,
        ListCheckoutsToExpire, ListAuthorizationsToRelease, ListRefundsDue, Listed

\* The statuses of money moves stay within the column's check constraint.
LEMMA MoneyBackType ==
  ASSUME NEW p \in PayStatuses
  PROVE  MoneyBack(p) \in PayStatuses
  BY DEF MoneyBack, PayStatuses

\* A booking call writes values the columns allow.
LEMMA BookStepType ==
  ASSUME TypeOK, NEW s \in Sessions, BookStep(s)
  PROVE  TypeOK'
<1> USE DEF TypeOK, table, provider, sweeps
<1>1. ASSUME NEW t \in Starts, BookUnpaid(s, t) PROVE TypeOK'
  <2>1. RespondDeadline(now, t) \in Nat
    BY DeadlineIsTime, TimesAssumption
  <2> QED
    BY <1>1, <2>1, TimesAssumption DEF BookUnpaid, Times, Statuses
<1>2. ASSUME NEW t \in Starts, InsertHold(s, t) PROVE TypeOK'
  BY <1>2, TimesAssumption DEF InsertHold, Times, Statuses, PayStatuses, Sooner
<1>3. CASE CreateCheckout(s)
  BY <1>3 DEF CreateCheckout
<1>4. CASE CheckoutFails(s)
  BY <1>4 DEF CheckoutFails, CancelHold, Statuses, PayStatuses
<1>5. CASE AttachCheckout(s)
  BY <1>5 DEF AttachCheckout, AttachRef, PayStatuses
<1>6. CASE AttachFails(s)
  <2>1. AttachRef(s) \/ UNCHANGED <<ref, pay>>
    BY <1>6 DEF AttachFails
  <2>2. ref' \in [Sessions -> BOOLEAN] /\ pay' \in [Sessions -> PayStatuses]
    BY <2>1 DEF AttachRef, PayStatuses
  <2>3. /\ checkout' \in [Sessions -> {"none", "open", "completed", "closed"}]
        /\ events' \subseteq Sessions \X {"authorized", "expired"} /\ events \subseteq events'
    BY <1>6 DEF AttachFails, ClosePage
  <2> QED
    BY <1>6, <2>2, <2>3 DEF AttachFails
<1>7. CASE CloseLapsed(s)
  BY <1>7 DEF CloseLapsed, ClosePage, MarkExpired, PayStatuses
<1>8. CASE BookCrash(s)
  BY <1>8 DEF BookCrash
<1> QED
  BY <1>1, <1>2, <1>3, <1>4, <1>5, <1>6, <1>7, <1>8 DEF BookStep

\* So do the provider and its webhooks.
LEMMA WebhookType ==
  ASSUME TypeOK, NEW s \in Sessions, ProviderStep(s) \/ WebhookStep(s)
  PROVE  TypeOK'
<1> USE DEF TypeOK, table, provider, calls, sweeps
<1>1. CASE Authorise(s)
  BY <1>1 DEF Authorise
<1>2. CASE PageExpires(s)
  BY <1>2 DEF PageExpires, ClosePage
<1>3. CASE ApplyAuthorized(s)
  <2>1. RespondDeadline(now, start[s]) \in Nat
    BY DeadlineIsTime
  <2>2. /\ status' \in [Sessions -> Statuses] /\ pay' \in [Sessions -> PayStatuses]
        /\ holdUntil' \in [Sessions -> Times] /\ respondBy' \in [Sessions -> Times]
    BY <1>3, <2>1 DEF ApplyAuthorized, RequestCoach, MarkToRelease, Statuses,
                      PayStatuses, Times
  <2> QED
    BY <1>3, <2>2 DEF ApplyAuthorized, NewEvent
<1>4. CASE ApplyExpired(s)
  <2>1. status' \in [Sessions -> Statuses] /\ pay' \in [Sessions -> PayStatuses]
    BY <1>4 DEF ApplyExpired, CancelHold, Statuses, PayStatuses
  <2>2. applied' \subseteq events
    BY <1>4 DEF ApplyExpired, NewEvent
  <2> QED
    BY <1>4, <2>1, <2>2 DEF ApplyExpired
<1> QED
  BY <1>1, <1>2, <1>3, <1>4 DEF ProviderStep, WebhookStep

\* So do the coach's answers and the expiry of the unanswered.
LEMMA AnswerType ==
  ASSUME TypeOK, ExpirePending \/ \E s \in Sessions : AnswerStep(s)
  PROVE  TypeOK'
<1> USE DEF TypeOK, table, provider, calls, sweeps, Statuses, PayStatuses, Times
<1>1. CASE ExpirePending
  <2> HIDE DEF Statuses, PayStatuses, Times
  <2>1. \A s \in Sessions : MoneyBack(pay[s]) \in PayStatuses
    BY MoneyBackType
  <2>2. pay' \in [Sessions -> PayStatuses]
    BY <1>1, <2>1 DEF ExpirePending
  <2>3. status' \in [Sessions -> Statuses]
    BY <1>1 DEF ExpirePending, Statuses
  <2> QED
    BY <1>1, <2>2, <2>3 DEF ExpirePending
<1>2. ASSUME NEW s \in Sessions, AnswerStep(s) PROVE TypeOK'
  <2>1. CASE Confirm(s)
    BY <2>1 DEF Confirm
  <2>2. CASE BeginConfirm(s)
    BY <2>2 DEF BeginConfirm
  <2>3. CASE Capture(s)
    BY <2>3 DEF Capture
  <2>4. CASE CommitConfirm(s)
    BY <2>4 DEF CommitConfirm
  <2>5. CASE RollbackConfirm(s)
    BY <2>5 DEF RollbackConfirm
  <2>6. CASE Decline(s)
    BY <2>6, MoneyBackType DEF Decline
  <2> QED
    BY <1>2, <2>1, <2>2, <2>3, <2>4, <2>5, <2>6 DEF AnswerStep
<1> QED
  BY <1>1, <1>2

\* So do cancels and moves.
LEMMA ParticipantType ==
  ASSUME TypeOK, NEW s \in Sessions, ParticipantStep(s)
  PROVE  TypeOK'
<1> USE DEF TypeOK, table, provider, calls, sweeps
<1>1. CASE CancelUnpaid(s)
  BY <1>1 DEF CancelUnpaid, Statuses, PayStatuses, Times
<1>2. ASSUME NEW to \in {"cancelled", "completed", "no_show"}, SetStatus(s, to)
      PROVE  TypeOK'
  BY <1>2 DEF SetStatus, Statuses, PayStatuses
<1>3. ASSUME NEW t \in Starts, ClientReschedule(s, t) PROVE TypeOK'
  <2>1. RespondDeadline(now, t) \in Nat
    BY DeadlineIsTime, TimesAssumption
  <2> QED
    BY <1>3, <2>1, TimesAssumption DEF ClientReschedule, Statuses, Times
<1>4. ASSUME NEW t \in Starts, CoachReadsSession(s, t) PROVE TypeOK'
  BY <1>4 DEF CoachReadsSession
<1>5. CASE CoachReschedules(s)
  BY <1>5, TimesAssumption DEF CoachReschedules
<1> QED
  BY <1>1, <1>2, <1>3, <1>4, <1>5 DEF ParticipantStep

\* So do the sweeps.
LEMMA SweepType ==
  ASSUME TypeOK, NEW w \in Sweepers, SweepStep(w)
  PROVE  TypeOK'
<1> USE DEF TypeOK, table, provider, calls, Stages, Working, Called, Idle
<1>1. CASE SweepHolds(w)
  BY <1>1 DEF SweepHolds, Statuses, PayStatuses
<1>2. CASE SweepList(w)
  BY <1>2 DEF SweepList
<1>3. ASSUME NEW s \in Sessions, SweepCall(w, s) PROVE TypeOK'
  <2>1. /\ sweep[w].at = "work" /\ sweep[w].stage \in 1..3 /\ s \in sweep[w].todo
        /\ ProviderCleanup(s, sweep[w].stage)
    BY <1>3 DEF SweepCall, ProviderCleanup
  <2>2. /\ checkout' \in [Sessions -> {"none", "open", "completed", "closed"}]
        /\ card' \in [Sessions -> {"none", "held", "captured", "released", "refunded"}]
        /\ events' \subseteq Sessions \X {"authorized", "expired"} /\ events \subseteq events'
    BY <2>1 DEF ProviderCleanup, ClosePage
  <2>3. sweep' = [sweep EXCEPT ![w] = Called(sweep[w].stage, sweep[w].todo, s)]
    BY <1>3 DEF SweepCall
  <2> QED
    BY <1>3, <2>1, <2>2, <2>3 DEF SweepCall
<1>4. CASE SweepMark(w)
  <2>1. /\ sweep[w].at = "called"
        /\ sweep[w].stage \in {1, 2, 3} /\ sweep[w].todo \subseteq Sessions
    BY <1>4 DEF SweepMark
  <2>2. Settled[sweep[w].stage] \in PayStatuses
    BY <2>1 DEF Settled, PayStatuses
  <2>3. pay' \in [Sessions -> PayStatuses]
    BY <1>4, <2>2 DEF SweepMark
  <2>4. sweep' = [sweep EXCEPT ![w] = Working(sweep[w].stage, sweep[w].todo \ {sweep[w].row})]
    BY <1>4 DEF SweepMark
  <2> QED
    BY <1>4, <2>1, <2>3, <2>4 DEF SweepMark
<1>5. CASE SweepAbort(w)
  BY <1>5 DEF SweepAbort, sweeps
<1> QED
  BY <1>1, <1>2, <1>3, <1>4, <1>5 DEF SweepStep

\* Every step keeps the types.
LEMMA TypeStep == TypeOK /\ [Next]_vars => TypeOK'
<1> SUFFICES ASSUME TypeOK, [Next]_vars PROVE TypeOK'
  OBVIOUS
<1>1. CASE UNCHANGED vars
  BY <1>1 DEF TypeOK, vars, table, provider, calls, sweeps
<1>2. CASE Tick
  BY <1>2 DEF Tick, TypeOK, table, provider, calls, sweeps
<1> QED
  BY <1>1, <1>2, BookStepType, WebhookType, AnswerType, ParticipantType, SweepType
     DEF Next

\* Type correctness, whatever the constants.
THEOREM TypeCorrect == Spec => []TypeOK
<1>1. Init => TypeOK
  BY TimesAssumption DEF Init, TypeOK, Statuses, PayStatuses, Times, Idle, Stages
<1> QED
  BY <1>1, TypeStep, PTL DEF Spec

-----------------------------------------------------------------------------
(* BooksAgree is inductive. *)

Story(s) == BookedSoFar(s) /\ ColumnsAgree(s) /\ CardMatches(s) /\ AnswerHolds(s)
Lists(w) == ListIsOwed(w) /\ CallIsDone(w)

\* The step leaves the story of session s as it is.
Untouched(s) ==
  /\ status'[s] = status[s] /\ pay'[s] = pay[s] /\ ref'[s] = ref[s]
  /\ checkout'[s] = checkout[s] /\ card'[s] = card[s]
  /\ booking'[s] = booking[s] /\ answer'[s] = answer[s]
  /\ Announced(s)' = Announced(s) /\ Known(s)' = Known(s)

\* What a sweep has read of s, or done for it, is still true after the step.
StaysOwed(s) ==
  /\ pay[s] \in {"releasing", "released"} => /\ pay'[s] \in {"releasing", "released"}
                                             /\ card[s] # "held" => card'[s] # "held"
  /\ pay[s] \in {"refund_due", "refunded"} => /\ pay'[s] \in {"refund_due", "refunded"}
                                              /\ card[s] # "captured" => card'[s] # "captured"

LEMMA UntouchedStory ==
  ASSUME NEW s \in Sessions, Story(s), Untouched(s)
  PROVE  Story(s)' /\ StaysOwed(s)
  BY DEF Story, Untouched, StaysOwed, BookedSoFar, ColumnsAgree, CardMatches, AnswerHolds

LEMMA OwedLists ==
  ASSUME TypeOK, NEW w \in Sweepers, Lists(w), \A s \in Sessions : StaysOwed(s), sweep' = sweep
  PROVE  Lists(w)'
  BY DEF TypeOK, Lists, ListIsOwed, CallIsDone, StaysOwed

\* It is enough to look at the one session a step is about.
LEMMA OneSession ==
  ASSUME TypeOK, BooksAgree, NEW s \in Sessions, sweep' = sweep,
         \A r \in Sessions \ {s} : Untouched(r),
         Story(s)', StaysOwed(s)
  PROVE  BooksAgree'
<1>1. \A r \in Sessions : Story(r)' /\ StaysOwed(r)
  BY UntouchedStory DEF BooksAgree, Story
<1>2. \A w \in Sweepers : Lists(w)'
  BY <1>1, OwedLists DEF BooksAgree, Lists
<1> QED
  BY <1>1, <1>2 DEF BooksAgree, Story, Lists

LEMMA BookStepBooks ==
  ASSUME TypeOK, TypeOK', BooksAgree, NEW s \in Sessions, BookStep(s)
  PROVE  BooksAgree'
<1> USE DEF table, provider, calls, sweeps
<1>0. Story(s)
  BY DEF BooksAgree, Story
<1>1. sweep' = sweep /\ \A r \in Sessions \ {s} : Untouched(r)
  BY DEF TypeOK, BookStep, BookUnpaid, InsertHold, CreateCheckout, CheckoutFails, CancelHold,
         AttachCheckout, AttachRef, AttachFails, ClosePage, CloseLapsed, MarkExpired, BookCrash,
         Untouched, Announced, Known
<1>2. Story(s)' /\ StaysOwed(s)
  <2> USE <1>0 DEF Story, BookedSoFar, ColumnsAgree, CardMatches, AnswerHolds, StaysOwed,
                   Announced, Known, Unrecorded, TypeOK
  <2>1. ASSUME NEW t \in Starts, BookUnpaid(s, t) PROVE Story(s)' /\ StaysOwed(s)
    BY <2>1 DEF BookUnpaid
  <2>2. ASSUME NEW t \in Starts, InsertHold(s, t) PROVE Story(s)' /\ StaysOwed(s)
    BY <2>2 DEF InsertHold
  <2>3. CASE CreateCheckout(s)
    BY <2>3 DEF CreateCheckout
  <2>4. CASE CheckoutFails(s)
    BY <2>4 DEF CheckoutFails, CancelHold
  <2>5. CASE AttachCheckout(s)
    BY <2>5 DEF AttachCheckout, AttachRef
  <2>6. CASE AttachFails(s)
    BY <2>6 DEF AttachFails, AttachRef, ClosePage
  <2>7. CASE CloseLapsed(s)
    BY <2>7 DEF CloseLapsed, ClosePage, MarkExpired
  <2>8. CASE BookCrash(s)
    BY <2>8 DEF BookCrash
  <2> QED
    BY <2>1, <2>2, <2>3, <2>4, <2>5, <2>6, <2>7, <2>8 DEF BookStep
<1> QED
  BY <1>1, <1>2, OneSession

LEMMA WebhookBooks ==
  ASSUME TypeOK, TypeOK', BooksAgree, NEW s \in Sessions, ProviderStep(s) \/ WebhookStep(s)
  PROVE  BooksAgree'
<1> USE DEF table, provider, calls, sweeps
<1>0. Story(s)
  BY DEF BooksAgree, Story
<1>1. sweep' = sweep /\ \A r \in Sessions \ {s} : Untouched(r)
  BY DEF TypeOK, ProviderStep, WebhookStep, Authorise, PageExpires, ClosePage, ApplyAuthorized,
         NewEvent, RequestCoach, MarkToRelease, ApplyExpired, CancelHold,
         Untouched, Announced, Known
<1>2. Story(s)' /\ StaysOwed(s)
  <2> USE <1>0 DEF Story, BookedSoFar, ColumnsAgree, CardMatches, AnswerHolds, StaysOwed,
                   Announced, Known, Unrecorded, TypeOK
  <2>1. CASE Authorise(s)
    BY <2>1 DEF Authorise, PayStatuses
  <2>2. CASE PageExpires(s)
    BY <2>2 DEF PageExpires, ClosePage
  <2>3. CASE ApplyAuthorized(s)
    <3>1. /\ Announced(s) /\ ~Known(s) /\ Known(s)' /\ Announced(s)'
          /\ answer'[s] = "none" /\ card'[s] = card[s] /\ booking'[s] = booking[s]
          /\ checkout'[s] = checkout[s] /\ ref'[s] = ref[s]
      BY <2>3 DEF ApplyAuthorized, NewEvent, Unlocked
    <3>2. \/ status'[s] = "pending" /\ pay'[s] = "authorized"
          \/ status'[s] = "expired" /\ pay'[s] = "releasing"
          \/ status'[s] = status[s] /\ status[s] # "pending_payment" /\ pay'[s] = "releasing"
      BY <2>3, <3>1 DEF ApplyAuthorized, RequestCoach, MarkToRelease
    <3>3. card[s] = "held" /\ pay[s] \in Unrecorded
      BY <3>1
    <3> QED
      BY <3>1, <3>2, <3>3
  <2>4. CASE ApplyExpired(s)
    BY <2>4 DEF ApplyExpired, NewEvent, CancelHold
  <2> QED
    BY <2>1, <2>2, <2>3, <2>4 DEF ProviderStep, WebhookStep
<1> QED
  BY <1>1, <1>2, OneSession

LEMMA AnswerBooks ==
  ASSUME TypeOK, TypeOK', BooksAgree, NEW s \in Sessions, AnswerStep(s)
  PROVE  BooksAgree'
<1> USE DEF table, provider, calls, sweeps
<1>0. Story(s)
  BY DEF BooksAgree, Story
<1>1. sweep' = sweep /\ \A r \in Sessions \ {s} : Untouched(r)
  BY DEF TypeOK, AnswerStep, Confirm, BeginConfirm, Capture, CommitConfirm,
         RollbackConfirm, Decline, Untouched, Announced, Known
<1>2. Story(s)' /\ StaysOwed(s)
  <2> USE <1>0 DEF Story, BookedSoFar, ColumnsAgree, CardMatches, AnswerHolds, StaysOwed,
                   Announced, Known, Unrecorded, TypeOK
  <2>1. CASE Confirm(s)
    BY <2>1 DEF Confirm, Answerable, Unlocked
  <2>2. CASE BeginConfirm(s)
    BY <2>2 DEF BeginConfirm, Answerable, Unlocked
  <2>3. CASE Capture(s)
    BY <2>3 DEF Capture
  <2>4. CASE CommitConfirm(s)
    BY <2>4 DEF CommitConfirm
  <2>5. CASE RollbackConfirm(s)
    BY <2>5 DEF RollbackConfirm
  <2>6. CASE Decline(s)
    BY <2>6 DEF Decline, MoneyBack, Answerable, Unlocked
  <2> QED
    BY <2>1, <2>2, <2>3, <2>4, <2>5, <2>6 DEF AnswerStep
<1> QED
  BY <1>1, <1>2, OneSession

LEMMA ParticipantBooks ==
  ASSUME TypeOK, TypeOK', BooksAgree, NEW s \in Sessions, ParticipantStep(s)
  PROVE  BooksAgree'
<1> USE DEF table, provider, calls, sweeps
<1>0. Story(s)
  BY DEF BooksAgree, Story
<1>1. sweep' = sweep /\ \A r \in Sessions \ {s} : Untouched(r)
  BY DEF TypeOK, ParticipantStep, CancelUnpaid, SetStatus, ClientReschedule, CoachReadsSession,
         CoachReschedules, Untouched, Announced, Known
<1>2. Story(s)' /\ StaysOwed(s)
  <2> USE <1>0 DEF Story, BookedSoFar, ColumnsAgree, CardMatches, AnswerHolds, StaysOwed,
                   Announced, Known, Unrecorded, TypeOK
  <2>1. CASE CancelUnpaid(s)
    BY <2>1 DEF CancelUnpaid
  <2>2. ASSUME NEW to \in {"cancelled", "completed", "no_show"}, SetStatus(s, to)
        PROVE  Story(s)' /\ StaysOwed(s)
    BY <2>2 DEF SetStatus, Unlocked
  <2>3. ASSUME NEW t \in Starts, ClientReschedule(s, t) PROVE Story(s)' /\ StaysOwed(s)
    BY <2>3 DEF ClientReschedule, Movable, Unlocked
  <2>4. ASSUME NEW t \in Starts, CoachReadsSession(s, t) PROVE Story(s)' /\ StaysOwed(s)
    BY <2>4 DEF CoachReadsSession
  <2>5. CASE CoachReschedules(s)
    BY <2>5 DEF CoachReschedules
  <2> QED
    BY <2>1, <2>2, <2>3, <2>4, <2>5 DEF ParticipantStep
<1> QED
  BY <1>1, <1>2, OneSession

\* The expiry of the unanswered touches any number of rows at once.
LEMMA ExpiryBooks ==
  ASSUME TypeOK, TypeOK', BooksAgree, ExpirePending
  PROVE  BooksAgree'
<1> USE DEF provider, calls, sweeps
<1>1. ASSUME NEW s \in Sessions PROVE Story(s)' /\ StaysOwed(s)
  <2>0. Story(s)
    BY DEF BooksAgree, Story
  <2>1. Announced(s)' = Announced(s) /\ Known(s)' = Known(s)
    BY DEF ExpirePending, Announced, Known
  <2>2. CASE Overdue(s)
    <3>1. /\ status[s] = "pending" /\ answer[s] = "none"
          /\ status'[s] = "expired" /\ pay'[s] = MoneyBack(pay[s])
          /\ pay[s] \in {"authorized", "paid", "not_required"}
      BY <2>0, <2>2 DEF ExpirePending, Overdue, Unlocked, Story, ColumnsAgree
    <3> QED
      BY <2>0, <2>1, <3>1 DEF ExpirePending, MoneyBack, Story, BookedSoFar, ColumnsAgree,
         CardMatches, AnswerHolds, StaysOwed, Unrecorded, TypeOK
  <2>3. CASE ~Overdue(s)
    BY <2>0, <2>1, <2>3, UntouchedStory DEF ExpirePending, Untouched, TypeOK
  <2> QED
    BY <2>2, <2>3
<1>2. \A w \in Sweepers : Lists(w)'
  BY <1>1, OwedLists DEF BooksAgree, Lists, ExpirePending
<1> QED
  BY <1>1, <1>2 DEF BooksAgree, Story, Lists

\* Lists(w) survives the steps of other sweeps, like those of anyone else.
LEMMA SweepBooks ==
  ASSUME TypeOK, TypeOK', BooksAgree, NEW w \in Sweepers, SweepStep(w)
  PROVE  BooksAgree'
<1> USE DEF table, provider, calls, Working, Called, Idle
<1>0. \A s \in Sessions : Story(s)
  BY DEF BooksAgree, Story
<1>1. \A v \in Sweepers : Lists(v)
  BY DEF BooksAgree, Lists
<1>2. ASSUME \A s \in Sessions : Story(s)' /\ StaysOwed(s),
             \A v \in Sweepers \ {w} : sweep'[v] = sweep[v], Lists(w)'
      PROVE  BooksAgree'
  <2>1. ASSUME NEW v \in Sweepers \ {w} PROVE Lists(v)'
    <3>1. Lists(v) /\ sweep'[v] = sweep[v] /\ sweep[v].todo \subseteq Sessions
      BY <1>1, <1>2, <2>1 DEF TypeOK
    <3>2. ListIsOwed(v)'
      BY <1>2, <3>1 DEF Lists, ListIsOwed, StaysOwed
    <3>3. CallIsDone(v)'
      BY <1>2, <3>1 DEF Lists, ListIsOwed, CallIsDone, StaysOwed
    <3> QED
      BY <3>2, <3>3 DEF Lists
  <2> QED
    BY <1>2, <2>1 DEF BooksAgree, Story, Lists
<1>3. CASE SweepHolds(w)
  <2>1. ASSUME NEW s \in Sessions PROVE Story(s)' /\ StaysOwed(s)
    BY <1>0, <1>3 DEF SweepHolds, Lapsed, Story, BookedSoFar, ColumnsAgree, CardMatches,
       AnswerHolds, StaysOwed, Announced, Known, Unrecorded, TypeOK
  <2>2. sweep' = [sweep EXCEPT ![w] = Working(0, {})]
    BY <1>3 DEF SweepHolds
  <2>3. Lists(w)' /\ \A v \in Sweepers \ {w} : sweep'[v] = sweep[v]
    BY <2>2 DEF TypeOK, Lists, ListIsOwed, CallIsDone
  <2> QED
    BY <1>2, <2>1, <2>3
<1>4. CASE SweepList(w)
  <2>1. ASSUME NEW s \in Sessions PROVE Story(s)' /\ StaysOwed(s)
    BY <1>0, <1>4, UntouchedStory DEF SweepList, Untouched, Announced, Known
  <2>2. Lists(w)' /\ \A v \in Sweepers \ {w} : sweep'[v] = sweep[v]
    BY <1>4 DEF SweepList, Stages, TypeOK, Lists, ListIsOwed, CallIsDone
  <2> QED
    BY <1>2, <2>1, <2>2
<1>5. ASSUME NEW s \in Sessions, SweepCall(w, s) PROVE BooksAgree'
  <2>1. /\ sweep[w].stage \in 1..3 /\ s \in sweep[w].todo /\ ProviderCleanup(s, sweep[w].stage)
        /\ sweep' = [sweep EXCEPT ![w] = Called(sweep[w].stage, sweep[w].todo, s)]
    BY <1>5 DEF SweepCall, ProviderCleanup
  <2>2. /\ sweep[w].stage = 2 => pay[s] \in {"releasing", "released"}
        /\ sweep[w].stage = 3 => pay[s] \in {"refund_due", "refunded"}
    BY <1>1, <2>1 DEF Lists, ListIsOwed
  <2>3. /\ status' = status /\ pay' = pay /\ ref' = ref /\ booking' = booking
        /\ answer' = answer /\ applied' = applied
    BY <1>5 DEF SweepCall
  <2>4. ASSUME NEW r \in Sessions \ {s} PROVE Untouched(r)
    BY <2>1, <2>3 DEF ProviderCleanup, ClosePage, TypeOK, Untouched, Announced, Known
  <2>5. Story(s)' /\ StaysOwed(s)
    BY <1>0, <2>1, <2>2, <2>3 DEF ProviderCleanup, ClosePage, TypeOK, Story, BookedSoFar,
       ColumnsAgree, CardMatches, AnswerHolds, StaysOwed, Announced, Known, Unrecorded
  <2>6. \A r \in Sessions : Story(r)' /\ StaysOwed(r)
    BY <1>0, <2>4, <2>5, UntouchedStory
  <2>7. sweep'[w] = Called(sweep[w].stage, sweep[w].todo, s)
    BY <2>1 DEF TypeOK
  <2>8. ListIsOwed(w)'
    BY <1>1, <2>1, <2>3, <2>7 DEF Lists, ListIsOwed
  <2>9. CallIsDone(w)'
    BY <2>1, <2>7 DEF CallIsDone, ProviderCleanup, TypeOK
  <2>10. \A v \in Sweepers \ {w} : sweep'[v] = sweep[v]
    BY <2>1 DEF TypeOK
  <2> QED
    BY <1>2, <2>6, <2>8, <2>9, <2>10 DEF Lists
<1>6. CASE SweepMark(w)
  <2>1. PICK s \in Sessions, stage \in 1..3 :
        /\ sweep[w].at = "called" /\ s = sweep[w].row /\ stage = sweep[w].stage
        /\ pay' = [pay EXCEPT ![s] = IF @ = Owed[stage] THEN Settled[stage] ELSE @]
        /\ sweep' = [sweep EXCEPT ![w] = Working(stage, sweep[w].todo \ {s})]
        /\ status' = status /\ ref' = ref /\ booking' = booking /\ answer' = answer
        /\ applied' = applied /\ checkout' = checkout /\ card' = card /\ events' = events
    BY <1>6 DEF SweepMark, TypeOK, Stages
  <2>2. /\ stage = 2 => card[s] # "held"
        /\ stage = 3 => card[s] # "captured"
    BY <1>1, <2>1 DEF Lists, CallIsDone
  <2>3. Story(s)' /\ StaysOwed(s)
    <3>1. \/ stage = 1 /\ Owed[stage] = "expiring" /\ Settled[stage] = "failed"
          \/ stage = 2 /\ Owed[stage] = "releasing" /\ Settled[stage] = "released"
          \/ stage = 3 /\ Owed[stage] = "refund_due" /\ Settled[stage] = "refunded"
      BY <2>1 DEF Owed, Settled
    <3>2. \/ pay'[s] = pay[s]
          \/ pay[s] = "expiring" /\ pay'[s] = "failed"
          \/ pay[s] = "releasing" /\ pay'[s] = "released" /\ card[s] # "held"
          \/ pay[s] = "refund_due" /\ pay'[s] = "refunded" /\ card[s] # "captured"
      BY <2>1, <2>2, <3>1 DEF TypeOK
    <3>3. Story(s) /\ Announced(s)' = Announced(s) /\ Known(s)' = Known(s)
      BY <1>0, <2>1 DEF Announced, Known
    <3>4. BookedSoFar(s)' /\ AnswerHolds(s)' /\ StaysOwed(s)
      BY <2>1, <3>2, <3>3 DEF Story, BookedSoFar, AnswerHolds, StaysOwed
    <3>5. ColumnsAgree(s)'
      BY <2>1, <3>2, <3>3 DEF Story, ColumnsAgree
    <3>6. CardMatches(s)'
      BY <2>1, <3>2, <3>3 DEF Story, CardMatches, Unrecorded
    <3> QED BY <3>4, <3>5, <3>6 DEF Story
  <2>4. ASSUME NEW r \in Sessions \ {s} PROVE Untouched(r)
    BY <2>1 DEF TypeOK, Untouched, Announced, Known
  <2>5. \A r \in Sessions : Story(r)' /\ StaysOwed(r)
    BY <1>0, <2>3, <2>4, UntouchedStory
  <2>6. Lists(w)' /\ \A v \in Sweepers \ {w} : sweep'[v] = sweep[v]
    <3>1. sweep'[w] = Working(stage, sweep[w].todo \ {s}) /\ sweep[w].todo \subseteq Sessions
      BY <2>1 DEF TypeOK
    <3>2. /\ sweep'[w].at = "work" /\ sweep'[w].stage = sweep[w].stage
          /\ sweep'[w].todo \subseteq sweep[w].todo
      BY <2>1, <3>1 DEF Working
    <3>3. stage # 0 /\ ListIsOwed(w)
      BY <1>1, <2>1 DEF Lists
    <3>4. ListIsOwed(w)'
      BY <2>1, <2>5, <3>1, <3>2, <3>3 DEF ListIsOwed, StaysOwed
    <3>5. CallIsDone(w)'
      BY <3>2 DEF CallIsDone
    <3>6. \A v \in Sweepers \ {w} : sweep'[v] = sweep[v]
      BY <2>1 DEF TypeOK
    <3> QED BY <3>4, <3>5, <3>6 DEF Lists
  <2> QED
    BY <1>2, <2>5, <2>6
<1>7. CASE SweepAbort(w)
  <2>1. ASSUME NEW s \in Sessions PROVE Story(s)' /\ StaysOwed(s)
    BY <1>0, <1>7, UntouchedStory DEF SweepAbort, Untouched, Announced, Known
  <2>2. Lists(w)' /\ \A v \in Sweepers \ {w} : sweep'[v] = sweep[v]
    BY <1>7 DEF SweepAbort, TypeOK, Lists, ListIsOwed, CallIsDone
  <2> QED
    BY <1>2, <2>1, <2>2
<1> QED
  BY <1>3, <1>4, <1>5, <1>6, <1>7 DEF SweepStep

\* However bookings, webhooks, answers and sweeps interleave, row, webhook log,
\* provider and sweep lists agree on each session's money.
THEOREM BooksAlwaysAgree == Spec => []BooksAgree
<1>1. Init => BooksAgree
  BY DEF Init, BooksAgree, BookedSoFar, ColumnsAgree, CardMatches, AnswerHolds, ListIsOwed,
         CallIsDone, Idle, Announced, Known, Unrecorded
<1>2. TypeOK /\ TypeOK' /\ BooksAgree /\ [Next]_vars => BooksAgree'
  <2> SUFFICES ASSUME TypeOK, TypeOK', BooksAgree, [Next]_vars PROVE BooksAgree'
    OBVIOUS
  <2>1. CASE UNCHANGED vars \/ Tick
    BY <2>1 DEF Tick, vars, table, provider, calls, sweeps, BooksAgree, BookedSoFar,
       ColumnsAgree, CardMatches, AnswerHolds, ListIsOwed, CallIsDone, Announced, Known
  <2> QED
    BY <2>1, BookStepBooks, WebhookBooks, AnswerBooks, ParticipantBooks, ExpiryBooks,
       SweepBooks DEF Next
<1> QED
  BY <1>1, <1>2, TypeCorrect, PTL DEF Spec

-----------------------------------------------------------------------------
(* What follows from it. *)

\* A late, early or repeated webhook, a lapse or a cancel never leaves a card
\* hold that nobody will settle.
THEOREM HoldsAccounted == Spec => []HoldIsAccountedFor
<1>1. TypeOK /\ BooksAgree => HoldIsAccountedFor
  <2> SUFFICES ASSUME TypeOK, BooksAgree, NEW s \in Sessions, card[s] = "held", Known(s)
               PROVE  \/ pay[s] = "releasing"
                      \/ pay[s] = "authorized" /\ status[s] = "pending"
    BY DEF TypeOK, BooksAgree, BookedSoFar, HoldIsAccountedFor, Announced, Known
  <2>1. pay[s] \in PayStatuses
    BY DEF TypeOK
  <2>2. ColumnsAgree(s) /\ CardMatches(s)
    BY DEF BooksAgree
  <2> QED
    BY <2>1, <2>2 DEF ColumnsAgree, CardMatches, PayStatuses, Unrecorded
<1> QED
  BY <1>1, TypeCorrect, BooksAlwaysAgree, PTL

\* A session that is or was to take place has been paid for, unless it was booked
\* with payments off.
THEOREM ScheduledPaid == Spec => []ScheduledIsPaid
<1>1. BooksAgree => ScheduledIsPaid
  BY DEF BooksAgree, ColumnsAgree, CardMatches, ScheduledIsPaid, BookedUnpaid
<1> QED
  BY <1>1, BooksAlwaysAgree, PTL

\* No sweep takes the money of a request the coach can see.
THEOREM RequestsBacked == Spec => []RequestIsBacked
<1>1. BooksAgree => RequestIsBacked
  BY DEF BooksAgree, ColumnsAgree, CardMatches, RequestIsBacked, BookedUnpaid
<1> QED
  BY <1>1, BooksAlwaysAgree, PTL

\* When no capture is lost, nobody is charged without the coach's agreement.
THEOREM ChargesAccounted ==
  ASSUME ~CaptureMayBeLost PROVE Spec => []ChargeIsAccountedFor
<1>1. TypeOK /\ BooksAgree => ChargeIsAccountedFor
  BY ~CaptureMayBeLost
     DEF TypeOK, BooksAgree, BookedSoFar, ColumnsAgree, CardMatches, AnswerHolds,
         ChargeIsAccountedFor, PayStatuses, Unrecorded
<1> QED
  BY <1>1, TypeCorrect, BooksAlwaysAgree, PTL

\* When no capture is lost, what is recorded as given back has been given back.
THEOREM SettledTrue ==
  ASSUME ~CaptureMayBeLost PROVE Spec => []SettledIsTrue
<1>1. BooksAgree => SettledIsTrue
  BY ~CaptureMayBeLost DEF BooksAgree, CardMatches, SettledIsTrue
<1> QED
  BY <1>1, BooksAlwaysAgree, PTL

-----------------------------------------------------------------------------
(* The slots. *)

\* A step that puts nobody in a slot keeps the slots apart.
LEMMA NobodyPlaced ==
  ASSUME NoDoubleBooking,
         \A s \in Sessions : status'[s] \in Holding => status[s] \in Holding /\ start'[s] = start[s]
  PROVE  NoDoubleBooking'
  BY DEF NoDoubleBooking, Overlap

\* So does one that puts one session in a free slot.
LEMMA OnePlaced ==
  ASSUME NoDoubleBooking, NEW s \in Sessions, NEW t, SlotFree(s, t), start'[s] = t,
         \A o \in Sessions \ {s} : status'[o] = status[o] /\ start'[o] = start[o]
  PROVE  NoDoubleBooking'
  BY DEF NoDoubleBooking, SlotFree, Overlap

LEMMA SlotStep ==
  TypeOK /\ BooksAgree /\ NoDoubleBooking /\ [Next]_vars => NoDoubleBooking'
<1> SUFFICES ASSUME TypeOK, BooksAgree, NoDoubleBooking, [Next]_vars PROVE NoDoubleBooking'
  OBVIOUS
<1> USE DEF table, provider, calls, sweeps, Holding
<1>1. CASE UNCHANGED vars \/ Tick \/ ExpirePending
  BY <1>1, NobodyPlaced DEF vars, Tick, ExpirePending, TypeOK
<1>2. ASSUME NEW s \in Sessions, BookStep(s) PROVE NoDoubleBooking'
  <2>1. ASSUME NEW t \in Starts, BookUnpaid(s, t) \/ InsertHold(s, t) PROVE NoDoubleBooking'
    <3>1. /\ SlotFree(s, t) /\ start'[s] = t
          /\ \A o \in Sessions \ {s} : status'[o] = status[o] /\ start'[o] = start[o]
      BY <2>1 DEF BookUnpaid, InsertHold, TypeOK
    <3> QED
      BY <3>1, OnePlaced
  <2>2. CASE CheckoutFails(s)
    BY <2>2, NobodyPlaced DEF CheckoutFails, CancelHold, TypeOK
  <2>3. CASE CreateCheckout(s) \/ AttachCheckout(s) \/ AttachFails(s) \/ CloseLapsed(s) \/ BookCrash(s)
    BY <2>3, NobodyPlaced DEF CreateCheckout, AttachCheckout, AttachFails, CloseLapsed, BookCrash
  <2> QED
    BY <1>2, <2>1, <2>2, <2>3 DEF BookStep
<1>3. ASSUME NEW s \in Sessions, ProviderStep(s) \/ WebhookStep(s) PROVE NoDoubleBooking'
  <2>1. CASE Authorise(s) \/ PageExpires(s)
    BY <2>1, NobodyPlaced DEF Authorise, PageExpires
  <2>2. CASE ApplyExpired(s)
    BY <2>2, NobodyPlaced DEF ApplyExpired, CancelHold, TypeOK
  <2>3. CASE ApplyAuthorized(s) /\ status[s] = "pending_payment"
    BY <2>3, NobodyPlaced DEF ApplyAuthorized, RequestCoach, TypeOK
  <2>4. CASE ApplyAuthorized(s) /\ status[s] # "pending_payment" /\ Revivable(s)
    <3>1. /\ SlotFree(s, start[s]) /\ start' = start
          /\ \A o \in Sessions \ {s} : status'[o] = status[o]
      BY <2>4 DEF ApplyAuthorized, RequestCoach, Revivable, TypeOK
    <3> QED
      BY <3>1, OnePlaced
  <2>5. CASE ApplyAuthorized(s) /\ status[s] # "pending_payment" /\ ~Revivable(s)
    BY <2>5, NobodyPlaced DEF ApplyAuthorized
  <2> QED
    BY <1>3, <2>1, <2>2, <2>3, <2>4, <2>5 DEF ProviderStep, WebhookStep
<1>4. ASSUME NEW s \in Sessions, AnswerStep(s) PROVE NoDoubleBooking'
  <2>1. answer[s] # "none" => status[s] = "pending"
    BY DEF BooksAgree, AnswerHolds
  <2> QED
    BY <1>4, <2>1, NobodyPlaced DEF AnswerStep, Confirm, Answerable, BeginConfirm,
       Capture, CommitConfirm, RollbackConfirm, Decline, TypeOK
<1>5. ASSUME NEW s \in Sessions, ParticipantStep(s) PROVE NoDoubleBooking'
  <2>1. ASSUME NEW to \in {"cancelled", "completed", "no_show"}, CancelUnpaid(s) \/ SetStatus(s, to)
        PROVE  NoDoubleBooking'
    BY <2>1, NobodyPlaced DEF CancelUnpaid, SetStatus, TypeOK
  <2>2. ASSUME NEW t \in Starts, ClientReschedule(s, t) PROVE NoDoubleBooking'
    <3>1. /\ SlotFree(s, t) /\ start'[s] = t
          /\ \A o \in Sessions \ {s} : status'[o] = status[o] /\ start'[o] = start[o]
      BY <2>2 DEF ClientReschedule, TypeOK
    <3> QED
      BY <3>1, OnePlaced
  <2>3. ASSUME NEW t \in Starts, CoachReadsSession(s, t) PROVE NoDoubleBooking'
    BY <2>3, NobodyPlaced DEF CoachReadsSession
  <2>4. CASE CoachReschedules(s)
    <3>1. CASE UNCHANGED <<start, respondBy>>
      <4>1. status' = status /\ start' = start
        BY <2>4, <3>1 DEF CoachReschedules, TypeOK
      <4> QED
        BY <4>1, NobodyPlaced
    <3>2. CASE ~UNCHANGED <<start, respondBy>>
      <4>1. /\ SlotFree(s, moving[s].to) /\ start'[s] = moving[s].to
            /\ \A o \in Sessions \ {s} : status'[o] = status[o] /\ start'[o] = start[o]
        BY <2>4, <3>2 DEF CoachReschedules, TypeOK
      <4> QED
        BY <4>1, OnePlaced
    <3> QED
      BY <3>1, <3>2
  <2> QED
    BY <1>5, <2>1, <2>2, <2>3, <2>4 DEF ParticipantStep
<1>6. ASSUME NEW w \in Sweepers, SweepStep(w) PROVE NoDoubleBooking'
  BY <1>6, NobodyPlaced DEF SweepStep, SweepHolds, Lapsed, SweepList, SweepCall, SweepMark,
     SweepAbort, TypeOK
<1> QED
  BY <1>1, <1>2, <1>3, <1>4, <1>5, <1>6 DEF Next

\* Two live sessions of a coach never overlap.
THEOREM SlotsApart == Spec => []NoDoubleBooking
<1>1. Init => NoDoubleBooking
  BY DEF Init, NoDoubleBooking, Holding
<1> QED
  BY <1>1, SlotStep, TypeCorrect, BooksAlwaysAgree, PTL DEF Spec

-----------------------------------------------------------------------------
(* What is over stays over. *)

LEMMA OverStep ==
  ASSUME TypeOK, BooksAgree, [Next]_vars, NEW s \in Sessions, Over(s)
  PROVE  Over(s)'
<1> USE DEF table, provider, calls, sweeps, Over, Unrecorded, TypeOK
<1>1. Story(s) /\ status[s] \notin {"none", "pending_payment", "pending", "scheduled"}
  BY DEF BooksAgree, Story
<1>2. CASE UNCHANGED vars \/ Tick
  BY <1>2 DEF vars, Tick
<1>3. CASE ExpirePending
  BY <1>1, <1>3 DEF ExpirePending, Overdue
<1>4. ASSUME NEW r \in Sessions, BookStep(r) PROVE Over(s)'
  <2>1. ~(\E t \in Starts : r = s /\ (BookUnpaid(r, t) \/ InsertHold(r, t)))
    BY <1>1 DEF BookUnpaid, InsertHold, Story, BookedSoFar
  <2>2. \A t \in Starts : BookUnpaid(r, t) \/ InsertHold(r, t) => Over(s)'
    BY <2>1 DEF BookUnpaid, InsertHold
  <2>3. CASE CreateCheckout(r) \/ CheckoutFails(r) \/ BookCrash(r)
    BY <1>1, <2>3 DEF CreateCheckout, CheckoutFails, CancelHold, BookCrash
  <2>4. CASE AttachCheckout(r) \/ AttachFails(r)
    BY <1>1, <2>4 DEF AttachCheckout, AttachFails, AttachRef, Story, BookedSoFar
  <2>5. CASE CloseLapsed(r)
    BY <2>5 DEF CloseLapsed, MarkExpired
  <2> QED
    BY <1>4, <2>2, <2>3, <2>4, <2>5 DEF BookStep
<1>5. ASSUME NEW r \in Sessions, ProviderStep(r) \/ WebhookStep(r) PROVE Over(s)'
  <2>1. CASE ProviderStep(r)
    BY <2>1 DEF ProviderStep, Authorise, PageExpires
  <2>2. CASE ApplyExpired(r)
    BY <1>1, <2>2 DEF ApplyExpired, CancelHold
  <2>3. CASE ApplyAuthorized(r)
    BY <1>1, <2>3 DEF ApplyAuthorized, RequestCoach, Revivable, MarkToRelease
  <2> QED
    BY <1>5, <2>1, <2>2, <2>3 DEF WebhookStep
<1>6. ASSUME NEW r \in Sessions, AnswerStep(r) PROVE Over(s)'
  <2>1. CommitConfirm(r) => r # s
    BY <1>1 DEF CommitConfirm, Story, AnswerHolds
  <2> QED
    BY <1>1, <1>6, <2>1 DEF AnswerStep, Confirm, Answerable, BeginConfirm, Capture,
       CommitConfirm, RollbackConfirm, Decline
<1>7. ASSUME NEW r \in Sessions, ParticipantStep(r) PROVE Over(s)'
  BY <1>1, <1>7 DEF ParticipantStep, CancelUnpaid, SetStatus, ClientReschedule, Movable,
     CoachReadsSession, CoachReschedules
<1>8. ASSUME NEW w \in Sweepers, SweepStep(w) PROVE Over(s)'
  <2>1. CASE SweepMark(w)
    <3>1. PICK r \in Sessions, stage \in 1..3 :
          pay' = [pay EXCEPT ![r] = IF @ = Owed[stage] THEN Settled[stage] ELSE @]
      BY <2>1 DEF SweepMark, Stages
    <3>2. /\ Owed[stage] \in Unrecorded \/ Settled[stage] \notin Unrecorded
      BY <3>1 DEF Owed, Settled
    <3>3. pay[s] \notin Unrecorded => pay'[s] \notin Unrecorded
      BY <3>1, <3>2
    <3> QED
      BY <2>1, <3>3 DEF SweepMark
  <2> QED
    BY <1>1, <1>8, <2>1 DEF SweepStep, SweepHolds, Lapsed, SweepList, SweepCall, SweepAbort
<1> QED
  BY <1>2, <1>3, <1>4, <1>5, <1>6, <1>7, <1>8 DEF Next

\* A session that is over stays over, unless it is a lapsed hold whose
\* authorisation is still unrecorded.
THEOREM OverFinal == Spec => OverIsFinal
<1>1. TypeOK /\ BooksAgree /\ [Next]_vars => [\A s \in Sessions : Over(s) => Over(s)']_vars
  BY OverStep
<1> QED
  BY <1>1, TypeCorrect, BooksAlwaysAgree, PTL DEF Spec, OverIsFinal

-----------------------------------------------------------------------------
(* An open answer has its session to itself. *)

\* While a coach's confirm is open, between the lock it takes and its commit or
\* rollback, no other call, webhook, timer or sweep writes a column of its row,
\* moves its card or touches its checkout (respond and SweepPayments, payment.go).
Alone(s) ==
  /\ status'[s] = status[s] /\ pay'[s] = pay[s] /\ start'[s] = start[s]
  /\ ref'[s] = ref[s] /\ holdUntil'[s] = holdUntil[s] /\ respondBy'[s] = respondBy[s]
  /\ card'[s] = card[s] /\ checkout'[s] = checkout[s]

AnswerIsAlone ==
  [][\A s \in Sessions : answer[s] # "none" /\ answer'[s] = answer[s] => Alone(s)]_vars

LEMMA AloneStep ==
  ASSUME TypeOK, BooksAgree, [Next]_vars, NEW s \in Sessions,
         answer[s] # "none", answer'[s] = answer[s]
  PROVE  Alone(s)
<1> USE DEF table, provider, calls, sweeps, Alone
<1>1. /\ status[s] = "pending" /\ pay[s] = "authorized" /\ card[s] \in {"held", "captured"}
      /\ booking[s] = "returned" /\ checkout[s] = "completed" /\ Known(s)
  BY DEF BooksAgree, BookedSoFar, ColumnsAgree, CardMatches, AnswerHolds, Unrecorded
<1>2. CASE UNCHANGED vars \/ Tick
  BY <1>2 DEF vars, Tick
<1>3. CASE ExpirePending
  BY <1>3 DEF ExpirePending, Overdue, Unlocked
<1>4. ASSUME NEW r \in Sessions, BookStep(r) PROVE Alone(s)
  <2>1. r # s
    BY <1>1, <1>4 DEF BookStep, BookUnpaid, InsertHold, CreateCheckout, CheckoutFails,
       AttachCheckout, AttachFails, CloseLapsed, BookCrash
  <2> QED
    BY <1>4, <2>1 DEF TypeOK, BookStep, BookUnpaid, InsertHold, CreateCheckout, CheckoutFails,
       CancelHold, AttachCheckout, AttachRef, AttachFails, ClosePage, CloseLapsed, MarkExpired,
       BookCrash
<1>5. ASSUME NEW r \in Sessions, ProviderStep(r) PROVE Alone(s)
  BY <1>1, <1>5 DEF TypeOK, ProviderStep, Authorise, PageExpires, ClosePage
<1>6. ASSUME NEW r \in Sessions, WebhookStep(r) PROVE Alone(s)
  BY <1>6 DEF TypeOK, WebhookStep, ApplyAuthorized, NewEvent, Unlocked, RequestCoach,
     MarkToRelease, ApplyExpired, CancelHold
<1>7. ASSUME NEW r \in Sessions, AnswerStep(r) PROVE Alone(s)
  BY <1>7 DEF TypeOK, AnswerStep, Confirm, BeginConfirm, Capture, CommitConfirm,
     RollbackConfirm, Decline, Answerable, Unlocked
<1>8. ASSUME NEW r \in Sessions, ParticipantStep(r) PROVE Alone(s)
  BY <1>1, <1>8 DEF TypeOK, ParticipantStep, CancelUnpaid, SetStatus, ClientReschedule,
     CoachReadsSession, CoachReschedules, Unlocked
<1>9. ASSUME NEW w \in Sweepers, SweepStep(w) PROVE Alone(s)
  <2>1. CASE SweepHolds(w)
    BY <1>1, <2>1 DEF SweepHolds, Lapsed
  <2>2. ASSUME NEW r \in Sessions, SweepCall(w, r) PROVE Alone(s)
    <3>1. /\ r \in sweep[w].todo /\ ProviderCleanup(r, sweep[w].stage)
          /\ UNCHANGED table
      BY <2>2 DEF SweepCall
    <3>2. s \in sweep[w].todo => sweep[w].stage \notin {2, 3}
      BY <1>1 DEF BooksAgree, ListIsOwed
    <3> QED
      BY <1>1, <3>1, <3>2 DEF ProviderCleanup, ClosePage, TypeOK
  <2>3. CASE SweepMark(w)
    <3>1. PICK r \in Sessions, stage \in 1..3 :
          pay' = [pay EXCEPT ![r] = IF @ = Owed[stage] THEN Settled[stage] ELSE @]
      BY <2>3 DEF SweepMark, Stages, TypeOK
    <3>2. Owed[stage] # "authorized"
      BY <3>1 DEF Owed
    <3>3. pay'[s] = pay[s]
      BY <1>1, <3>1, <3>2 DEF TypeOK
    <3> QED
      BY <2>3, <3>3 DEF SweepMark
  <2>4. CASE SweepList(w) \/ SweepAbort(w)
    BY <2>4 DEF SweepList, SweepAbort
  <2> QED
    BY <1>9, <2>1, <2>2, <2>3, <2>4 DEF SweepStep
<1> QED
  BY <1>2, <1>3, <1>4, <1>5, <1>6, <1>7, <1>8, <1>9 DEF Next

\* The row lock and the conditions of the other statements keep everybody else
\* away from a session whose answer is open.
THEOREM AnswersAlone == Spec => AnswerIsAlone
<1>1. TypeOK /\ BooksAgree /\ [Next]_vars =>
        [\A s \in Sessions : answer[s] # "none" /\ answer'[s] = answer[s] => Alone(s)]_vars
  BY AloneStep
<1> QED
  BY <1>1, TypeCorrect, BooksAlwaysAgree, PTL DEF Spec, AnswerIsAlone

-----------------------------------------------------------------------------
(* The promise is kept. *)

\* The refinement mapping of a row that is paid for, case by case.
Unasked(s) == \/ status[s] \in {"none", "pending_payment"}
              \/ status[s] = "expired" /\ pay[s] \in Unrecorded

Mapped(s) ==
  /\ card[s] = "captured" => Money(s) = "charged"
  /\ card[s] \in {"released", "refunded"} => Money(s) = "returned"
  /\ card[s] \notin {"captured", "released", "refunded"} => Money(s) = card[s]
  /\ Unasked(s) => Meeting(s) = "none"
  /\ status[s] = "pending" /\ pay[s] = "authorized" => Meeting(s) = "asked"
  /\ status[s] = "pending" /\ pay[s] = "paid" => Meeting(s) = "reasked"
  /\ status[s] = "scheduled" => Meeting(s) = "agreed"
  /\ ~Unasked(s) /\ status[s] \notin {"pending", "scheduled"} => Meeting(s) = "over"

LEMMA Mapping ==
  ASSUME NEW s \in Sessions
  PROVE  /\ pay[s] # "not_required" => Mapped(s)
         /\ pay'[s] # "not_required" => Mapped(s)'
  BY DEF Mapped, Money, Meeting, Unasked, Unrecorded

\* The steps of BookingPromise for one session, over the mapped values.
Kept(s) ==
  LET money(a, b, M) ==
        Money(s) = a /\ Money(s)' = b /\ Meeting(s) \in M /\ Meeting(s)' = Meeting(s)
      meeting(a, b, M) ==
        Meeting(s) = a /\ Meeting(s)' = b /\ Money(s) \in M /\ Money(s)' = Money(s)
  IN  \/ Money(s)' = Money(s) /\ Meeting(s)' = Meeting(s)
      \/ money("none", "held", {"none", "over"}) \/ money("held", "charged", {"asked"})
      \/ money("held", "returned", {"over"}) \/ money("charged", "returned", {"over"})
      \/ meeting("none", "asked", {"held"}) \/ meeting("none", "over", {"none", "held"})
      \/ meeting("asked", "agreed", {"charged"}) \/ meeting("reasked", "agreed", {"charged"})
      \/ meeting("agreed", "reasked", {"charged"}) \/ meeting("asked", "over", {"held"})
      \/ meeting("agreed", "over", {"charged"}) \/ meeting("reasked", "over", {"charged"})

LEMMA KeptIsStep ==
  ASSUME NEW s \in Sessions, Kept(s) PROVE Promise!Step(s)
  BY DEF Kept, Promise!Step, Promise!Hold, Promise!Charge, Promise!GiveBack, Promise!Refund,
         Promise!Ask, Promise!Agree, Promise!Reopen, Promise!End, Promise!Money, Promise!Meeting

LEMMA UntouchedKept ==
  ASSUME NEW s \in Sessions, status'[s] = status[s], pay'[s] = pay[s], card'[s] = card[s]
  PROVE  Kept(s)
  BY DEF Kept, Money, Meeting, Unrecorded

\* A row that is paid for stays one: no statement writes "not_required".
LEMMA PaidStays ==
  ASSUME TypeOK, BooksAgree, [Next]_vars, NEW s \in Sessions, pay[s] # "not_required"
  PROVE  pay'[s] # "not_required"
<1> USE DEF table, provider, calls, sweeps
<1>1. CASE UNCHANGED vars \/ Tick
  BY <1>1 DEF vars, Tick
<1>2. CASE ExpirePending
  BY <1>2 DEF ExpirePending, MoneyBack
<1>3. ASSUME NEW r \in Sessions, BookStep(r) PROVE pay'[s] # "not_required"
  BY <1>3 DEF TypeOK, BookStep, BookUnpaid, InsertHold, CreateCheckout, CheckoutFails, CancelHold,
     AttachCheckout, AttachRef, AttachFails, CloseLapsed, MarkExpired, BookCrash
<1>4. ASSUME NEW r \in Sessions, ProviderStep(r) \/ WebhookStep(r) PROVE pay'[s] # "not_required"
  BY <1>4 DEF TypeOK, ProviderStep, WebhookStep, Authorise, PageExpires, ApplyAuthorized,
     RequestCoach, MarkToRelease, ApplyExpired, CancelHold
<1>5. ASSUME NEW r \in Sessions, AnswerStep(r) PROVE pay'[s] # "not_required"
  BY <1>5 DEF TypeOK, AnswerStep, Confirm, BeginConfirm, Capture, CommitConfirm,
     RollbackConfirm, Decline, MoneyBack
<1>6. ASSUME NEW r \in Sessions, ParticipantStep(r) PROVE pay'[s] # "not_required"
  BY <1>6 DEF TypeOK, ParticipantStep, CancelUnpaid, SetStatus, ClientReschedule,
     CoachReadsSession, CoachReschedules
<1>7. ASSUME NEW w \in Sweepers, SweepStep(w) PROVE pay'[s] # "not_required"
  <2>1. CASE SweepMark(w)
    <3>1. PICK r \in Sessions, stage \in 1..3 :
          pay' = [pay EXCEPT ![r] = IF @ = Owed[stage] THEN Settled[stage] ELSE @]
      BY <2>1 DEF SweepMark, Stages, TypeOK
    <3>2. Settled[stage] # "not_required"
      BY <3>1 DEF Settled
    <3> QED
      BY <3>1, <3>2 DEF TypeOK
  <2> QED
    BY <1>7, <2>1 DEF SweepStep, SweepHolds, SweepList, SweepCall, SweepAbort
<1> QED
  BY <1>1, <1>2, <1>3, <1>4, <1>5, <1>6, <1>7 DEF Next

\* A row booked while payments were off never enters the promise; one not yet
\* booked enters it with a hold and nothing on the card.
LEMMA UnpaidKept ==
  ASSUME TypeOK, BooksAgree, [Next]_vars, NEW s \in Sessions, pay[s] = "not_required"
  PROVE  Kept(s)
<1> USE DEF table, provider, calls, sweeps
<1>1. /\ card[s] = "none" /\ ~Announced(s) /\ answer[s] = "none"
      /\ status[s] # "pending_payment" /\ checkout[s] = "none"
      /\ booking[s] \notin {"inserted", "created"}
  BY DEF BooksAgree, BookedSoFar, ColumnsAgree, CardMatches, AnswerHolds
<1> DEFINE Goal == /\ card'[s] = card[s]
                   /\ pay'[s] = "not_required" \/ status'[s] = "pending_payment"
<1>2. CASE UNCHANGED vars \/ Tick
  BY <1>2, UntouchedKept DEF vars, Tick
<1>3. CASE ExpirePending
  <2>1. Goal
    BY <1>3 DEF ExpirePending, MoneyBack
  <2> QED
    BY <1>1, <2>1 DEF Kept, Money, Meeting
<1>4. ASSUME NEW r \in Sessions, BookStep(r) PROVE Goal
  BY <1>1, <1>4 DEF TypeOK, BookStep, BookUnpaid, InsertHold, CreateCheckout, CheckoutFails,
     CancelHold, AttachCheckout, AttachRef, AttachFails, CloseLapsed, MarkExpired, BookCrash
<1>5. ASSUME NEW r \in Sessions, ProviderStep(r) PROVE Goal
  BY <1>1, <1>5 DEF TypeOK, ProviderStep, Authorise, PageExpires
<1>6. ASSUME NEW r \in Sessions, WebhookStep(r) PROVE Goal
  BY <1>1, <1>6 DEF TypeOK, WebhookStep, ApplyAuthorized, NewEvent, Announced,
     RequestCoach, MarkToRelease, ApplyExpired, CancelHold
<1>7. ASSUME NEW r \in Sessions, AnswerStep(r) PROVE Goal
  BY <1>1, <1>7 DEF TypeOK, AnswerStep, Confirm, BeginConfirm, Capture, CommitConfirm,
     RollbackConfirm, Decline, MoneyBack
<1>8. ASSUME NEW r \in Sessions, ParticipantStep(r) PROVE Goal
  BY <1>1, <1>8 DEF TypeOK, ParticipantStep, CancelUnpaid, SetStatus, ClientReschedule,
     CoachReadsSession, CoachReschedules
<1>9. ASSUME NEW w \in Sweepers, SweepStep(w) PROVE Goal
  <2>1. ASSUME NEW r \in Sessions, SweepCall(w, r) PROVE Goal
    BY <1>1, <2>1 DEF TypeOK, SweepCall, ProviderCleanup, ClosePage
  <2>2. CASE SweepMark(w)
    <3>1. PICK r \in Sessions, stage \in 1..3 :
          /\ pay' = [pay EXCEPT ![r] = IF @ = Owed[stage] THEN Settled[stage] ELSE @]
          /\ card' = card
      BY <2>2 DEF SweepMark, Stages, TypeOK
    <3>2. Owed[stage] # "not_required"
      BY <3>1 DEF Owed
    <3> QED
      BY <3>1, <3>2 DEF TypeOK
  <2> QED
    BY <1>1, <1>9, <2>1, <2>2 DEF SweepStep, SweepHolds, Lapsed, SweepList, SweepAbort
<1>10. ASSUME Goal PROVE Kept(s)
  BY <1>1, <1>10 DEF Kept, Money, Meeting
<1> QED
  BY <1>2, <1>3, <1>4, <1>5, <1>6, <1>7, <1>8, <1>9, <1>10 DEF Next

LEMMA PaidKept ==
  ASSUME ~CaptureMayBeLost, TypeOK, BooksAgree, [Next]_vars, NEW s \in Sessions,
         pay[s] # "not_required"
  PROVE  Kept(s)
<1> USE DEF table, provider, calls, sweeps
<1>0. pay[s] # "not_required" /\ pay'[s] # "not_required"
  BY PaidStays
<1>1. Story(s) /\ Mapped(s) /\ Mapped(s)'
  BY <1>0, Mapping DEF BooksAgree, Story
<1>2. /\ status[s] \in Statuses /\ pay[s] \in PayStatuses
      /\ card[s] \in {"none", "held", "captured", "released", "refunded"}
  BY DEF TypeOK
<1> DEFINE Same == status'[s] = status[s] /\ pay'[s] = pay[s] /\ card'[s] = card[s]
           Ends == /\ status'[s] \notin {"none", "pending_payment", "pending", "scheduled"}
                   /\ status'[s] = "expired" => pay'[s] \notin Unrecorded
                   /\ card'[s] = card[s]
<1>3. ASSUME Unasked(s), Ends, card[s] \in {"none", "held"} PROVE Kept(s)
  BY <1>1, <1>3 DEF Kept, Mapped, Unasked
<1>4. ASSUME Unasked(s), Unasked(s)', card'[s] = card[s] PROVE Kept(s)
  BY <1>1, <1>4 DEF Kept, Mapped
<1>5. ASSUME status[s] \in {"pending", "scheduled"}, Ends, answer[s] = "none" PROVE Kept(s)
  <2>1. \/ status[s] = "pending" /\ pay[s] = "authorized" /\ card[s] = "held"
        \/ pay[s] = "paid" /\ card[s] = "captured"
    BY <1>1, <1>0, <1>5, ~CaptureMayBeLost
       DEF Story, ColumnsAgree, CardMatches
  <2> QED
    BY <1>1, <1>5, <2>1 DEF Kept, Mapped, Unasked
<1>6. status[s] = "pending_payment" => card[s] \in {"none", "held"}
  BY <1>1 DEF Story, ColumnsAgree, CardMatches, Unrecorded
<1>7. CASE UNCHANGED vars \/ Tick
  BY <1>7, UntouchedKept DEF vars, Tick
<1>8. CASE ExpirePending
  <2>1. CASE Overdue(s)
    <3>1. /\ status[s] = "pending" /\ answer[s] = "none" /\ card'[s] = card[s]
          /\ status'[s] = "expired" /\ pay'[s] = MoneyBack(pay[s])
          /\ pay[s] \in {"authorized", "paid"}
      BY <1>1, <1>8, <1>0, <2>1
         DEF ExpirePending, Overdue, Unlocked, Story, ColumnsAgree
    <3> QED
      BY <1>5, <3>1 DEF MoneyBack, Unrecorded
  <2>2. CASE ~Overdue(s)
    BY <1>8, <2>2, UntouchedKept DEF ExpirePending
  <2> QED
    BY <2>1, <2>2
<1>9. ASSUME NEW r \in Sessions, BookStep(r) PROVE Kept(s)
  <2>1. CASE r # s
    <3>1. Same
      BY <1>9, <2>1 DEF TypeOK, BookStep, BookUnpaid, InsertHold, CreateCheckout, CheckoutFails,
         CancelHold, AttachCheckout, AttachRef, AttachFails, CloseLapsed, MarkExpired, BookCrash
    <3> QED
      BY <3>1, UntouchedKept
  <2>2. CASE r = s
    <3>1. CASE CheckoutFails(s)
      BY <1>1, <1>3, <1>6, <3>1, UntouchedKept DEF CheckoutFails, CancelHold, Unasked, TypeOK
    <3>2. CASE AttachCheckout(s) \/ AttachFails(s)
      <4>1. /\ pay[s] \in Unrecorded /\ pay'[s] \in Unrecorded /\ status' = status /\ card' = card
        BY <1>1, <3>2 DEF AttachCheckout, AttachFails, AttachRef, Story, BookedSoFar, Unrecorded, TypeOK
      <4>2. CASE Unasked(s)
        BY <1>4, <4>1, <4>2 DEF Unasked
      <4>3. CASE ~Unasked(s)
        BY <1>1, <4>1, <4>3 DEF Story, ColumnsAgree, Kept, Mapped, Unasked, Unrecorded
      <4> QED
        BY <4>2, <4>3
    <3>3. CASE CloseLapsed(s)
      <4>1. /\ status' = status /\ card' = card
            /\ pay'[s] = pay[s] \/ (pay[s] = "expiring" /\ pay'[s] = "failed")
        BY <3>3 DEF CloseLapsed, MarkExpired, TypeOK
      <4> QED
        BY <1>1, <4>1 DEF Story, ColumnsAgree, Kept, Mapped, Unasked, Unrecorded
    <3>4. CASE CreateCheckout(s) \/ BookCrash(s)
      BY <3>4, UntouchedKept DEF CreateCheckout, BookCrash
    <3>5. ASSUME NEW t \in Starts, BookUnpaid(s, t) \/ InsertHold(s, t) PROVE Kept(s)
      BY <1>0, <1>1, <3>5 DEF BookUnpaid, InsertHold, Story, BookedSoFar, ColumnsAgree
    <3> QED
      BY <1>9, <2>2, <3>1, <3>2, <3>3, <3>4, <3>5 DEF BookStep
  <2> QED
    BY <2>1, <2>2
<1>10. ASSUME NEW r \in Sessions, ProviderStep(r) \/ WebhookStep(r) PROVE Kept(s)
  <2>1. CASE r # s
    <3>1. Same
      BY <1>10, <2>1 DEF TypeOK, ProviderStep, WebhookStep, Authorise, PageExpires, ApplyAuthorized,
         RequestCoach, MarkToRelease, ApplyExpired, CancelHold
    <3> QED
      BY <3>1, UntouchedKept
  <2>2. CASE r = s
    <3>1. CASE PageExpires(s)
      BY <3>1, UntouchedKept DEF PageExpires
    <3>2. CASE Authorise(s)
      <4>1. /\ card[s] = "none" /\ card'[s] = "held" /\ status' = status /\ pay' = pay
        BY <1>1, <1>2, <3>2 DEF Authorise, Story, BookedSoFar, TypeOK
      <4>2. pay[s] \in Unrecorded
        BY <1>1, <1>2, <3>2, <4>1 DEF Authorise, Story, ColumnsAgree, CardMatches, PayStatuses, Unrecorded
      <4> QED
        BY <1>1, <4>1, <4>2 DEF Story, ColumnsAgree, Kept, Mapped, Unasked, Unrecorded
    <3>3. CASE ApplyAuthorized(s)
      <4>1. card[s] = "held" /\ pay[s] \in Unrecorded /\ card' = card
        BY <1>1, <1>2, <3>3 DEF ApplyAuthorized, NewEvent, Story, BookedSoFar, CardMatches,
           Announced, Known, Unrecorded
      <4>2. \/ Unasked(s) /\ status'[s] = "pending" /\ pay'[s] = "authorized"
            \/ status[s] = "pending_payment" /\ status'[s] = "expired" /\ pay'[s] = "releasing"
            \/ status'[s] = status[s] /\ status[s] # "pending_payment" /\ pay'[s] = "releasing"
        BY <1>1, <3>3, <4>1 DEF ApplyAuthorized, RequestCoach, Revivable, MarkToRelease, Unasked,
           Story, ColumnsAgree, Unrecorded, TypeOK
      <4> QED
        BY <1>1, <4>1, <4>2 DEF Story, ColumnsAgree, Kept, Mapped, Unasked, Unrecorded
    <3>4. CASE ApplyExpired(s)
      BY <1>3, <1>6, <3>4, UntouchedKept DEF ApplyExpired, CancelHold, Unasked, TypeOK
    <3> QED
      BY <1>10, <2>2, <3>1, <3>2, <3>3, <3>4 DEF ProviderStep, WebhookStep
  <2> QED
    BY <2>1, <2>2
<1>11. ASSUME NEW r \in Sessions, AnswerStep(r) PROVE Kept(s)
  <2>1. CASE r # s
    <3>1. Same
      BY <1>11, <2>1 DEF TypeOK, AnswerStep, Confirm, BeginConfirm, Capture, CommitConfirm,
         RollbackConfirm, Decline
    <3> QED
      BY <3>1, UntouchedKept
  <2>2. CASE r = s
    <3>1. CASE BeginConfirm(s) \/ RollbackConfirm(s)
      BY <3>1, UntouchedKept DEF BeginConfirm, RollbackConfirm
    <3>2. CASE Confirm(s)
      BY <1>0, <1>1, <3>2 DEF Confirm, Answerable, Story, ColumnsAgree,
         CardMatches, Kept, Mapped, Unasked, TypeOK
    <3>3. CASE Capture(s)
      BY <1>1, <3>3, ~CaptureMayBeLost DEF Capture, Story, CardMatches, AnswerHolds,
         Kept, Mapped, Unasked, TypeOK
    <3>4. CASE CommitConfirm(s)
      BY <1>1, <3>4 DEF CommitConfirm, Story, CardMatches, AnswerHolds,
         Kept, Mapped, Unasked, TypeOK
    <3>5. CASE Decline(s)
      <4>1. status[s] = "pending" /\ answer[s] = "none" /\ Ends
        BY <3>5 DEF Decline, Answerable, Unlocked, TypeOK
      <4> QED
        BY <1>5, <4>1
    <3> QED
      BY <1>11, <2>2, <3>1, <3>2, <3>3, <3>4, <3>5 DEF AnswerStep
  <2> QED
    BY <2>1, <2>2
<1>12. ASSUME NEW r \in Sessions, ParticipantStep(r) PROVE Kept(s)
  <2>1. CASE r # s
    <3>1. Same
      BY <1>12, <2>1 DEF TypeOK, ParticipantStep, CancelUnpaid, SetStatus, ClientReschedule,
         CoachReadsSession, CoachReschedules
    <3> QED
      BY <3>1, UntouchedKept
  <2>2. CASE r = s
    <3>1. CASE CancelUnpaid(s)
      BY <1>3, <1>6, <3>1 DEF CancelUnpaid, Unasked, TypeOK
    <3>2. ASSUME NEW to \in {"cancelled", "completed", "no_show"}, SetStatus(s, to) PROVE Kept(s)
      <4>1. status[s] \in {"pending", "scheduled"} /\ answer[s] = "none" /\ Ends
        BY <3>2 DEF SetStatus, Unlocked, TypeOK
      <4> QED
        BY <1>5, <4>1
    <3>3. ASSUME NEW t \in Starts, ClientReschedule(s, t) PROVE Kept(s)
      <4>1. /\ status[s] \in {"pending", "scheduled"} /\ status'[s] = "pending"
            /\ pay' = pay /\ card' = card
        BY <3>3 DEF ClientReschedule, Movable, TypeOK
      <4>2. /\ status[s] = "scheduled" => pay[s] = "paid" /\ card[s] = "captured"
            /\ status[s] = "pending" => pay[s] \in {"authorized", "paid"}
        BY <1>0, <1>1, <4>1 DEF Story, ColumnsAgree, CardMatches
      <4> QED
        BY <1>1, <4>1, <4>2 DEF Kept, Mapped
    <3>4. CASE CoachReschedules(s) \/ \E t \in Starts : CoachReadsSession(s, t)
      <4>1. status'[s] = status[s] /\ pay' = pay /\ card' = card
        BY <3>4 DEF CoachReadsSession, CoachReschedules, TypeOK
      <4> QED
        BY <4>1, UntouchedKept
    <3> QED
      BY <1>12, <2>2, <3>1, <3>2, <3>3, <3>4 DEF ParticipantStep
  <2> QED
    BY <2>1, <2>2
<1>13. ASSUME NEW w \in Sweepers, SweepStep(w) PROVE Kept(s)
  <2>1. CASE SweepHolds(w)
    <3>1. CASE Lapsed(s)
      BY <1>4, <2>1, <3>1 DEF SweepHolds, Lapsed, Unasked, Unrecorded, TypeOK
    <3> QED
      BY <2>1, <3>1, UntouchedKept DEF SweepHolds
  <2>2. CASE SweepList(w) \/ SweepAbort(w)
    BY <2>2, UntouchedKept DEF SweepList, SweepAbort
  <2>3. ASSUME NEW r \in Sessions, SweepCall(w, r) PROVE Kept(s)
    <3>1. /\ r \in sweep[w].todo /\ ProviderCleanup(r, sweep[w].stage)
          /\ status' = status /\ pay' = pay
      BY <2>3 DEF SweepCall
    <3>2. CASE card'[s] = card[s]
      BY <3>1, <3>2, UntouchedKept
    <3>3. CASE card'[s] # card[s]
      <4>1. \/ card[s] = "held" /\ card'[s] = "released" /\ pay[s] \in {"releasing", "released"}
            \/ card[s] = "captured" /\ card'[s] = "refunded" /\ pay[s] \in {"refund_due", "refunded"}
        BY <3>1, <3>3 DEF ProviderCleanup, BooksAgree, ListIsOwed, TypeOK
      <4> QED
        BY <1>1, <3>1, <4>1 DEF Story, ColumnsAgree, Kept, Mapped, Unasked, Unrecorded
    <3> QED
      BY <3>2, <3>3
  <2>4. CASE SweepMark(w)
    <3>1. PICK r \in Sessions, stage \in 1..3 :
          /\ pay' = [pay EXCEPT ![r] = IF @ = Owed[stage] THEN Settled[stage] ELSE @]
          /\ status' = status /\ card' = card
      BY <2>4 DEF SweepMark, Stages, TypeOK
    <3>2. /\ {Owed[stage], Settled[stage]} \cap {"authorized", "paid"} = {}
          /\ Owed[stage] \in Unrecorded <=> Settled[stage] \in Unrecorded
      BY <3>1 DEF Owed, Settled, Unrecorded
    <3>3. /\ pay[s] \in Unrecorded <=> pay'[s] \in Unrecorded
          /\ pay[s] = "authorized" <=> pay'[s] = "authorized"
          /\ pay[s] = "paid" <=> pay'[s] = "paid"
      BY <3>1, <3>2 DEF TypeOK
    <3> QED
      BY <1>0, <3>1, <3>3 DEF Kept, Money, Meeting
  <2> QED
    BY <1>13, <2>1, <2>2, <2>3, <2>4 DEF SweepStep
<1> QED
  BY <1>7, <1>8, <1>9, <1>10, <1>11, <1>12, <1>13 DEF Next

LEMMA StepKept ==
  ASSUME ~CaptureMayBeLost, TypeOK, BooksAgree, [Next]_vars, NEW s \in Sessions
  PROVE  Kept(s)
  BY UnpaidKept, PaidKept

\* As long as no capture is lost, every booking keeps the promise made to its
\* client, in every mix of rows booked with payments on and off.
THEOREM PromiseKept ==
  ASSUME ~CaptureMayBeLost PROVE Spec => KeepsPromise
<1>1. Init => Promise!Init
  BY DEF Init, Promise!Init, Money, Meeting
<1>2. TypeOK /\ BooksAgree /\ [Next]_vars => [Promise!Next]_Promise!vars
  BY StepKept, KeptIsStep, ~CaptureMayBeLost DEF Promise!Next
<1> QED
  BY <1>1, <1>2, TypeCorrect, BooksAlwaysAgree, PTL DEF Spec, KeepsPromise, Promise!Spec
=============================================================================
