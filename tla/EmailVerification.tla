-------------------------- MODULE EmailVerification --------------------------
(***************************************************************************)
(* Sign-up, resend, verification and Google sign-in for one address:        *)
(* SignUp, ResendVerification, VerifyEmail and SignInWithGoogle of          *)
(* auth/service.go over the users row and the code that                     *)
(* auth/verifycache.go keeps in Redis.  Each Redis command or script and    *)
(* each SQL statement is one step; calls run concurrently.                  *)
(*                                                                         *)
(* A code is its number in the order they are generated, so no two are     *)
(* equal; a mail's fate only decides who knows a code, and any code may be *)
(* guessed.  The tokens a call returns are RefreshRotation's.               *)
(***************************************************************************)
EXTENDS Integers, FiniteSets

CONSTANTS
  MaxCalls,     \* bound: calls in all; each makes one row and one code at most
  MaxAttempts,  \* maxVerificationAttempts
  MaxFaults     \* bound: failed Redis or SQL calls and dead requests

ASSUME VerificationAssumption == {MaxCalls, MaxFaults} \subseteq Nat /\ MaxAttempts \in Nat \ {0}

Calls == 1..MaxCalls
Ids   == Calls
Codes == Calls

VARIABLES
  row,      \* the users row of the address; id 0 when there is none
  cache,    \* the code and the attempt counter of each id; code 0 when there is none
  call,     \* how far each call is: its row id, and its code or guess
  issued,   \* how many codes were generated
  latest,   \* the code stored last for each id
  expired,  \* codes that timed out
  misses,   \* wrong guesses compared with each code
  forgiven, \* of those, the most that can have gone uncounted
  stale,    \* calls about to count an older miss when a code's counter was reset
  settled,  \* codes whose Store completed with no discard under way
  faults    \* how much of MaxFaults is used

history == <<latest, expired, misses, forgiven, stale, settled>>
vars    == <<row, cache, call, issued, history, faults>>

Idle == [at |-> "idle", id |-> 0, code |-> 0]
Over == [at |-> "over", id |-> 0, code |-> 0]
None == [code |-> 0, count |-> 0]

Steps == {"idle", "create", "setcode", "setcount", "rollback", "read", "failed", "discard",
          "matched", "consume", "google", "again", "confirm", "over"}

TypeOK ==
  /\ row \in [id : 0..MaxCalls, verified : BOOLEAN] /\ (row.verified => row.id # 0)
  /\ cache \in [Ids -> [code : 0..MaxCalls, count : 0..MaxCalls]]
  /\ call \in [Calls -> [at : Steps, id : 0..MaxCalls, code : 0..MaxCalls]]
  /\ issued \in 0..MaxCalls
  /\ latest \in [Ids -> 0..MaxCalls]
  /\ expired \subseteq Codes /\ settled \subseteq Codes
  /\ {misses, forgiven, stale} \subseteq [Codes -> Nat]
  /\ faults \in 0..MaxFaults
  /\ \A i \in Ids : cache[i].code \in {0, latest[i]}
  /\ \A c \in Calls : call[c].at \in {"setcode", "setcount"} => call[c].code \in 1..issued

Init ==
  /\ row = [id |-> 0, verified |-> FALSE]
  /\ cache = [i \in Ids |-> None]
  /\ call = [c \in Calls |-> Idle]
  /\ issued = 0
  /\ latest = [i \in Ids |-> 0]
  /\ expired = {} /\ settled = {}
  /\ misses = [k \in Codes |-> 0] /\ forgiven = [k \in Codes |-> 0] /\ stale = [k \in Codes |-> 0]
  /\ faults = 0

Fault == faults < MaxFaults /\ faults' = faults + 1

\* A call starts; they are numbered in the order they do.
Starts(c) == call[c].at = "idle" /\ \A b \in 1..c - 1 : call[b].at # "idle"
Goes(c, at) == call' = [call EXCEPT ![c].at = at]
Ends(c) == call' = [call EXCEPT ![c] = Over]
With(i, at) == {c \in Calls : call[c].id = i /\ call[c].at = at}
-----------------------------------------------------------------------------
(* The users row *)

\* CreateUser: the row's id is the number of the call that made it.
CreateUser(c, verified) == row' = [id |-> c, verified |-> verified]
VerifyUserEmail(i) == row' = [row EXCEPT !.verified = TRUE]
DeleteUser(i) == row' = IF row.id = i THEN [id |-> 0, verified |-> FALSE] ELSE row

\* A new code: randomCode.
NewCode == issued' = issued + 1
-----------------------------------------------------------------------------
(* VerificationCache *)

SetCode(i, k) == cache' = [cache EXCEPT ![i].code = k]

SetCount(i) == cache' = [cache EXCEPT ![i].count = 0]

\* Faulty variant: the counter never moves.
CountsNothing(i) == cache' = IF cache[i].code = 0 THEN [cache EXCEPT ![i].count = 0] ELSE cache

\* incrementAttemptsScript: a missing code removes the counter.
IncrementAttempts(i) ==
  cache' = [cache EXCEPT ![i].count = IF cache[i].code = 0 THEN 0 ELSE @ + 1]

Invalidate(i) == cache' = [cache EXCEPT ![i] = None]
-----------------------------------------------------------------------------
(* Sign-up and resend *)

SignUp(c) ==
  /\ Starts(c)
  /\ Goes(c, "create")
  /\ UNCHANGED <<row, cache, issued, history, faults>>

\* ErrEmailTaken, or the row and its code.
SignUpCreates(c) ==
  /\ call[c].at = "create"
  /\ \/ row.id # 0 /\ Ends(c) /\ UNCHANGED <<row, issued>>
     \/ /\ row.id = 0
        /\ CreateUser(c, FALSE) /\ NewCode
        /\ call' = [call EXCEPT ![c] = [at |-> "setcode", id |-> c, code |-> issued']]
  /\ UNCHANGED <<cache, history, faults>>

\* An unknown or verified address gets no code.
ResendVerification(c) ==
  /\ Starts(c)
  /\ \/ (row.id = 0 \/ row.verified) /\ Ends(c) /\ UNCHANGED issued
     \/ /\ row.id # 0 /\ ~row.verified
        /\ NewCode
        /\ call' = [call EXCEPT ![c] = [at |-> "setcode", id |-> row.id, code |-> issued']]
  /\ UNCHANGED <<row, cache, history, faults>>

\* Store, a pipeline and not a transaction: the code is set, then the counter.
StoreCode(c) ==
  /\ call[c].at = "setcode"
  /\ SetCode(call[c].id, call[c].code)
  /\ latest' = [latest EXCEPT ![call[c].id] = call[c].code]
  /\ Goes(c, "setcount")
  /\ UNCHANGED <<row, issued, expired, misses, forgiven, stale, settled, faults>>

\* What the counter held is forgiven to the code it now belongs to.
StoreCount(c) ==
  /\ call[c].at = "setcount"
  /\ LET i == call[c].id  k == call[c].code  now == cache[i].code IN
     /\ SetCount(i)
     /\ forgiven' = IF now = 0 THEN forgiven ELSE [forgiven EXCEPT ![now] = @ + cache[i].count]
     /\ stale' = [stale EXCEPT ![k] = Cardinality(With(i, "failed"))]
     /\ settled' = IF now = k /\ With(i, "discard") = {} THEN settled \cup {k} ELSE settled
  /\ Ends(c)
  /\ UNCHANGED <<row, issued, latest, expired, misses, faults>>

\* Store fails: a sign-up takes its row back out, a resend reports the error.
StoreFails(c) ==
  /\ call[c].at \in {"setcode", "setcount"} /\ Fault
  /\ IF call[c].id = c THEN Goes(c, "rollback") ELSE Ends(c)
  /\ UNCHANGED <<row, cache, issued, history>>

RollBack(c) ==
  /\ call[c].at = "rollback"
  /\ DeleteUser(c)
  /\ Ends(c)
  /\ UNCHANGED <<cache, issued, history, faults>>

\* The code and its counter, pinned to it, time out.
CodeExpires(i) ==
  /\ cache[i].code # 0
  /\ expired' = expired \cup {cache[i].code}
  /\ Invalidate(i)
  /\ UNCHANGED <<row, call, issued, latest, misses, forgiven, stale, settled, faults>>
-----------------------------------------------------------------------------
(* Verification *)

\* The lookup: no row is ErrInvalidCode, a verified one needs no code.
VerifyEmail(c) ==
  /\ Starts(c)
  /\ \/ (row.id = 0 \/ row.verified) /\ Ends(c)
     \/ /\ row.id # 0 /\ ~row.verified
        /\ \E guess \in 0..issued :
             call' = [call EXCEPT ![c] = [at |-> "read", id |-> row.id, code |-> guess]]
  /\ UNCHANGED <<row, cache, issued, history, faults>>

\* Faulty variant: the code is spent as soon as it matches.
CompareSpends(c) ==
  /\ call[c].at = "read"
  /\ LET i == call[c].id  k == cache[i].code IN
     IF k # 0 /\ k = call[c].code
       THEN Goes(c, "matched") /\ Invalidate(i) /\ UNCHANGED misses
       ELSE /\ Goes(c, "failed")
            /\ misses' = IF k = 0 THEN misses ELSE [misses EXCEPT ![k] = @ + 1]
            /\ UNCHANGED cache
  /\ UNCHANGED <<row, issued, latest, expired, forgiven, stale, settled, faults>>

\* codes.Get and the comparison.
Compare(c) ==
  /\ call[c].at = "read"
  /\ LET k == cache[call[c].id].code IN
     IF k # 0 /\ k = call[c].code
       THEN Goes(c, "matched") /\ UNCHANGED misses
       ELSE /\ Goes(c, "failed")
            /\ misses' = IF k = 0 THEN misses ELSE [misses EXCEPT ![k] = @ + 1]
  /\ UNCHANGED <<row, cache, issued, latest, expired, forgiven, stale, settled, faults>>

\* recordFailedAttempt: the count after the script decides whether to discard.
RecordFailedAttempt(c) ==
  /\ call[c].at = "failed"
  /\ LET i == call[c].id IN
     /\ IncrementAttempts(i)
     /\ IF cache'[i].count >= MaxAttempts THEN Goes(c, "discard") ELSE Ends(c)
  /\ UNCHANGED <<row, issued, history, faults>>

Discard(c) ==
  /\ call[c].at \in {"discard", "consume"}
  /\ Invalidate(call[c].id)
  /\ Ends(c)
  /\ UNCHANGED <<row, issued, history, faults>>

\* VerifyUserEmail; the row may be gone by now.
Matched(c) ==
  /\ call[c].at = "matched"
  /\ \/ row.id = call[c].id /\ VerifyUserEmail(row.id) /\ Goes(c, "consume")
     \/ row.id # call[c].id /\ Ends(c) /\ UNCHANGED row
  /\ UNCHANGED <<cache, issued, history, faults>>
-----------------------------------------------------------------------------
(* Google *)

SignInWithGoogle(c) ==
  /\ Starts(c)
  /\ \/ row.id = 0 /\ Goes(c, "google")
     \/ row.id # 0 /\ ~row.verified /\ call' = [call EXCEPT ![c] = [at |-> "confirm", id |-> row.id, code |-> 0]]
     \/ row.id # 0 /\ row.verified /\ Ends(c)
  /\ UNCHANGED <<row, cache, issued, history, faults>>

\* createGoogleUser: a conflict resolves to the row the other call made.
CreateGoogleUser(c) ==
  /\ call[c].at = "google"
  /\ \/ row.id = 0 /\ CreateUser(c, TRUE) /\ Ends(c)
     \/ row.id # 0 /\ Goes(c, "again") /\ UNCHANGED row
  /\ UNCHANGED <<cache, issued, history, faults>>

LooksAgain(c) ==
  /\ call[c].at = "again"
  /\ \/ (row.id = 0 \/ row.verified) /\ Ends(c)
     \/ row.id # 0 /\ ~row.verified /\ call' = [call EXCEPT ![c] = [at |-> "confirm", id |-> row.id, code |-> 0]]
  /\ UNCHANGED <<row, cache, issued, history, faults>>

\* Faulty variant: the row is taken to be there still.
ConfirmBlindly(c) ==
  /\ call[c].at = "confirm"
  /\ VerifyUserEmail(call[c].id)
  /\ Ends(c)
  /\ UNCHANGED <<cache, issued, history, faults>>

\* An account rolled back since the lookup is an error.
ConfirmGoogle(c) ==
  /\ call[c].at = "confirm"
  /\ \/ row.id = call[c].id /\ VerifyUserEmail(row.id)
     \/ row.id # call[c].id /\ UNCHANGED row
  /\ Ends(c)
  /\ UNCHANGED <<cache, issued, history, faults>>
-----------------------------------------------------------------------------
\* The request dies, or its next command fails; a miss it did not count is forgiven,
\* and so is one whose discard is lost.
CallDies(c) ==
  /\ call[c].at \notin {"idle", "over"} /\ Fault
  /\ Ends(c)
  /\ LET k == IF call[c].id = 0 THEN 0 ELSE cache[call[c].id].code IN
     forgiven' = IF call[c].at \in {"failed", "discard"} /\ k # 0
                   THEN [forgiven EXCEPT ![k] = @ + 1] ELSE forgiven
  /\ UNCHANGED <<row, cache, issued, latest, expired, misses, stale, settled>>

CallStep(c) ==
  \/ SignUpCreates(c) \/ StoreCode(c) \/ StoreCount(c) \/ RollBack(c)
  \/ Compare(c) \/ RecordFailedAttempt(c) \/ Discard(c) \/ Matched(c)
  \/ CreateGoogleUser(c) \/ LooksAgain(c) \/ ConfirmGoogle(c)

Next ==
  \/ \E c \in Calls :
       \/ SignUp(c) \/ ResendVerification(c) \/ VerifyEmail(c) \/ SignInWithGoogle(c)
       \/ CallStep(c) \/ StoreFails(c) \/ CallDies(c)
  \/ \E i \in Ids : CodeExpires(i)

Spec == Init /\ [][Next]_vars
-----------------------------------------------------------------------------
\* "discarded after 3 wrong attempts": a code that can still be used has been guessed
\* wrong fewer times than that, not counting the guesses being recorded right now, those
\* whose recording failed, and those a Store running alongside has wiped.
CodeIsGuarded ==
  \A i \in Ids : cache[i].code # 0 =>
    misses[cache[i].code] < MaxAttempts + forgiven[cache[i].code]
      + Cardinality(With(i, "failed") \cup With(i, "discard"))

\* The code of the last mail works until it times out, is used, or has been missed too
\* often; misses of the code before it count against it only when they were being
\* recorded as it was stored, and only a discard already under way can take it.
LastCodeStands ==
  \A i \in Ids : LET k == latest[i] IN
    k \in settled \ expired /\ row = [id |-> i, verified |-> FALSE] =>
      cache[i].code = k \/ misses[k] + stale[k] >= MaxAttempts
-----------------------------------------------------------------------------
(* What ties rows, codes and counters together: the proofs' induction.      *)

\* Calls that name an account, calls that store a code, and the accounts whose call
\* can create no row any more.
Names(c)  == call[c].at \in {"setcode", "setcount", "rollback", "read", "failed", "discard", "matched", "consume", "confirm"}
Stores(c) == call[c].at \in {"setcode", "setcount"}
Made(i)   == call[i].at \notin {"idle", "create", "google"}

\* No row comes back, and a spent code's account is verified or gone.
RowsAgree ==
  /\ row.id # 0 => Made(row.id)
  /\ \A c \in Calls : Names(c) => call[c].id \in Ids /\ Made(call[c].id)
  /\ \A i \in Ids : latest[i] # 0 => Made(i)
  /\ \A c \in Calls : call[c].at = "consume" => row # [id |-> call[c].id, verified |-> FALSE]

\* Calls that have generated their code if they do, and calls that have counted their miss.
Generated == {c \in Calls : call[c].at \notin {"idle", "create"}}
Counted   == {c \in Calls : call[c].at \in {"over", "discard"}}

\* A code is one call's and one account's, and is not settled before it is stored.
CodesAgree ==
  /\ issued <= Cardinality(Generated)
  /\ \A i \in Ids : latest[i] <= issued
  /\ \A i, j \in Ids : latest[i] = latest[j] => i = j \/ latest[i] = 0
  /\ settled \subseteq 1..issued
  /\ \A k \in Codes : k > issued => misses[k] = 0
  /\ \A c, d \in Calls : Stores(c) /\ Stores(d) /\ call[c].code = call[d].code => c = d
  /\ \A c \in Calls : Stores(c) => call[c].code \notin settled
  /\ \A c \in Calls : call[c].at = "setcode" =>
       misses[call[c].code] = 0 /\ \A i \in Ids : latest[i] # call[c].code

\* Every miss of a code is counted, forgiven or being recorded; and what a settled code's
\* counter holds, or is about to, are its misses and the stale ones.
CountAgrees(i) ==
  LET now == cache[i].code  last == latest[i] IN
  /\ cache[i].count <= Cardinality(Counted)
  /\ now # 0 =>
       /\ misses[now] <= cache[i].count + forgiven[now] + Cardinality(With(i, "failed"))
       /\ misses[now] < MaxAttempts + forgiven[now] + Cardinality(With(i, "failed") \cup With(i, "discard"))
  /\ last \in settled \ expired =>
       /\ row = [id |-> i, verified |-> FALSE] => now = last \/ misses[last] + stale[last] >= MaxAttempts
       /\ With(i, "discard") # {} => misses[last] + stale[last] >= MaxAttempts
       /\ now = last => cache[i].count + Cardinality(With(i, "failed")) <= misses[last] + stale[last]
CountsAgree == \A i \in Ids : CountAgrees(i)
=============================================================================
