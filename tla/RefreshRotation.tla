---------------------------- MODULE RefreshRotation ----------------------------
(***************************************************************************)
(* The refresh tokens of one account: sign-in, rotation, reuse detection,   *)
(* deletion and purge (auth/refresh.go, refresh_tokens.sql) as PostgreSQL   *)
(* runs them under READ COMMITTED.                                          *)
(*                                                                         *)
(* A rotation's UPDATE locks the presented row until its transaction ends,  *)
(* and what it wrote is seen by nobody before.  A DELETE takes its snapshot *)
(* when it starts, waits for the locked rows in it, and deletes what it     *)
(* listed; rows inserted since are not in it.                               *)
(***************************************************************************)
CONSTANTS
  Tokens, \* bound: tokens that can be issued; the generator never repeats one
  Calls,  \* requests to the API; bound: each id is used once
  NULL    \* no token

ASSUME NullAssumption == NULL \notin Tokens

VARIABLES
  account, \* the users row: "active", "marked" (deleted_at is set) or "gone"
  row,     \* refresh_tokens: "none" yet, "live", "spent" (used_at is set), "gone"
  family,  \* family_id; a family is named after its first token
  old,     \* tokens whose expires_at has passed
  call,    \* how far each request is
  alarm,   \* history: a cause to end every session has occurred
  late,    \* history: tokens issued after the account was marked
  burned   \* history: families whose reuse was detected, and revoked

tokens  == <<row, family>>
history == <<alarm, late, burned>>
vars    == <<account, tokens, old, call, history>>

CallStates ==
  [at : {"idle", "open", "use", "spend", "read", "store", "revoke", "revoking", "done"},
   tok : Tokens \cup {NULL}, snap : SUBSET Tokens]

Idle == [at |-> "idle", tok |-> NULL, snap |-> {}]
Done == [at |-> "done", tok |-> NULL, snap |-> {}]

TypeOK ==
  /\ account \in {"active", "marked", "gone"}
  /\ row \in [Tokens -> {"none", "live", "spent", "gone"}]
  /\ family \in [Tokens -> Tokens \cup {NULL}]
  /\ \A t \in Tokens : family[t] = NULL <=> row[t] = "none"
  /\ old \subseteq Tokens /\ late \subseteq Tokens /\ burned \subseteq Tokens
  /\ alarm \in BOOLEAN
  /\ call \in [Calls -> CallStates]

Init ==
  /\ account = "active"
  /\ row = [t \in Tokens |-> "none"]
  /\ family = [t \in Tokens |-> NULL]
  /\ old = {}
  /\ call = [c \in Calls |-> Idle]
  /\ alarm = FALSE /\ late = {} /\ burned = {}

Stored == {t \in Tokens : row[t] \in {"live", "spent"}}

\* Rows an open rotation has updated.
Locked(t) == \E c \in Calls : call[c].tok = t /\ call[c].at \in {"read", "store"}

Goto(c, at) == call' = [call EXCEPT ![c].at = at]
End(c)      == call' = [call EXCEPT ![c] = Done]

\* Faulty variant: the zero family is stored as it is.
IssueNoFamily(n, f, rest) ==
  /\ row[n] = "none" /\ account # "gone"
  /\ row' = [rest EXCEPT ![n] = "live"]
  /\ family' = [family EXCEPT ![n] = IF f = n THEN NULL ELSE f]
  /\ late' = IF account = "active" THEN late ELSE late \cup {n}
  /\ UNCHANGED <<account, old, alarm, burned>>

\* Faulty variant: no foreign key.
IssueNoKey(n, f, rest) ==
  /\ row[n] = "none"
  /\ row' = [rest EXCEPT ![n] = "live"]
  /\ family' = [family EXCEPT ![n] = f]
  /\ late' = IF account = "active" THEN late ELSE late \cup {n}
  /\ UNCHANGED <<account, old, alarm, burned>>

\* issueRefreshToken: a fresh token joins family f; the foreign key wants the
\* account's row.  "rest" is the table as the transaction leaves it otherwise.
Issue(n, f, rest) ==
  /\ row[n] = "none" /\ account # "gone"
  /\ row' = [rest EXCEPT ![n] = "live"]
  /\ family' = [family EXCEPT ![n] = f]
  /\ late' = IF account = "active" THEN late ELSE late \cup {n}
  /\ UNCHANGED <<account, old, alarm, burned>>

-----------------------------------------------------------------------------
\* SignIn, SignInWithGoogle and VerifyEmail read the account, then check a
\* password or a code, and insert in a statement of its own, which fails if the
\* account's row has gone.
SignInReads(c) ==
  /\ call[c] = Idle /\ account = "active"
  /\ Goto(c, "open")
  /\ UNCHANGED <<account, tokens, old, history>>

SignInIssues(c) ==
  /\ call[c].at = "open"
  /\ \/ \E n \in Tokens : Issue(n, n, row)
     \/ account = "gone" /\ UNCHANGED <<account, tokens, old, history>>
  /\ End(c)

\* Refresh looks the presented token up, whoever presents it and however late;
\* one that has no row is refused.
Lookup(c, t) ==
  /\ call[c] = Idle /\ row[t] = "live"
  /\ call' = [call EXCEPT ![c] = [at |-> "use", tok |-> t, snap |-> {}]]
  /\ UNCHANGED <<account, tokens, old, history>>

LookupSpent(c, t) ==
  /\ call[c] = Idle /\ row[t] = "spent"
  /\ call' = [call EXCEPT ![c] = [at |-> "revoke", tok |-> t, snap |-> {}]]
  /\ alarm' = TRUE
  /\ UNCHANGED <<account, tokens, old, late, burned>>

\* The transaction's now() is its start: one that expires while it waits is not old.
Start(c) ==
  /\ call[c].at = "use"
  /\ IF call[c].tok \in old THEN End(c) ELSE Goto(c, "spend")
  /\ UNCHANGED <<account, tokens, old, history>>

\* Faulty variant: the lookup's answer is taken for the UPDATE's.
SpendUnchecked(c) ==
  /\ call[c].at = "spend" /\ ~Locked(call[c].tok)
  /\ Goto(c, "read")
  /\ UNCHANGED <<account, tokens, old, history>>

\* Faulty variant: the token is spent at once, outside the transaction.
SpendAtOnce(c) ==
  /\ call[c].at = "spend" /\ ~Locked(call[c].tok)
  /\ IF row[call[c].tok] = "live"
     THEN Goto(c, "read") /\ row' = [row EXCEPT ![call[c].tok] = "spent"]
     ELSE End(c) /\ UNCHANGED row
  /\ UNCHANGED <<account, family, old, history>>

\* UseRefreshToken: the UPDATE waits for a rotation that holds the row, and then
\* matches only an unspent one.
Spend(c) ==
  /\ call[c].at = "spend" /\ ~Locked(call[c].tok)
  /\ IF row[call[c].tok] = "live" THEN Goto(c, "read") ELSE End(c)
  /\ UNCHANGED <<account, tokens, old, history>>

\* Faulty variant: a marked account is found.
ReadAccountMarked(c) ==
  /\ call[c].at = "read"
  /\ IF account # "gone" THEN Goto(c, "store") ELSE End(c)
  /\ UNCHANGED <<account, tokens, old, history>>

\* GetUserByID in the transaction: a marked account is not found, and the
\* deferred rollback unlocks the row unspent.
ReadAccount(c) ==
  /\ call[c].at = "read"
  /\ IF account = "active" THEN Goto(c, "store") ELSE End(c)
  /\ UNCHANGED <<account, tokens, old, history>>

\* The replacement is inserted and the transaction commits.  Its caller may never
\* see the reply.
Exchange(c) ==
  /\ call[c].at = "store"
  /\ \E n \in Tokens :
       Issue(n, family[call[c].tok], [row EXCEPT ![call[c].tok] = "spent"])
  /\ End(c)

\* A request is cancelled, dies or fails in the database, a deadlock included:
\* its open transaction is rolled back.
Fails(c) ==
  /\ call[c].at \notin {"idle", "done"}
  /\ End(c)
  /\ UNCHANGED <<account, tokens, old, history>>

-----------------------------------------------------------------------------
\* RevokeUserRefreshTokens, from reuse detection or from DeleteAccount.
RevokeReads(c) ==
  /\ call[c].at = "revoke"
  /\ call' = [call EXCEPT ![c].at = "revoking", ![c].snap = Stored]
  /\ UNCHANGED <<account, tokens, old, history>>

RevokeDeletes(c) ==
  /\ call[c].at = "revoking" /\ \A t \in call[c].snap : ~Locked(t)
  /\ row' = [t \in Tokens |-> IF t \in call[c].snap THEN "gone" ELSE row[t]]
  /\ burned' = burned \cup {family[t] : t \in {call[c].tok} \ {NULL}}
  /\ End(c)
  /\ UNCHANGED <<account, family, old, alarm, late>>

\* DeleteAccount marks the account, then revokes its tokens.
RequestDeletion(c) ==
  /\ call[c] = Idle /\ account # "gone"
  /\ account' = "marked"
  /\ call' = [call EXCEPT ![c] = [at |-> "revoke", tok |-> NULL, snap |-> {}]]
  /\ alarm' = TRUE
  /\ UNCHANGED <<tokens, old, late, burned>>

\* The worker's DeleteUser: the cascade takes every token, after the rotations
\* whose rows it has to wait for.
DeleteUser ==
  /\ account = "marked" /\ \A t \in Tokens : ~Locked(t)
  /\ account' = "gone"
  /\ row' = [t \in Tokens |-> IF t \in Stored THEN "gone" ELSE row[t]]
  /\ UNCHANGED <<family, old, call, history>>

Expire(t) ==
  /\ t \in Stored \ old
  /\ old' = old \cup {t}
  /\ UNCHANGED <<account, tokens, call, history>>

\* DeleteExpiredRefreshTokens, once an hour.
Purge ==
  /\ Stored \cap old # {} /\ \A t \in Stored \cap old : ~Locked(t)
  /\ row' = [t \in Tokens |-> IF t \in Stored \cap old THEN "gone" ELSE row[t]]
  /\ UNCHANGED <<account, family, old, call, history>>

-----------------------------------------------------------------------------
Begin(c) ==
  \/ SignInReads(c) \/ RequestDeletion(c)
  \/ \E t \in Tokens : Lookup(c, t) \/ LookupSpent(c, t)

Continue(c) ==
  \/ SignInIssues(c) \/ Start(c) \/ Spend(c) \/ ReadAccount(c) \/ Exchange(c)
  \/ RevokeReads(c) \/ RevokeDeletes(c)

Next ==
  \/ \E c \in Calls : Begin(c) \/ Continue(c) \/ Fails(c)
  \/ DeleteUser \/ Purge
  \/ \E t \in Tokens : Expire(t)

Spec == Init /\ [][Next]_vars

-----------------------------------------------------------------------------
\* Locks, snapshots and history agree with the rows.
CallAgrees(c) ==
  /\ call[c].at \in {"read", "store"} =>
       /\ call[c].tok \in Tokens /\ row[call[c].tok] = "live"
       /\ \A d \in Calls \ {c} :
            call[d].at \in {"read", "store"} => call[d].tok # call[c].tok
  /\ call[c].at = "store" => call[c].tok \notin late
  /\ call[c].at \in {"use", "spend"} => call[c].tok \in Tokens
  /\ call[c].at \in {"revoke", "revoking"} => alarm
  /\ call[c].tok \in Tokens => row[call[c].tok] # "none"
  /\ \A t \in call[c].snap : row[t] # "none"

FamilyAgrees(t) == row[t] # "none" =>
  /\ family[t] \in Tokens /\ row[family[t]] # "none"
  /\ t \in late => account # "active" /\ row[t] # "spent"

\* Two presentations of one token, at once or one after the other, never leave
\* two tokens of its chain that can be exchanged (auth/refresh.go:120-128).
OneLivePerChain ==
  \A t, u \in Tokens :
    row[t] = "live" /\ row[u] = "live" /\ family[t] = family[u] => t = u

\* A token issued after its account was marked, to a request that had read the
\* account before, is never exchanged: the mark alone ends every chain, whatever
\* the revocation missed (auth/service.go:141-146).
LateIsUseless == \A t \in late : row[t] # "spent"

\* No token survives the account's rows, also not one of a request that was in
\* flight when they went (000006_refresh_tokens.up.sql:7-9).
GoneLeavesNone == account = "gone" => Stored = {}

ChainsAgree ==
  /\ \A c \in Calls : CallAgrees(c)
  /\ \A t \in Tokens : FamilyAgrees(t)
  /\ OneLivePerChain
  /\ account # "active" => alarm
  /\ GoneLeavesNone
  /\ old \cup late \subseteq {t \in Tokens : row[t] # "none"}

\* A session is one chain of tokens: a rotation that fails half way leaves the
\* last token as it was, no chain ends unless it expired, a spent token was
\* presented or the account is to go, and one that has ended is not resumed
\* (auth/refresh.go:89-91).
Chains == INSTANCE SessionChains
  WITH head <- [f \in Tokens |-> {t \in Tokens : row[t] = "live" /\ family[t] = f}],
       issued <- {t \in Tokens : row[t] # "none"}, aged <- old
KeepsChains == Chains!Spec

\* "Every refresh token of that account is deleted, which ends the sessions of
\* both" (auth/refresh.go:84-86): no chain whose reuse was detected goes on.  The code
\* does not keep this: RevokeReads misses what a rotation in flight inserts.
ReuseEndsTheChain == \A t \in Tokens : row[t] = "live" => family[t] \notin burned

\* "No session is ever minted for an account whose data is on its way out"
\* (auth/service.go:527-529): no sign-in issues a token after the mark.  The code does
\* not keep this: the account is read before the password is compared.
NoSignInWhenMarked == \A t \in late : family[t] # t
=============================================================================
