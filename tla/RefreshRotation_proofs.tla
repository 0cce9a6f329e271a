------------------------- MODULE RefreshRotation_proofs -------------------------
(***************************************************************************)
(* What RefreshRotation guarantees for any number of tokens and requests.   *)
(***************************************************************************)
EXTENDS RefreshRotation, TLAPS

Inv == TypeOK /\ ChainsAgree

-----------------------------------------------------------------------------
(* Steps of one kind. *)

\* A request goes on to k and the token rows stay.
LEMMA CallMoves ==
  ASSUME Inv, NEW c \in Calls, NEW k \in CallStates, call' = [call EXCEPT ![c] = k],
         UNCHANGED <<tokens, old, late>>, burned' \subseteq Tokens, alarm' \in {alarm, TRUE},
         account' = account \/ (account # "gone" /\ account' = "marked" /\ alarm'),
         CallAgrees(c)'
  PROVE  Inv'
<1>1. /\ call'[c] = k /\ \A d \in Calls \ {c} : call'[d] = call[d]
      /\ row' = row /\ family' = family
  BY DEF Inv, TypeOK, tokens
<1>2. TypeOK'
  BY <1>1 DEF Inv, TypeOK
<1>3. ASSUME NEW d \in Calls \ {c} PROVE CallAgrees(d)'
  <2>1. call'[d] = call[d] /\ d # c /\ CallAgrees(d)
    BY <1>1 DEF Inv, ChainsAgree
  <2>2. ASSUME call[d].at \in {"read", "store"}, NEW e \in Calls \ {d},
               call'[e].at \in {"read", "store"}
        PROVE  call'[e].tok # call'[d].tok
    <3>1. CASE e = c
      BY <2>1, <2>2, <3>1 DEF CallAgrees
    <3>2. CASE e # c
      BY <1>1, <2>1, <2>2, <3>2 DEF CallAgrees
    <3> QED BY <3>1, <3>2
  <2>3. call[d].at \in {"revoke", "revoking"} => alarm'
    BY <2>1 DEF CallAgrees
  <2> QED BY <1>1, <2>1, <2>2, <2>3 DEF CallAgrees
<1>4. \A t \in Tokens : FamilyAgrees(t)'
  BY <1>1 DEF Inv, ChainsAgree, FamilyAgrees
<1>5. OneLivePerChain' /\ GoneLeavesNone'
  BY <1>1 DEF Inv, ChainsAgree, OneLivePerChain, GoneLeavesNone, Stored
<1> QED BY <1>1, <1>2, <1>3, <1>4, <1>5 DEF Inv, ChainsAgree

\* The rows of S, which no rotation holds, are removed.
LEMMA RowsRemoved ==
  ASSUME Inv, NEW S \in SUBSET Tokens, \A t \in S : row[t] # "none" /\ ~Locked(t),
         row' = [t \in Tokens |-> IF t \in S THEN "gone" ELSE row[t]],
         UNCHANGED <<family, old, late, alarm>>, burned' \subseteq Tokens,
         call' \in [Calls -> CallStates], \A d \in Calls : call'[d] \in {call[d], Done},
         account' = account \/ (account = "marked" /\ account' = "gone" /\ S = Stored)
  PROVE  Inv'
<1>1. \A t \in Tokens : /\ t \in S => row'[t] = "gone" /\ row[t] # "none"
                        /\ t \notin S => row'[t] = row[t]
                        /\ row'[t] = "none" <=> row[t] = "none"
  OBVIOUS
<1>2. TypeOK'
  BY <1>1 DEF Inv, TypeOK
<1>3. ASSUME NEW d \in Calls PROVE CallAgrees(d)'
  <2>1. CASE call'[d] = Done
    BY <2>1, NullAssumption DEF CallAgrees, Done
  <2>2. CASE call'[d] = call[d]
    <3>1. call[d].at \in {"read", "store"} => call[d].tok \in Tokens \ S
      BY DEF Locked, Inv, ChainsAgree, CallAgrees
    <3>2. \A e \in Calls : call'[e].at \in {"read", "store"} => call'[e] = call[e]
      BY DEF Done
    <3> QED BY <1>1, <2>2, <3>1, <3>2 DEF Inv, TypeOK, CallStates, ChainsAgree, CallAgrees
  <2> QED BY <2>1, <2>2
<1>4. \A t \in Tokens : FamilyAgrees(t)'
  BY <1>1 DEF Inv, TypeOK, ChainsAgree, FamilyAgrees
<1>5. OneLivePerChain'
  BY <1>1 DEF Inv, ChainsAgree, OneLivePerChain
<1>6. GoneLeavesNone'
  BY <1>1 DEF Inv, ChainsAgree, GoneLeavesNone, Stored
<1>7. (old \cup late)' \subseteq {t \in Tokens : row'[t] # "none"}
  BY <1>1 DEF Inv, ChainsAgree
<1> QED BY <1>2, <1>3, <1>4, <1>5, <1>6, <1>7 DEF Inv, ChainsAgree

\* A new token founds a family or takes the place of the one it is exchanged for.
LEMMA TokenIssued ==
  ASSUME Inv, NEW c \in Calls, End(c), NEW n \in Tokens,
         \/ call[c].at = "open" /\ Issue(n, n, row)
         \/ call[c].at = "store" /\
              Issue(n, family[call[c].tok], [row EXCEPT ![call[c].tok] = "spent"])
  PROVE  /\ Inv'
         /\ row[n] = "none" /\ row'[n] = "live" /\ family'[n] \in Tokens
         /\ \A t \in Tokens : t # n => family'[t] = family[t]
         /\ \/ family'[n] = n /\ \A t \in Tokens : t # n => row'[t] = row[t]
            \/ \E o \in Tokens : /\ o # n /\ row[o] = "live" /\ row'[o] = "spent"
                                 /\ family'[n] = family[o]
                                 /\ \A t \in Tokens : t \notin {n, o} => row'[t] = row[t]
<1>1. /\ row[n] = "none" /\ account # "gone"
      /\ late' = IF account = "active" THEN late ELSE late \cup {n}
      /\ UNCHANGED <<account, old, alarm, burned>>
      /\ n \notin old /\ n \notin late
  BY DEF Issue, Inv, ChainsAgree
<1>2. call'[c] = Done /\ (\A d \in Calls \ {c} : call'[d] = call[d]) /\ call' \in [Calls -> CallStates]
  BY DEF End, Inv, TypeOK, CallStates, Done
\* A sign-in's token.
<1>3. CASE call[c].at = "open" /\ Issue(n, n, row)
  <2>1. /\ row'[n] = "live" /\ family'[n] = n
        /\ \A t \in Tokens : t # n => row'[t] = row[t] /\ family'[t] = family[t]
    BY <1>3 DEF Issue, Inv, TypeOK
  <2>2. TypeOK'
    BY <1>1, <1>2, <1>3, <2>1, NullAssumption DEF Issue, Inv, TypeOK
  <2>3. ASSUME NEW d \in Calls PROVE CallAgrees(d)'
    BY <1>1, <1>2, <2>1, NullAssumption DEF Inv, ChainsAgree, CallAgrees, Done, TypeOK, CallStates
  <2>4. ASSUME NEW t \in Tokens PROVE FamilyAgrees(t)'
    BY <1>1, <2>1 DEF Inv, ChainsAgree, FamilyAgrees
  <2>5. OneLivePerChain'
    BY <1>1, <2>1 DEF Inv, ChainsAgree, OneLivePerChain, FamilyAgrees
  <2>6. GoneLeavesNone' /\ (account' # "active" => alarm')
    BY <1>1 DEF Inv, ChainsAgree, GoneLeavesNone
  <2>7. (old \cup late)' \subseteq {t \in Tokens : row'[t] # "none"}
    BY <1>1, <2>1 DEF Inv, ChainsAgree
  <2> QED BY <1>1, <2>1, <2>2, <2>3, <2>4, <2>5, <2>6, <2>7 DEF Inv, ChainsAgree
\* An exchanged one.
<1>4. CASE /\ call[c].at = "store"
           /\ Issue(n, family[call[c].tok], [row EXCEPT ![call[c].tok] = "spent"])
  <2> DEFINE o == call[c].tok
  <2>1. /\ o \in Tokens /\ row[o] = "live" /\ o # n /\ o \notin late
        /\ family[o] \in Tokens /\ row[family[o]] # "none"
        /\ \A d \in Calls \ {c} : call[d].at \in {"read", "store"} => call[d].tok # o
    BY <1>1, <1>4 DEF Inv, ChainsAgree, CallAgrees, FamilyAgrees
  <2>2. /\ row'[n] = "live" /\ row'[o] = "spent" /\ family'[n] = family[o]
        /\ \A t \in Tokens : t \notin {n, o} => row'[t] = row[t]
        /\ \A t \in Tokens : t # n => family'[t] = family[t]
    BY <1>4, <2>1 DEF Issue, Inv, TypeOK
  <2>3. TypeOK'
    BY <1>1, <1>2, <1>4, <2>1, <2>2, NullAssumption DEF Issue, Inv, TypeOK
  <2>4. ASSUME NEW d \in Calls PROVE CallAgrees(d)'
    BY <1>1, <1>2, <2>1, <2>2, NullAssumption
       DEF Inv, ChainsAgree, CallAgrees, Done, TypeOK, CallStates
  <2>5. ASSUME NEW t \in Tokens PROVE FamilyAgrees(t)'
    BY <1>1, <2>1, <2>2 DEF Inv, ChainsAgree, FamilyAgrees
  <2>6. OneLivePerChain'
    BY <1>1, <2>1, <2>2 DEF Inv, ChainsAgree, OneLivePerChain
  <2>7. GoneLeavesNone' /\ (account' # "active" => alarm')
    BY <1>1 DEF Inv, ChainsAgree, GoneLeavesNone
  <2>8. (old \cup late)' \subseteq {t \in Tokens : row'[t] # "none"}
    BY <1>1, <2>1, <2>2 DEF Inv, ChainsAgree
  <2> QED
    BY <1>1, <2>1, <2>2, <2>3, <2>4, <2>5, <2>6, <2>7, <2>8 DEF Inv, ChainsAgree
<1> QED BY <1>3, <1>4

-----------------------------------------------------------------------------
(* Every step. *)

\* A request ends and writes nothing.
LEMMA RequestEnds ==
  ASSUME Inv, NEW c \in Calls, End(c), UNCHANGED <<account, tokens, old, history>>
  PROVE  Inv'
<1>1. Done \in CallStates /\ call' = [call EXCEPT ![c] = Done] /\ call'[c] = Done
  BY DEF End, Done, CallStates, Inv, TypeOK
<1>2. CallAgrees(c)'
  BY <1>1, NullAssumption DEF CallAgrees, Done
<1>3. /\ UNCHANGED <<old, late>> /\ burned' \subseteq Tokens /\ alarm' \in {alarm, TRUE}
      /\ account' = account
  BY DEF history, Inv, TypeOK
<1> QED BY <1>1, <1>2, <1>3, CallMoves

\* A request goes on to another place and writes nothing.
LEMMA RequestGoesOn ==
  ASSUME Inv, NEW c \in Calls, UNCHANGED <<account, tokens, old, history>>,
         NEW at \in {"open", "spend", "read", "store"}, Goto(c, at),
         \/ at = "open" /\ call[c] = Idle
         \/ at = "spend" /\ call[c].at = "use"
         \/ at = "read" /\ call[c].at = "spend" /\ ~Locked(call[c].tok)
              /\ row[call[c].tok] = "live"
         \/ at = "store" /\ call[c].at = "read" /\ account = "active"
  PROVE  Inv'
<1> DEFINE k == [call[c] EXCEPT !.at = at]
<1>1. /\ k \in CallStates /\ call' = [call EXCEPT ![c] = k]
      /\ k.tok = call[c].tok /\ k.snap = call[c].snap /\ k.at = at
  BY DEF Goto, Inv, TypeOK, CallStates
<1>2. call'[c] = k /\ \A d \in Calls \ {c} : call'[d] = call[d]
  BY <1>1 DEF Inv, TypeOK
<1>3. row' = row /\ UNCHANGED <<account, old, late, alarm, burned>>
  BY DEF tokens, history
<1>4. CallAgrees(c)
  BY DEF Inv, ChainsAgree
<1>5. CallAgrees(c)'
  <2>1. CASE at = "open"
    BY <1>1, <1>2, <2>1, NullAssumption DEF CallAgrees, Idle
  <2>2. CASE at = "spend"
    BY <1>1, <1>2, <1>3, <1>4, <2>2 DEF CallAgrees
  <2>3. CASE at = "read"
    BY <1>1, <1>2, <1>3, <1>4, <2>3 DEF CallAgrees, Locked
  <2>4. CASE at = "store"
    <3>1. call[c].tok \notin late
      BY <1>4, <2>4 DEF CallAgrees, Inv, ChainsAgree, FamilyAgrees
    <3> QED BY <1>1, <1>2, <1>3, <1>4, <2>4, <3>1 DEF CallAgrees
  <2> QED BY <2>1, <2>2, <2>3, <2>4
<1>6. burned' \subseteq Tokens /\ alarm' \in {alarm, TRUE}
  BY <1>3 DEF Inv, TypeOK
<1> QED BY <1>1, <1>3, <1>5, <1>6, CallMoves

\* Steps of a request that write no token row.
LEMMA RequestMoves ==
  ASSUME Inv, NEW c \in Calls,
         \/ SignInReads(c) \/ RequestDeletion(c) \/ Start(c) \/ Spend(c) \/ ReadAccount(c)
         \/ RevokeReads(c) \/ Fails(c)
         \/ SignInIssues(c) /\ UNCHANGED <<account, tokens, old, history>>
         \/ \E t \in Tokens : Lookup(c, t) \/ LookupSpent(c, t)
  PROVE  Inv' /\ UNCHANGED <<tokens, old>> /\ alarm' \in {alarm, TRUE}
<1>1. UNCHANGED <<tokens, old, late, burned>> /\ alarm' \in {alarm, TRUE}
  BY DEF SignInReads, RequestDeletion, Start, Spend, ReadAccount, RevokeReads, Fails, Lookup,
         LookupSpent, history
<1>2. row' = row /\ late' = late /\ burned' \subseteq Tokens
  BY <1>1 DEF tokens, Inv, TypeOK
<1>3. CASE SignInReads(c)
  BY <1>1, <1>3, RequestGoesOn DEF SignInReads
<1>4. CASE Start(c)
  BY <1>1, <1>4, RequestGoesOn, RequestEnds DEF Start
<1>5. CASE Spend(c)
  BY <1>1, <1>5, RequestGoesOn, RequestEnds DEF Spend
<1>6. CASE ReadAccount(c)
  BY <1>1, <1>6, RequestGoesOn, RequestEnds DEF ReadAccount
<1>7. CASE Fails(c)
  BY <1>1, <1>7, RequestEnds DEF Fails
<1>8. CASE SignInIssues(c) /\ UNCHANGED <<account, tokens, old, history>>
  BY <1>1, <1>8, RequestEnds DEF SignInIssues
<1>9. ASSUME NEW t \in Tokens, Lookup(c, t) PROVE Inv'
  <2> DEFINE k == [at |-> "use", tok |-> t, snap |-> {}]
  <2>1. k \in CallStates /\ call' = [call EXCEPT ![c] = k] /\ call'[c] = k
    BY <1>9 DEF Lookup, CallStates, Inv, TypeOK
  <2>2. CallAgrees(c)'
    BY <1>2, <1>9, <2>1 DEF Lookup, CallAgrees
  <2>3. account' = account
    BY <1>9 DEF Lookup
  <2> QED BY <1>1, <1>2, <2>1, <2>2, <2>3, CallMoves
<1>10. ASSUME NEW t \in Tokens, LookupSpent(c, t) PROVE Inv'
  <2> DEFINE k == [at |-> "revoke", tok |-> t, snap |-> {}]
  <2>1. k \in CallStates /\ call' = [call EXCEPT ![c] = k] /\ call'[c] = k
    BY <1>10 DEF LookupSpent, CallStates, Inv, TypeOK
  <2>2. CallAgrees(c)'
    BY <1>2, <1>10, <2>1 DEF LookupSpent, CallAgrees
  <2>3. account' = account
    BY <1>10 DEF LookupSpent
  <2> QED BY <1>1, <1>2, <2>1, <2>2, <2>3, CallMoves
<1>11. CASE RequestDeletion(c)
  <2> DEFINE k == [at |-> "revoke", tok |-> NULL, snap |-> {}]
  <2>1. k \in CallStates /\ call' = [call EXCEPT ![c] = k] /\ call'[c] = k
    BY <1>11 DEF RequestDeletion, CallStates, Inv, TypeOK
  <2>2. CallAgrees(c)'
    BY <1>2, <1>11, <2>1, NullAssumption DEF RequestDeletion, CallAgrees
  <2>3. account # "gone" /\ account' = "marked" /\ alarm'
    BY <1>11 DEF RequestDeletion
  <2> QED BY <1>1, <1>2, <2>1, <2>2, <2>3, CallMoves
<1>12. CASE RevokeReads(c)
  <2> DEFINE k == [call[c] EXCEPT !.at = "revoking", !.snap = Stored]
  <2>1. /\ k \in CallStates /\ call' = [call EXCEPT ![c] = k] /\ call'[c] = k
        /\ k.at = "revoking" /\ k.tok = call[c].tok /\ k.snap = Stored
    BY <1>12 DEF RevokeReads, CallStates, Inv, TypeOK, Stored
  <2>2. /\ CallAgrees(c) /\ call[c].at = "revoke" /\ alarm' = alarm /\ account' = account
    BY <1>12 DEF RevokeReads, Inv, ChainsAgree, history
  <2>3. CallAgrees(c)'
    BY <1>2, <2>1, <2>2 DEF CallAgrees, Stored
  <2> QED BY <1>1, <1>2, <2>1, <2>2, <2>3, CallMoves
<1> QED
  BY <1>1, <1>3, <1>4, <1>5, <1>6, <1>7, <1>8, <1>9, <1>10, <1>11, <1>12

\* What revocation, cascade and purge remove.
LEMMA RevokeRemoves ==
  ASSUME Inv, NEW c \in Calls, RevokeDeletes(c)
  PROVE  Inv' /\ alarm
<1> DEFINE S == call[c].snap
<1>1. CallAgrees(c) /\ call[c] \in CallStates /\ call[c].at = "revoking"
  BY DEF RevokeDeletes, Inv, TypeOK, ChainsAgree
<1>2. S \in SUBSET Tokens /\ \A t \in S : row[t] # "none" /\ ~Locked(t)
  BY <1>1 DEF CallAgrees, RevokeDeletes, CallStates
<1>3. burned' \subseteq Tokens
  <2>1. \A t \in {call[c].tok} \ {NULL} : family[t] \in Tokens
    BY <1>1 DEF CallAgrees, CallStates, Inv, ChainsAgree, FamilyAgrees
  <2> QED BY <2>1 DEF RevokeDeletes, Inv, TypeOK
<1>4. call' \in [Calls -> CallStates] /\ \A d \in Calls : call'[d] \in {call[d], Done}
  BY DEF RevokeDeletes, End, Inv, TypeOK, CallStates, Done
<1>5. Inv'
  BY <1>2, <1>3, <1>4, RowsRemoved DEF RevokeDeletes
<1> QED BY <1>1, <1>5 DEF CallAgrees

LEMMA DeleteUserRemoves ==
  ASSUME Inv, DeleteUser
  PROVE  Inv' /\ alarm
<1>1. Stored \in SUBSET Tokens /\ \A t \in Stored : row[t] # "none" /\ ~Locked(t)
  BY DEF Stored, DeleteUser
<1>2. /\ UNCHANGED <<old, late, alarm>> /\ burned' \subseteq Tokens
      /\ call' \in [Calls -> CallStates] /\ \A d \in Calls : call'[d] \in {call[d], Done}
  BY DEF DeleteUser, history, Inv, TypeOK
<1>3. Inv'
  BY <1>1, <1>2, RowsRemoved DEF DeleteUser
<1> QED BY <1>3 DEF DeleteUser, Inv, ChainsAgree

LEMMA PurgeRemoves ==
  ASSUME Inv, Purge
  PROVE  Inv'
<1>1. /\ Stored \cap old \in SUBSET Tokens
      /\ \A t \in Stored \cap old : row[t] # "none" /\ ~Locked(t)
  BY DEF Stored, Purge
<1>2. /\ UNCHANGED <<old, late, alarm>> /\ burned' \subseteq Tokens
      /\ call' \in [Calls -> CallStates] /\ \A d \in Calls : call'[d] \in {call[d], Done}
  BY DEF Purge, history, Inv, TypeOK
<1> QED BY <1>1, <1>2, RowsRemoved DEF Purge

LEMMA ExpiryKept ==
  ASSUME Inv, NEW t \in Tokens, Expire(t)
  PROVE  Inv'
<1>1. /\ UNCHANGED <<account, row, family, call, alarm, late, burned>>
      /\ old' = old \cup {t} /\ row[t] # "none"
  BY DEF Expire, tokens, history, Stored
<1>2. TypeOK'
  BY <1>1 DEF Inv, TypeOK
<1>3. (\A c \in Calls : CallAgrees(c)') /\ \A u \in Tokens : FamilyAgrees(u)'
  BY <1>1 DEF Inv, ChainsAgree, CallAgrees, FamilyAgrees
<1>4. OneLivePerChain' /\ GoneLeavesNone'
  BY <1>1 DEF Inv, ChainsAgree, OneLivePerChain, GoneLeavesNone, Stored
<1> QED BY <1>1, <1>2, <1>3, <1>4 DEF Inv, ChainsAgree

LEMMA StepKept ==
  ASSUME Inv, [Next]_vars
  PROVE  Inv'
<1>1. CASE UNCHANGED vars
  BY <1>1 DEF vars, tokens, history, Inv, TypeOK, ChainsAgree, CallAgrees, FamilyAgrees,
              OneLivePerChain, GoneLeavesNone, Stored
<1>2. ASSUME NEW c \in Calls, Begin(c) \/ Continue(c) \/ Fails(c) PROVE Inv'
  <2>1. CASE SignInIssues(c)
    BY <2>1, RequestMoves, TokenIssued DEF SignInIssues
  <2>2. CASE Exchange(c)
    BY <2>2, TokenIssued DEF Exchange
  <2>3. CASE RevokeDeletes(c)
    BY <2>3, RevokeRemoves
  <2> QED BY <1>2, <2>1, <2>2, <2>3, RequestMoves DEF Begin, Continue
<1> QED
  BY <1>1, <1>2, DeleteUserRemoves, PurgeRemoves, ExpiryKept DEF Next

\* Types, locks, snapshots and rows agree, for any number of tokens and requests.
THEOREM ChainsAlwaysAgree == Spec => [](TypeOK /\ ChainsAgree)
<1>1. Init => Inv
  <2> SUFFICES ASSUME Init PROVE Inv
    OBVIOUS
  <2>1. TypeOK
    BY DEF Init, TypeOK, Idle, CallStates
  <2>2. (\A c \in Calls : CallAgrees(c)) /\ \A t \in Tokens : FamilyAgrees(t)
    BY NullAssumption DEF Init, CallAgrees, FamilyAgrees, Idle
  <2>3. OneLivePerChain /\ GoneLeavesNone
    BY DEF Init, OneLivePerChain, GoneLeavesNone
  <2> QED BY <2>1, <2>2, <2>3 DEF Init, Inv, ChainsAgree
<1>2. Inv /\ [Next]_vars => Inv'
  BY StepKept
<1> QED BY <1>1, <1>2, PTL DEF Spec, Inv

\* Every row, family and lock names a token that exists; requests stay where the code
\* can be.
THEOREM TypeCorrect == Spec => []TypeOK
BY ChainsAlwaysAgree, PTL

\* No chain ever has two tokens that can be exchanged.
THEOREM OneLive == Spec => []OneLivePerChain
<1>1. ChainsAgree => OneLivePerChain
  BY DEF ChainsAgree
<1> QED BY <1>1, ChainsAlwaysAgree, PTL

\* No token issued after the mark is ever exchanged.
THEOREM LateUseless == Spec => []LateIsUseless
<1>1. TypeOK /\ ChainsAgree => LateIsUseless
  BY DEF TypeOK, ChainsAgree, FamilyAgrees, LateIsUseless
<1> QED BY <1>1, ChainsAlwaysAgree, PTL

\* No token survives its account.
THEOREM GoneNone == Spec => []GoneLeavesNone
<1>1. ChainsAgree => GoneLeavesNone
  BY DEF ChainsAgree
<1> QED BY <1>1, ChainsAlwaysAgree, PTL

-----------------------------------------------------------------------------
(* The abstract chains. *)

Head(f) == {t \in Tokens : row[t] = "live" /\ family[t] = f}
Issued  == {t \in Tokens : row[t] # "none"}

\* A chain has one head at most.
LEMMA OneHead ==
  ASSUME Inv, NEW t \in Tokens, row[t] = "live"
  PROVE  Head(family[t]) = {t}
  BY DEF Inv, ChainsAgree, OneLivePerChain, Head

\* A token issued opens a chain or is exchanged for the head of one.
LEMMA IssuedIsStep ==
  ASSUME Inv, NEW c \in Calls, End(c), NEW n \in Tokens,
         \/ call[c].at = "open" /\ Issue(n, n, row)
         \/ call[c].at = "store" /\
              Issue(n, family[call[c].tok], [row EXCEPT ![call[c].tok] = "spent"])
  PROVE  [Chains!Next]_(Chains!vars)
<1> DEFINE H == [f \in Tokens |-> Head(f)]
<1>1. /\ row[n] = "none" /\ row'[n] = "live" /\ family'[n] \in Tokens
      /\ \A t \in Tokens : t # n => family'[t] = family[t]
      /\ old' = old /\ alarm' = alarm
  BY TokenIssued DEF Issue
<1>2. CASE family'[n] = n /\ \A t \in Tokens : t # n => row'[t] = row[t]
  <2>1. Issued' = Issued \cup {n} /\ n \notin Issued
    BY <1>1, <1>2 DEF Issued
  <2>2. \A t \in Tokens : row[t] = "live" => family[t] # n
    BY <1>1 DEF Inv, ChainsAgree, FamilyAgrees
  <2>3. \A f \in Tokens : Head(f)' = IF f = n THEN {n} ELSE Head(f)
    BY <1>1, <1>2, <2>2 DEF Head
  <2>4. H' = [H EXCEPT ![n] = {n}]
    BY <2>3
  <2> QED BY <1>1, <2>1, <2>4 DEF Chains!Next, Chains!Open, Head, Issued
<1>3. ASSUME NEW o \in Tokens, o # n, row[o] = "live", row'[o] = "spent",
             family'[n] = family[o],
             \A t \in Tokens : t \notin {n, o} => row'[t] = row[t]
      PROVE  [Chains!Next]_(Chains!vars)
  <2>1. Issued' = Issued \cup {n} /\ n \notin Issued /\ o \in Issued
    BY <1>1, <1>3 DEF Issued
  <2>2. Head(family[o]) = {o} /\ family[o] \in Tokens
    BY <1>1, <1>3, OneHead
  <2>3. \A f \in Tokens : Head(f)' = IF f = family[o] THEN {n} ELSE Head(f)
    BY <1>1, <1>3, <2>2 DEF Head
  <2>4. H' = [H EXCEPT ![family[o]] = {n}]
    BY <2>3
  <2>5. H[family[o]] = {o}
    BY <2>2
  <2>6. \E f, m \in Tokens : Chains!Exchange(f, m)
    <3> SUFFICES Chains!Exchange(family[o], n)
      BY <2>2 DEF Chains!Exchange
    <3> QED BY <1>1, <2>1, <2>4, <2>5 DEF Chains!Exchange, Head, Issued
  <2> QED BY <2>6 DEF Chains!Next
<1> QED BY <1>2, <1>3, TokenIssued

\* Rows removed end the chains whose heads they are.
LEMMA RemovedIsStep ==
  ASSUME Inv, NEW S \in SUBSET Tokens, \A t \in S : row[t] # "none",
         row' = [t \in Tokens |-> IF t \in S THEN "gone" ELSE row[t]],
         UNCHANGED <<family, old, alarm>>, alarm \/ S \subseteq old
  PROVE  [Chains!Next]_(Chains!vars)
<1> DEFINE H == [f \in Tokens |-> Head(f)]
<1>1. Issued' = Issued
  BY DEF Issued
<1>2. ASSUME NEW f \in Tokens, Head(f) \cap S # {} PROVE Head(f) \subseteq S
  <2>1. PICK t \in S : t \in Head(f)
    BY <1>2
  <2>2. Head(f) = {t}
    BY <2>1, OneHead DEF Head
  <2> QED BY <2>1, <2>2
<1>3. \A f \in Tokens :
        Head(f)' = Head(f) \/ (Head(f)' = {} /\ (alarm \/ Head(f) \subseteq old))
  BY <1>2 DEF Head
<1>4. H' = [f \in Tokens |-> H'[f]]
  OBVIOUS
<1>5. Chains!End
  BY <1>1, <1>3, <1>4 DEF Chains!End, Head, Issued
<1> QED BY <1>5 DEF Chains!Next

LEMMA StepOfChains ==
  ASSUME Inv, [Next]_vars
  PROVE  [Chains!Next]_(Chains!vars)
<1>1. ASSUME UNCHANGED <<tokens, old>>, alarm' \in {alarm, TRUE} PROVE [Chains!Next]_(Chains!vars)
  BY <1>1 DEF tokens, Chains!Next, Chains!Alarm, Chains!vars
<1>2. CASE UNCHANGED vars
  BY <1>1, <1>2 DEF vars, history
<1>3. ASSUME NEW c \in Calls, Begin(c) \/ Continue(c) \/ Fails(c)
      PROVE  [Chains!Next]_(Chains!vars)
  <2>1. CASE SignInIssues(c)
    BY <1>1, <2>1, RequestMoves, IssuedIsStep DEF SignInIssues
  <2>2. CASE Exchange(c)
    BY <2>2, IssuedIsStep DEF Exchange
  <2>3. CASE RevokeDeletes(c)
    <3>1. alarm /\ call[c].snap \in SUBSET Tokens /\ \A t \in call[c].snap : row[t] # "none"
      BY <2>3, RevokeRemoves DEF Inv, TypeOK, CallStates, ChainsAgree, CallAgrees
    <3> QED BY <2>3, <3>1, RemovedIsStep DEF RevokeDeletes
  <2> QED BY <1>1, <1>3, <2>1, <2>2, <2>3, RequestMoves DEF Begin, Continue
<1>4. CASE DeleteUser
  <2>1. Stored \in SUBSET Tokens /\ \A t \in Stored : row[t] # "none"
    BY DEF Stored
  <2>2. alarm /\ alarm' = alarm
    BY <1>4, DeleteUserRemoves DEF DeleteUser, history
  <2> QED BY <1>4, <2>1, <2>2, RemovedIsStep DEF DeleteUser
<1>5. CASE Purge
  <2>1. /\ Stored \cap old \in SUBSET Tokens
        /\ \A t \in Stored \cap old : row[t] # "none"
    BY DEF Stored
  <2>2. alarm' = alarm
    BY <1>5 DEF Purge, history
  <2> QED BY <1>5, <2>1, <2>2, RemovedIsStep DEF Purge
<1>6. ASSUME NEW t \in Tokens, Expire(t) PROVE [Chains!Next]_(Chains!vars)
  <2>1. Chains!Age(t)
    BY <1>6 DEF Expire, tokens, history, Stored, Chains!Age
  <2> QED BY <2>1 DEF Chains!Next
<1> QED BY <1>2, <1>3, <1>4, <1>5, <1>6 DEF Next

\* Sign-in, rotation, revocation and purge implement the chains of SessionChains.
THEOREM ChainsKept == Spec => KeepsChains
<1>1. Init => Chains!Init
  BY DEF Init, Chains!Init
<1>2. TypeOK /\ ChainsAgree /\ [Next]_vars => [Chains!Next]_(Chains!vars)
  BY StepOfChains DEF Inv
<1> QED BY <1>1, <1>2, ChainsAlwaysAgree, PTL DEF Spec, KeepsChains, Chains!Spec
=============================================================================
