------------------------- MODULE EmailVerification_proofs -------------------------
(***************************************************************************)
(* What EmailVerification guarantees for any number of calls, attempts and  *)
(* faults.                                                                  *)
(***************************************************************************)
EXTENDS EmailVerification, FiniteSetTheorems, TLAPS

Inv == TypeOK /\ RowsAgree /\ CodesAgree /\ CountsAgree

CallStates == [at : Steps, id : 0..MaxCalls, code : 0..MaxCalls]
Rows       == [id : 0..MaxCalls, verified : BOOLEAN]
Counters   == [code : 0..MaxCalls, count : 0..MaxCalls]
-----------------------------------------------------------------------------
(* Counting calls *)

LEMMA CallsFinite ==
  ASSUME NEW S \in SUBSET Calls
  PROVE  /\ IsFiniteSet(S) /\ Cardinality(S) \in Nat /\ Cardinality(S) <= MaxCalls
         /\ Cardinality(Calls) = MaxCalls
<1>1. MaxCalls \in Nat
  BY VerificationAssumption
<1>2. IsFiniteSet(Calls) /\ Cardinality(Calls) = MaxCalls
  <2>1. IsFiniteSet(1..MaxCalls) /\ Cardinality(1..MaxCalls) = IF 1 > MaxCalls THEN 0 ELSE MaxCalls - 1 + 1
    BY <1>1, FS_Interval
  <2> QED BY <1>1, <2>1 DEF Calls
<1>3. IsFiniteSet(S) /\ Cardinality(S) <= Cardinality(Calls)
  BY <1>2, FS_Subset
<1>4. Cardinality(S) \in Nat
  BY <1>3, FS_CardinalityType
<1> QED BY <1>2, <1>3, <1>4

\* One call joins or leaves a set of calls.
OneMove(S, T, c) == S \subseteq Calls /\ T \subseteq Calls /\ S \ {c} = T \ {c}

LEMMA OneMoves ==
  ASSUME NEW c \in Calls, NEW S, NEW T, OneMove(S, T, c)
  PROVE  /\ Cardinality(S) \in Nat /\ Cardinality(T) \in Nat
         /\ Cardinality(S) <= MaxCalls /\ Cardinality(T) <= MaxCalls
         /\ c \in S /\ c \notin T => Cardinality(T) = Cardinality(S) - 1
         /\ c \notin S /\ c \in T => Cardinality(T) = Cardinality(S) + 1
         /\ (c \in S <=> c \in T) => Cardinality(T) = Cardinality(S)
<1>0. S \in SUBSET Calls /\ T \in SUBSET Calls /\ S \ {c} = T \ {c}
  BY DEF OneMove
<1>1. /\ IsFiniteSet(S) /\ Cardinality(S) \in Nat /\ Cardinality(S) <= MaxCalls
      /\ IsFiniteSet(T) /\ Cardinality(T) \in Nat /\ Cardinality(T) <= MaxCalls
  BY <1>0, CallsFinite
<1>2. ASSUME c \in S, c \notin T PROVE Cardinality(T) = Cardinality(S) - 1
  <2>1. T = S \ {c}
    BY <1>0, <1>2
  <2> QED BY <1>1, <1>2, <2>1, FS_RemoveElement
<1>3. ASSUME c \notin S, c \in T PROVE Cardinality(T) = Cardinality(S) + 1
  <2>1. T = S \cup {c}
    BY <1>0, <1>3
  <2> QED BY <1>1, <1>3, <2>1, FS_AddElement
<1>4. ASSUME c \in S <=> c \in T PROVE Cardinality(T) = Cardinality(S)
  <2>1. T = S
    BY <1>0, <1>4
  <2> QED BY <2>1
<1> QED BY <1>1, <1>2, <1>3, <1>4

\* Calls that are recording a miss for i, and those that may discard its code for one.
Failed(i)   == With(i, "failed")
Pending(i)  == With(i, "failed") \cup With(i, "discard")
Fails(p, i) == p.id = i /\ p.at = "failed"
Pends(p, i) == p.id = i /\ p.at \in {"failed", "discard"}

\* Call c is p from now on; nobody goes back to an earlier step.
Becomes(c, p) ==
  /\ p \in CallStates /\ call' = [call EXCEPT ![c] = p]
  /\ call[c].at # "over"
  /\ p.at \in {"idle", "create", "google"} => call[c].at = "idle"
  /\ call[c].at = "discard" => p.at = "over"

LEMMA CallBecomes ==
  ASSUME TypeOK, NEW c \in Calls, NEW p, Becomes(c, p)
  PROVE  /\ call' \in [Calls -> CallStates] /\ call'[c] = p
         /\ \A d \in Calls \ {c} : call'[d] = call[d]
         /\ Cardinality(Generated) \in Nat /\ Cardinality(Generated') \in Nat
         /\ Cardinality(Generated) <= Cardinality(Generated') /\ Cardinality(Generated') <= MaxCalls
         /\ call[c].at \in {"idle", "create"} /\ p.at \notin {"idle", "create"} =>
              Cardinality(Generated') = Cardinality(Generated) + 1
         /\ Cardinality(Counted) \in Nat /\ Cardinality(Counted') \in Nat
         /\ Cardinality(Counted) <= Cardinality(Counted') /\ Cardinality(Counted') <= MaxCalls
         /\ call[c].at \notin {"over", "discard"} /\ p.at \in {"over", "discard"} =>
              Cardinality(Counted') = Cardinality(Counted) + 1
<1>1. /\ call' \in [Calls -> CallStates] /\ call'[c] = p
      /\ \A d \in Calls \ {c} : call'[d] = call[d]
  BY DEF TypeOK, Becomes, CallStates
<1>2. OneMove(Generated, Generated', c) /\ OneMove(Counted, Counted', c)
  BY <1>1 DEF OneMove, Generated, Counted
<1>3. /\ c \in Generated <=> call[c].at \notin {"idle", "create"}
      /\ c \in Generated' <=> p.at \notin {"idle", "create"}
      /\ c \in Counted <=> call[c].at \in {"over", "discard"}
      /\ c \in Counted' <=> p.at \in {"over", "discard"}
  BY <1>1 DEF Generated, Counted
<1>4. (c \in Generated => c \in Generated') /\ (c \in Counted => c \in Counted')
  BY <1>3 DEF Becomes
<1>5. /\ Cardinality(Generated) \in Nat /\ Cardinality(Generated') \in Nat /\ Cardinality(Generated') <= MaxCalls
      /\ c \notin Generated /\ c \in Generated' => Cardinality(Generated') = Cardinality(Generated) + 1
      /\ (c \in Generated <=> c \in Generated') => Cardinality(Generated') = Cardinality(Generated)
  BY <1>2, OneMoves
<1>6. /\ Cardinality(Counted) \in Nat /\ Cardinality(Counted') \in Nat /\ Cardinality(Counted') <= MaxCalls
      /\ c \notin Counted /\ c \in Counted' => Cardinality(Counted') = Cardinality(Counted) + 1
      /\ (c \in Counted <=> c \in Counted') => Cardinality(Counted') = Cardinality(Counted)
  BY <1>2, OneMoves
<1>7. Cardinality(Generated) <= Cardinality(Generated') /\ Cardinality(Counted) <= Cardinality(Counted')
  BY <1>4, <1>5, <1>6
<1> QED BY <1>1, <1>3, <1>5, <1>6, <1>7

\* It joins or leaves the counts of an account.
LEMMA CallCounts ==
  ASSUME TypeOK, NEW c \in Calls, NEW p, Becomes(c, p), NEW i
  PROVE  /\ Cardinality(Failed(i)) \in Nat /\ Cardinality(Failed(i)') \in Nat
         /\ Cardinality(Pending(i)) \in Nat /\ Cardinality(Pending(i)') \in Nat
         /\ Fails(call[c], i) /\ ~Fails(p, i) => Cardinality(Failed(i)') = Cardinality(Failed(i)) - 1
         /\ ~Fails(call[c], i) /\ Fails(p, i) => Cardinality(Failed(i)') = Cardinality(Failed(i)) + 1
         /\ (Fails(call[c], i) <=> Fails(p, i)) => Cardinality(Failed(i)') = Cardinality(Failed(i))
         /\ Pends(call[c], i) /\ ~Pends(p, i) => Cardinality(Pending(i)') = Cardinality(Pending(i)) - 1
         /\ ~Pends(call[c], i) /\ Pends(p, i) => Cardinality(Pending(i)') = Cardinality(Pending(i)) + 1
         /\ (Pends(call[c], i) <=> Pends(p, i)) => Cardinality(Pending(i)') = Cardinality(Pending(i))
         /\ With(i, "discard")' # {} => With(i, "discard") # {} \/ (p.id = i /\ p.at = "discard")
<1>1. call'[c] = p /\ \A d \in Calls \ {c} : call'[d] = call[d]
  BY CallBecomes
<1>2. OneMove(Failed(i), Failed(i)', c) /\ OneMove(Pending(i), Pending(i)', c)
  BY <1>1 DEF OneMove, Failed, Pending, With
<1>3. /\ c \in Failed(i) <=> Fails(call[c], i)
      /\ c \in Failed(i)' <=> Fails(p, i)
      /\ c \in Pending(i) <=> Pends(call[c], i)
      /\ c \in Pending(i)' <=> Pends(p, i)
  BY <1>1 DEF Failed, Pending, With, Fails, Pends
<1>4. /\ Cardinality(Failed(i)) \in Nat /\ Cardinality(Failed(i)') \in Nat
      /\ Fails(call[c], i) /\ ~Fails(p, i) => Cardinality(Failed(i)') = Cardinality(Failed(i)) - 1
      /\ ~Fails(call[c], i) /\ Fails(p, i) => Cardinality(Failed(i)') = Cardinality(Failed(i)) + 1
      /\ (Fails(call[c], i) <=> Fails(p, i)) => Cardinality(Failed(i)') = Cardinality(Failed(i))
  BY <1>2, <1>3, OneMoves
<1>5. /\ Cardinality(Pending(i)) \in Nat /\ Cardinality(Pending(i)') \in Nat
      /\ Pends(call[c], i) /\ ~Pends(p, i) => Cardinality(Pending(i)') = Cardinality(Pending(i)) - 1
      /\ ~Pends(call[c], i) /\ Pends(p, i) => Cardinality(Pending(i)') = Cardinality(Pending(i)) + 1
      /\ (Pends(call[c], i) <=> Pends(p, i)) => Cardinality(Pending(i)') = Cardinality(Pending(i))
  BY <1>2, <1>3, OneMoves
<1>6. With(i, "discard")' # {} => With(i, "discard") # {} \/ (p.id = i /\ p.at = "discard")
  BY <1>1 DEF With
<1> QED BY <1>4, <1>5, <1>6
-----------------------------------------------------------------------------
(* What a step that moves one call leaves in place *)

MissCounts == [Codes -> Nat]

\* TypeOK but for the calls.
Stored ==
  /\ row \in Rows /\ (row.verified => row.id # 0)
  /\ cache \in [Ids -> Counters]
  /\ issued \in 0..MaxCalls
  /\ latest \in [Ids -> 0..MaxCalls]
  /\ expired \subseteq Codes /\ settled \subseteq Codes
  /\ misses \in MissCounts /\ forgiven \in MissCounts /\ stale \in MissCounts
  /\ faults \in 0..MaxFaults
  /\ \A i \in Ids : cache[i].code \in {0, latest[i]}

LEMMA TypeParts ==
  /\ TypeOK => Stored /\ call \in [Calls -> CallStates]
  /\ Stored /\ call \in [Calls -> CallStates]
     /\ (\A c \in Calls : Stores(c) => call[c].code \in 1..issued) => TypeOK
BY DEF TypeOK, Stored, CallStates, Rows, Counters, MissCounts, Stores

LEMMA TypeKeeps ==
  ASSUME TypeOK, NEW c \in Calls, NEW p, Becomes(c, p), Stored', issued' >= issued,
         p.at \in {"setcode", "setcount"} => p.code \in 1..issued'
  PROVE  TypeOK'
<1>1. /\ call' \in [Calls -> CallStates] /\ call'[c] = p
      /\ \A d \in Calls \ {c} : call'[d] = call[d]
  BY CallBecomes
<1>2. issued \in Nat /\ issued' \in Nat /\ MaxCalls \in Nat
  BY TypeParts, VerificationAssumption DEF Stored
<1>3. ASSUME NEW d \in Calls, Stores(d)' PROVE call'[d].code \in 1..issued'
  <2>1. CASE d = c
    BY <1>1, <1>3, <2>1 DEF Stores
  <2>2. CASE d # c
    <3>1. call'[d] = call[d] /\ call[d].code \in 1..issued
      BY <1>1, <1>3, <2>2 DEF Stores, TypeOK
    <3> QED BY <1>2, <3>1
  <2> QED BY <2>1, <2>2
<1> QED BY <1>1, <1>3 DEF TypeOK, Stored, CallStates, Rows, Counters, MissCounts, Stores

\* The row is left, verified, removed, or made by the call that moves.
RowGoes(c, p) ==
  \/ row' = row
  \/ row.id # 0 /\ row' = [row EXCEPT !.verified = TRUE]
  \/ row' = [id |-> 0, verified |-> FALSE]
  \/ row'.id = c /\ ~Made(c) /\ p.at \notin {"idle", "create", "google"}

LEMMA RowsKeep ==
  ASSUME Inv, NEW c \in Calls, NEW p, Becomes(c, p), RowGoes(c, p),
         p.at \in {"setcode", "setcount", "rollback", "read", "failed", "discard", "matched", "consume", "confirm"} =>
           p.id = c \/ (p.id \in Ids /\ Made(p.id)),
         \A i \in Ids : latest'[i] # 0 => latest[i] # 0 \/ Made(i),
         p.at = "consume" => row' # [id |-> p.id, verified |-> FALSE]
  PROVE  RowsAgree'
<1>1. call'[c] = p /\ \A d \in Calls \ {c} : call'[d] = call[d]
  BY CallBecomes DEF Inv
<1>2. ASSUME NEW i \in Ids, Made(i) PROVE Made(i)'
  BY <1>1, <1>2 DEF Made, Becomes, Ids
<1>3. row'.id # 0 => Made(row.id)'
  <2>1. row.id # 0 => row.id \in Ids /\ Made(row.id)
    BY VerificationAssumption DEF Inv, RowsAgree, TypeOK, Ids, Calls
  <2>2. row \in Rows
    BY TypeParts DEF Inv, Stored
  <2>3. CASE row'.id = row.id
    BY <1>2, <2>1, <2>3
  <2>4. CASE row'.id = c /\ p.at \notin {"idle", "create", "google"}
    BY <1>1, <2>4 DEF Made
  <2> QED BY <2>2, <2>3, <2>4 DEF RowGoes, Rows
<1>4. ASSUME NEW d \in Calls, Names(d)' PROVE call'[d].id \in Ids /\ Made(call[d].id)'
  <2>1. CASE d = c
    <3>1. call'[d] = p /\ p.at \notin {"idle", "create", "google"}
      BY <1>1, <1>4, <2>1 DEF Names
    <3>2. p.id = c \/ (p.id \in Ids /\ Made(p.id))
      BY <1>4, <3>1 DEF Names
    <3>3. CASE p.id = c
      BY <1>1, <3>1, <3>3 DEF Made, Ids
    <3>4. CASE p.id \in Ids /\ Made(p.id)
      BY <1>2, <3>1, <3>4
    <3> QED BY <3>2, <3>3, <3>4
  <2>2. CASE d # c
    BY <1>1, <1>2, <1>4, <2>2 DEF Names, Inv, RowsAgree
  <2> QED BY <2>1, <2>2
<1>5. \A i \in Ids : latest'[i] # 0 => Made(i)'
  BY <1>2 DEF Inv, RowsAgree
<1>6. ASSUME NEW d \in Calls, call'[d].at = "consume" PROVE row' # [id |-> call'[d].id, verified |-> FALSE]
  <2>1. CASE d = c
    BY <1>1, <1>6, <2>1
  <2>2. CASE d # c
    <3>1. /\ call'[d] = call[d] /\ call[d].id \in Ids /\ Made(call[d].id)
          /\ row # [id |-> call[d].id, verified |-> FALSE]
      BY <1>1, <1>6, <2>2 DEF Inv, RowsAgree, Names
    <3>2. row \in Rows /\ call[d].id # 0
      BY <3>1, TypeParts, VerificationAssumption DEF Inv, Stored, Ids, Calls
    <3>3. CASE row' = [row EXCEPT !.verified = TRUE]
      <4>1. row'.verified
        BY <3>2, <3>3 DEF Rows
      <4> QED BY <3>1, <4>1
    <3>4. CASE row'.id = c /\ ~Made(c)
      BY <3>1, <3>4
    <3> QED BY <3>1, <3>2, <3>3, <3>4 DEF RowGoes
  <2> QED BY <2>1, <2>2
<1> QED BY <1>3, <1>4, <1>5, <1>6 DEF RowsAgree

LEMMA CodesKeep ==
  ASSUME Inv, NEW c \in Calls, NEW p, Becomes(c, p), UNCHANGED <<issued, latest, settled, misses>>,
         p.at \in {"setcode", "setcount"} => Stores(c) /\ p.code = call[c].code,
         p.at # "setcode"
  PROVE  CodesAgree'
<1>1. /\ call'[c] = p /\ (\A d \in Calls \ {c} : call'[d] = call[d])
      /\ Cardinality(Generated) \in Nat /\ Cardinality(Generated') \in Nat
      /\ Cardinality(Generated) <= Cardinality(Generated')
  BY CallBecomes DEF Inv
<1>2. CodesAgree /\ issued \in Nat
  BY TypeParts, VerificationAssumption DEF Inv, Stored
<1>3. issued' <= Cardinality(Generated')
  BY <1>1, <1>2 DEF CodesAgree
<1>4. \A d \in Calls : Stores(d)' => Stores(d) /\ call'[d].code = call[d].code
  BY <1>1 DEF Stores
<1>5. \A d \in Calls : call'[d].at = "setcode" => call'[d] = call[d]
  BY <1>1
<1> QED BY <1>2, <1>3, <1>4, <1>5 DEF CodesAgree

\* The part of CountAgrees that is about numbers.
LEMMA CountQuiet ==
  ASSUME Inv, NEW i \in Ids,
         cache'[i] = cache[i], latest'[i] = latest[i],
         \A k \in Codes : k \in {cache[i].code, latest[i]} =>
           misses'[k] = misses[k] /\ forgiven'[k] = forgiven[k] /\ (k \in settled' => stale'[k] = stale[k]),
         latest[i] \in settled' \ expired' => latest[i] \in settled \ expired,
         row' = [id |-> i, verified |-> FALSE] => row = [id |-> i, verified |-> FALSE] \/ latest[i] = 0,
         Cardinality(Counted) <= Cardinality(Counted'),
         Cardinality(Counted) \in Nat, Cardinality(Counted') \in Nat,
         Cardinality(Failed(i)') = Cardinality(Failed(i)), Cardinality(Pending(i)') = Cardinality(Pending(i)),
         With(i, "discard")' # {} => With(i, "discard") # {}
  PROVE  CountAgrees(i)'
<1>1. CountAgrees(i) /\ cache[i] \in Counters /\ latest[i] \in 0..MaxCalls /\ cache[i].code \in {0, latest[i]}
  BY TypeParts DEF Inv, CountsAgree, Stored
<1>2. cache'[i].count <= Cardinality(Counted')
  BY <1>1 DEF CountAgrees, Counters
<1>3. ASSUME cache'[i].code # 0
      PROVE  /\ misses'[cache'[i].code] <= cache'[i].count + forgiven'[cache'[i].code] + Cardinality(Failed(i)')
             /\ misses'[cache'[i].code] < MaxAttempts + forgiven'[cache'[i].code] + Cardinality(Pending(i)')
  <2>1. cache[i].code \in Codes
    BY <1>1, <1>3, VerificationAssumption DEF Codes, Calls, Counters
  <2> QED BY <1>1, <1>3, <2>1 DEF CountAgrees, Failed, Pending
<1>4. ASSUME latest'[i] \in settled' \ expired'
      PROVE  /\ row' = [id |-> i, verified |-> FALSE] =>
                  cache'[i].code = latest'[i] \/ misses'[latest'[i]] + stale'[latest'[i]] >= MaxAttempts
             /\ With(i, "discard")' # {} => misses'[latest'[i]] + stale'[latest'[i]] >= MaxAttempts
             /\ cache'[i].code = latest'[i] =>
                  cache'[i].count + Cardinality(Failed(i)') <= misses'[latest'[i]] + stale'[latest'[i]]
  <2>1. latest[i] \in settled \ expired /\ latest[i] \in Codes /\ latest[i] # 0
    BY <1>4, TypeParts DEF Inv, Stored, Codes, Calls
  <2> QED BY <1>1, <1>4, <2>1 DEF CountAgrees, Failed
<1> QED BY <1>2, <1>3, <1>4 DEF CountAgrees, Failed, Pending

LEMMA RowOnlyFresh ==
  ASSUME Inv, NEW c \in Calls, NEW p, RowGoes(c, p), NEW i \in Ids, row' = [id |-> i, verified |-> FALSE]
  PROVE  row = [id |-> i, verified |-> FALSE] \/ latest[i] = 0
<1>1. row \in Rows /\ i # 0
  BY TypeParts, VerificationAssumption DEF Inv, Stored, Ids, Calls
<1>2. ~Made(c) => latest[c] = 0
  BY DEF Inv, RowsAgree, Ids
<1>3. row' # [row EXCEPT !.verified = TRUE]
  BY <1>1 DEF Rows
<1> QED BY <1>1, <1>2, <1>3 DEF RowGoes

\* A call moves, perhaps with the row, between steps that hold no code and no miss.
LEMMA Moves ==
  ASSUME Inv, NEW c \in Calls, NEW p, Becomes(c, p), RowGoes(c, p), row' \in Rows, row'.verified => row'.id # 0,
         faults' \in 0..MaxFaults, UNCHANGED <<cache, issued, history>>,
         call[c].at \notin {"failed", "discard"}, p.at \notin {"failed", "discard"},
         p.at \in {"setcode", "setcount"} => FALSE,
         p.at \in {"rollback", "read", "matched", "consume", "confirm"} => p.id = c \/ (p.id \in Ids /\ Made(p.id)),
         p.at = "consume" => row' # [id |-> p.id, verified |-> FALSE]
  PROVE  Inv'
<1>1. UNCHANGED <<latest, expired, misses, forgiven, stale, settled>>
  BY DEF history
<1>2. Stored'
  BY <1>1, TypeParts DEF Inv, Stored
<1>3. TypeOK'
  BY <1>2, TypeKeeps, TypeParts, VerificationAssumption DEF Inv, Stored
<1>4. RowsAgree'
  BY <1>1, RowsKeep
<1>5. CodesAgree'
  BY <1>1, CodesKeep
<1>6. ASSUME NEW i \in Ids PROVE CountAgrees(i)'
  <2>1. /\ Cardinality(Failed(i)') = Cardinality(Failed(i)) /\ Cardinality(Pending(i)') = Cardinality(Pending(i))
        /\ With(i, "discard")' # {} => With(i, "discard") # {}
    BY CallCounts DEF Inv, Fails, Pends
  <2>2. /\ Cardinality(Counted) \in Nat /\ Cardinality(Counted') \in Nat
        /\ Cardinality(Counted) <= Cardinality(Counted')
    BY CallBecomes DEF Inv
  <2>3. row' = [id |-> i, verified |-> FALSE] => row = [id |-> i, verified |-> FALSE] \/ latest[i] = 0
    BY RowOnlyFresh
  <2> QED BY <1>1, <2>1, <2>2, <2>3, CountQuiet
<1> QED BY <1>3, <1>4, <1>5, <1>6 DEF Inv, CountsAgree

\* The steps a call can be at, as Becomes wants them.
LEMMA Ending ==
  ASSUME Inv, NEW c \in Calls, call[c].at # "over", Ends(c)
  PROVE  Becomes(c, Over) /\ Over.at = "over" /\ Over.id = 0
BY VerificationAssumption DEF Becomes, Ends, Over, CallStates, Steps

LEMMA Going ==
  ASSUME Inv, NEW c \in Calls, NEW at \in Steps \ {"idle", "over"}, Goes(c, at), call[c].at \notin {"over", "discard"},
         at \in {"create", "google"} => call[c].at = "idle"
  PROVE  /\ Becomes(c, [call[c] EXCEPT !.at = at])
         /\ [call[c] EXCEPT !.at = at].at = at
         /\ [call[c] EXCEPT !.at = at].id = call[c].id /\ [call[c] EXCEPT !.at = at].code = call[c].code
<1>1. call[c] \in CallStates
  BY TypeParts DEF Inv
<1>2. [call[c] EXCEPT !.at = at] \in CallStates
  BY <1>1 DEF CallStates
<1> QED BY <1>1, <1>2 DEF Becomes, Goes, CallStates

\* A call over an account whose code or name it holds.
LEMMA Placed ==
  ASSUME Inv, NEW c \in Calls, NEW i \in Ids, Made(i), NEW k \in 0..MaxCalls,
         NEW at \in Steps \ {"idle", "over", "create", "google"}, call[c].at \notin {"over", "discard"},
         call' = [call EXCEPT ![c] = [at |-> at, id |-> i, code |-> k]]
  PROVE  Becomes(c, [at |-> at, id |-> i, code |-> k])
<1>1. i \in 0..MaxCalls
  BY VerificationAssumption DEF Ids, Calls
<1> QED BY <1>1 DEF Becomes, CallStates

LEMMA RowMade ==
  ASSUME Inv, row.id # 0
  PROVE  row.id \in Ids /\ Made(row.id)
BY VerificationAssumption DEF Inv, RowsAgree, TypeOK, Ids, Calls

LEMMA RowStays ==
  ASSUME Inv, UNCHANGED row
  PROVE  /\ row' \in Rows /\ (row'.verified => row'.id # 0)
         /\ \A c, p : RowGoes(c, p)
BY TypeParts DEF Inv, Stored, RowGoes

LEMMA FaultType ==
  ASSUME Inv, Fault
  PROVE  faults' \in 0..MaxFaults
BY VerificationAssumption, TypeParts DEF Inv, Stored, Fault

\* A call that ends where it is, the row as it was.
LEMMA EndsQuietly ==
  ASSUME Inv, NEW c \in Calls, call[c].at \notin {"over", "failed", "discard"}, Ends(c),
         UNCHANGED <<row, cache, issued, history>>, faults' \in 0..MaxFaults
  PROVE  Inv'
<1>1. Becomes(c, Over) /\ Over.at = "over"
  BY Ending
<1>2. row' \in Rows /\ (row'.verified => row'.id # 0) /\ RowGoes(c, Over)
  BY RowStays
<1> QED BY <1>1, <1>2, Moves

LEMMA FaultsStay ==
  ASSUME Inv, UNCHANGED faults
  PROVE  faults' \in 0..MaxFaults
BY TypeParts DEF Inv, Stored

\* A call is placed at a step of the account whose row it just read.
LEMMA PlacedAtRow ==
  ASSUME Inv, NEW c \in Calls, row.id # 0, NEW k \in 0..MaxCalls, NEW at \in {"read", "confirm"},
         call[c].at \notin {"over", "failed", "discard"},
         call' = [call EXCEPT ![c] = [at |-> at, id |-> row.id, code |-> k]],
         UNCHANGED <<row, cache, issued, history, faults>>
  PROVE  Inv'
<1> DEFINE p == [at |-> at, id |-> row.id, code |-> k]
<1>1. row.id \in Ids /\ Made(row.id)
  BY RowMade
<1>2. Becomes(c, p)
  BY <1>1, Placed DEF Steps
<1>3. row' \in Rows /\ (row'.verified => row'.id # 0) /\ RowGoes(c, p) /\ faults' \in 0..MaxFaults
  BY RowStays, FaultsStay
<1>4. p.at = at /\ p.id = row.id
  OBVIOUS
<1> HIDE DEF p
<1> QED BY <1>1, <1>2, <1>3, <1>4, Moves

LEMMA StartSteps ==
  ASSUME Inv, NEW c \in Calls, SignUp(c) \/ VerifyEmail(c) \/ SignInWithGoogle(c)
  PROVE  Inv'
<1>1. call[c].at = "idle" /\ UNCHANGED <<row, cache, issued, history, faults>>
  BY DEF SignUp, VerifyEmail, SignInWithGoogle, Starts
<1>2. row' \in Rows /\ (row'.verified => row'.id # 0) /\ faults' \in 0..MaxFaults /\ \A p : RowGoes(c, p)
  BY <1>1, RowStays, FaultsStay
<1>3. ASSUME NEW at \in {"create", "google"}, Goes(c, at) PROVE Inv'
  <2> DEFINE p == [call[c] EXCEPT !.at = at]
  <2>1. Becomes(c, p) /\ p.at = at
    BY <1>1, <1>3, Going DEF Steps
  <2> HIDE DEF p
  <2> QED BY <1>1, <1>2, <2>1, Moves
<1>4. CASE Ends(c)
  BY <1>1, <1>2, <1>4, EndsQuietly
<1>5. CASE VerifyEmail(c) /\ ~Ends(c)
  <2>1. PICK guess \in 0..issued : call' = [call EXCEPT ![c] = [at |-> "read", id |-> row.id, code |-> guess]]
    BY <1>5 DEF VerifyEmail
  <2>2. guess \in 0..MaxCalls /\ row.id # 0
    BY <1>5, TypeParts, VerificationAssumption DEF Inv, Stored, VerifyEmail
  <2> QED BY <1>1, <2>1, <2>2, PlacedAtRow
<1>6. CASE SignInWithGoogle(c) /\ ~Ends(c) /\ ~Goes(c, "google")
  <2>1. row.id # 0 /\ call' = [call EXCEPT ![c] = [at |-> "confirm", id |-> row.id, code |-> 0]]
    BY <1>6 DEF SignInWithGoogle
  <2>2. 0 \in 0..MaxCalls
    BY VerificationAssumption
  <2> QED BY <1>1, <2>1, <2>2, PlacedAtRow
<1> QED BY <1>3, <1>4, <1>5, <1>6 DEF SignUp, VerifyEmail, SignInWithGoogle

LEMMA GoogleSteps ==
  ASSUME Inv, NEW c \in Calls, CreateGoogleUser(c) \/ LooksAgain(c) \/ ConfirmGoogle(c)
  PROVE  Inv'
<1>0. /\ UNCHANGED <<cache, issued, history, faults>> /\ faults' \in 0..MaxFaults
      /\ call[c].at \notin {"over", "failed", "discard"} /\ row \in Rows /\ c \in Ids
  BY FaultsStay, TypeParts DEF CreateGoogleUser, LooksAgain, ConfirmGoogle, Inv, Stored, Ids
<1>1. CASE Ends(c) /\ UNCHANGED row
  BY <1>0, <1>1, EndsQuietly
<1>2. CASE CreateGoogleUser(c) /\ row.id = 0 /\ CreateUser(c, TRUE) /\ Ends(c)
  <2>1. Becomes(c, Over) /\ Over.at = "over"
    BY <1>0, <1>2, Ending
  <2>2. row' = [id |-> c, verified |-> TRUE] /\ c \in 0..MaxCalls /\ c # 0 /\ ~Made(c)
    BY <1>2, VerificationAssumption DEF CreateUser, CreateGoogleUser, Made, Calls
  <2>3. RowGoes(c, Over) /\ row' \in Rows /\ row'.id # 0
    BY <2>1, <2>2 DEF RowGoes, Rows
  <2> QED BY <1>0, <2>1, <2>3, Moves
<1>3. CASE CreateGoogleUser(c) /\ Goes(c, "again") /\ UNCHANGED row
  <2> DEFINE p == [call[c] EXCEPT !.at = "again"]
  <2>1. Becomes(c, p) /\ p.at = "again"
    BY <1>0, <1>3, Going DEF Steps
  <2>2. row' \in Rows /\ (row'.verified => row'.id # 0) /\ RowGoes(c, p)
    BY <1>3, RowStays
  <2> HIDE DEF p
  <2> QED BY <1>0, <2>1, <2>2, Moves
<1>4. CASE LooksAgain(c) /\ ~Ends(c)
  <2>1. /\ row.id # 0 /\ call' = [call EXCEPT ![c] = [at |-> "confirm", id |-> row.id, code |-> 0]]
        /\ UNCHANGED row
    BY <1>4 DEF LooksAgain
  <2>2. 0 \in 0..MaxCalls
    BY VerificationAssumption
  <2> QED BY <1>0, <2>1, <2>2, PlacedAtRow
<1>5. CASE ConfirmGoogle(c) /\ row.id = call[c].id /\ VerifyUserEmail(row.id) /\ Ends(c)
  <2>1. Becomes(c, Over) /\ Over.at = "over"
    BY <1>0, <1>5, Ending
  <2>2. row.id # 0
    <3>1. call[c].id \in Ids
      BY <1>5 DEF ConfirmGoogle, Inv, RowsAgree, Names
    <3> QED BY <1>5, <3>1, VerificationAssumption DEF Ids, Calls
  <2>3. RowGoes(c, Over) /\ row' \in Rows /\ row'.id # 0
    BY <1>0, <1>5, <2>2 DEF RowGoes, Rows, VerifyUserEmail
  <2> QED BY <1>0, <2>1, <2>3, Moves
<1> QED BY <1>1, <1>2, <1>3, <1>4, <1>5 DEF CreateGoogleUser, LooksAgain, ConfirmGoogle

LEMMA RowSteps ==
  ASSUME Inv, NEW c \in Calls, Matched(c) \/ RollBack(c) \/ StoreFails(c)
  PROVE  Inv'
<1>0. UNCHANGED <<cache, issued, history>> /\ call[c].at \notin {"over", "failed", "discard"} /\ row \in Rows
      /\ call[c].id \in Ids /\ call[c].id # 0 /\ Made(call[c].id)
  BY TypeParts, VerificationAssumption
  DEF Matched, RollBack, StoreFails, Inv, Stored, RowsAgree, Names, Ids, Calls
<1>1. faults' \in 0..MaxFaults
  BY FaultsStay, FaultType DEF Matched, RollBack, StoreFails
<1>2. CASE Ends(c) /\ UNCHANGED row
  BY <1>0, <1>1, <1>2, EndsQuietly
<1>3. CASE Matched(c) /\ row.id = call[c].id /\ VerifyUserEmail(row.id) /\ Goes(c, "consume")
  <2> DEFINE p == [call[c] EXCEPT !.at = "consume"]
  <2>1. Becomes(c, p) /\ p.at = "consume" /\ p.id = call[c].id
    BY <1>0, <1>3, Going DEF Steps
  <2>2. row' = [row EXCEPT !.verified = TRUE] /\ row'.verified /\ row'.id = row.id /\ row' \in Rows
    BY <1>0, <1>3 DEF VerifyUserEmail, Rows
  <2> HIDE DEF p
  <2>3. RowGoes(c, p) /\ row' # [id |-> p.id, verified |-> FALSE]
    BY <1>0, <1>3, <2>2 DEF RowGoes
  <2> QED BY <1>0, <1>1, <1>3, <2>1, <2>2, <2>3, Moves
<1>4. CASE RollBack(c)
  <2>1. Becomes(c, Over) /\ Over.at = "over"
    BY <1>0, <1>4, Ending DEF RollBack
  <2>2. row' = row \/ row' = [id |-> 0, verified |-> FALSE]
    BY <1>4 DEF RollBack, DeleteUser
  <2>3. row' \in Rows /\ (row'.verified => row'.id # 0)
    <3>1. [id |-> 0, verified |-> FALSE] \in Rows /\ ~[id |-> 0, verified |-> FALSE].verified
      BY VerificationAssumption DEF Rows
    <3>2. row.verified => row.id # 0
      BY TypeParts DEF Inv, Stored
    <3> QED BY <1>0, <2>2, <3>1, <3>2
  <2>4. RowGoes(c, Over)
    BY <2>2 DEF RowGoes
  <2> QED BY <1>0, <1>1, <2>1, <2>3, <2>4, Moves
<1>5. CASE StoreFails(c) /\ Goes(c, "rollback")
  <2> DEFINE p == [call[c] EXCEPT !.at = "rollback"]
  <2>1. Becomes(c, p) /\ p.at = "rollback" /\ p.id = call[c].id
    BY <1>0, <1>5, Going DEF Steps
  <2>2. row' \in Rows /\ (row'.verified => row'.id # 0) /\ RowGoes(c, p)
    BY <1>5, RowStays DEF StoreFails
  <2> HIDE DEF p
  <2> QED BY <1>0, <1>1, <2>1, <2>2, Moves
<1> QED BY <1>2, <1>3, <1>4, <1>5 DEF Matched, StoreFails
-----------------------------------------------------------------------------
(* Codes *)

\* There is a number left for the code of a call that has none.
LEMMA NumberLeft ==
  ASSUME Inv, NEW c \in Calls, call[c].at \in {"idle", "create"}
  PROVE  issued \in Nat /\ issued + 1 \in Codes /\ issued + 1 \in 0..MaxCalls
<1>1. Generated \in SUBSET Calls /\ Generated \cup {c} \in SUBSET Calls /\ c \notin Generated
  BY DEF Generated
<1>2. /\ IsFiniteSet(Generated) /\ Cardinality(Generated) \in Nat
      /\ Cardinality(Generated \cup {c}) \in Nat /\ Cardinality(Generated \cup {c}) <= MaxCalls
  BY <1>1, CallsFinite
<1>3. Cardinality(Generated \cup {c}) = Cardinality(Generated) + 1
  BY <1>1, <1>2, FS_AddElement
<1>4. issued <= Cardinality(Generated) /\ issued \in Nat /\ MaxCalls \in Nat
  BY TypeParts, VerificationAssumption DEF Inv, CodesAgree, Stored
<1> QED BY <1>2, <1>3, <1>4 DEF Codes, Calls

LEMMA CodeIssued ==
  ASSUME Inv, NEW c \in Calls, NEW p, Becomes(c, p), call[c].at \in {"idle", "create"},
         p.at = "setcode", p.code = issued', NewCode, p.id = c \/ (p.id \in Ids /\ Made(p.id)),
         row' \in Rows, row'.verified => row'.id # 0, RowGoes(c, p),
         UNCHANGED <<cache, history, faults>>
  PROVE  Inv'
<1>1. UNCHANGED <<latest, expired, misses, forgiven, stale, settled>>
  BY DEF history
<1>2. issued' = issued + 1 /\ issued \in Nat /\ issued' \in Codes /\ issued' \in 0..MaxCalls
  BY NumberLeft DEF NewCode
<1>3. Stored'
  BY <1>1, <1>2, TypeParts DEF Inv, Stored
<1>4. TypeOK'
  <2>1. issued' >= issued /\ p.code \in 1..issued'
    BY <1>2
  <2> QED BY <1>3, <2>1, TypeKeeps DEF Inv
<1>5. RowsAgree'
  BY <1>1, RowsKeep
<1>6. CodesAgree'
  <2>1. /\ call'[c] = p /\ (\A d \in Calls \ {c} : call'[d] = call[d])
        /\ Cardinality(Generated) \in Nat /\ Cardinality(Generated') = Cardinality(Generated) + 1
    BY CallBecomes DEF Inv
  <2>2. issued' <= Cardinality(Generated')
    BY <1>2, <2>1 DEF Inv, CodesAgree
  <2>3. \A i \in Ids : latest'[i] <= issued' /\ latest'[i] # issued'
    <3>1. \A i \in Ids : latest[i] \in Nat
      BY TypeParts DEF Inv, Stored
    <3> QED BY <1>1, <1>2, <3>1 DEF Inv, CodesAgree
  <2>4. settled' \subseteq 1..issued' /\ issued' \notin settled' /\ misses'[issued'] = 0
    BY <1>1, <1>2 DEF Inv, CodesAgree
  <2>5. \A k \in Codes : k > issued' => misses'[k] = 0
    <3>1. \A k \in Codes : k > issued' => k > issued
      BY <1>2 DEF Codes, Calls
    <3> QED BY <1>1, <3>1 DEF Inv, CodesAgree
  <2>6. \A d \in Calls \ {c} : (Stores(d)' <=> Stores(d)) /\ (Stores(d) => call[d].code # issued')
    <3>1. \A d \in Calls : Stores(d) => call[d].code \in 1..issued
      BY DEF Inv, TypeOK, Stores
    <3> QED BY <1>2, <2>1, <3>1 DEF Stores
  <2>7. \A d, e \in Calls : Stores(d)' /\ Stores(e)' /\ call'[d].code = call'[e].code => d = e
    BY <2>1, <2>6 DEF Inv, CodesAgree
  <2>8. \A d \in Calls : Stores(d)' => call'[d].code \notin settled'
    BY <1>1, <2>1, <2>4, <2>6 DEF Inv, CodesAgree
  <2>9. \A d \in Calls : call'[d].at = "setcode" =>
          misses'[call'[d].code] = 0 /\ \A i \in Ids : latest'[i] # call'[d].code
    BY <1>1, <2>1, <2>3, <2>4 DEF Inv, CodesAgree
  <2>10. \A i, j \in Ids : latest'[i] = latest'[j] => i = j \/ latest'[i] = 0
    BY <1>1 DEF Inv, CodesAgree
  <2> QED BY <2>2, <2>3, <2>4, <2>5, <2>7, <2>8, <2>9, <2>10 DEF CodesAgree
<1>7. ASSUME NEW i \in Ids PROVE CountAgrees(i)'
  <2>1. /\ Cardinality(Failed(i)') = Cardinality(Failed(i)) /\ Cardinality(Pending(i)') = Cardinality(Pending(i))
        /\ With(i, "discard")' # {} => With(i, "discard") # {}
    BY CallCounts DEF Inv, Fails, Pends
  <2>2. /\ Cardinality(Counted) \in Nat /\ Cardinality(Counted') \in Nat
        /\ Cardinality(Counted) <= Cardinality(Counted')
    BY CallBecomes DEF Inv
  <2>3. row' = [id |-> i, verified |-> FALSE] => row = [id |-> i, verified |-> FALSE] \/ latest[i] = 0
    BY RowOnlyFresh
  <2> QED BY <1>1, <2>1, <2>2, <2>3, CountQuiet
<1> QED BY <1>4, <1>5, <1>6, <1>7 DEF Inv, CountsAgree

LEMMA IssueSteps ==
  ASSUME Inv, NEW c \in Calls, SignUpCreates(c) \/ ResendVerification(c)
  PROVE  Inv'
<1>0. /\ UNCHANGED <<cache, history, faults>> /\ call[c].at \in {"idle", "create"} /\ faults' \in 0..MaxFaults
      /\ c \in Ids /\ c \in 0..MaxCalls /\ c # 0
  <2>1. UNCHANGED <<cache, history, faults>> /\ call[c].at \in {"idle", "create"}
    BY DEF SignUpCreates, ResendVerification, Starts
  <2>2. c \in Ids /\ c \in 0..MaxCalls /\ c # 0
    BY VerificationAssumption DEF Ids, Calls
  <2> QED BY <2>1, <2>2, FaultsStay
<1>1. CASE Ends(c) /\ UNCHANGED <<row, issued>>
  BY <1>0, <1>1, EndsQuietly
<1>2. CASE /\ CreateUser(c, FALSE) /\ NewCode /\ SignUpCreates(c)
           /\ call' = [call EXCEPT ![c] = [at |-> "setcode", id |-> c, code |-> issued']]
  <2> DEFINE p == [at |-> "setcode", id |-> c, code |-> issued']
  <2>1. issued' \in 0..MaxCalls
    BY <1>0, <1>2, NumberLeft DEF NewCode
  <2>2. Becomes(c, p) /\ p.at = "setcode" /\ p.code = issued' /\ p.id = c
    BY <1>0, <1>2, <2>1 DEF Becomes, CallStates, Steps
  <2> HIDE DEF p
  <2>3. row' = [id |-> c, verified |-> FALSE] /\ ~Made(c)
    BY <1>0, <1>2 DEF CreateUser, Made
  <2>4. row' \in Rows /\ ~row'.verified /\ row'.id = c
    BY <1>0, <2>3 DEF Rows
  <2>5. RowGoes(c, p)
    BY <2>2, <2>3, <2>4 DEF RowGoes
  <2> QED BY <1>0, <1>2, <2>2, <2>4, <2>5, CodeIssued
<1>3. CASE /\ row.id # 0 /\ NewCode /\ ResendVerification(c) /\ UNCHANGED row
           /\ call' = [call EXCEPT ![c] = [at |-> "setcode", id |-> row.id, code |-> issued']]
  <2> DEFINE p == [at |-> "setcode", id |-> row.id, code |-> issued']
  <2>1. issued' \in 0..MaxCalls
    BY <1>0, <1>3, NumberLeft DEF NewCode
  <2>2. row.id \in Ids /\ Made(row.id)
    BY <1>3, RowMade
  <2>3. Becomes(c, p) /\ p.at = "setcode" /\ p.code = issued' /\ p.id = row.id
    BY <1>0, <1>3, <2>1, <2>2, Placed DEF Steps
  <2> HIDE DEF p
  <2>4. row' \in Rows /\ (row'.verified => row'.id # 0) /\ RowGoes(c, p)
    BY <1>3, RowStays
  <2> QED BY <1>0, <1>3, <2>2, <2>3, <2>4, CodeIssued
<1> QED BY <1>1, <1>2, <1>3 DEF SignUpCreates, ResendVerification

\* The counts of an account whose code and counter a step leaves alone, though it
\* touches another account's.
LEMMA CountElsewhere ==
  ASSUME Inv, NEW c \in Calls, NEW p, Becomes(c, p), NEW i \in Ids, ~Pends(call[c], i), ~Pends(p, i), UNCHANGED row,
         cache'[i] = cache[i], latest'[i] = latest[i],
         \A k \in Codes : k \in {cache[i].code, latest[i]} =>
           misses'[k] = misses[k] /\ forgiven'[k] = forgiven[k] /\ (k \in settled' => stale'[k] = stale[k]),
         latest[i] \in settled' \ expired' => latest[i] \in settled \ expired
  PROVE  CountAgrees(i)'
<1>1. ~Fails(call[c], i) /\ ~Fails(p, i)
  BY DEF Fails, Pends
<1>2. /\ Cardinality(Failed(i)') = Cardinality(Failed(i)) /\ Cardinality(Pending(i)') = Cardinality(Pending(i))
      /\ With(i, "discard")' # {} => With(i, "discard") # {}
  <2>1. p.id = i => p.at # "discard"
    BY DEF Pends
  <2> QED BY <1>1, <2>1, CallCounts DEF Inv
<1>3. /\ Cardinality(Counted) \in Nat /\ Cardinality(Counted') \in Nat
      /\ Cardinality(Counted) <= Cardinality(Counted')
  BY CallBecomes DEF Inv
<1> QED BY <1>2, <1>3, CountQuiet

LEMMA StoreCodeKeeps ==
  ASSUME Inv, NEW c \in Calls, StoreCode(c)
  PROVE  Inv'
<1> DEFINE i == call[c].id
           k == call[c].code
           p == [call[c] EXCEPT !.at = "setcount"]
<1>0. /\ call[c].at = "setcode" /\ Goes(c, "setcount")
      /\ cache' = [cache EXCEPT ![i].code = k] /\ latest' = [latest EXCEPT ![i] = k]
      /\ UNCHANGED <<row, issued, expired, misses, forgiven, stale, settled, faults>>
  BY DEF StoreCode, SetCode
<1>1. i \in Ids /\ Made(i) /\ k \in 1..issued /\ k \notin settled
  BY <1>0 DEF Inv, RowsAgree, CodesAgree, Names, TypeOK, Stores
<1>2. Becomes(c, p) /\ p.at = "setcount" /\ p.id = i /\ p.code = k
  BY <1>0, Going DEF Steps
<1>3. /\ Stored /\ issued \in Nat /\ issued <= MaxCalls /\ k \in Codes /\ k \in 0..MaxCalls /\ k # 0
      /\ misses[k] = 0 /\ \A j \in Ids : latest[j] # k
  <2>1. Stored /\ issued \in Nat /\ issued <= MaxCalls /\ MaxCalls \in Nat
    BY TypeParts, VerificationAssumption DEF Inv, Stored
  <2>2. k \in Codes /\ k \in 0..MaxCalls /\ k # 0
    BY <1>1, <2>1 DEF Codes, Calls
  <2> QED BY <1>0, <2>1, <2>2 DEF Inv, CodesAgree
<1> HIDE DEF i, k, p
<1>4. /\ cache' \in [Ids -> Counters] /\ cache'[i].code = k /\ cache'[i].count = cache[i].count
      /\ \A j \in Ids \ {i} : cache'[j] = cache[j]
      /\ latest' \in [Ids -> 0..MaxCalls] /\ latest'[i] = k /\ \A j \in Ids \ {i} : latest'[j] = latest[j]
  BY <1>0, <1>1, <1>3 DEF Stored, Counters
<1>5. Stored'
  <2>1. \A j \in Ids : cache'[j].code \in {0, latest'[j]}
    BY <1>3, <1>4 DEF Stored
  <2> QED BY <1>0, <1>3, <1>4, <2>1 DEF Stored
<1>6. TypeOK'
  BY <1>0, <1>1, <1>2, <1>3, <1>5, TypeKeeps DEF Inv
<1>7. RowsAgree'
  <2>1. \A j \in Ids : latest'[j] # 0 => latest[j] # 0 \/ Made(j)
    BY <1>1, <1>4
  <2> QED BY <1>0, <1>1, <1>2, <2>1, RowsKeep DEF RowGoes
<1>8. CodesAgree'
  <2>1. /\ call'[c] = p /\ (\A d \in Calls \ {c} : call'[d] = call[d])
        /\ Cardinality(Generated) \in Nat /\ Cardinality(Generated') \in Nat
        /\ Cardinality(Generated) <= Cardinality(Generated')
    BY <1>2, CallBecomes DEF Inv
  <2>2. issued' <= Cardinality(Generated')
    BY <1>0, <1>3, <2>1 DEF Inv, CodesAgree
  <2>3. \A j \in Ids : latest'[j] <= issued'
    BY <1>0, <1>1, <1>3, <1>4 DEF Inv, CodesAgree
  <2>4. \A j, l \in Ids : latest'[j] = latest'[l] => j = l \/ latest'[j] = 0
    BY <1>3, <1>4 DEF Inv, CodesAgree
  <2>5. \A d \in Calls : (Stores(d)' => Stores(d)) /\ (Stores(d) => call'[d].code = call[d].code)
    BY <1>0, <1>2, <2>1 DEF Stores, k
  <2>6. \A d, e \in Calls : Stores(d)' /\ Stores(e)' /\ call'[d].code = call'[e].code => d = e
    BY <2>5 DEF Inv, CodesAgree
  <2>7. \A d \in Calls : Stores(d)' => call'[d].code \notin settled'
    BY <1>0, <2>5 DEF Inv, CodesAgree
  <2>8. ASSUME NEW d \in Calls, call'[d].at = "setcode"
        PROVE  misses'[call'[d].code] = 0 /\ \A j \in Ids : latest'[j] # call'[d].code
    <3>1. d # c /\ call'[d] = call[d] /\ Stores(d) /\ Stores(c)
      BY <1>0, <1>2, <2>1, <2>8 DEF Stores
    <3>2. call[d].code # k
      BY <3>1 DEF Inv, CodesAgree, k
    <3> QED BY <1>0, <1>4, <2>8, <3>1, <3>2 DEF Inv, CodesAgree
  <2> QED BY <1>0, <2>2, <2>3, <2>4, <2>6, <2>7, <2>8 DEF Inv, CodesAgree
<1>9. ASSUME NEW j \in Ids PROVE CountAgrees(j)'
  <2>0. ~Pends(call[c], j) /\ ~Pends(p, j)
    BY <1>0, <1>2 DEF Pends
  <2>1. CASE j # i
    BY <1>0, <1>2, <1>4, <2>0, <2>1, CountElsewhere
  <2>2. CASE j = i
    <3>1. /\ Cardinality(Counted) \in Nat /\ Cardinality(Counted') \in Nat
          /\ Cardinality(Counted) <= Cardinality(Counted')
          /\ Cardinality(Failed(j)') \in Nat /\ Cardinality(Pending(j)') \in Nat
      BY <1>2, CallBecomes, CallCounts DEF Inv
    <3>2. cache[j].count \in Nat /\ cache[j].count <= Cardinality(Counted) /\ forgiven[k] \in Nat
      <4>1. cache[j] \in Counters /\ forgiven \in [Codes -> Nat] /\ MaxCalls \in Nat
        BY <1>3, VerificationAssumption DEF Stored, MissCounts
      <4>2. CountAgrees(j)
        BY DEF Inv, CountsAgree
      <4>3. cache[j].count \in Nat
        BY <4>1 DEF Counters
      <4>4. forgiven[k] \in Nat
        BY <1>3, <4>1
      <4> QED BY <4>2, <4>3, <4>4 DEF CountAgrees
    <3>3. cache'[j].count <= Cardinality(Counted')
      BY <1>4, <2>2, <3>1, <3>2
    <3>4. /\ misses'[k] <= cache'[j].count + forgiven'[k] + Cardinality(Failed(j)')
          /\ misses'[k] < MaxAttempts + forgiven'[k] + Cardinality(Pending(j)')
      BY <1>0, <1>3, <1>4, <2>2, <3>1, <3>2, VerificationAssumption
    <3>5. latest'[j] \notin settled' /\ cache'[j].code = k
      BY <1>0, <1>1, <1>4, <2>2 DEF k
    <3> QED BY <3>3, <3>4, <3>5 DEF CountAgrees, Failed, Pending
  <2> QED BY <2>1, <2>2
<1> QED BY <1>6, <1>7, <1>8, <1>9 DEF Inv, CountsAgree
-----------------------------------------------------------------------------
(* Counters *)

\* A code in the cache is one account's.
LEMMA CodeOfOne ==
  ASSUME Inv, NEW i \in Ids, cache[i].code # 0
  PROVE  /\ cache[i].code \in Codes /\ cache[i].code = latest[i] /\ cache[i].code <= issued
         /\ \A j \in Ids \ {i} : cache[i].code # cache[j].code /\ cache[i].code # latest[j]
<1>1. /\ \A j \in Ids : cache[j].code \in {0, latest[j]} /\ latest[j] \in 0..MaxCalls /\ latest[j] <= issued
      /\ \A j, l \in Ids : latest[j] = latest[l] => j = l \/ latest[j] = 0
  BY TypeParts DEF Inv, Stored, CodesAgree
<1> QED BY <1>1 DEF Codes, Calls

\* What the counts of an account are numbers of.
LEMMA CountTypes ==
  ASSUME Inv, NEW i \in Ids
  PROVE  /\ cache[i] \in Counters /\ cache[i].count \in Nat /\ MaxAttempts \in Nat \ {0} /\ CountAgrees(i)
         /\ issued \in Nat
         /\ latest[i] \in 0..MaxCalls /\ cache[i].code \in {0, latest[i]}
         /\ \A k \in Codes : misses[k] \in Nat /\ forgiven[k] \in Nat /\ stale[k] \in Nat
<1>1. cache \in [Ids -> Counters] /\ MaxAttempts \in Nat \ {0} /\ MaxCalls \in Nat
  BY TypeParts, VerificationAssumption DEF Inv, Stored
<1>2. cache[i] \in Counters /\ cache[i].count \in Nat
  BY <1>1 DEF Counters
<1>3. misses \in [Codes -> Nat] /\ forgiven \in [Codes -> Nat] /\ stale \in [Codes -> Nat]
  BY TypeParts DEF Inv, Stored, MissCounts
<1>4. latest[i] \in 0..MaxCalls /\ cache[i].code \in {0, latest[i]} /\ CountAgrees(i)
  BY TypeParts DEF Inv, Stored, CountsAgree
<1>5. issued \in Nat
  BY TypeParts, <1>1 DEF Inv, Stored
<1> QED BY <1>1, <1>2, <1>3, <1>4, <1>5

\* No new code: one may settle, and codes that are some account's may be missed.
LEMMA CodesMove ==
  ASSUME Inv, NEW c \in Calls, NEW p, Becomes(c, p), UNCHANGED <<issued, latest>>, ~(p.at \in {"setcode", "setcount"}),
         settled' \subseteq settled \/ (Stores(c) /\ settled' \subseteq settled \cup {call[c].code}),
         \A k \in Codes : misses'[k] = misses[k] \/ \E i \in Ids : latest[i] = k
  PROVE  CodesAgree'
<1>1. /\ call'[c] = p /\ (\A d \in Calls \ {c} : call'[d] = call[d])
      /\ Cardinality(Generated) \in Nat /\ Cardinality(Generated') \in Nat
      /\ Cardinality(Generated) <= Cardinality(Generated')
  BY CallBecomes DEF Inv
<1>2. CodesAgree /\ issued \in Nat /\ \A d \in Calls : Stores(d) => call[d].code \in 1..issued
  BY TypeParts, VerificationAssumption DEF Inv, Stored, TypeOK, Stores
<1>3. issued' <= Cardinality(Generated')
  BY <1>1, <1>2 DEF CodesAgree
<1>4. \A d \in Calls : Stores(d)' => d # c /\ Stores(d) /\ call'[d] = call[d]
  BY <1>1 DEF Stores
<1>5. settled' \subseteq 1..issued'
  BY <1>2 DEF CodesAgree
<1>6. \A k \in Codes : k > issued' => misses'[k] = 0
  <2>1. \A i \in Ids : latest[i] <= issued /\ latest[i] \in Int
    BY <1>2, TypeParts DEF CodesAgree, Inv, Stored
  <2> QED BY <1>2, <2>1 DEF CodesAgree, Codes, Calls
<1>7. \A d, e \in Calls : Stores(d)' /\ Stores(e)' /\ call'[d].code = call'[e].code => d = e
  BY <1>2, <1>4 DEF CodesAgree
<1>8. \A d \in Calls : Stores(d)' => call'[d].code \notin settled'
  BY <1>2, <1>4 DEF CodesAgree
<1>9. ASSUME NEW d \in Calls, call'[d].at = "setcode"
      PROVE  misses'[call'[d].code] = 0 /\ \A i \in Ids : latest'[i] # call'[d].code
  <2>1. Stores(d) /\ call'[d] = call[d] /\ call[d].at = "setcode"
    BY <1>1, <1>9 DEF Stores
  <2>2. call[d].code \in Codes
    <3>1. call[d].code \in 1..issued /\ issued \in 0..MaxCalls /\ MaxCalls \in Nat
      BY <1>2, <2>1, TypeParts, VerificationAssumption DEF Inv, Stored
    <3> QED BY <3>1 DEF Codes, Calls
  <2>3. misses[call[d].code] = 0 /\ \A i \in Ids : latest[i] # call[d].code
    BY <1>2, <2>1 DEF CodesAgree
  <2> QED BY <2>1, <2>2, <2>3
<1>10. (\A i \in Ids : latest'[i] <= issued') /\ (\A i, j \in Ids : latest'[i] = latest'[j] => i = j \/ latest'[i] = 0)
  BY <1>2 DEF CodesAgree
<1> QED BY <1>3, <1>5, <1>6, <1>7, <1>8, <1>9, <1>10 DEF CodesAgree

LEMMA StoreCountKeeps ==
  ASSUME Inv, NEW c \in Calls, StoreCount(c)
  PROVE  Inv'
<1> DEFINE i == call[c].id
           k == call[c].code
           now == cache[i].code
<1>0. /\ call[c].at = "setcount" /\ Ends(c)
      /\ cache' = [cache EXCEPT ![i].count = 0]
      /\ forgiven' = IF now = 0 THEN forgiven ELSE [forgiven EXCEPT ![now] = @ + cache[i].count]
      /\ stale' = [stale EXCEPT ![k] = Cardinality(Failed(i))]
      /\ settled' = IF now = k /\ With(i, "discard") = {} THEN settled \cup {k} ELSE settled
      /\ UNCHANGED <<row, issued, latest, expired, misses, faults>>
  BY DEF StoreCount, SetCount, Failed
<1>1. i \in Ids /\ k \in 1..issued /\ k \notin settled /\ Stores(c)
  BY <1>0 DEF Inv, RowsAgree, CodesAgree, Names, TypeOK, Stores
<1>2. Becomes(c, Over) /\ Over.at = "over" /\ Over.id = 0
  BY <1>0, Ending
<1>3. Stored /\ k \in Codes /\ k # 0
  <2>1. Stored /\ issued \in Nat /\ issued <= MaxCalls /\ MaxCalls \in Nat
    BY TypeParts, VerificationAssumption DEF Inv, Stored
  <2> QED BY <1>1, <2>1 DEF Codes, Calls
<1>4. Stores(c) /\ k = call[c].code
  BY <1>1
<1>5. ~Pends(call[c], i) /\ Cardinality(Failed(i)) \in Nat
      /\ \A j \in Ids : ~Pends(call[c], j) /\ ~Pends(Over, j) /\ ~Fails(call[c], j) /\ ~Fails(Over, j)
  BY <1>0, <1>2, CallCounts DEF Inv, Pends, Fails
<1> HIDE DEF i, k
<1>6. /\ cache' \in [Ids -> Counters] /\ cache'[i].code = now /\ cache'[i].count = 0
      /\ \A j \in Ids \ {i} : cache'[j] = cache[j]
      /\ \A j \in Ids : cache'[j].code = cache[j].code
  <2>1. cache \in [Ids -> Counters] /\ 0 \in 0..MaxCalls
    BY <1>3, VerificationAssumption DEF Stored
  <2> QED BY <1>0, <1>1, <2>1 DEF Counters
<1>7. /\ now # 0 => now \in Codes
      /\ forgiven' \in MissCounts /\ stale' \in MissCounts /\ stale'[k] = Cardinality(Failed(i))
      /\ \A l \in Codes : l # now => forgiven'[l] = forgiven[l]
      /\ \A l \in Codes : l # k => stale'[l] = stale[l]
      /\ now # 0 => forgiven'[now] = forgiven[now] + cache[i].count
  <2>1. forgiven \in [Codes -> Nat] /\ stale \in [Codes -> Nat] /\ cache[i].count \in Nat
    BY <1>1, <1>3, CountTypes DEF Stored, MissCounts
  <2>2. now # 0 => now \in Codes
    BY <1>1, CodeOfOne
  <2>3. stale' \in [Codes -> Nat] /\ stale'[k] = Cardinality(Failed(i)) /\ \A l \in Codes : l # k => stale'[l] = stale[l]
    BY <1>0, <1>3, <1>5, <2>1
  <2> HIDE DEF now
  <2>4. CASE now = 0
    BY <1>0, <2>1, <2>2, <2>3, <2>4 DEF MissCounts
  <2>5. CASE now # 0
    <3>1. forgiven' = [forgiven EXCEPT ![now] = @ + cache[i].count]
      BY <1>0, <2>5 DEF now
    <3> QED BY <2>1, <2>2, <2>3, <2>5, <3>1 DEF MissCounts
  <2> QED BY <2>4, <2>5
<1>8. Stored'
  BY <1>0, <1>3, <1>6, <1>7 DEF Stored
<1>9. TypeOK'
  <2>1. issued \in Nat /\ issued' = issued /\ issued' >= issued
    BY <1>0, <1>3, VerificationAssumption DEF Stored
  <2> QED BY <1>2, <1>8, <2>1, TypeKeeps DEF Inv
<1>10. RowsAgree'
  BY <1>0, <1>2, RowsKeep DEF RowGoes
<1>11. CodesAgree'
  <2>1. settled' \subseteq settled \cup {call[c].code}
    BY <1>0 DEF k
  <2> QED BY <1>0, <1>2, <1>4, <2>1, CodesMove
<1>12. ASSUME NEW j \in Ids PROVE CountAgrees(j)'
  <2>1. CASE j # i
    <3>1. ASSUME NEW l \in Codes, l \in {cache[j].code, latest[j]}
          PROVE  misses'[l] = misses[l] /\ forgiven'[l] = forgiven[l] /\ (l \in settled' => stale'[l] = stale[l])
      <4>1. l # 0
        BY VerificationAssumption DEF Codes, Calls
      <4>2. now # l
        BY <1>1, <2>1, <3>1, <4>1, CodeOfOne
      <4>3. l = k => l \notin settled'
        BY <1>0, <1>1, <4>2
      <4> QED BY <1>0, <1>7, <4>2, <4>3
    <3>2. latest[j] \in settled' \ expired' => latest[j] \in settled \ expired
      <4>1. ASSUME latest[j] \in settled', latest[j] \notin settled PROVE FALSE
        <5>1. now = k /\ latest[j] = k
          BY <1>0, <4>1
        <5> QED BY <1>1, <1>3, <2>1, <5>1, CodeOfOne
      <4> QED BY <1>0, <4>1
    <3> HIDE DEF now
    <3> QED BY <1>0, <1>2, <1>5, <1>6, <2>1, <3>1, <3>2, CountElsewhere
  <2>2. CASE j = i
    <3>1. /\ Cardinality(Counted) \in Nat /\ Cardinality(Counted') \in Nat
          /\ Cardinality(Counted) <= Cardinality(Counted')
          /\ Cardinality(Failed(j)') = Cardinality(Failed(j)) /\ Cardinality(Failed(j)) \in Nat
          /\ Cardinality(Pending(j)') = Cardinality(Pending(j)) /\ Cardinality(Pending(j)) \in Nat
          /\ With(j, "discard")' # {} => With(j, "discard") # {}
      BY <1>2, <1>5, CallBecomes, CallCounts DEF Inv
    <3>2. /\ CountAgrees(j) /\ cache[j].count \in Nat /\ MaxAttempts \in Nat /\ cache[j].code = now
          /\ \A l \in Codes : misses[l] \in Nat /\ forgiven[l] \in Nat /\ stale[l] \in Nat
      BY <2>2, CountTypes
    <3>3. cache'[j].code = now /\ cache'[j].count = 0
      BY <1>6, <2>2
    <3>4. ASSUME now # 0
          PROVE  /\ misses'[now] <= 0 + forgiven'[now] + Cardinality(Failed(j)')
                 /\ misses'[now] < MaxAttempts + forgiven'[now] + Cardinality(Pending(j)')
      <4>1. /\ misses[now] <= cache[j].count + forgiven[now] + Cardinality(Failed(j))
            /\ misses[now] < MaxAttempts + forgiven[now] + Cardinality(Pending(j))
        BY <3>2, <3>4 DEF CountAgrees, Failed, Pending
      <4>2. misses'[now] = misses[now] /\ forgiven'[now] = forgiven[now] + cache[j].count /\ now \in Codes
        BY <1>0, <1>7, <2>2, <3>4
      <4>3. misses[now] \in Nat /\ forgiven[now] \in Nat
        BY <3>2, <4>2
      <4> HIDE DEF now
      <4> QED BY <3>1, <3>2, <4>1, <4>2, <4>3
    <3>5. ASSUME latest'[j] \in settled' \ expired'
          PROVE  /\ row' = [id |-> j, verified |-> FALSE] =>
                      now = latest'[j] \/ misses'[latest'[j]] + stale'[latest'[j]] >= MaxAttempts
                 /\ With(j, "discard")' # {} => misses'[latest'[j]] + stale'[latest'[j]] >= MaxAttempts
                 /\ now = latest'[j] =>
                      0 + Cardinality(Failed(j)') <= misses'[latest'[j]] + stale'[latest'[j]]
      <4> DEFINE l == latest[j]
      <4>0. latest'[j] = l /\ l \notin expired /\ UNCHANGED <<row, misses>>
        BY <1>0, <3>5
      <4>1. CASE l \in settled
        <5>1. l # k /\ l \in Codes
          BY <1>1, <1>3, <4>1 DEF Stored
        <5>2. stale'[l] = stale[l] /\ misses[l] \in Nat /\ stale[l] \in Nat
          BY <1>7, <3>2, <5>1
        <5>3. /\ row = [id |-> j, verified |-> FALSE] => now = l \/ misses[l] + stale[l] >= MaxAttempts
              /\ With(j, "discard") # {} => misses[l] + stale[l] >= MaxAttempts
              /\ now = l => cache[j].count + Cardinality(Failed(j)) <= misses[l] + stale[l]
          BY <3>2, <4>0, <4>1 DEF CountAgrees, Failed
        <5>4. now = l => 0 + Cardinality(Failed(j)') <= misses[l] + stale[l]
          <6> HIDE DEF now, l
          <6> QED BY <3>1, <3>2, <5>2, <5>3
        <5> HIDE DEF now, l
        <5> QED BY <3>1, <4>0, <5>2, <5>3, <5>4
      <4>2. CASE l \notin settled
        <5>1. l = k /\ now = k /\ With(j, "discard") = {}
          BY <1>0, <2>2, <3>5, <4>0, <4>2
        <5>2. stale'[l] = Cardinality(Failed(j)) /\ misses[l] \in Nat
          BY <1>3, <1>7, <2>2, <3>2, <5>1
        <5> HIDE DEF now, l
        <5> QED BY <3>1, <4>0, <5>1, <5>2
      <4> QED BY <4>1, <4>2
    <3> HIDE DEF now
    <3>6. cache'[j].count <= Cardinality(Counted')
      BY <3>1, <3>3
    <3> QED BY <3>3, <3>4, <3>5, <3>6 DEF CountAgrees, Failed, Pending
  <2> QED BY <2>1, <2>2
<1> QED BY <1>9, <1>10, <1>11, <1>12 DEF Inv, CountsAgree

LEMMA CodeExpiresKeeps ==
  ASSUME Inv, NEW i \in Ids, CodeExpires(i)
  PROVE  Inv'
<1>0. /\ cache[i].code # 0 /\ expired' = expired \cup {cache[i].code} /\ cache' = [cache EXCEPT ![i] = None]
      /\ UNCHANGED <<row, call, issued, latest, misses, forgiven, stale, settled, faults>>
  BY DEF CodeExpires, Invalidate
<1>1. cache[i].code \in Codes /\ cache[i].code = latest[i] /\ \A j \in Ids \ {i} : cache[i].code # latest[j]
  BY <1>0, CodeOfOne
<1>2. /\ cache' \in [Ids -> Counters] /\ cache'[i].code = 0 /\ cache'[i].count = 0
      /\ \A j \in Ids \ {i} : cache'[j] = cache[j]
  <2>1. cache \in [Ids -> Counters] /\ None \in Counters
    BY TypeParts, VerificationAssumption DEF Inv, Stored, None, Counters
  <2> QED BY <1>0, <2>1 DEF None
<1>3. Stored'
  BY <1>0, <1>1, <1>2, TypeParts DEF Inv, Stored
<1>4. TypeOK'
  <2>1. call' \in [Calls -> CallStates] /\ (\A c \in Calls : Stores(c)' => call'[c].code \in 1..issued')
    BY <1>0, TypeParts DEF Inv, TypeOK, Stores
  <2> QED BY <1>3, <2>1 DEF TypeOK, Stored, CallStates, Rows, Counters, MissCounts, Stores
<1>5. RowsAgree'
  BY <1>0 DEF Inv, RowsAgree, Names, Made
<1>6. CodesAgree'
  BY <1>0 DEF Inv, CodesAgree, Generated, Stores
<1>7. ASSUME NEW j \in Ids PROVE CountAgrees(j)'
  <2>0. /\ Counted' = Counted /\ Failed(j)' = Failed(j) /\ Pending(j)' = Pending(j)
        /\ With(j, "discard")' = With(j, "discard")
        /\ Cardinality(Counted) \in Nat
    <3>1. Counted \in SUBSET Calls
      BY DEF Counted
    <3> QED BY <1>0, <3>1, CallsFinite DEF Counted, Failed, Pending, With
  <2>1. CASE j # i
    <3>1. Cardinality(Counted) <= Cardinality(Counted') /\ Cardinality(Counted') \in Nat
      BY <2>0
    <3> QED BY <1>0, <1>1, <1>2, <2>0, <2>1, <3>1, CountQuiet
  <2>2. CASE j = i
    <3>1. cache'[j].count <= Cardinality(Counted') /\ cache'[j].code = 0 /\ latest'[j] \in expired'
      BY <1>0, <1>1, <1>2, <2>0, <2>2
    <3> QED BY <3>1 DEF CountAgrees
  <2> QED BY <2>1, <2>2
<1> QED BY <1>4, <1>5, <1>6, <1>7 DEF Inv, CountsAgree

LEMMA CompareKeeps ==
  ASSUME Inv, NEW c \in Calls, Compare(c)
  PROVE  Inv'
<1> DEFINE i == call[c].id
           k == cache[i].code
           p == [call[c] EXCEPT !.at = "failed"]
<1>0. call[c].at = "read" /\ UNCHANGED <<row, cache, issued, latest, expired, forgiven, stale, settled, faults>>
  BY DEF Compare
<1>1. i \in Ids /\ Made(i)
  BY <1>0 DEF Inv, RowsAgree, Names
<1>2. CASE Goes(c, "matched") /\ UNCHANGED misses
  <2> DEFINE q == [call[c] EXCEPT !.at = "matched"]
  <2>1. Becomes(c, q) /\ q.at = "matched" /\ q.id = i
    BY <1>0, <1>2, Going DEF Steps
  <2>2. row' \in Rows /\ (row'.verified => row'.id # 0) /\ RowGoes(c, q) /\ faults' \in 0..MaxFaults
    BY <1>0, RowStays, FaultsStay
  <2> HIDE DEF i, q
  <2> QED BY <1>0, <1>1, <1>2, <2>1, <2>2, Moves DEF history
<1>3. CASE /\ Goes(c, "failed")
           /\ misses' = IF k = 0 THEN misses ELSE [misses EXCEPT ![k] = @ + 1]
  <2>1. Becomes(c, p) /\ p.at = "failed" /\ p.id = i
    BY <1>0, <1>3, Going DEF Steps
  <2>2. ~Pends(call[c], i) /\ ~Fails(call[c], i) /\ Pends(p, i) /\ Fails(p, i)
        /\ \A j \in Ids : ~Pends(call[c], j) /\ (j # i => ~Pends(p, j))
    BY <1>0, <2>1 DEF Pends, Fails
  <2>3. k # 0 => k \in Codes /\ k = latest[i] /\ \A j \in Ids \ {i} : k # cache[j].code /\ k # latest[j]
    BY <1>1, CodeOfOne
  <2> HIDE DEF i, k, p
  <2>4. /\ misses' \in MissCounts
        /\ \A l \in Codes : l # k => misses'[l] = misses[l]
        /\ k # 0 => misses'[k] = misses[k] + 1
    <3>1. misses \in [Codes -> Nat]
      BY TypeParts DEF Inv, Stored, MissCounts
    <3> QED BY <1>3, <2>3, <3>1 DEF MissCounts
  <2>5. Stored'
    BY <1>0, <2>4, TypeParts DEF Inv, Stored
  <2>6. TypeOK'
    <3>1. issued \in Nat /\ issued' = issued /\ issued' >= issued
      BY <1>0, TypeParts, VerificationAssumption DEF Inv, Stored
    <3> QED BY <2>1, <2>5, <3>1, TypeKeeps DEF Inv
  <2>7. RowsAgree'
    BY <1>0, <1>1, <2>1, RowsKeep DEF RowGoes
  <2>8. CodesAgree'
    <3>1. \A l \in Codes : misses'[l] = misses[l] \/ \E j \in Ids : latest[j] = l
      BY <1>1, <2>3, <2>4 DEF Codes, Calls
    <3> QED BY <1>0, <2>1, <3>1, CodesMove
  <2>9. ASSUME NEW j \in Ids PROVE CountAgrees(j)'
    <3>1. CASE j # i
      <4>1. ASSUME NEW l \in Codes, l \in {cache[j].code, latest[j]} PROVE misses'[l] = misses[l]
        <5>1. l # 0
          BY VerificationAssumption DEF Codes, Calls
        <5> QED BY <2>3, <2>4, <3>1, <4>1, <5>1
      <4> QED BY <1>0, <2>1, <2>2, <3>1, <4>1, CountElsewhere
    <3>2. CASE j = i
      <4>1. /\ Cardinality(Counted) \in Nat /\ Cardinality(Counted') \in Nat
            /\ Cardinality(Counted) <= Cardinality(Counted')
            /\ Cardinality(Failed(j)) \in Nat /\ Cardinality(Failed(j)') = Cardinality(Failed(j)) + 1
            /\ Cardinality(Pending(j)) \in Nat /\ Cardinality(Pending(j)') = Cardinality(Pending(j)) + 1
            /\ With(j, "discard")' # {} => With(j, "discard") # {}
        BY <2>1, <2>2, <3>2, CallBecomes, CallCounts DEF Inv
      <4>2. /\ CountAgrees(j) /\ cache[j].count \in Nat /\ MaxAttempts \in Nat /\ cache[j].code = k
            /\ k \in {0, latest[j]} /\ latest[j] \in 0..MaxCalls
            /\ \A l \in Codes : misses[l] \in Nat /\ forgiven[l] \in Nat /\ stale[l] \in Nat
        BY <3>2, CountTypes DEF k
      <4>3. cache[j].count <= Cardinality(Counted)
        BY <4>2 DEF CountAgrees
      <4>4. ASSUME k # 0
            PROVE  /\ misses'[k] <= cache[j].count + forgiven[k] + Cardinality(Failed(j)')
                   /\ misses'[k] < MaxAttempts + forgiven[k] + Cardinality(Pending(j)')
        <5>1. /\ misses[k] <= cache[j].count + forgiven[k] + Cardinality(Failed(j))
              /\ misses[k] < MaxAttempts + forgiven[k] + Cardinality(Pending(j))
              /\ misses[k] \in Nat /\ forgiven[k] \in Nat
          BY <2>3, <4>2, <4>4 DEF CountAgrees, Failed, Pending
        <5> QED BY <2>4, <4>1, <4>2, <4>4, <5>1
      <4>5. ASSUME latest[j] \in settled \ expired
            PROVE  /\ row = [id |-> j, verified |-> FALSE] =>
                        k = latest[j] \/ misses'[latest[j]] + stale[latest[j]] >= MaxAttempts
                   /\ With(j, "discard")' # {} => misses'[latest[j]] + stale[latest[j]] >= MaxAttempts
                   /\ k = latest[j] =>
                        cache[j].count + Cardinality(Failed(j)') <= misses'[latest[j]] + stale[latest[j]]
        <5> DEFINE l == latest[j]
        <5>1. l \in Codes /\ l # 0
          BY <4>5, TypeParts, VerificationAssumption DEF Inv, Stored, Codes, Calls
        <5>2. /\ row = [id |-> j, verified |-> FALSE] => k = l \/ misses[l] + stale[l] >= MaxAttempts
              /\ With(j, "discard") # {} => misses[l] + stale[l] >= MaxAttempts
              /\ k = l => cache[j].count + Cardinality(Failed(j)) <= misses[l] + stale[l]
          BY <4>2, <4>5 DEF CountAgrees, Failed
        <5>3. misses[l] \in Nat /\ stale[l] \in Nat /\ (k = l => misses'[l] = misses[l] + 1)
              /\ (k # l => misses'[l] = misses[l])
          BY <2>4, <4>2, <5>1
        <5> HIDE DEF l
        <5> QED BY <4>1, <4>2, <5>2, <5>3 DEF l
      <4>6. cache'[j] = cache[j] /\ cache'[j].code = k /\ UNCHANGED <<row, latest, forgiven, stale, settled, expired>>
        BY <1>0, <4>2
      <4>7. cache'[j].count <= Cardinality(Counted')
        BY <4>1, <4>2, <4>3, <4>6
      <4> QED BY <4>4, <4>5, <4>6, <4>7 DEF CountAgrees, Failed, Pending
    <3> QED BY <3>1, <3>2
  <2> QED BY <2>6, <2>7, <2>8, <2>9 DEF Inv, CountsAgree
<1> QED BY <1>2, <1>3 DEF Compare
-----------------------------------------------------------------------------
(* Misses that are counted, forgiven, or cost the code *)

LEMMA FailedPends ==
  ASSUME NEW i
  PROVE  Cardinality(Failed(i)) \in Nat /\ Cardinality(Pending(i)) \in Nat
         /\ Cardinality(Failed(i)) <= Cardinality(Pending(i))
<1>1. Failed(i) \in SUBSET Calls /\ Pending(i) \in SUBSET Calls /\ Failed(i) \subseteq Pending(i)
  BY DEF Failed, Pending, With
<1>2. IsFiniteSet(Pending(i)) /\ Cardinality(Failed(i)) \in Nat /\ Cardinality(Pending(i)) \in Nat
  BY <1>1, CallsFinite
<1> QED BY <1>1, <1>2, FS_Subset

\* The call moves, and of what Redis and the codes' history hold only one account's
\* code or counter and the misses it is forgiven change.
LEMMA CacheMoves ==
  ASSUME Inv, NEW c \in Calls, NEW p, Becomes(c, p), NEW i \in Ids, call[c].id = i,
         p.at \in {"discard", "over"}, p.at = "discard" => p.id = i, p.at = "over" => p.id = 0,
         cache'[i] \in Counters, cache' = [cache EXCEPT ![i] = cache'[i]], cache'[i].code \in {0, cache[i].code},
         forgiven' \in MissCounts, \A l \in Codes : l # cache[i].code => forgiven'[l] = forgiven[l],
         UNCHANGED <<row, issued, latest, expired, misses, stale, settled>>, faults' \in 0..MaxFaults,
         Made(i), CountAgrees(i)'
  PROVE  Inv'
<1>1. cache' \in [Ids -> Counters] /\ \A j \in Ids \ {i} : cache'[j] = cache[j]
  BY TypeParts DEF Inv, Stored
<1>2. Stored'
  <2>1. \A j \in Ids : cache[j].code \in {0, latest[j]}
    BY TypeParts DEF Inv, Stored
  <2>2. \A j \in Ids : cache'[j].code \in {0, latest'[j]}
    BY <1>1, <2>1
  <2> QED BY <1>1, <2>2, TypeParts DEF Inv, Stored
<1>3. TypeOK'
  <2>1. issued \in Nat /\ issued' = issued /\ issued' >= issued
    BY TypeParts, VerificationAssumption DEF Inv, Stored
  <2> QED BY <1>2, <2>1, TypeKeeps DEF Inv
<1>4. RowsAgree'
  BY RowsKeep DEF RowGoes
<1>5. CodesAgree'
  BY CodesMove
<1>6. ASSUME NEW j \in Ids, j # i PROVE CountAgrees(j)'
  <2>1. i # 0
    BY VerificationAssumption DEF Ids, Calls
  <2>2. ~Pends(call[c], j) /\ ~Pends(p, j)
    BY <1>6, <2>1 DEF Pends
  <2>3. ASSUME NEW l \in Codes, l \in {cache[j].code, latest[j]} PROVE forgiven'[l] = forgiven[l]
    <3>1. l # 0
      BY VerificationAssumption DEF Codes, Calls
    <3>2. cache[i].code # l
      BY <1>6, <2>3, <3>1, CodeOfOne
    <3> QED BY <3>2
  <2> QED BY <1>1, <1>6, <2>2, <2>3, CountElsewhere
<1> QED BY <1>3, <1>4, <1>5, <1>6 DEF Inv, CountsAgree

LEMMA RecordKeeps ==
  ASSUME Inv, NEW c \in Calls, RecordFailedAttempt(c)
  PROVE  Inv'
<1>1. PICK i \in Ids : i = call[c].id /\ Made(i)
  BY DEF RecordFailedAttempt, Inv, RowsAgree, Names
<1> DEFINE k == cache[i].code
           n == IF k = 0 THEN 0 ELSE cache[i].count + 1
           p == IF n >= MaxAttempts THEN [call[c] EXCEPT !.at = "discard"] ELSE Over
<1>0. call[c].at = "failed" /\ UNCHANGED <<row, issued, latest, expired, misses, forgiven, stale, settled, faults>>
  BY DEF RecordFailedAttempt, history
<1>2. cache' = [cache EXCEPT ![i].count = n] /\ cache[i] \in Counters /\ cache \in [Ids -> Counters]
  BY <1>1, CountTypes, TypeParts DEF RecordFailedAttempt, IncrementAttempts, Inv, Stored
<1>3. cache'[i].count = n /\ cache'[i].code = k
  BY <1>1, <1>2 DEF Counters
<1>5. /\ Becomes(c, p)
      /\ n >= MaxAttempts => p.at = "discard" /\ p.id = i
      /\ ~(n >= MaxAttempts) => p.at = "over" /\ p.id = 0
  <2>1. CASE n >= MaxAttempts
    <3>1. Goes(c, "discard")
      BY <1>1, <1>3, <2>1 DEF RecordFailedAttempt
    <3> QED BY <1>0, <1>1, <2>1, <3>1, Going DEF Steps
  <2>2. CASE ~(n >= MaxAttempts)
    <3>1. Ends(c)
      BY <1>1, <1>3, <2>2 DEF RecordFailedAttempt
    <3> QED BY <1>0, <2>2, <3>1, Ending
  <2> QED BY <2>1, <2>2
<1>6. /\ Fails(call[c], i) /\ Pends(call[c], i) /\ ~Fails(p, i)
      /\ n >= MaxAttempts <=> Pends(p, i)
      /\ call[c].at \notin {"over", "discard"} /\ p.at \in {"over", "discard"}
  <2>1. i # 0
    BY <1>1, VerificationAssumption DEF Ids, Calls
  <2> QED BY <1>0, <1>1, <1>5, <2>1 DEF Fails, Pends
<1> HIDE DEF p
<1>7. /\ Cardinality(Counted) \in Nat /\ Cardinality(Counted') = Cardinality(Counted) + 1
      /\ Cardinality(Counted') <= MaxCalls
      /\ Cardinality(Failed(i)) \in Nat /\ Cardinality(Failed(i)') = Cardinality(Failed(i)) - 1
      /\ Cardinality(Failed(i)') \in Nat /\ Cardinality(Pending(i)) \in Nat
      /\ n >= MaxAttempts => Cardinality(Pending(i)') = Cardinality(Pending(i))
      /\ ~(n >= MaxAttempts) => Cardinality(Pending(i)') = Cardinality(Pending(i)) - 1
      /\ With(i, "discard")' # {} => With(i, "discard") # {} \/ n >= MaxAttempts
      /\ Cardinality(Failed(i)) <= Cardinality(Pending(i))
  <2>1. /\ Cardinality(Counted) \in Nat /\ Cardinality(Counted') = Cardinality(Counted) + 1
        /\ Cardinality(Counted') <= MaxCalls
    BY <1>5, <1>6, CallBecomes DEF Inv
  <2>2. p.id = i /\ p.at = "discard" => n >= MaxAttempts
    BY <1>6 DEF Pends
  <2> HIDE DEF n
  <2>3. /\ Cardinality(Failed(i)) \in Nat /\ Cardinality(Failed(i)') = Cardinality(Failed(i)) - 1
        /\ Cardinality(Failed(i)') \in Nat /\ Cardinality(Pending(i)) \in Nat
        /\ n >= MaxAttempts => Cardinality(Pending(i)') = Cardinality(Pending(i))
        /\ ~(n >= MaxAttempts) => Cardinality(Pending(i)') = Cardinality(Pending(i)) - 1
        /\ With(i, "discard")' # {} => With(i, "discard") # {} \/ n >= MaxAttempts
    BY <1>5, <1>6, <2>2, CallCounts DEF Inv
  <2> QED BY <2>1, <2>3, FailedPends
<1>8. /\ CountAgrees(i) /\ cache[i].count \in Nat /\ MaxAttempts \in Nat \ {0}
      /\ cache[i].count <= Cardinality(Counted) /\ k \in {0, latest[i]} /\ latest[i] \in 0..MaxCalls
      /\ k # 0 => k \in Codes
      /\ \A l \in Codes : misses[l] \in Nat /\ forgiven[l] \in Nat /\ stale[l] \in Nat
  BY <1>1, CountTypes, CodeOfOne DEF CountAgrees
<1>9. n \in Nat /\ n <= Cardinality(Counted')
  BY <1>7, <1>8
<1>10. cache'[i] \in Counters /\ cache' = [cache EXCEPT ![i] = cache'[i]]
  <2>1. n \in 0..MaxCalls
    BY <1>7, <1>9, VerificationAssumption
  <2> HIDE DEF n, k
  <2> QED BY <1>1, <1>2, <2>1 DEF Counters
<1>11. CountAgrees(i)'
  <2>1. ASSUME k # 0
        PROVE  /\ misses[k] <= n + forgiven[k] + Cardinality(Failed(i)')
               /\ misses[k] < MaxAttempts + forgiven[k] + Cardinality(Pending(i)')
    <3>1. /\ misses[k] <= cache[i].count + forgiven[k] + Cardinality(Failed(i))
          /\ misses[k] < MaxAttempts + forgiven[k] + Cardinality(Pending(i))
          /\ misses[k] \in Nat /\ forgiven[k] \in Nat /\ n = cache[i].count + 1
      BY <1>8, <2>1 DEF CountAgrees, Failed, Pending
    <3> HIDE DEF n, k
    <3> QED BY <1>7, <1>8, <1>9, <3>1
  <2>2. ASSUME latest[i] \in settled \ expired
        PROVE  /\ row = [id |-> i, verified |-> FALSE] => k = latest[i] \/ misses[latest[i]] + stale[latest[i]] >= MaxAttempts
               /\ With(i, "discard")' # {} => misses[latest[i]] + stale[latest[i]] >= MaxAttempts
               /\ k = latest[i] => n + Cardinality(Failed(i)') <= misses[latest[i]] + stale[latest[i]]
    <3> DEFINE l == latest[i]
    <3>1. l \in Codes /\ l # 0
      BY <2>2, TypeParts, VerificationAssumption DEF Inv, Stored, Codes, Calls
    <3>2. /\ row = [id |-> i, verified |-> FALSE] => k = l \/ misses[l] + stale[l] >= MaxAttempts
          /\ With(i, "discard") # {} => misses[l] + stale[l] >= MaxAttempts
          /\ k = l => cache[i].count + Cardinality(Failed(i)) <= misses[l] + stale[l]
          /\ misses[l] \in Nat /\ stale[l] \in Nat
      BY <1>8, <2>2, <3>1 DEF CountAgrees, Failed
    <3>3. (k = 0 => n = 0) /\ (k # 0 => n = cache[i].count + 1) /\ k \in {0, l}
      BY <1>8
    <3> HIDE DEF n, k, l
    <3> QED BY <1>7, <1>8, <3>1, <3>2, <3>3 DEF l
  <2> HIDE DEF n, k
  <2> QED BY <1>0, <1>3, <1>9, <2>1, <2>2 DEF CountAgrees, Failed, Pending
<1> HIDE DEF n, k
<1>12. faults' \in 0..MaxFaults /\ forgiven' \in MissCounts /\ forgiven' = forgiven
  BY <1>0, TypeParts DEF Inv, Stored
<1> QED BY <1>0, <1>1, <1>3, <1>5, <1>10, <1>11, <1>12, CacheMoves DEF k

LEMMA DiscardKeeps ==
  ASSUME Inv, NEW c \in Calls, Discard(c)
  PROVE  Inv'
<1>1. PICK i \in Ids : i = call[c].id /\ Made(i) /\ i # 0
  BY VerificationAssumption DEF Discard, Inv, RowsAgree, Names, Ids, Calls
<1>0. /\ call[c].at \in {"discard", "consume"} /\ Ends(c) /\ cache' = [cache EXCEPT ![i] = None]
      /\ UNCHANGED <<row, issued, latest, expired, misses, forgiven, stale, settled, faults>>
  BY <1>1 DEF Discard, Invalidate, history
<1>2. Becomes(c, Over) /\ Over.at = "over" /\ Over.id = 0
  BY <1>0, Ending
<1>3. /\ cache'[i] = None /\ None \in Counters /\ None.code = 0 /\ None.count = 0
      /\ forgiven' \in MissCounts /\ faults' \in 0..MaxFaults
  BY <1>0, <1>1, TypeParts, VerificationAssumption DEF Inv, Stored, None, Counters
<1>4. CountAgrees(i)'
  <2>1. ~Fails(call[c], i) /\ ~Fails(Over, i) /\ ~Pends(Over, i)
    BY <1>0, <1>1, <1>2 DEF Fails, Pends
  <2>2. /\ With(i, "discard")' # {} => With(i, "discard") # {}
        /\ Cardinality(Counted') \in Nat
    BY <1>1, <1>2, CallCounts, CallBecomes DEF Inv
  <2>3. ASSUME latest[i] \in settled \ expired
        PROVE  /\ row = [id |-> i, verified |-> FALSE] => misses[latest[i]] + stale[latest[i]] >= MaxAttempts
               /\ With(i, "discard") # {} => misses[latest[i]] + stale[latest[i]] >= MaxAttempts
               /\ latest[i] # 0
    <3>1. With(i, "discard") # {} => misses[latest[i]] + stale[latest[i]] >= MaxAttempts
      BY <1>1, <2>3, CountTypes DEF CountAgrees
    <3>2. CASE call[c].at = "discard"
      <4>1. c \in With(i, "discard")
        BY <1>1, <3>2 DEF With
      <4> QED BY <2>3, <3>1, <4>1, TypeParts, VerificationAssumption DEF Inv, Stored, Codes, Calls
    <3>3. CASE call[c].at = "consume"
      <4>1. row # [id |-> i, verified |-> FALSE]
        BY <1>1, <3>3 DEF Inv, RowsAgree
      <4> QED BY <2>3, <3>1, <4>1, TypeParts, VerificationAssumption DEF Inv, Stored, Codes, Calls
    <3> QED BY <1>0, <3>2, <3>3
  <2>4. cache'[i].count <= Cardinality(Counted') /\ cache'[i].code = 0
    BY <1>3, <2>2
  <2> QED BY <1>0, <2>2, <2>3, <2>4 DEF CountAgrees
<1> QED BY <1>0, <1>1, <1>2, <1>3, <1>4, CacheMoves

LEMMA CallDiesKeeps ==
  ASSUME Inv, NEW c \in Calls, CallDies(c)
  PROVE  Inv'
<1>0. /\ call[c].at \notin {"idle", "over"} /\ Ends(c) /\ faults' \in 0..MaxFaults
      /\ UNCHANGED <<row, cache, issued, latest, expired, misses, stale, settled>>
  BY FaultType DEF CallDies
<1>1. CASE call[c].at \notin {"failed", "discard"}
  <2>1. forgiven' = forgiven
    BY <1>1 DEF CallDies
  <2> QED BY <1>0, <1>1, <2>1, EndsQuietly DEF history
<1>2. CASE call[c].at \in {"failed", "discard"}
  <2>1. PICK i \in Ids : i = call[c].id /\ Made(i) /\ i # 0
    BY <1>2, VerificationAssumption DEF Inv, RowsAgree, Names, Ids, Calls
  <2> DEFINE k == cache[i].code
  <2>2. forgiven' = IF k # 0 THEN [forgiven EXCEPT ![k] = @ + 1] ELSE forgiven
    BY <1>2, <2>1 DEF CallDies
  <2>3. Becomes(c, Over) /\ Over.at = "over" /\ Over.id = 0
    BY <1>0, Ending
  <2>4. Pends(call[c], i) /\ ~Fails(Over, i) /\ ~Pends(Over, i)
    BY <1>2, <2>1, <2>3 DEF Fails, Pends
  <2>5. /\ CountAgrees(i) /\ cache[i] \in Counters /\ cache[i].count \in Nat /\ MaxAttempts \in Nat
        /\ k # 0 => k \in Codes
        /\ \A l \in Codes : misses[l] \in Nat /\ forgiven[l] \in Nat /\ stale[l] \in Nat
    BY <2>1, CountTypes, CodeOfOne
  <2>6. cache' = [cache EXCEPT ![i] = cache'[i]] /\ cache'[i] = cache[i]
    BY <1>0, <2>1, TypeParts DEF Inv, Stored
  <2>7. /\ Cardinality(Counted) \in Nat /\ Cardinality(Counted') \in Nat
        /\ Cardinality(Counted) <= Cardinality(Counted')
        /\ Cardinality(Failed(i)) \in Nat /\ Cardinality(Failed(i)') \in Nat
        /\ Cardinality(Failed(i)') \in {Cardinality(Failed(i)), Cardinality(Failed(i)) - 1}
        /\ Cardinality(Pending(i)) \in Nat /\ Cardinality(Pending(i)') \in Nat
        /\ Cardinality(Pending(i)') = Cardinality(Pending(i)) - 1
        /\ With(i, "discard")' # {} => With(i, "discard") # {}
    BY <2>3, <2>4, CallBecomes, CallCounts DEF Inv
  <2> HIDE DEF k
  <2>8. /\ forgiven' \in MissCounts /\ \A l \in Codes : l # k => forgiven'[l] = forgiven[l]
        /\ k # 0 => forgiven'[k] = forgiven[k] + 1
    <3>1. forgiven \in [Codes -> Nat]
      BY TypeParts DEF Inv, Stored, MissCounts
    <3> QED BY <2>2, <2>5, <3>1 DEF MissCounts
  <2>9. CountAgrees(i)'
    <3>1. cache[i].count <= Cardinality(Counted')
      BY <2>5, <2>7 DEF CountAgrees
    <3>2. ASSUME k # 0
          PROVE  /\ misses[k] <= cache[i].count + forgiven'[k] + Cardinality(Failed(i)')
                 /\ misses[k] < MaxAttempts + forgiven'[k] + Cardinality(Pending(i)')
      <4>1. /\ misses[k] <= cache[i].count + forgiven[k] + Cardinality(Failed(i))
            /\ misses[k] < MaxAttempts + forgiven[k] + Cardinality(Pending(i))
            /\ misses[k] \in Nat /\ forgiven[k] \in Nat
        BY <2>5, <3>2 DEF CountAgrees, Failed, Pending, k
      <4> QED BY <2>5, <2>7, <2>8, <3>2, <4>1
    <3>3. ASSUME latest[i] \in settled \ expired
          PROVE  /\ row = [id |-> i, verified |-> FALSE] => k = latest[i] \/ misses[latest[i]] + stale[latest[i]] >= MaxAttempts
                 /\ With(i, "discard")' # {} => misses[latest[i]] + stale[latest[i]] >= MaxAttempts
                 /\ k = latest[i] => cache[i].count + Cardinality(Failed(i)') <= misses[latest[i]] + stale[latest[i]]
      <4> DEFINE l == latest[i]
      <4>1. l \in Codes
        BY <3>3, TypeParts DEF Inv, Stored
      <4>2. /\ row = [id |-> i, verified |-> FALSE] => k = l \/ misses[l] + stale[l] >= MaxAttempts
            /\ With(i, "discard") # {} => misses[l] + stale[l] >= MaxAttempts
            /\ k = l => cache[i].count + Cardinality(Failed(i)) <= misses[l] + stale[l]
            /\ misses[l] \in Nat /\ stale[l] \in Nat
        BY <2>5, <3>3, <4>1 DEF CountAgrees, Failed, k
      <4> HIDE DEF l
      <4> QED BY <2>5, <2>7, <4>2 DEF l
    <3>4. cache'[i].code = k
      BY <2>6 DEF k
    <3> QED BY <1>0, <2>6, <3>1, <3>2, <3>3, <3>4 DEF CountAgrees, Failed, Pending
  <2> QED BY <1>0, <2>1, <2>3, <2>5, <2>6, <2>8, <2>9, CacheMoves DEF k
<1> QED BY <1>1, <1>2
-----------------------------------------------------------------------------
(* The invariant *)

LEMMA InvInit == Init => Inv
<1> SUFFICES ASSUME Init PROVE Inv
  OBVIOUS
<1>0. MaxCalls \in Nat /\ MaxFaults \in Nat /\ MaxAttempts \in Nat \ {0} /\ 0 \in 0..MaxCalls /\ 0 \in 0..MaxFaults
  BY VerificationAssumption
<1>1. \A c \in Calls : call[c] = Idle /\ call[c].at = "idle"
  BY DEF Init, Idle
<1>2. \A i \in Ids : cache[i].code = 0 /\ cache[i].count = 0 /\ latest[i] = 0
  BY DEF Init, None
<1>3. \A i : Failed(i) = {} /\ With(i, "discard") = {} /\ Pending(i) = {}
  BY <1>1 DEF Failed, Pending, With
<1>4. Generated = {} /\ Counted = {} /\ Cardinality({}) = 0
  BY <1>1, FS_EmptySet DEF Generated, Counted
<1>5. TypeOK
  <2>1. Idle \in CallStates /\ None \in Counters
    BY <1>0 DEF Idle, None, CallStates, Counters, Steps
  <2>2. Stored
    BY <1>0, <1>2, <2>1 DEF Init, Stored, Rows, MissCounts
  <2>3. call \in [Calls -> CallStates] /\ \A c \in Calls : ~Stores(c)
    BY <1>1, <2>1 DEF Init, Stores
  <2> QED BY <2>2, <2>3, TypeParts
<1>6. RowsAgree
  BY <1>1, <1>2 DEF Init, RowsAgree, Names
<1>7. CodesAgree
  BY <1>0, <1>1, <1>2, <1>4 DEF Init, CodesAgree, Stores
<1>8. CountsAgree
  BY <1>2, <1>4 DEF Init, CountsAgree, CountAgrees
<1> QED BY <1>5, <1>6, <1>7, <1>8 DEF Inv

LEMMA InvKept == Inv /\ [Next]_vars => Inv'
<1> SUFFICES ASSUME Inv, [Next]_vars PROVE Inv'
  OBVIOUS
<1>1. CASE UNCHANGED vars
  <2>1. UNCHANGED <<row, cache, call, issued, latest, expired, misses, forgiven, stale, settled, faults>>
    BY <1>1 DEF vars, history
  <2>2. UNCHANGED <<Generated, Counted>> /\ \A i, at : With(i, at)' = With(i, at)
    BY <2>1 DEF Generated, Counted, With
  <2>3. TypeOK'
    BY <2>1 DEF Inv, TypeOK
  <2>4. RowsAgree'
    BY <2>1 DEF Inv, RowsAgree, Names, Made
  <2>5. CodesAgree'
    BY <2>1, <2>2 DEF Inv, CodesAgree, Stores
  <2>6. ASSUME NEW i \in Ids PROVE CountAgrees(i)'
    <3>1. CountAgrees(i)
      BY DEF Inv, CountsAgree
    <3> QED BY <2>1, <2>2, <3>1 DEF CountAgrees
  <2> QED BY <2>3, <2>4, <2>5, <2>6 DEF Inv, CountsAgree
<1>2. ASSUME NEW c \in Calls, CallStep(c) PROVE Inv'
  BY <1>2, IssueSteps, StoreCodeKeeps, StoreCountKeeps, RowSteps, CompareKeeps, RecordKeeps, DiscardKeeps, GoogleSteps
  DEF CallStep
<1>3. ASSUME NEW c \in Calls,
             \/ SignUp(c) \/ ResendVerification(c) \/ VerifyEmail(c) \/ SignInWithGoogle(c)
             \/ StoreFails(c) \/ CallDies(c)
      PROVE  Inv'
  BY <1>3, StartSteps, IssueSteps, RowSteps, CallDiesKeeps
<1>4. ASSUME NEW i \in Ids, CodeExpires(i) PROVE Inv'
  BY <1>4, CodeExpiresKeeps
<1> QED BY <1>1, <1>2, <1>3, <1>4 DEF Next

LEMMA InvAlways == Spec => []Inv
BY InvInit, InvKept, PTL DEF Spec

\* Rows, codes and calls have their types, and a code in the cache is the one stored last.
THEOREM TypeCorrect == Spec => []TypeOK
<1>1. Inv => TypeOK
  BY DEF Inv
<1> QED BY <1>1, InvAlways, PTL

\* However guesses, resends and failures of recordFailedAttempt interleave, a code that can
\* still be used has been missed fewer than maxVerificationAttempts times, but for the
\* misses being recorded, never recorded, or wiped by a Store.
THEOREM CodeGuarded == Spec => []CodeIsGuarded
<1>1. Inv => CodeIsGuarded
  BY DEF Inv, CountsAgree, CountAgrees, CodeIsGuarded
<1> QED BY <1>1, InvAlways, PTL

\* A code whose Store completed stays usable until it expires, its account is verified or
\* gone, or it has been missed maxVerificationAttempts times.
THEOREM LastStands == Spec => []LastCodeStands
<1>1. Inv => LastCodeStands
  BY DEF Inv, CountsAgree, CountAgrees, LastCodeStands
<1> QED BY <1>1, InvAlways, PTL
-----------------------------------------------------------------------------
(* One account after another at one address *)

\* What SignUp and createGoogleUser give an address once its last row is gone: an account
\* that no code was ever stored for and no call under way names, so that no resend, guess,
\* discard, confirmation or roll-back begun for the row before it can reach it.
Clean(i) ==
  latest[i] = 0 /\ cache[i].code = 0 /\ \A c \in Calls : Names(c) => call[c].id # i

NewAccountIsClean == [][row'.id \notin {row.id, 0} => Clean(row'.id)]_vars

\* A verified row is taken out by one call only, the sign-up that made it, when its Store
\* has failed: DeleteUser in SignUp does not ask whether the row was verified meanwhile.
VerifiedStays ==
  [][row.verified => row' = row \/ (row'.id = 0 /\ call[row.id].at = "rollback")]_vars

\* The steps that write the row, and what they write.
LEMMA RowWritten ==
  ASSUME Inv, [Next]_vars, row' # row
  PROVE  \E c \in Calls :
           \/ row.id = 0 /\ row'.id = c /\ ~Made(c)
           \/ row.id # 0 /\ row'.id = row.id /\ row'.verified
           \/ row.id = c /\ row'.id = 0 /\ call[c].at = "rollback"
<1>0. row \in Rows /\ \A c \in Calls : c # 0
  BY DEF Inv, TypeOK, Rows, Calls
<1>1. ASSUME NEW c \in Calls, SignUpCreates(c) \/ CreateGoogleUser(c) PROVE row.id = 0 /\ row'.id = c /\ ~Made(c)
  BY <1>1 DEF SignUpCreates, CreateGoogleUser, CreateUser, Made
<1>2. ASSUME NEW c \in Calls, Matched(c) \/ ConfirmGoogle(c)
      PROVE  row.id # 0 /\ row'.id = row.id /\ row'.verified
  <2>1. row.id = call[c].id /\ row' = [row EXCEPT !.verified = TRUE]
    BY <1>2 DEF Matched, ConfirmGoogle, VerifyUserEmail
  <2>2. call[c].id \in Ids
    BY <1>2 DEF Inv, RowsAgree, Names, Matched, ConfirmGoogle
  <2> QED BY <1>0, <2>1, <2>2 DEF Rows, Ids
<1>3. ASSUME NEW c \in Calls, RollBack(c) PROVE row.id = c /\ row'.id = 0 /\ call[c].at = "rollback"
  BY <1>0, <1>3 DEF RollBack, DeleteUser
<1>4. row' = row
        \/ \E c \in Calls : \/ SignUpCreates(c) \/ CreateGoogleUser(c) \/ Matched(c)
                            \/ ConfirmGoogle(c) \/ RollBack(c)
  BY DEF Next, CallStep, vars, SignUp, ResendVerification, VerifyEmail, SignInWithGoogle, StoreCode, StoreCount,
         Compare, RecordFailedAttempt, Discard, LooksAgain, StoreFails, CallDies, CodeExpires
<1> QED BY <1>1, <1>2, <1>3, <1>4

\* auth/service.go:398-404: a sign-up is rolled back so that its address can sign up
\* again; the account that does inherits nothing, for any number of calls and faults.
THEOREM NewAccountClean == Spec => NewAccountIsClean
<1>1. ASSUME Inv, [Next]_vars, row'.id \notin {row.id, 0} PROVE Clean(row'.id)
  <2>1. row'.id \in Ids /\ ~Made(row'.id)
    BY <1>1, RowWritten DEF Ids
  <2>2. latest[row'.id] = 0 /\ \A c \in Calls : Names(c) => call[c].id # row'.id
    BY <1>1, <2>1 DEF Inv, RowsAgree
  <2>3. cache[row'.id].code = 0
    BY <1>1, <2>1, <2>2 DEF Inv, TypeOK
  <2> QED BY <2>2, <2>3 DEF Clean
<1> QED BY <1>1, InvAlways, PTL DEF Spec, NewAccountIsClean

\* auth/service.go:401-404: only the roll-back of the sign-up that made it removes a
\* verified row, and nothing makes it unverified.
THEOREM OnlyRollBackRemoves == Spec => VerifiedStays
<1>1. ASSUME Inv, [Next]_vars, row.verified PROVE row' = row \/ (row'.id = 0 /\ call[row.id].at = "rollback")
  <2>1. row \in Rows /\ row.id # 0
    BY <1>1 DEF Inv, TypeOK, Rows
  <2>2. row' \in Rows
    BY <1>1, InvKept DEF Inv, TypeOK, Rows
  <2>3. CASE row'.id = row.id /\ row'.verified
    BY <1>1, <2>1, <2>2, <2>3 DEF Rows
  <2> QED BY <1>1, <2>1, <2>3, RowWritten
<1> QED BY <1>1, InvAlways, PTL DEF Spec, VerifiedStays
=============================================================================
