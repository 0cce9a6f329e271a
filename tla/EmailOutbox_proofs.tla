---------------------------- MODULE EmailOutbox_proofs ----------------------------
(***************************************************************************)
(* What EmailOutbox guarantees for any number of mails, relays, attempts    *)
(* and faults.                                                              *)
(***************************************************************************)
EXTENDS EmailOutbox, FiniteSetTheorems, TLAPS

Inv == TypeOK /\ OutboxAgrees

RowStates   == [recorded : BOOLEAN, due : BOOLEAN, sent : BOOLEAN, attempts : Nat]
RelayStates == [at : {"idle", "pass", "sent", "failed"}, todo : SUBSET Mails, mail : Mails \cup {NULL}]

\* TypeOK but for the bound on attempts, which needs the counts.
Types ==
  /\ row \in [Mails -> RowStates]
  /\ relay \in [Relays -> RelayStates]
  /\ delivered \in [Mails -> Nat] /\ again \in [Mails -> Nat] /\ rounds \in [Mails -> Nat]
  /\ faults \in 0..MaxFaults
  /\ \A r \in Relays : relay[r].mail # NULL <=> relay[r].at \in {"sent", "failed"}
-----------------------------------------------------------------------------
(* Counting relays *)

LEMMA Counts ==
  ASSUME NEW S \in SUBSET Relays, NEW T \in SUBSET Relays, S \cap T = {}
  PROVE  /\ Cardinality(S) \in Nat /\ Cardinality(T) \in Nat /\ Cardinality(Relays) \in Nat
         /\ Cardinality(S) + Cardinality(T) <= Cardinality(Relays)
<1>1. IsFiniteSet(Relays)
  BY OutboxAssumption
<1>2. IsFiniteSet(S) /\ IsFiniteSet(T)
  BY <1>1, FS_Subset
<1>3. /\ Cardinality(S) \in Nat /\ Cardinality(T) \in Nat /\ Cardinality(Relays) \in Nat
      /\ Cardinality(S \cap T) = 0
  BY <1>1, <1>2, FS_CardinalityType, FS_EmptySet
<1>4. Cardinality(S \cup T) = Cardinality(S) + Cardinality(T) - Cardinality(S \cap T)
  BY <1>2, FS_Union
<1>5. Cardinality(S \cup T) <= Cardinality(Relays)
  <2>1. S \cup T \in SUBSET Relays
    OBVIOUS
  <2> QED BY <1>1, <2>1, FS_Subset
<1> QED BY <1>3, <1>4, <1>5

\* One relay joins or leaves a set of relays.
OneMove(S, T, r) == S \subseteq Relays /\ T \subseteq Relays /\ S \ {r} = T \ {r}

LEMMA OneMoves ==
  ASSUME NEW r, NEW S, NEW T, OneMove(S, T, r)
  PROVE  /\ Cardinality(S) \in Nat /\ Cardinality(T) \in Nat
         /\ r \in S /\ r \notin T => Cardinality(T) = Cardinality(S) - 1
         /\ r \notin S /\ r \in T => Cardinality(T) = Cardinality(S) + 1
         /\ (r \in S <=> r \in T) => T = S
<1>0. S \in SUBSET Relays /\ T \in SUBSET Relays /\ S \ {r} = T \ {r}
  BY DEF OneMove
<1>1. IsFiniteSet(S) /\ IsFiniteSet(T)
  BY <1>0, OutboxAssumption, FS_Subset
<1>2. Cardinality(S) \in Nat /\ Cardinality(T) \in Nat
  BY <1>1, FS_CardinalityType
<1>3. ASSUME r \in S, r \notin T PROVE Cardinality(T) = Cardinality(S) - 1
  <2>1. T = S \ {r}
    BY <1>0, <1>3
  <2> QED BY <1>1, <1>3, <2>1, FS_RemoveElement
<1>4. ASSUME r \notin S, r \in T PROVE Cardinality(T) = Cardinality(S) + 1
  <2>1. T = S \cup {r}
    BY <1>0, <1>4
  <2> QED BY <1>1, <1>4, <2>1, FS_AddElement
<1>5. ASSUME r \in S <=> r \in T PROVE T = S
  BY <1>0, <1>5
<1> QED BY <1>2, <1>3, <1>4, <1>5

\* The counts of a mail, which are of different relays.
LEMMA MailCounts ==
  ASSUME \A r \in Relays : RelayAgrees(r), NEW m \in Mails
  PROVE  /\ Accepted(m) \in SUBSET Relays /\ Facing(m) \in SUBSET Relays
         /\ Cardinality(Accepted(m)) \in Nat /\ Cardinality(Facing(m)) \in Nat /\ Cardinality(Relays) \in Nat
         /\ Cardinality(Accepted(m)) + Cardinality(Facing(m)) <= Cardinality(Relays)
<1>1. Accepted(m) \in SUBSET Relays /\ Facing(m) \in SUBSET Relays
  BY DEF Accepted, Facing
<1>2. Accepted(m) \cap Facing(m) = {}
  BY DEF Accepted, Facing, HasSent, Faces, RelayAgrees
<1> QED BY <1>1, <1>2, Counts

\* Once the counts agree, so do the types.
LEMMA TypesSuffice ==
  ASSUME Types, OutboxAgrees
  PROVE  Inv
<1>1. ASSUME NEW m \in Mails PROVE row[m].attempts < MaxAttempts + Cardinality(Relays)
  <2>1. /\ Cardinality(Accepted(m)) \in Nat /\ Cardinality(Facing(m)) \in Nat /\ Cardinality(Relays) \in Nat
    BY MailCounts DEF OutboxAgrees
  <2>2. row[m].attempts + (Cardinality(Accepted(m)) + Cardinality(Facing(m))) < MaxAttempts + Cardinality(Relays)
    BY DEF OutboxAgrees, MailAgrees
  <2>3. row[m].attempts \in Nat /\ MaxAttempts \in Nat
    BY OutboxAssumption DEF Types, RowStates
  <2> QED BY <2>1, <2>2, <2>3
<1> QED BY <1>1 DEF Inv, Types, TypeOK, RowStates, RelayStates

LEMMA InvTypes ==
  ASSUME Inv
  PROVE  Types
BY DEF Inv, TypeOK, Types, RowStates, RelayStates

\* A mail that nothing happens to but that relays give up agrees as before.
LEMMA MailStays ==
  ASSUME Inv, NEW m \in Mails, \A r \in Relays : RelayAgrees(r)',
         row'[m] = row[m], rounds'[m] = rounds[m], delivered'[m] = delivered[m], again'[m] = again[m],
         Accepted(m)' = Accepted(m), Cardinality(Facing(m)') <= Cardinality(Facing(m))
  PROVE  MailAgrees(m)'
<1>1. /\ Cardinality(Accepted(m)) \in Nat /\ Cardinality(Facing(m)) \in Nat /\ Cardinality(Relays) \in Nat
  BY MailCounts DEF Inv, OutboxAgrees
<1>2. Cardinality(Facing(m)') \in Nat
  <2>1. Facing(m)' \in SUBSET Relays
    BY DEF Facing
  <2>2. IsFiniteSet(Facing(m)')
    BY <2>1, OutboxAssumption, FS_Subset
  <2> QED BY <2>2, FS_CardinalityType
<1>3. MailAgrees(m) /\ row[m] \in RowStates /\ MaxAttempts \in Nat
  BY InvTypes, OutboxAssumption DEF Inv, OutboxAgrees, Types
<1>4. delivered[m] \in Nat /\ again[m] \in Nat /\ rounds[m] \in Nat /\ Cardinality(Relays) * rounds[m] \in Nat
  BY <1>1, InvTypes DEF Types
<1> QED BY <1>1, <1>2, <1>3, <1>4 DEF MailAgrees, RowStates
-----------------------------------------------------------------------------
(* The steps *)

\* Relay r is p from now on.
Becomes(r, p) ==
  /\ p \in RelayStates /\ relay' = [relay EXCEPT ![r] = p]
  /\ p.mail # NULL <=> p.at \in {"sent", "failed"}
  /\ p.at = "idle" => p.todo = {}
  /\ p.mail \notin p.todo

LEMMA RelayBecomes ==
  ASSUME Inv, NEW r \in Relays, NEW p, Becomes(r, p)
  PROVE  /\ relay' \in [Relays -> RelayStates] /\ relay'[r] = p
         /\ \A q \in Relays \ {r} : relay'[q] = relay[q]
         /\ \A q \in Relays : RelayAgrees(q)'
         /\ \A q \in Relays : relay'[q].mail # NULL <=> relay'[q].at \in {"sent", "failed"}
<1>1. relay' \in [Relays -> RelayStates] /\ relay'[r] = p /\ \A q \in Relays \ {r} : relay'[q] = relay[q]
  BY InvTypes DEF Types, Becomes
<1>2. ASSUME NEW q \in Relays PROVE RelayAgrees(q)'
  <2>1. CASE q = r
    BY <1>1, <2>1 DEF RelayAgrees, Becomes
  <2>2. CASE q # r
    BY <1>1, <2>2 DEF Inv, OutboxAgrees, RelayAgrees
  <2> QED BY <2>1, <2>2
<1>3. \A q \in Relays : relay'[q].mail # NULL <=> relay'[q].at \in {"sent", "failed"}
  BY <1>1, InvTypes DEF Types, Becomes
<1> QED BY <1>1, <1>2, <1>3

\* It joins or leaves the counts of a mail, and nobody else does.
LEMMA RelayCounts ==
  ASSUME Inv, NEW r \in Relays, NEW p, Becomes(r, p), NEW m \in Mails
  PROVE  /\ Cardinality(Accepted(m)') \in Nat /\ Cardinality(Facing(m)') \in Nat
         /\ Cardinality(Accepted(m)') + Cardinality(Facing(m)') <= Cardinality(Relays)
         /\ HasSent(relay[r], m) /\ ~HasSent(p, m) => Cardinality(Accepted(m)') = Cardinality(Accepted(m)) - 1
         /\ ~HasSent(relay[r], m) /\ HasSent(p, m) => Cardinality(Accepted(m)') = Cardinality(Accepted(m)) + 1
         /\ (HasSent(relay[r], m) <=> HasSent(p, m)) => Accepted(m)' = Accepted(m)
         /\ Faces(relay[r], m) /\ ~Faces(p, m) => Cardinality(Facing(m)') = Cardinality(Facing(m)) - 1
         /\ ~Faces(relay[r], m) /\ Faces(p, m) => Cardinality(Facing(m)') = Cardinality(Facing(m)) + 1
         /\ (Faces(relay[r], m) <=> Faces(p, m)) => Facing(m)' = Facing(m)
<1>1. /\ relay'[r] = p /\ (\A q \in Relays \ {r} : relay'[q] = relay[q])
      /\ \A q \in Relays : RelayAgrees(q)'
  BY RelayBecomes
<1>2. OneMove(Accepted(m), Accepted(m)', r) /\ OneMove(Facing(m), Facing(m)', r)
  BY <1>1 DEF OneMove, Accepted, Facing
<1>3. /\ r \in Accepted(m) <=> HasSent(relay[r], m)
      /\ r \in Accepted(m)' <=> HasSent(p, m)
      /\ r \in Facing(m) <=> Faces(relay[r], m)
      /\ r \in Facing(m)' <=> Faces(p, m)
  BY <1>1 DEF Accepted, Facing
<1>4. /\ Cardinality(Accepted(m)') \in Nat /\ Cardinality(Facing(m)') \in Nat
      /\ Cardinality(Accepted(m)') + Cardinality(Facing(m)') <= Cardinality(Relays)
  <2>1. Accepted(m)' \in SUBSET Relays /\ Facing(m)' \in SUBSET Relays
    BY DEF Accepted, Facing
  <2>2. Accepted(m)' \cap Facing(m)' = {}
    BY <1>1 DEF Accepted, Facing, HasSent, Faces, RelayAgrees
  <2> QED BY <2>1, <2>2, Counts
<1>5. /\ HasSent(relay[r], m) /\ ~HasSent(p, m) => Cardinality(Accepted(m)') = Cardinality(Accepted(m)) - 1
      /\ ~HasSent(relay[r], m) /\ HasSent(p, m) => Cardinality(Accepted(m)') = Cardinality(Accepted(m)) + 1
      /\ (HasSent(relay[r], m) <=> HasSent(p, m)) => Accepted(m)' = Accepted(m)
  BY <1>2, <1>3, OneMoves
<1>6. /\ Faces(relay[r], m) /\ ~Faces(p, m) => Cardinality(Facing(m)') = Cardinality(Facing(m)) - 1
      /\ ~Faces(relay[r], m) /\ Faces(p, m) => Cardinality(Facing(m)') = Cardinality(Facing(m)) + 1
      /\ (Faces(relay[r], m) <=> Faces(p, m)) => Facing(m)' = Facing(m)
  BY <1>2, <1>3, OneMoves
<1> QED BY <1>4, <1>5, <1>6

\* A step that leaves the relays alone.
LEMMA RelaysStay ==
  ASSUME Inv, NEW m \in Mails, UNCHANGED <<relay, delivered, again, faults>>,
         row' \in [Mails -> RowStates], rounds' \in [Mails -> Nat],
         \A k \in Mails \ {m} : row'[k] = row[k] /\ rounds'[k] = rounds[k],
         row'[m].attempts = row[m].attempts, row'[m].sent = row[m].sent,
         rounds'[m] = rounds[m] + 1, row'[m].recorded,
         row[m].attempts + Cardinality(Relays) <= Cardinality(Relays) * rounds'[m]
  PROVE  Inv'
<1>1. Types'
  BY InvTypes DEF Types
<1>2. \A r \in Relays : RelayAgrees(r)'
  BY DEF Inv, OutboxAgrees, RelayAgrees
<1>3. \A k \in Mails : Accepted(k)' = Accepted(k) /\ Facing(k)' = Facing(k)
  BY DEF Accepted, Facing
<1>c. \A k \in Mails :
        /\ Cardinality(Accepted(k)) \in Nat /\ Cardinality(Facing(k)) \in Nat /\ Cardinality(Relays) \in Nat
        /\ Cardinality(Accepted(k)) + Cardinality(Facing(k)) <= Cardinality(Relays)
  BY MailCounts DEF Inv, OutboxAgrees
<1>4. MailAgrees(m)'
  <2>1. MailAgrees(m)
    BY DEF Inv, OutboxAgrees
  <2>2. row[m].attempts \in Nat /\ rounds'[m] \in Nat /\ Cardinality(Relays) * rounds'[m] \in Nat
    BY <1>c, InvTypes DEF Types, RowStates
  <2> QED BY <1>3, <1>c, <2>1, <2>2 DEF MailAgrees
<1>5. ASSUME NEW k \in Mails \ {m} PROVE MailAgrees(k)'
  <2>1. Cardinality(Facing(k)') <= Cardinality(Facing(k))
    BY <1>3, <1>c
  <2> QED BY <1>2, <1>3, <2>1, MailStays
<1>6. OutboxAgrees'
  BY <1>2, <1>4, <1>5 DEF OutboxAgrees
<1>7. Types' /\ OutboxAgrees' => Inv'
  BY TypesSuffice, PTL
<1> QED BY <1>1, <1>6, <1>7

\* Nobody has recorded attempts for a mail that is not recorded.
LEMMA Unrecorded ==
  ASSUME Inv, NEW m \in Mails, ~row[m].recorded
  PROVE  row[m].attempts = 0 /\ rounds[m] = 0
<1>1. /\ Cardinality(Accepted(m)) \in Nat /\ Cardinality(Facing(m)) \in Nat /\ Cardinality(Relays) \in Nat
  BY MailCounts DEF Inv, OutboxAgrees
<1>2. MailAgrees(m) /\ row[m].attempts \in Nat
  BY InvTypes DEF Inv, OutboxAgrees, Types, RowStates
<1>3. rounds[m] = 0
  BY <1>2 DEF MailAgrees
<1>4. row[m].attempts + (Cardinality(Accepted(m)) + Cardinality(Facing(m))) <= 0
  BY <1>1, <1>2, <1>3 DEF MailAgrees
<1> QED BY <1>1, <1>2, <1>3, <1>4

LEMMA RecordKeeps ==
  ASSUME Inv, NEW m \in Mails, Record(m)
  PROVE  Inv'
<1>0. row \in [Mails -> RowStates] /\ rounds \in [Mails -> Nat]
  BY InvTypes DEF Types
<1> DEFINE new == [row[m] EXCEPT !.recorded = TRUE, !.due = TRUE]
<1>1. /\ new \in RowStates /\ new.recorded /\ new.attempts = row[m].attempts /\ new.sent = row[m].sent
  BY <1>0 DEF RowStates
<1>2. row' = [row EXCEPT ![m] = new] /\ rounds' = [rounds EXCEPT ![m] = 1]
  BY DEF Record, EnqueueEmail
<1>3. row[m].attempts = 0 /\ rounds[m] = 0
  BY Unrecorded DEF Record
<1>4. Cardinality(Relays) \in Nat
  BY OutboxAssumption, FS_CardinalityType
<1>5. row[m].attempts + Cardinality(Relays) <= Cardinality(Relays) * 1
  BY <1>3, <1>4
<1>6. rounds'[m] = 1
  BY <1>0, <1>2
<1> QED BY <1>0, <1>1, <1>2, <1>3, <1>5, <1>6, RelaysStay DEF Record

LEMMA DueKeeps ==
  ASSUME Inv, NEW m \in Mails, Due(m)
  PROVE  Inv'
<1>0. row \in [Mails -> RowStates] /\ rounds \in [Mails -> Nat]
  BY InvTypes DEF Types
<1> DEFINE new == [row[m] EXCEPT !.due = TRUE]
           most == Cardinality(Relays)
<1>1. /\ new \in RowStates /\ new.recorded /\ new.attempts = row[m].attempts /\ new.sent = row[m].sent
  BY <1>0 DEF RowStates, Due
<1>2. row' = [row EXCEPT ![m] = new] /\ rounds' = [rounds EXCEPT ![m] = rounds[m] + 1]
  BY DEF Due
<1>3. /\ Cardinality(Accepted(m)) \in Nat /\ Cardinality(Facing(m)) \in Nat /\ most \in Nat
  BY MailCounts DEF Inv, OutboxAgrees
<1>4. row[m].attempts + (Cardinality(Accepted(m)) + Cardinality(Facing(m))) <= most * rounds[m]
  BY DEF Inv, OutboxAgrees, MailAgrees
<1>5. row[m].attempts \in Nat /\ rounds[m] \in Nat /\ most * rounds[m] \in Nat
  BY <1>0, <1>3 DEF RowStates
<1>6. most * (rounds[m] + 1) = most * rounds[m] + most
  BY <1>3, <1>5
<1>7. row[m].attempts + most <= most * (rounds[m] + 1)
  BY <1>3, <1>4, <1>5, <1>6
<1>8. /\ rounds' \in [Mails -> Nat] /\ rounds'[m] = rounds[m] + 1
      /\ row' \in [Mails -> RowStates] /\ row'[m] = new
      /\ \A k \in Mails \ {m} : row'[k] = row[k] /\ rounds'[k] = rounds[k]
  BY <1>0, <1>1, <1>2, <1>5
<1>9. UNCHANGED <<relay, delivered, again, faults>>
  BY DEF Due
<1> HIDE DEF new, most
<1> QED BY <1>1, <1>7, <1>8, <1>9, RelaysStay DEF most

\* Relay r becomes p, in a step about the mail m: it leaves the other mails as they were,
\* or gives them up.
LEMMA RelayKeeps ==
  ASSUME Inv, NEW r \in Relays, NEW p, Becomes(r, p),
         row' \in [Mails -> RowStates], delivered' \in [Mails -> Nat], again' \in [Mails -> Nat],
         UNCHANGED rounds, faults' \in 0..MaxFaults, NEW m,
         m \in Mails => MailAgrees(m)',
         \A k \in Mails \ {m} :
           /\ row'[k] = row[k] /\ delivered'[k] = delivered[k] /\ again'[k] = again[k]
           /\ HasSent(relay[r], k) <=> HasSent(p, k)
           /\ Faces(p, k) => Faces(relay[r], k)
  PROVE  Inv'
<1>1. /\ relay' \in [Relays -> RelayStates] /\ \A q \in Relays : RelayAgrees(q)'
      /\ \A q \in Relays : relay'[q].mail # NULL <=> relay'[q].at \in {"sent", "failed"}
  BY RelayBecomes
<1>2. Types'
  BY <1>1, InvTypes DEF Types
<1>3. ASSUME NEW k \in Mails \ {m} PROVE MailAgrees(k)'
  <2>1. Cardinality(Facing(k)) \in Nat
    BY MailCounts DEF Inv, OutboxAgrees
  <2>2. Accepted(k)' = Accepted(k)
    BY RelayCounts
  <2>3. Cardinality(Facing(k)') = Cardinality(Facing(k)) - 1 \/ Facing(k)' = Facing(k)
    BY RelayCounts
  <2>4. Cardinality(Facing(k)') <= Cardinality(Facing(k))
    BY <2>1, <2>3
  <2> QED BY <1>1, <2>2, <2>4, MailStays
<1>4. OutboxAgrees'
  BY <1>1, <1>3 DEF OutboxAgrees
<1>5. Types' /\ OutboxAgrees' => Inv'
  BY TypesSuffice, PTL
<1> QED BY <1>2, <1>4, <1>5

\* The numbers of mail m before a step, and what MailAgrees says of them.
LEMMA MailNumbers ==
  ASSUME Inv, NEW m \in Mails
  PROVE  /\ row[m] \in RowStates /\ MailAgrees(m) /\ row[m].attempts \in Nat
         /\ rounds[m] \in Nat /\ delivered[m] \in Nat /\ again[m] \in Nat
         /\ Cardinality(Accepted(m)) \in Nat /\ Cardinality(Facing(m)) \in Nat /\ Cardinality(Relays) \in Nat
         /\ Cardinality(Accepted(m)) + Cardinality(Facing(m)) <= Cardinality(Relays)
         /\ Cardinality(Relays) * rounds[m] \in Nat /\ MaxAttempts \in Nat
<1>1. /\ Cardinality(Accepted(m)) \in Nat /\ Cardinality(Facing(m)) \in Nat /\ Cardinality(Relays) \in Nat
      /\ Cardinality(Accepted(m)) + Cardinality(Facing(m)) <= Cardinality(Relays)
  BY MailCounts DEF Inv, OutboxAgrees
<1>2. row[m] \in RowStates /\ rounds[m] \in Nat /\ delivered[m] \in Nat /\ again[m] \in Nat
  BY InvTypes DEF Types
<1>3. row[m].attempts \in Nat
  BY <1>2 DEF RowStates
<1>4. Cardinality(Relays) * rounds[m] \in Nat
  BY <1>1, <1>2
<1> QED BY <1>1, <1>2, <1>3, <1>4, OutboxAssumption DEF Inv, OutboxAgrees

LEMMA DrainKeeps ==
  ASSUME Inv, NEW r \in Relays, Drain(r)
  PROVE  Inv'
<1> DEFINE p == [at |-> "pass", todo |-> PendingEmails, mail |-> NULL]
<1>1. Becomes(r, p)
  <2>1. PendingEmails \in SUBSET Mails
    BY DEF PendingEmails
  <2> QED BY <2>1, OutboxAssumption DEF Drain, Becomes, RelayStates
<1>2. relay[r].todo = {} /\ ~(relay[r].at \in {"sent", "failed"})
  BY DEF Drain, Inv, OutboxAgrees, RelayAgrees
<1>3. UNCHANGED <<row, delivered, again, rounds, faults>>
  BY DEF Drain
<1>4. ASSUME NEW m \in Mails PROVE MailAgrees(m)'
  <2>1. /\ ~HasSent(relay[r], m) /\ ~HasSent(p, m) /\ ~Faces(relay[r], m)
        /\ Faces(p, m) <=> m \in PendingEmails
    BY <1>2 DEF HasSent, Faces
  <2> HIDE DEF p
  <2>2. /\ Accepted(m)' = Accepted(m)
        /\ Cardinality(Facing(m)') \in Nat
        /\ Cardinality(Accepted(m)') + Cardinality(Facing(m)') <= Cardinality(Relays)
        /\ m \notin PendingEmails => Facing(m)' = Facing(m)
    BY <1>1, <2>1, RelayCounts
  <2>3. CASE m \in PendingEmails
    <3>1. row[m].recorded /\ ~row[m].sent /\ row[m].due /\ row[m].attempts < MaxAttempts
      BY <2>3 DEF PendingEmails
    <3>2. row[m].attempts + Cardinality(Relays) <= Cardinality(Relays) * rounds[m]
      BY <3>1, MailNumbers DEF MailAgrees
    <3>3. delivered[m] = again[m] + Cardinality(Accepted(m))
      BY <3>1, MailNumbers DEF MailAgrees
    <3> QED BY <1>3, <2>2, <3>1, <3>2, <3>3, MailNumbers DEF MailAgrees
  <2>4. CASE m \notin PendingEmails
    <3>1. MailAgrees(m) /\ Accepted(m)' = Accepted(m) /\ Facing(m)' = Facing(m)
      BY <2>2, <2>4, MailNumbers
    <3> QED BY <1>3, <3>1 DEF MailAgrees
  <2> QED BY <2>3, <2>4
<1>5. /\ relay' \in [Relays -> RelayStates] /\ \A q \in Relays : RelayAgrees(q)'
      /\ \A q \in Relays : relay'[q].mail # NULL <=> relay'[q].at \in {"sent", "failed"}
  BY <1>1, RelayBecomes
<1>6. Types' /\ OutboxAgrees'
  BY <1>3, <1>4, <1>5, InvTypes DEF Types, OutboxAgrees
<1>7. Types' /\ OutboxAgrees' => Inv'
  BY TypesSuffice, PTL
<1> QED BY <1>6, <1>7

\* A relay takes the next mail of its list.
LEMMA TakesOne ==
  ASSUME Inv, NEW r \in Relays, NEW m \in Mails, NEW at \in {"sent", "failed"}, Takes(r, m, at)
  PROVE  \E p : /\ Becomes(r, p) /\ Faces(relay[r], m)
                /\ \A k \in Mails : ~HasSent(relay[r], k)
                /\ HasSent(p, m) <=> at = "sent"
                /\ Faces(p, m) <=> at = "failed"
                /\ \A k \in Mails \ {m} : ~HasSent(p, k) /\ (Faces(p, k) <=> Faces(relay[r], k))
<1> DEFINE p == [at |-> at, todo |-> relay[r].todo \ {m}, mail |-> m]
<1>1. relay[r] \in RelayStates
  BY InvTypes DEF Types
<1>2. Becomes(r, p)
  BY <1>1, OutboxAssumption DEF Takes, Becomes, RelayStates
<1> QED BY <1>1, <1>2 DEF Takes, HasSent, Faces, RelayStates

LEMMA SendKeeps ==
  ASSUME Inv, NEW r \in Relays, NEW m \in Mails, SendAccepted(r, m) \/ SendRefused(r, m)
  PROVE  Inv'
<1>0. row \in [Mails -> RowStates] /\ delivered \in [Mails -> Nat] /\ again \in [Mails -> Nat] /\ faults \in 0..MaxFaults
  BY InvTypes DEF Types
<1>1. CASE SendAccepted(r, m)
  <2>1. PICK p : /\ Becomes(r, p) /\ Faces(relay[r], m)
                 /\ \A k \in Mails : ~HasSent(relay[r], k)
                 /\ HasSent(p, m) /\ ~Faces(p, m)
                 /\ \A k \in Mails \ {m} : ~HasSent(p, k) /\ (Faces(p, k) <=> Faces(relay[r], k))
    <3>1. Takes(r, m, "sent")
      BY <1>1 DEF SendAccepted
    <3> QED BY <3>1, TakesOne
  <2>2. /\ delivered' \in [Mails -> Nat] /\ delivered'[m] = delivered[m] + 1
        /\ \A k \in Mails \ {m} : delivered'[k] = delivered[k]
        /\ UNCHANGED <<row, again, rounds, faults>>
    BY <1>0, <1>1 DEF SendAccepted
  <2>3. /\ Cardinality(Accepted(m)') = Cardinality(Accepted(m)) + 1
        /\ Cardinality(Facing(m)') = Cardinality(Facing(m)) - 1
    BY <2>1, RelayCounts
  <2>4. MailAgrees(m)'
    BY <2>2, <2>3, MailNumbers DEF MailAgrees
  <2> QED BY <1>0, <2>1, <2>2, <2>4, RelayKeeps
<1>2. CASE SendRefused(r, m)
  <2>1. PICK p : /\ Becomes(r, p) /\ Faces(relay[r], m)
                 /\ \A k \in Mails : ~HasSent(relay[r], k)
                 /\ ~HasSent(p, m) /\ Faces(p, m)
                 /\ \A k \in Mails \ {m} : ~HasSent(p, k) /\ (Faces(p, k) <=> Faces(relay[r], k))
    <3>1. Takes(r, m, "failed")
      BY <1>2 DEF SendRefused
    <3> QED BY <3>1, TakesOne
  <2>2. /\ delivered' \in [Mails -> Nat] /\ again' \in [Mails -> Nat] /\ UNCHANGED <<row, rounds>>
        /\ faults' \in 0..MaxFaults
        /\ \A k \in Mails \ {m} : delivered'[k] = delivered[k] /\ again'[k] = again[k]
        /\ \/ delivered'[m] = delivered[m] /\ again'[m] = again[m]
           \/ delivered'[m] = delivered[m] + 1 /\ again'[m] = again[m] + 1
    BY <1>0, <1>2, OutboxAssumption DEF SendRefused, Fault
  <2>3. Accepted(m)' = Accepted(m) /\ Facing(m)' = Facing(m)
    BY <2>1, RelayCounts
  <2>4. MailAgrees(m)'
    BY <2>2, <2>3, MailNumbers DEF MailAgrees
  <2> QED BY <1>0, <2>1, <2>2, <2>4, RelayKeeps
<1> QED BY <1>1, <1>2

LEMMA RecordOutcomeKeeps ==
  ASSUME Inv, NEW r \in Relays, RecordOutcome(r)
  PROVE  Inv'
<1>m. PICK m \in Mails : m = relay[r].mail
  BY InvTypes DEF Types, RecordOutcome, RelayStates
<1>0. /\ row \in [Mails -> RowStates] /\ relay \in [Relays -> RelayStates] /\ relay[r] \in RelayStates
      /\ delivered \in [Mails -> Nat] /\ again \in [Mails -> Nat] /\ faults \in 0..MaxFaults
  BY InvTypes DEF Types
<1>p. PICK p : /\ Becomes(r, p) /\ p.at \in {"idle", "pass"} /\ p.todo = relay[r].todo
  <2>1. CASE relay[r].todo = {}
    <3>1. relay' = [relay EXCEPT ![r] = Idle]
      BY <1>0, <2>1 DEF RecordOutcome
    <3>2. Becomes(r, Idle)
      BY <3>1, OutboxAssumption DEF Becomes, RelayStates, Idle
    <3> QED BY <2>1, <3>2 DEF Idle
  <2>2. CASE relay[r].todo # {}
    <3> DEFINE q == [relay[r] EXCEPT !.at = "pass", !.mail = NULL]
    <3>1. q \in RelayStates /\ q.at = "pass" /\ q.todo = relay[r].todo /\ q.mail = NULL
      BY <1>0 DEF RelayStates
    <3>2. relay' = [relay EXCEPT ![r] = q]
      BY <1>0, <2>2 DEF RecordOutcome
    <3>3. relay[r].todo \in SUBSET Mails
      BY <1>0 DEF RelayStates
    <3> HIDE DEF q
    <3>4. Becomes(r, q)
      BY <3>1, <3>2, <3>3, OutboxAssumption DEF Becomes
    <3> QED BY <3>1, <3>4
  <2> QED BY <2>1, <2>2
<1>2. m \notin relay[r].todo /\ relay[r].at \in {"sent", "failed"}
  BY <1>m DEF Inv, OutboxAgrees, RelayAgrees, RecordOutcome
<1>3. /\ HasSent(relay[r], m) <=> relay[r].at = "sent"
      /\ Faces(relay[r], m) <=> relay[r].at = "failed"
      /\ \A k \in Mails : ~HasSent(p, k)
      /\ ~Faces(p, m)
      /\ \A k \in Mails \ {m} : ~HasSent(relay[r], k) /\ (Faces(p, k) => Faces(relay[r], k))
  BY <1>m, <1>2, <1>p DEF HasSent, Faces
<1>4. UNCHANGED <<delivered, again, rounds, faults>>
  BY DEF RecordOutcome
<1>5. /\ relay[r].at = "sent" => Cardinality(Accepted(m)') = Cardinality(Accepted(m)) - 1 /\ Facing(m)' = Facing(m)
      /\ relay[r].at = "failed" => Cardinality(Facing(m)') = Cardinality(Facing(m)) - 1 /\ Accepted(m)' = Accepted(m)
      /\ Cardinality(Accepted(m)') \in Nat
  BY <1>p, <1>2, <1>3, RelayCounts
<1>6. CASE row[m].sent
  <2>1. UNCHANGED row
    BY <1>m, <1>6 DEF RecordOutcome, MarkEmailSent, MarkEmailFailed
  <2>2. MailAgrees(m)'
    BY <1>0, <1>2, <1>4, <1>5, <1>6, <2>1, MailNumbers DEF MailAgrees
  <2> QED BY <1>0, <1>p, <1>3, <1>4, <2>1, <2>2, RelayKeeps
<1>7. CASE ~row[m].sent /\ relay[r].at = "sent"
  <2>0. PICK n \in Nat : n = row[m].attempts + 1
    BY <1>0 DEF RowStates
  <2> DEFINE new == [row[m] EXCEPT !.sent = TRUE, !.attempts = n]
  <2>1. /\ new \in RowStates /\ new.recorded = row[m].recorded /\ new.due = row[m].due
        /\ new.sent /\ new.attempts = row[m].attempts + 1
    BY <1>0, <2>0 DEF RowStates
  <2>2. row' = [row EXCEPT ![m] = new]
    BY <1>m, <1>0, <1>7, <2>0 DEF RecordOutcome, MarkEmailSent
  <2>3. row' \in [Mails -> RowStates] /\ row'[m] = new /\ \A k \in Mails \ {m} : row'[k] = row[k]
    BY <1>0, <2>1, <2>2
  <2> HIDE DEF new
  <2>4. MailAgrees(m)'
    BY <1>0, <1>4, <1>5, <1>7, <2>1, <2>3, MailNumbers DEF MailAgrees
  <2> QED BY <1>0, <1>p, <1>3, <1>4, <2>3, <2>4, RelayKeeps
<1>8. CASE ~row[m].sent /\ relay[r].at = "failed"
  <2>0. PICK n \in Nat : n = row[m].attempts + 1
    BY <1>0 DEF RowStates
  <2> DEFINE new == [row[m] EXCEPT !.attempts = n, !.due = FALSE]
  <2>1. /\ new \in RowStates /\ new.recorded = row[m].recorded /\ ~new.due
        /\ ~new.sent /\ new.attempts = row[m].attempts + 1
    BY <1>0, <1>8, <2>0 DEF RowStates
  <2>2. row' = [row EXCEPT ![m] = new]
    BY <1>m, <1>0, <1>8, <2>0 DEF RecordOutcome, MarkEmailFailed
  <2>3. row' \in [Mails -> RowStates] /\ row'[m] = new /\ \A k \in Mails \ {m} : row'[k] = row[k]
    BY <1>0, <2>1, <2>2
  <2> HIDE DEF new
  <2>4. MailAgrees(m)'
    BY <1>0, <1>4, <1>5, <1>8, <2>1, <2>3, MailNumbers DEF MailAgrees
  <2> QED BY <1>0, <1>p, <1>3, <1>4, <2>3, <2>4, RelayKeeps
<1> QED BY <1>2, <1>6, <1>7, <1>8

LEMMA PassFailsKeeps ==
  ASSUME Inv, NEW r \in Relays, PassFails(r)
  PROVE  Inv'
<1>0. /\ row \in [Mails -> RowStates] /\ relay[r] \in RelayStates
      /\ delivered \in [Mails -> Nat] /\ again \in [Mails -> Nat] /\ faults \in 0..MaxFaults
  BY InvTypes DEF Types, RelayStates
<1>1. Becomes(r, Idle)
  BY OutboxAssumption DEF PassFails, Becomes, RelayStates, Idle
<1>2. \A k \in Mails : ~HasSent(Idle, k) /\ ~Faces(Idle, k)
  BY DEF HasSent, Faces, Idle
<1>3. faults' \in 0..MaxFaults /\ UNCHANGED <<row, delivered, rounds>>
  BY <1>0, OutboxAssumption DEF PassFails, Fault
<1>4. CASE relay[r].at = "sent"
  <2>m. PICK m \in Mails : m = relay[r].mail
    BY <1>4, InvTypes DEF Types, RelayStates
  <2>1. /\ HasSent(relay[r], m) /\ ~Faces(relay[r], m)
        /\ \A k \in Mails \ {m} : ~HasSent(relay[r], k)
    BY <1>4, <2>m DEF HasSent, Faces, Inv, OutboxAgrees, RelayAgrees
  <2>2. /\ again' \in [Mails -> Nat] /\ again'[m] = again[m] + 1
        /\ \A k \in Mails \ {m} : again'[k] = again[k]
    BY <1>0, <1>4, <2>m DEF PassFails
  <2>3. Cardinality(Accepted(m)') = Cardinality(Accepted(m)) - 1 /\ Facing(m)' = Facing(m)
    BY <1>1, <1>2, <2>1, RelayCounts
  <2>4. Cardinality(Accepted(m)') \in Nat /\ Cardinality(Facing(m)') \in Nat
    BY <1>1, RelayCounts
  <2>5. MailAgrees(m)'
    BY <1>3, <2>2, <2>3, <2>4, MailNumbers DEF MailAgrees
  <2> QED BY <1>0, <1>1, <1>2, <1>3, <2>1, <2>2, <2>5, RelayKeeps
<1>5. CASE relay[r].at # "sent"
  <2>1. UNCHANGED again /\ \A k \in Mails : ~HasSent(relay[r], k)
    BY <1>5 DEF PassFails, HasSent
  <2>2. NULL \notin Mails
    BY OutboxAssumption
  <2> QED BY <1>0, <1>1, <1>2, <1>3, <2>1, <2>2, RelayKeeps
<1> QED BY <1>4, <1>5

LEMMA InvKept ==
  ASSUME Inv, [Next]_vars
  PROVE  Inv'
<1>1. CASE UNCHANGED vars
  <2>1. Types' /\ \A r \in Relays : RelayAgrees(r)'
    BY <1>1, InvTypes DEF Types, vars, Inv, OutboxAgrees, RelayAgrees
  <2>2. ASSUME NEW m \in Mails PROVE MailAgrees(m)'
    <3>1. Accepted(m)' = Accepted(m) /\ Facing(m)' = Facing(m) /\ MailAgrees(m)
      BY <1>1, MailNumbers DEF vars, Accepted, Facing
    <3> QED BY <1>1, <3>1 DEF vars, MailAgrees
  <2>3. Types' /\ OutboxAgrees' => Inv'
    BY TypesSuffice, PTL
  <2> QED BY <2>1, <2>2, <2>3 DEF OutboxAgrees
<1> QED
  BY <1>1, RecordKeeps, DueKeeps, DrainKeeps, SendKeeps, RecordOutcomeKeeps, PassFailsKeeps DEF Next, RelayStep
-----------------------------------------------------------------------------
(* The theorems *)

\* The inductive invariant: rows, counts of sends and the relays' lists agree.
THEOREM OutboxAlwaysAgrees ==
  Spec => [](TypeOK /\ OutboxAgrees)
<1>1. Init => Inv
  <2> SUFFICES ASSUME Init PROVE Inv
    OBVIOUS
  <2>1. Types /\ \A r \in Relays : RelayAgrees(r)
    BY OutboxAssumption DEF Init, Types, RowStates, RelayStates, Idle, RelayAgrees
  <2>2. ASSUME NEW m \in Mails PROVE MailAgrees(m)
    <3>1. Accepted(m) = {} /\ Facing(m) = {}
      BY DEF Init, Accepted, Facing, HasSent, Faces, Idle
    <3>2. Cardinality({}) = 0 /\ Cardinality(Relays) \in Nat
      BY OutboxAssumption, FS_EmptySet, FS_CardinalityType
    <3>3. /\ row[m].attempts = 0 /\ ~row[m].recorded /\ ~row[m].sent
          /\ rounds[m] = 0 /\ delivered[m] = 0 /\ again[m] = 0
      BY DEF Init
    <3>4. Cardinality(Relays) * 0 = 0
      BY <3>2
    <3> QED BY <3>1, <3>2, <3>3, <3>4, OutboxAssumption DEF MailAgrees
  <2> QED BY <2>1, <2>2, TypesSuffice DEF OutboxAgrees
<1>2. Inv /\ [Next]_vars => Inv'
  BY InvKept
<1> QED BY <1>1, <1>2, PTL DEF Spec, Inv

\* Types, and that relays cost a mail less than one attempt each beyond MaxAttempts.
THEOREM TypeCorrect ==
  Spec => []TypeOK
BY OutboxAlwaysAgrees, PTL

\* A mail marked sent was accepted, and relays that overlap deliver it once each at most,
\* sends apart whose success nobody could record.
THEOREM MarkedWasDelivered ==
  Spec => []DeliveredAsMarked
<1>1. TypeOK /\ OutboxAgrees => DeliveredAsMarked
  <2> SUFFICES ASSUME Inv, NEW m \in Mails
               PROVE  (row[m].sent => delivered[m] > 0) /\ delivered[m] <= Cardinality(Relays) + again[m]
    BY DEF Inv, DeliveredAsMarked
  <2> QED BY MailNumbers DEF MailAgrees
<1> QED BY <1>1, OutboxAlwaysAgrees, PTL

\* However relays overlap, between two delays a mail loses one attempt to each at most.
THEOREM AttemptsSpaced ==
  Spec => []AttemptsAreSpaced
<1>1. TypeOK /\ OutboxAgrees => AttemptsAreSpaced
  <2> SUFFICES ASSUME Inv, NEW m \in Mails PROVE row[m].attempts <= Cardinality(Relays) * rounds[m]
    BY DEF Inv, AttemptsAreSpaced
  <2> QED BY MailNumbers DEF MailAgrees
<1> QED BY <1>1, OutboxAlwaysAgrees, PTL
=============================================================================
