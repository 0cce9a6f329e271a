----------------------------- MODULE ChatRoom_proofs -----------------------------
(***************************************************************************)
(* What ChatRoom guarantees for any number of accounts, sockets, senders,   *)
(* pumps, messages and faults, and any size of buffer.                      *)
(***************************************************************************)
EXTENDS ChatRoom, SequenceTheorems, TLAPS

SockStates == [at : {"none"} \cup Setup \cup Live \cup {"closed"}, user : Users \cup {NULL}]
PumpStates == [at : {"none", "starting", "live", "gone"}, inbox : Seq(Messages)]
-----------------------------------------------------------------------------
(* What the parts of a step do. *)

\* Goes changes how far a sender is, and nothing else.
LEMMA GoesOn ==
  ASSUME TypeOK, NEW x \in Senders, NEW at \in {"none"} \cup Setup \cup Live \cup {"closed"}, Goes(x, at)
  PROVE  /\ sock' \in [Senders -> SockStates]
         /\ sock'[x].at = at /\ sock'[x].user = sock[x].user
         /\ \A y \in Senders \ {x} : sock'[y] = sock[y]
<1>1. sock \in [Senders -> SockStates]
  BY DEF TypeOK, SockStates
<1>2. sock' = [sock EXCEPT ![x] = [sock[x] EXCEPT !.at = at]]
  BY DEF Goes
<1>3. [sock[x] EXCEPT !.at = at] \in SockStates
  BY <1>1 DEF SockStates
<1> QED BY <1>1, <1>2, <1>3 DEF SockStates

\* As long as nobody subscribes or closes, the index and the pump need no change.
LEMMA SubscriptionsStay ==
  ASSUME TypeOK, \A k \in Sockets : Subscribed(k)' <=> Subscribed(k)
  PROVE  /\ index' \subseteq index => index' \subseteq {k \in Sockets : Subscribed(k)'}
         /\ current' = current => (current' = NULL <=> \A k \in Sockets : ~Subscribed(k)')
BY DEF TypeOK

\* A step that moves no socket in or out.
LEMMA GoesWithin ==
  ASSUME TypeOK, NEW x \in Senders, NEW at \in Live \cup {"joined", "registered", "closed"}, Goes(x, at),
         x \in Sockets => Subscribed(x) /\ at # "closed"
  PROVE  \A k \in Sockets : Subscribed(k)' <=> Subscribed(k)
<1>1. /\ sock'[x].at = at /\ \A y \in Senders \ {x} : sock'[y] = sock[y]
  BY GoesOn DEF Live, Setup
<1> QED BY <1>1 DEF Subscribed, Senders, Live, Setup

\* What Close leaves behind.
LEMMA Closes ==
  ASSUME TypeOK, NEW k \in Sockets, Subscribed(k), Close(k)
  PROVE  /\ TypeOK'
         /\ sock'[k] = Closed /\ \A y \in Senders \ {k} : sock'[y] = sock[y]
<1>1. sock \in [Senders -> SockStates] /\ Closed \in SockStates /\ k \in Senders
  BY DEF TypeOK, SockStates, Closed, Senders
<1>2. sock' = [sock EXCEPT ![k] = Closed]
  BY DEF Close
<1>3. sock' \in [Senders -> SockStates] /\ sock'[k] = Closed /\ \A y \in Senders \ {k} : sock'[y] = sock[y]
  BY <1>1, <1>2
<1>4. \A o \in Sockets : Subscribed(o)' <=> (Subscribed(o) /\ o # k)
  BY <1>3 DEF Subscribed, Senders, Closed, Live, Setup
<1>5. index' \subseteq {o \in Sockets : Subscribed(o)'} /\ dropped' \subseteq Sockets
  BY <1>4 DEF TypeOK, Close
<1>6. current' \in Pumps \cup {NULL} /\ (current' = NULL <=> \A o \in Sockets : ~Subscribed(o)')
  <2>1. current' = IF \E o \in Sockets \ {k} : Subscribed(o) THEN current ELSE NULL
    BY DEF Close
  <2>2. current # NULL /\ current \in Pumps \cup {NULL}
    BY DEF TypeOK
  <2> QED BY <1>4, <2>1, <2>2
<1>7. /\ events' \in [Sockets -> Seq(Messages)]
      /\ \A o \in Sockets : Len(events'[o]) <= Buffer
  <2>1. events' = [events EXCEPT ![k] = <<>>] /\ <<>> \in Seq(Messages) /\ Len(<<>>) <= Buffer
    BY RoomAssumption DEF Close
  <2> QED BY <2>1 DEF TypeOK
<1>8. {got', skipped'} \subseteq [Sockets -> SUBSET Messages] /\ past' \in [Sockets -> 0..MaxMessages]
  <2>1. 0 \in 0..MaxMessages
    BY RoomAssumption
  <2> QED BY <2>1 DEF TypeOK, Close
<1>9. expired' \subseteq Sockets /\ whole' \subseteq Sockets
  BY DEF TypeOK, Close
<1> QED BY <1>3, <1>5, <1>6, <1>7, <1>8, <1>9 DEF TypeOK, Close, room, SockStates
-----------------------------------------------------------------------------
(* Types *)

LEMMA SubscribeTypes ==
  ASSUME TypeOK, NEW k \in Sockets, NEW u \in Users, Subscribe(k, u)
  PROVE  TypeOK'
<1>1. sock \in [Senders -> SockStates] /\ k \in Senders /\ [at |-> "joining", user |-> u] \in SockStates
  BY DEF TypeOK, SockStates, Senders, Setup
<1>2. sock' \in [Senders -> SockStates] /\ sock'[k].at = "joining"
      /\ \A y \in Senders \ {k} : sock'[y] = sock[y]
  BY <1>1 DEF Subscribe
<1>3. Subscribed(k)' /\ \A o \in Sockets : Subscribed(o) => Subscribed(o)'
  BY <1>2 DEF Subscribed, Setup, Live, Senders
<1>4. index' \subseteq {o \in Sockets : Subscribed(o)'}
  BY <1>3 DEF TypeOK, Subscribe
<1>5. /\ current' \in Pumps \cup {NULL} /\ current' # NULL
      /\ pump' \in [Pumps -> PumpStates] /\ whole' \subseteq Sockets
  <2>1. CASE current # NULL /\ UNCHANGED <<current, pump>>
            /\ whole' = IF pump[current].at = "live" THEN whole \cup {k} ELSE whole
    BY <2>1 DEF TypeOK, PumpStates
  <2>2. CASE /\ UNCHANGED whole
             /\ \E p \in Pumps : pump' = [pump EXCEPT ![p].at = "starting"] /\ current' = p
    <3>1. PICK p \in Pumps : pump' = [pump EXCEPT ![p].at = "starting"] /\ current' = p
      BY <2>2
    <3>2. p # NULL
      BY RoomAssumption DEF Pumps
    <3>3. pump' \in [Pumps -> PumpStates]
      BY <3>1 DEF TypeOK, PumpStates
    <3>4. whole' \subseteq Sockets
      BY <2>2 DEF TypeOK
    <3> QED BY <3>1, <3>2, <3>3, <3>4
  <2> QED BY <2>1, <2>2 DEF Subscribe
<1> QED BY <1>2, <1>3, <1>4, <1>5 DEF TypeOK, Subscribe, room, accounts, SockStates, PumpStates

LEMMA FaultType ==
  ASSUME TypeOK, Fault
  PROVE  faults' \in 0..MaxFaults
BY RoomAssumption DEF TypeOK, Fault

LEMMA SetupTypes ==
  ASSUME TypeOK, NEW k \in Sockets, History(k) \/ Register(k) \/ Check(k)
  PROVE  TypeOK'
<1>0. k \in Senders
  BY DEF Senders
<1>1. CASE History(k)
  <2>1. Goes(k, "joined") /\ Subscribed(k)
    BY <1>1 DEF History, Subscribed, Setup
  <2>2. sock' \in [Senders -> SockStates] /\ \A o \in Sockets : Subscribed(o)' <=> Subscribed(o)
    BY <1>0, <2>1, GoesOn, GoesWithin DEF Setup
  <2>3. /\ index' \subseteq {o \in Sockets : Subscribed(o)'}
        /\ current' = NULL <=> \A o \in Sockets : ~Subscribed(o)'
    BY <1>1, <2>2, SubscriptionsStay DEF History, feeds
  <2>4. past' \in [Sockets -> 0..MaxMessages] /\ whole' \subseteq Sockets /\ faults' \in 0..MaxFaults
    BY <1>1, FaultType DEF History, TypeOK
  <2> QED BY <1>1, <2>2, <2>3, <2>4 DEF History, TypeOK, room, accounts, feeds, SockStates
<1>2. CASE Register(k)
  <2>1. Goes(k, "registered") /\ Subscribed(k)
    BY <1>2 DEF Register, Subscribed, Setup
  <2>2. sock' \in [Senders -> SockStates] /\ \A o \in Sockets : Subscribed(o)' <=> Subscribed(o)
    BY <1>0, <2>1, GoesOn, GoesWithin DEF Setup
  <2>3. current' = NULL <=> \A o \in Sockets : ~Subscribed(o)'
    BY <1>2, <2>2, SubscriptionsStay DEF Register, feeds
  <2>4. index' \subseteq {o \in Sockets : Subscribed(o)'}
    BY <1>2, <2>1, <2>2 DEF Register, TypeOK
  <2> QED BY <1>2, <2>2, <2>3, <2>4 DEF Register, TypeOK, room, accounts, feeds, record, SockStates
<1>3. CASE Check(k)
  <2>0. Subscribed(k)
    BY <1>3 DEF Check, Subscribed, Setup
  <2>1. CASE Close(k)
    BY <2>0, <2>1, Closes
  <2>2. CASE ~Close(k)
    <3>1. Goes(k, "loop") /\ UNCHANGED <<room, accounts, index, dropped, feeds, record, late, faults>>
      BY <1>3, <2>2 DEF Check
    <3>2. sock' \in [Senders -> SockStates] /\ \A o \in Sockets : Subscribed(o)' <=> Subscribed(o)
      BY <1>0, <2>0, <3>1, GoesOn, GoesWithin DEF Live
    <3>3. /\ index' \subseteq {o \in Sockets : Subscribed(o)'}
          /\ current' = NULL <=> \A o \in Sockets : ~Subscribed(o)'
      BY <3>1, <3>2, SubscriptionsStay DEF feeds
    <3> QED BY <3>1, <3>2, <3>3 DEF TypeOK, room, accounts, feeds, record, SockStates
  <2> QED BY <2>1, <2>2
<1> QED BY <1>1, <1>2, <1>3

\* A sender moves on; nothing else happens that these types are about.
LEMMA SenderTypes ==
  ASSUME TypeOK, NEW x \in Senders, NEW at \in Live \cup {"closed"}, Goes(x, at),
         x \in Sockets => Subscribed(x) /\ at # "closed", UNCHANGED <<index, current>>
  PROVE  /\ sock' \in [Senders -> SockStates]
         /\ index' \subseteq {o \in Sockets : Subscribed(o)'}
         /\ current' = NULL <=> \A o \in Sockets : ~Subscribed(o)'
<1>1. \A o \in Sockets : Subscribed(o)' <=> Subscribed(o)
  BY GoesWithin
<1> QED BY <1>1, GoesOn, SubscriptionsStay

\* Send leaves a sender where After says.
LEMMA AfterSend ==
  ASSUME NEW x \in Senders
  PROVE  After(x) \in Live \cup {"closed"} /\ (x \in Sockets => After(x) # "closed")
BY DEF After, Live

\* A sender in Send is a socket that is subscribed, or a poster.
LEMMA InSend ==
  ASSUME TypeOK, NEW x \in Senders, sock[x].at = Before(x) \/ sock[x].at = "insert"
  PROVE  x \in Sockets => Subscribed(x)
BY DEF Before, Subscribed, Live

LEMMA SendTypes ==
  ASSUME TypeOK, NEW x \in Senders, SendStep(x)
  PROVE  TypeOK'
<1>1. CASE SendChecks(x)
  <2> DEFINE at == IF open THEN "insert" ELSE After(x)
  <2>1. at \in Live \cup {"closed"} /\ (x \in Sockets => at # "closed")
    BY AfterSend DEF Live
  <2>2. Goes(x, at) /\ (x \in Sockets => Subscribed(x)) /\ UNCHANGED <<index, current>>
    BY <1>1, InSend DEF SendChecks, feeds
  <2> HIDE DEF at
  <2>3. /\ sock' \in [Senders -> SockStates]
        /\ index' \subseteq {o \in Sockets : Subscribed(o)'}
        /\ current' = NULL <=> \A o \in Sockets : ~Subscribed(o)'
    BY <2>1, <2>2, SenderTypes
  <2> QED BY <1>1, <2>3 DEF SendChecks, TypeOK, room, accounts, feeds, record, SockStates
<1>2. CASE SendFails(x)
  <2>2. Goes(x, After(x)) /\ (x \in Sockets => Subscribed(x)) /\ UNCHANGED <<index, current>>
    BY <1>2, InSend DEF SendFails, feeds
  <2>3. /\ sock' \in [Senders -> SockStates]
        /\ index' \subseteq {o \in Sockets : Subscribed(o)'}
        /\ current' = NULL <=> \A o \in Sockets : ~Subscribed(o)'
    BY <2>2, AfterSend, SenderTypes
  <2> QED BY <1>2, <2>3 DEF SendFails, TypeOK, room, accounts, feeds, record, SockStates
<1>3. CASE SendStores(x)
  <2>2. Goes(x, After(x)) /\ (x \in Sockets => Subscribed(x)) /\ UNCHANGED <<index, current>>
    BY <1>3, InSend DEF SendStores
  <2>3. /\ sock' \in [Senders -> SockStates]
        /\ index' \subseteq {o \in Sockets : Subscribed(o)'}
        /\ current' = NULL <=> \A o \in Sockets : ~Subscribed(o)'
    BY <2>2, AfterSend, SenderTypes
  <2>4. PICK n \in Messages : n = stored + 1 /\ stored' = n
    BY <1>3, RoomAssumption DEF SendStores, CreateChatMessage, TypeOK, Messages
  <2>5. stored' \in 0..MaxMessages /\ pushed' \subseteq 1..stored'
    BY <1>3, <2>4, RoomAssumption DEF SendStores, Publish, TypeOK, Messages
  <2>6. pump' \in [Pumps -> PumpStates]
    <3>1. CASE UNCHANGED pump
      BY <3>1 DEF TypeOK, PumpStates
    <3>2. CASE Publish(stored')
      <4>1. pump' = [p \in Pumps |-> IF pump[p].at = "live"
                       THEN [pump[p] EXCEPT !.inbox = Append(pump[p].inbox, n)] ELSE pump[p]]
        BY <2>4, <3>2 DEF Publish
      <4>2. ASSUME NEW p \in Pumps PROVE [pump[p] EXCEPT !.inbox = Append(pump[p].inbox, n)] \in PumpStates
        <5>1. pump[p] \in PumpStates
          BY DEF TypeOK, PumpStates
        <5>2. Append(pump[p].inbox, n) \in Seq(Messages)
          BY <5>1, AppendProperties DEF PumpStates
        <5> QED BY <5>1, <5>2 DEF PumpStates
      <4>3. \A p \in Pumps : pump[p] \in PumpStates
        BY DEF TypeOK, PumpStates
      <4> QED BY <4>1, <4>2, <4>3
    <3> QED BY <1>3, <3>1, <3>2 DEF SendStores
  <2>7. late' \in [Senders -> Nat] /\ faults' \in 0..MaxFaults
    BY <1>3, FaultType DEF SendStores, TypeOK
  <2> QED BY <1>3, <2>3, <2>5, <2>6, <2>7 DEF SendStores, TypeOK, accounts, record, SockStates, PumpStates
<1> QED BY <1>1, <1>2, <1>3 DEF SendStep

LEMMA LoopTypes ==
  ASSUME TypeOK, NEW k \in Sockets, LoopStep(k) \/ HandleIncoming(k) \/ Leave(k) \/ Expire(k)
  PROVE  TypeOK'
<1>0. k \in Senders
  BY DEF Senders
<1>1. CASE Subscribed(k) /\ Close(k)
  BY <1>1, Closes
<1>2. CASE Expire(k)
  BY <1>2 DEF Expire, TypeOK, room, feeds, record, Subscribed
<1>3. CASE HandleIncoming(k) /\ ~Close(k)
  <2>1. /\ sock[k].at = "loop" /\ Goes(k, "send")
        /\ UNCHANGED <<room, accounts, index, dropped, feeds, record, late, faults>>
    BY <1>3 DEF HandleIncoming
  <2>2. Subscribed(k) /\ UNCHANGED <<index, current>>
    BY <2>1 DEF Subscribed, Live, feeds
  <2>3. /\ sock' \in [Senders -> SockStates]
        /\ index' \subseteq {o \in Sockets : Subscribed(o)'}
        /\ current' = NULL <=> \A o \in Sockets : ~Subscribed(o)'
    BY <1>0, <2>1, <2>2, SenderTypes DEF Live
  <2> QED BY <2>1, <2>3 DEF TypeOK, room, accounts, feeds, record, SockStates
<1> QED BY <1>1, <1>2, <1>3 DEF LoopStep, HandleIncoming, Leave, Drop, Expiry, Heartbeat, Subscribed, Live

\* How a buffer or an inbox changes.

LEMMA Appended ==
  ASSUME NEW s \in Seq(Messages), NEW m \in Messages
  PROVE  /\ Append(s, m) \in Seq(Messages) /\ Len(Append(s, m)) = Len(s) + 1
         /\ Elements(Append(s, m)) = Elements(s) \cup {m}
<1>1. /\ Append(s, m) \in Seq(Messages) /\ Len(Append(s, m)) = Len(s) + 1
      /\ \A i \in 1..Len(s) : Append(s, m)[i] = s[i]
      /\ Append(s, m)[Len(s) + 1] = m
  BY AppendProperties
<1>2. DOMAIN Append(s, m) = 1..Len(s) + 1 /\ DOMAIN s = 1..Len(s) /\ Len(s) \in Nat
  BY <1>1, LenProperties
<1>3. 1..Len(s) + 1 = (1..Len(s)) \cup {Len(s) + 1}
  BY <1>2
<1>4. Elements(Append(s, m)) = Elements(s) \cup {m}
  BY <1>1, <1>2, <1>3 DEF Elements
<1> QED BY <1>1, <1>4

LEMMA Taken ==
  ASSUME NEW s \in Seq(Messages), s # <<>>
  PROVE  /\ Head(s) \in Messages /\ Tail(s) \in Seq(Messages) /\ Len(Tail(s)) = Len(s) - 1 /\ Len(s) \in Nat
         /\ Elements(s) = Elements(Tail(s)) \cup {Head(s)}
<1>1. /\ Head(s) \in Messages /\ Tail(s) \in Seq(Messages) /\ Len(Tail(s)) = Len(s) - 1
      /\ \A i \in 1..Len(Tail(s)) : Tail(s)[i] = s[i + 1]
  BY HeadTailProperties
<1>2. DOMAIN Tail(s) = 1..Len(s) - 1 /\ DOMAIN s = 1..Len(s) /\ Len(s) \in Nat \ {0} /\ Head(s) = s[1]
  BY <1>1, LenProperties, EmptySeq
<1>3. ASSUME NEW i \in 1..Len(s) PROVE s[i] \in Elements(Tail(s)) \cup {Head(s)}
  <2>1. CASE i = 1
    BY <1>2, <2>1
  <2>2. CASE i # 1
    <3>1. i - 1 \in DOMAIN Tail(s) /\ Tail(s)[i - 1] = s[i]
      BY <1>1, <1>2, <2>2
    <3> QED BY <3>1 DEF Elements
  <2> QED BY <2>1, <2>2
<1>4. ASSUME NEW i \in DOMAIN Tail(s) PROVE Tail(s)[i] \in Elements(s)
  <2>1. i + 1 \in DOMAIN s /\ Tail(s)[i] = s[i + 1]
    BY <1>1, <1>2
  <2> QED BY <2>1 DEF Elements
<1>5. Head(s) \in Elements(s)
  BY <1>2 DEF Elements
<1> QED BY <1>1, <1>2, <1>3, <1>4, <1>5 DEF Elements

\* What PumpForwards does to each socket: nothing, one more event, or one dropped.
LEMMA Forwards ==
  ASSUME TypeOK, NEW p \in Pumps, PumpForwards(p)
  PROVE  /\ Head(pump[p].inbox) \in Messages
         /\ pump' = [pump EXCEPT ![p].inbox = Tail(pump[p].inbox)] /\ pump' \in [Pumps -> PumpStates]
         /\ pump[p].inbox \in Seq(Messages) /\ pump[p].inbox # <<>>
         /\ events' \in [Sockets -> Seq(Messages)] /\ skipped' \in [Sockets -> SUBSET Messages]
         /\ \A k \in Sockets :
              /\ Len(events'[k]) <= Buffer
              /\ Elements(events[k]) \subseteq Elements(events'[k]) /\ skipped[k] \subseteq skipped'[k]
              /\ Subscribed(k) => Head(pump[p].inbox) \in Elements(events'[k]) \cup skipped'[k]
<1> DEFINE m == Head(pump[p].inbox)
           full == {k \in Sockets : Subscribed(k) /\ Len(events[k]) = Buffer}
           to == {k \in Sockets : Subscribed(k)} \ full
<1>1. pump \in [Pumps -> PumpStates] /\ pump[p].inbox \in Seq(Messages) /\ pump[p].inbox # <<>>
  BY DEF TypeOK, PumpStates, PumpForwards
<1>2. m \in Messages /\ Tail(pump[p].inbox) \in Seq(Messages)
  BY <1>1, Taken
<1>3. pump' = [pump EXCEPT ![p].inbox = Tail(pump[p].inbox)] /\ pump' \in [Pumps -> PumpStates]
  <2>1. pump' = [pump EXCEPT ![p] = [pump[p] EXCEPT !.inbox = Tail(pump[p].inbox)]]
    BY DEF PumpForwards
  <2>2. [pump[p] EXCEPT !.inbox = Tail(pump[p].inbox)] \in PumpStates
    BY <1>1, <1>2 DEF PumpStates
  <2> QED BY <1>1, <2>1, <2>2
<1>4. /\ events' = [k \in Sockets |-> IF k \in to THEN Append(events[k], m) ELSE events[k]]
      /\ skipped' = [k \in Sockets |-> IF k \in full THEN skipped[k] \cup {m} ELSE skipped[k]]
  BY DEF PumpForwards, Full
<1>5. \A k \in Sockets : events[k] \in Seq(Messages) /\ Len(events[k]) <= Buffer /\ Len(events[k]) \in Nat
                         /\ skipped[k] \in SUBSET Messages
  BY LenProperties DEF TypeOK
<1> HIDE DEF m
<1>6. ASSUME NEW k \in Sockets
      PROVE  /\ events'[k] \in Seq(Messages) /\ Len(events'[k]) <= Buffer /\ skipped'[k] \in SUBSET Messages
             /\ Elements(events[k]) \subseteq Elements(events'[k]) /\ skipped[k] \subseteq skipped'[k]
             /\ Subscribed(k) => m \in Elements(events'[k]) \cup skipped'[k]
  <2>1. CASE k \in to
    <3>1. events'[k] = Append(events[k], m) /\ skipped'[k] = skipped[k]
      BY <1>4, <2>1
    <3>2. /\ Append(events[k], m) \in Seq(Messages) /\ Len(Append(events[k], m)) = Len(events[k]) + 1
          /\ Elements(Append(events[k], m)) = Elements(events[k]) \cup {m}
      BY <1>2, <1>5, Appended
    <3>3. Len(events[k]) + 1 <= Buffer
      BY <1>5, <2>1, RoomAssumption
    <3> QED BY <1>5, <3>1, <3>2, <3>3
  <2>2. CASE k \in full
    <3>1. events'[k] = events[k] /\ skipped'[k] = skipped[k] \cup {m}
      BY <1>4, <2>2
    <3> QED BY <1>2, <1>5, <3>1
  <2>3. CASE ~Subscribed(k)
    <3>1. events'[k] = events[k] /\ skipped'[k] = skipped[k]
      BY <1>4, <2>3
    <3> QED BY <1>5, <2>3, <3>1
  <2> QED BY <2>1, <2>2, <2>3
<1>7. /\ events' \in [Sockets -> Seq(Messages)] /\ skipped' \in [Sockets -> SUBSET Messages]
  <2>1. DOMAIN events' = Sockets /\ DOMAIN skipped' = Sockets /\ events' = [k \in Sockets |-> events'[k]]
        /\ skipped' = [k \in Sockets |-> skipped'[k]]
    BY <1>4
  <2> QED BY <1>6, <2>1
<1> QED BY <1>1, <1>2, <1>3, <1>6, <1>7 DEF m

LEMMA PumpTypes ==
  ASSUME TypeOK, NEW p \in Pumps, PumpStep(p) \/ PumpEnd(p)
  PROVE  TypeOK'
<1>0. pump \in [Pumps -> PumpStates] /\ <<>> \in Seq(Messages)
  BY DEF TypeOK, PumpStates
<1>1. CASE PumpStarts(p)
  <2>1. pump' \in [Pumps -> PumpStates]
    BY <1>0, <1>1 DEF PumpStarts, PumpStates
  <2> QED BY <1>1, <2>1 DEF PumpStarts, TypeOK, PumpStates, room, accounts, record, Subscribed
<1>2. CASE PumpReturns(p)
  <2>1. pump' \in [Pumps -> PumpStates]
    BY <1>0, <1>2 DEF PumpReturns, PumpStates
  <2> QED BY <1>2, <2>1 DEF PumpReturns, TypeOK, PumpStates, room, accounts, record, Subscribed
<1>3. CASE PumpLosesRedis(p)
  <2>1. pump' \in [Pumps -> PumpStates] /\ whole' \subseteq Sockets
    BY <1>0, <1>3 DEF PumpLosesRedis, PumpStates
  <2>2. faults' \in 0..MaxFaults
    BY <1>3, FaultType DEF PumpLosesRedis
  <2> QED BY <1>3, <2>1, <2>2 DEF PumpLosesRedis, TypeOK, PumpStates, room, accounts, record, Subscribed
<1>4. CASE PumpForwards(p)
  <2>1. /\ pump' \in [Pumps -> PumpStates]
        /\ events' \in [Sockets -> Seq(Messages)] /\ skipped' \in [Sockets -> SUBSET Messages]
        /\ \A k \in Sockets : Len(events'[k]) <= Buffer
    BY <1>4, Forwards
  <2> QED BY <1>4, <2>1 DEF PumpForwards, TypeOK, PumpStates, room, accounts, record, Subscribed
<1> QED BY <1>1, <1>2, <1>3, <1>4 DEF PumpStep, PumpEnd

LEMMA TypeKept ==
  ASSUME TypeOK, [Next]_vars
  PROVE  TypeOK'
<1>1. CASE UNCHANGED vars
  BY <1>1 DEF vars, room, accounts, feeds, record, TypeOK, Subscribed
<1>2. ASSUME NEW k \in Sockets, NEW u \in Users, Subscribe(k, u) PROVE TypeOK'
  BY <1>2, SubscribeTypes
<1>3. ASSUME NEW k \in Sockets, SocketStep(k) PROVE TypeOK'
  <2>1. k \in Senders
    BY DEF Senders
  <2> QED BY <1>3, <2>1, SetupTypes, SendTypes DEF SocketStep
<1>4. ASSUME NEW k \in Sockets, LoopStep(k) \/ HandleIncoming(k) \/ Leave(k) \/ Expire(k) PROVE TypeOK'
  BY <1>4, LoopTypes
<1>5. ASSUME NEW k \in Sockets, Write(k) PROVE TypeOK'
  <2>1. events[k] \in Seq(Messages) /\ events[k] # <<>> /\ Len(events[k]) <= Buffer
    BY <1>5 DEF Write, TypeOK
  <2>2. Head(events[k]) \in Messages /\ Tail(events[k]) \in Seq(Messages) /\ Len(Tail(events[k])) <= Buffer
    BY <2>1, Taken, RoomAssumption
  <2>3. /\ events' \in [Sockets -> Seq(Messages)]
        /\ \A o \in Sockets : Len(events'[o]) <= Buffer
    BY <1>5, <2>2 DEF Write, TypeOK
  <2>4. got' \in [Sockets -> SUBSET Messages] /\ twice' \subseteq Sockets
    BY <1>5, <2>2 DEF Write, TypeOK
  <2> QED BY <1>5, <2>3, <2>4 DEF Write, TypeOK, room, accounts, Subscribed
<1>6. ASSUME NEW x \in Posters, SendStep(x) PROVE TypeOK'
  BY <1>6, SendTypes DEF Senders
<1>7. ASSUME NEW p \in Pumps, PumpStep(p) \/ PumpEnd(p) PROVE TypeOK'
  BY <1>7, PumpTypes
<1>8. ASSUME NEW u \in Users, Mark(u) PROVE TypeOK'
  <2>1. faults' \in 0..MaxFaults
    BY <1>8, FaultType DEF Mark, TypeOK
  <2> QED BY <1>8, <2>1 DEF Mark, TypeOK, room, feeds, record, Subscribed
<1>9. ASSUME NEW u \in Users, WatchRevocations(u) PROVE TypeOK'
  BY <1>9 DEF WatchRevocations, EndSessions, TypeOK, room, feeds, record, Subscribed
<1>10. CASE CloseThread
  BY <1>10 DEF CloseThread, CloseChatThread, TypeOK, accounts, feeds, record, Subscribed
<1> QED BY <1>1, <1>2, <1>3, <1>4, <1>5, <1>6, <1>7, <1>8, <1>9, <1>10 DEF Next

LEMMA TypeAtInit ==
  ASSUME Init
  PROVE  TypeOK
<1>1. /\ 0 \in 0..MaxMessages /\ 0 \in 0..MaxFaults /\ <<>> \in Seq(Messages) /\ Len(<<>>) <= Buffer
  BY RoomAssumption
<1>2. \A k \in Sockets : sock[k].at = "none"
  BY DEF Init, Senders
<1> QED BY <1>1, <1>2 DEF Init, TypeOK, Subscribed, Setup, Live

\* Whatever the replica, its sockets and its pumps do, every variable keeps its type:
\* only subscribed sockets are in the index, and there is a current pump exactly while
\* some socket is subscribed (chat/hub.go, Subscribe and unsubscribe).
THEOREM TypeCorrect ==
  Spec => []TypeOK
BY TypeAtInit, TypeKept, PTL DEF Spec
-----------------------------------------------------------------------------
(* Sockets and announcements *)

LEMMA SocketsKept ==
  ASSUME TypeOK, SocketsAgree, [Next]_vars
  PROVE  SocketsAgree'
<1> USE DEF SocketsAgree, AnnouncedIsDropped, Setup, Live
<1>1. CASE UNCHANGED vars
  BY <1>1 DEF vars, accounts
\* What a step does to the sockets when it leaves the accounts alone.
<1>a. ASSUME UNCHANGED <<marked, news, ended>>, NEW k \in Sockets,
             \A o \in Sockets \ {k} : sock'[o] = sock[o] /\ (o \in index => o \in index')
                                      /\ (o \in dropped => o \in dropped'),
             sock'[k].at \notin {"registered", "loop", "send", "insert"}
      PROVE  SocketsAgree'
  BY <1>a
<1>b. ASSUME UNCHANGED <<marked, news, ended, index, dropped>>, NEW k \in Sockets,
             \A o \in Sockets \ {k} : sock'[o] = sock[o],
             sock[k].at \in {"loop", "send", "insert"}, sock'[k].user = sock[k].user
      PROVE  SocketsAgree'
  BY <1>b
<1>c. ASSUME UNCHANGED <<marked, news, ended, index, dropped>>, \A o \in Sockets : sock'[o] = sock[o]
      PROVE  SocketsAgree'
  BY <1>c
<1>d. ASSUME NEW k \in Sockets, Subscribed(k), Close(k) PROVE SocketsAgree'
  <2>1. sock'[k] = Closed /\ \A o \in Sockets \ {k} : sock'[o] = sock[o]
    BY <1>d, Closes DEF Senders
  <2>2. Closed.at = "closed"
    BY DEF Closed
  <2> QED BY <1>a, <1>d, <2>1, <2>2 DEF Close
<1>2. ASSUME NEW k \in Sockets, NEW u \in Users, Subscribe(k, u) PROVE SocketsAgree'
  <2>1. sock' = [sock EXCEPT ![k] = [at |-> "joining", user |-> u]]
    BY <1>2 DEF Subscribe
  <2>2. sock'[k].at = "joining" /\ \A o \in Sockets \ {k} : sock'[o] = sock[o]
    BY <2>1 DEF TypeOK, Senders
  <2> QED BY <1>a, <1>2, <2>2 DEF Subscribe, accounts
<1>3. ASSUME NEW k \in Sockets, History(k) PROVE SocketsAgree'
  <2>1. sock'[k].at = "joined" /\ \A o \in Sockets \ {k} : sock'[o] = sock[o]
    BY <1>3, GoesOn DEF History, Senders
  <2> QED BY <1>a, <1>3, <2>1 DEF History, accounts
<1>4. ASSUME NEW k \in Sockets, Register(k) PROVE SocketsAgree'
  <2>1. sock'[k].at = "registered" /\ \A o \in Sockets \ {k} : sock'[o] = sock[o]
    BY <1>4, GoesOn DEF Register, Senders
  <2> QED BY <1>4, <2>1 DEF Register, accounts
<1>5. ASSUME NEW k \in Sockets, Check(k) PROVE SocketsAgree'
  <2>1. CASE Close(k)
    BY <1>5, <1>d, <2>1 DEF Check, Subscribed
  <2>2. CASE ~Close(k)
    <3>1. /\ sock[k].at = "registered" /\ sock[k].user \notin marked /\ Goes(k, "loop")
          /\ UNCHANGED <<marked, news, ended, index, dropped>>
      BY <1>5, <2>2 DEF Check, Revoked, accounts
    <3>2. sock'[k].at = "loop" /\ sock'[k].user = sock[k].user /\ \A o \in Sockets \ {k} : sock'[o] = sock[o]
      BY <3>1, GoesOn DEF Senders
    <3>3. sock'[k].user \notin ended' /\ k \in index' \cup dropped'
      BY <3>1, <3>2
    <3>4. ended' \cup news' \subseteq marked'
      BY <3>1
    <3> QED BY <3>1, <3>2, <3>3, <3>4
  <2> QED BY <2>1, <2>2
<1>6. ASSUME NEW k \in Sockets, LoopStep(k) \/ Leave(k) PROVE SocketsAgree'
  <2>1. Subscribed(k) /\ Close(k)
    BY <1>6 DEF LoopStep, Leave, Drop, Expiry, Heartbeat, Subscribed
  <2> QED BY <1>d, <2>1
<1>7. ASSUME NEW k \in Sockets, HandleIncoming(k) PROVE SocketsAgree'
  <2>1. CASE Close(k)
    BY <1>7, <1>d, <2>1 DEF HandleIncoming, Subscribed
  <2>2. CASE ~Close(k)
    <3>1. sock[k].at = "loop" /\ Goes(k, "send") /\ UNCHANGED <<marked, news, ended, index, dropped>>
      BY <1>7, <2>2 DEF HandleIncoming, accounts
    <3>2. sock'[k].user = sock[k].user /\ \A o \in Sockets \ {k} : sock'[o] = sock[o]
      BY <3>1, GoesOn DEF Senders
    <3> QED BY <1>b, <3>1, <3>2
  <2> QED BY <2>1, <2>2
<1>8. ASSUME NEW x \in Senders, SendStep(x) PROVE SocketsAgree'
  <2>1. /\ UNCHANGED <<marked, news, ended, index, dropped>>
        /\ sock'[x].user = sock[x].user /\ \A o \in Senders \ {x} : sock'[o] = sock[o]
        /\ sock[x].at \in {Before(x), "insert"}
    <3>1. \E at \in {"insert", "loop", "closed"} : Goes(x, at)
      BY <1>8 DEF SendStep, SendChecks, SendStores, SendFails, After
    <3>2. sock'[x].user = sock[x].user /\ \A o \in Senders \ {x} : sock'[o] = sock[o]
      BY <3>1, GoesOn
    <3> QED BY <1>8, <3>2 DEF SendStep, SendChecks, SendStores, SendFails, accounts
  <2>2. CASE x \in Sockets
    BY <1>b, <2>1, <2>2 DEF Before, Senders
  <2>3. CASE x \notin Sockets
    BY <1>c, <2>1, <2>3 DEF Senders
  <2> QED BY <2>2, <2>3
<1>9. ASSUME NEW p \in Pumps, PumpStep(p) \/ PumpEnd(p) PROVE SocketsAgree'
  BY <1>9, <1>c DEF PumpStep, PumpEnd, PumpStarts, PumpForwards, PumpReturns, PumpLosesRedis, accounts
<1>10. ASSUME NEW k \in Sockets, Write(k) \/ Expire(k) PROVE SocketsAgree'
  BY <1>10, <1>c DEF Write, Expire, accounts
<1>11. ASSUME NEW u \in Users, Mark(u) PROVE SocketsAgree'
  BY <1>11 DEF Mark
<1>12. ASSUME NEW u \in Users, WatchRevocations(u) PROVE SocketsAgree'
  <2>1. /\ index' = index \ {k \in index : sock[k].user = u}
        /\ dropped' = dropped \cup {k \in index : sock[k].user = u}
        /\ news' = news \ {u} /\ ended' = ended \cup {u} /\ u \in news /\ UNCHANGED <<sock, marked>>
    BY <1>12 DEF WatchRevocations, EndSessions
  <2> QED BY <2>1
<1>13. CASE CloseThread
  BY <1>13, <1>c DEF CloseThread, accounts
<1> QED
  BY <1>1, <1>2, <1>3, <1>4, <1>5, <1>6, <1>7, <1>8, <1>9, <1>10, <1>11, <1>12, <1>13
  DEF Next, SocketStep, Senders

LEMMA SocketsAtInit ==
  ASSUME Init
  PROVE  SocketsAgree
<1>1. \A k \in Sockets : sock[k].at = "none"
  BY DEF Init, Senders
<1> QED BY <1>1 DEF Init, SocketsAgree, AnnouncedIsDropped, Live

\* chat/handler.go:253-254: registering first and checking second leaves no gap. On a
\* replica that has acted on an announcement, every socket of that account that serves
\* has had its drop called, for any number of sockets and accounts.
THEOREM AnnouncedDropped ==
  Spec => []AnnouncedIsDropped
<1>1. Init => TypeOK /\ SocketsAgree
  BY TypeAtInit, SocketsAtInit
<1>2. (TypeOK /\ SocketsAgree) /\ [Next]_vars => (TypeOK /\ SocketsAgree)'
  BY TypeKept, SocketsKept
<1>3. SocketsAgree => AnnouncedIsDropped
  BY DEF SocketsAgree
<1> QED BY <1>1, <1>2, <1>3, PTL DEF Spec
-----------------------------------------------------------------------------
(* Late messages *)

\* A sender a step leaves alone agrees as before, for nothing takes back a reason to
\* refuse it.
LEMMA SenderStays ==
  ASSUME NEW x \in Senders, SenderAgrees(x), sock'[x] = sock[x], late'[x] = late[x],
         open' => open, marked \subseteq marked', x \in expired => x \in expired'
  PROVE  SenderAgrees(x)'
BY DEF SenderAgrees, Refusable

LEMMA OneSenderMoves ==
  ASSUME SendersAgree, NEW x \in Senders, SenderAgrees(x)',
         \A y \in Senders \ {x} : sock'[y] = sock[y] /\ late'[y] = late[y] /\ (y \in expired => y \in expired'),
         open' => open, marked \subseteq marked'
  PROVE  SendersAgree'
<1>1. ASSUME NEW y \in Senders PROVE SenderAgrees(y)'
  <2>1. CASE y = x
    BY <2>1
  <2>2. CASE y # x
    BY <2>2, SenderStays DEF SendersAgree
  <2> QED BY <2>1, <2>2
<1> QED BY <1>1 DEF SendersAgree

LEMMA SendKept ==
  ASSUME TypeOK, SendersAgree, NEW x \in Senders, SendStep(x)
  PROVE  SendersAgree'
<1>1. PICK at \in {"insert", "loop", "closed"} : /\ Goes(x, at)
                                                 /\ at \in {"insert", After(x)}
                                                 /\ at = "insert" => SendChecks(x) /\ open
  BY DEF SendStep, SendChecks, SendStores, SendFails, After
<1>2. sock'[x].at = at /\ sock'[x].user = sock[x].user /\ \A y \in Senders \ {x} : sock'[y] = sock[y]
  BY <1>1, GoesOn DEF Live
<1>3. UNCHANGED <<open, marked, expired>>
  BY DEF SendStep, SendChecks, SendStores, SendFails, room, accounts
<1>4. late' \in [Senders -> Nat] /\ \A y \in Senders \ {x} : late'[y] = late[y]
  <2>1. late' = late \/ late' = [late EXCEPT ![x] = late[x] + 1]
    BY DEF SendStep, SendChecks, SendStores, SendFails
  <2>2. late \in [Senders -> Nat]
    BY DEF TypeOK
  <2> QED BY <2>1, <2>2
<1>5. SenderAgrees(x) /\ late[x] \in Nat
  BY DEF SendersAgree, TypeOK
<1>6. x \in Posters => at \in {"insert", "closed"}
  <2>1. x \in Posters => x \notin Sockets
    BY RoomAssumption DEF Sockets
  <2> QED BY <1>1, <2>1 DEF After
<1>7. SenderAgrees(x)'
  <2>1. CASE SendChecks(x)
    <3>1. late'[x] = late[x] /\ sock[x].at = Before(x)
      BY <2>1 DEF SendChecks
    <3>2. CASE open
      <4>1. late[x] = 0
        BY <1>5, <3>1, <3>2 DEF SenderAgrees, Before
      <4> QED BY <1>1, <1>2, <1>6, <3>1, <4>1 DEF SenderAgrees, Setup
    <3>3. CASE ~open
      <4>1. at = After(x) /\ at # "insert" /\ at # "send"
        BY <1>1, <3>3 DEF After
      <4>2. Refusable(x)'
        BY <1>3, <3>3 DEF Refusable
      <4>3. late[x] = 0 \/ late[x] = 1
        BY <1>5 DEF SenderAgrees
      <4> QED BY <1>1, <1>2, <1>6, <3>1, <4>1, <4>2, <4>3 DEF SenderAgrees, Setup
    <3> QED BY <3>2, <3>3
  <2>2. CASE ~SendChecks(x)
    <3>1. sock[x].at = "insert" /\ at = After(x) /\ at # "insert" /\ at # "send"
      BY <1>1, <2>2 DEF SendStep, SendStores, SendFails, After
    <3>2. late[x] = 0
      BY <1>5, <3>1 DEF SenderAgrees
    <3>3. late'[x] = 0 \/ (late'[x] = 1 /\ Refusable(x))
      <4>1. late' = late \/ (late' = [late EXCEPT ![x] = late[x] + 1] /\ Refusable(x))
        BY <2>2 DEF SendStep, SendStores, SendFails
      <4>2. late \in [Senders -> Nat]
        BY DEF TypeOK
      <4> QED BY <3>2, <4>1, <4>2
    <3>4. Refusable(x) => Refusable(x)'
      BY <1>2, <1>3 DEF Refusable
    <3> QED BY <1>1, <1>2, <1>6, <3>1, <3>3, <3>4 DEF SenderAgrees, Setup
  <2> QED BY <2>1, <2>2
<1> QED BY <1>2, <1>3, <1>4, <1>7, OneSenderMoves

LEMMA SendersKept ==
  ASSUME TypeOK, SendersAgree, [Next]_vars
  PROVE  SendersAgree'
<1>0. ASSUME NEW k \in Sockets PROVE k \in Senders /\ k \notin Posters
  BY RoomAssumption DEF Senders, Sockets
<1>a. ASSUME UNCHANGED <<sock, late>>, open' => open, marked \subseteq marked', expired \subseteq expired'
      PROVE  SendersAgree'
  BY <1>a, SenderStays DEF SendersAgree
\* A socket that goes on, and stores nothing.
<1>b. ASSUME NEW k \in Sockets, NEW at \in Setup \cup {"loop", "send"}, Goes(k, at),
             UNCHANGED <<open, marked, expired, late>>,
             late[k] = 0 \/ (at = "send" /\ late[k] = 1 /\ ~open)
      PROVE  SendersAgree'
  <2>1. sock'[k].at = at /\ \A y \in Senders \ {k} : sock'[y] = sock[y]
    BY <1>0, <1>b, GoesOn DEF Live, Setup
  <2>2. SenderAgrees(k)'
    BY <1>0, <1>b, <2>1 DEF SenderAgrees, Setup
  <2> QED BY <1>0, <1>b, <2>1, <2>2, OneSenderMoves
<1>c. ASSUME NEW k \in Sockets, Subscribed(k), Close(k) PROVE SendersAgree'
  <2>1. sock'[k] = Closed /\ \A y \in Senders \ {k} : sock'[y] = sock[y]
    BY <1>c, Closes
  <2>2. late'[k] = 0 \/ late'[k] = 1
    BY <1>0, <1>c DEF Close, SendersAgree, SenderAgrees
  <2>3. SenderAgrees(k)'
    BY <1>0, <2>1, <2>2 DEF SenderAgrees, Closed, Setup
  <2> QED BY <1>0, <1>c, <2>1, <2>3, OneSenderMoves DEF Close, room
<1>1. CASE UNCHANGED vars
  BY <1>1, <1>a DEF vars, room, accounts
<1>2. ASSUME NEW k \in Sockets, NEW u \in Users, Subscribe(k, u) PROVE SendersAgree'
  <2>1. sock' = [sock EXCEPT ![k] = [at |-> "joining", user |-> u]] /\ sock[k].at = "none"
        /\ UNCHANGED <<open, marked, expired, late>>
    BY <1>2 DEF Subscribe, room, accounts
  <2>2. sock'[k].at = "joining" /\ \A y \in Senders \ {k} : sock'[y] = sock[y]
    BY <1>0, <2>1 DEF TypeOK
  <2>3. SenderAgrees(k)'
    BY <1>0, <2>1, <2>2 DEF SendersAgree, SenderAgrees
  <2> QED BY <1>0, <2>1, <2>2, <2>3, OneSenderMoves
<1>3. ASSUME NEW k \in Sockets, History(k) \/ Register(k) PROVE SendersAgree'
  <2>1. late[k] = 0
    BY <1>0, <1>3 DEF History, Register, SendersAgree, SenderAgrees, Setup
  <2> QED BY <1>3, <1>b, <2>1 DEF History, Register, Setup, room, accounts
<1>4. ASSUME NEW k \in Sockets, Check(k) PROVE SendersAgree'
  <2>1. late[k] = 0 /\ Subscribed(k)
    BY <1>0, <1>4 DEF Check, SendersAgree, SenderAgrees, Setup, Subscribed
  <2> QED BY <1>4, <1>b, <1>c, <2>1 DEF Check, room, accounts
<1>5. ASSUME NEW k \in Sockets, LoopStep(k) \/ Leave(k) PROVE SendersAgree'
  <2>1. Subscribed(k) /\ Close(k)
    BY <1>5 DEF LoopStep, Leave, Drop, Expiry, Heartbeat, Subscribed, Live
  <2> QED BY <1>c, <2>1
<1>6. ASSUME NEW k \in Sockets, HandleIncoming(k) PROVE SendersAgree'
  <2>1. CASE Close(k)
    BY <1>6, <1>c, <2>1 DEF HandleIncoming, Subscribed, Live
  <2>2. CASE ~Close(k)
    <3>1. /\ sock[k].at = "loop" /\ Goes(k, "send") /\ UNCHANGED <<open, marked, expired, late>>
          /\ k \notin expired /\ sock[k].user \notin marked
      BY <1>6, <2>2 DEF HandleIncoming, Revoked, room, accounts
    <3>2. late[k] = 0 \/ (late[k] = 1 /\ ~open)
      BY <1>0, <3>1 DEF SendersAgree, SenderAgrees, Refusable
    <3> QED BY <1>b, <3>1, <3>2
  <2> QED BY <2>1, <2>2
<1>7. ASSUME NEW x \in Senders, SendStep(x) PROVE SendersAgree'
  BY <1>7, SendKept
<1>8. ASSUME NEW p \in Pumps, PumpStep(p) \/ PumpEnd(p) PROVE SendersAgree'
  BY <1>8, <1>a DEF PumpStep, PumpEnd, PumpStarts, PumpForwards, PumpReturns, PumpLosesRedis, room, accounts
<1>9. ASSUME NEW k \in Sockets, Write(k) \/ Expire(k) PROVE SendersAgree'
  BY <1>9, <1>a DEF Write, Expire, room, accounts
<1>10. ASSUME NEW u \in Users, Mark(u) \/ WatchRevocations(u) PROVE SendersAgree'
  BY <1>10, <1>a DEF Mark, WatchRevocations, room
<1>11. CASE CloseThread
  BY <1>11, <1>a DEF CloseThread, CloseChatThread, accounts
<1> QED
  BY <1>1, <1>2, <1>3, <1>4, <1>5, <1>6, <1>7, <1>8, <1>9, <1>10, <1>11
  DEF Next, SocketStep, Senders

\* chat/handler.go, "every client event is a privileged action": whatever number of
\* senders are at work, each stores at most one message after it should be refused.
THEOREM OneLate ==
  Spec => []OneLateMessage
<1>1. Init => TypeOK /\ SendersAgree
  <2> SUFFICES ASSUME Init PROVE SendersAgree
    BY TypeAtInit
  <2>1. \A x \in Senders : sock[x].at = "none" /\ late[x] = 0
    BY DEF Init
  <2> QED BY <2>1 DEF SendersAgree, SenderAgrees
<1>2. (TypeOK /\ SendersAgree) /\ [Next]_vars => (TypeOK /\ SendersAgree)'
  BY TypeKept, SendersKept
<1>3. SendersAgree => OneLateMessage
  BY DEF SendersAgree, SenderAgrees, OneLateMessage
<1> QED BY <1>1, <1>2, <1>3, PTL DEF Spec
-----------------------------------------------------------------------------
(* Feeds *)

\* What socket k has, has lost to a full buffer, or is about to be handed.
Held(k) == 1..past[k] \cup got[k] \cup skipped[k] \cup Coming(k)

LEMMA ComingElements ==
  ASSUME NEW k \in Sockets, current # NULL
  PROVE  Coming(k) = Elements(events[k]) \cup Elements(pump[current].inbox)
BY DEF Coming, Elements

\* A feed that goes on, of a socket that is still subscribed.
LEMMA FeedStays ==
  ASSUME NEW k \in Sockets, FeedAgrees(k), Subscribed(k)', sock'[k].at = "joining" => sock[k].at = "joining",
         current' = current, pump'[current].at = "live",
         sock[k].at = "joining" /\ sock'[k].at # "joining" => pushed' \subseteq Held(k)',
         pushed \subseteq Held(k) => pushed' \subseteq Held(k)'
  PROVE  FeedAgrees(k)'
BY DEF FeedAgrees, Held

\* Nothing that feeds are made of changes.
Quiet(k) ==
  UNCHANGED <<current, pump, events[k], skipped[k], past[k], got[k], pushed>>

LEMMA FeedQuiet ==
  ASSUME NEW k \in Sockets, FeedAgrees(k), Quiet(k), Subscribed(k)',
         sock'[k].at = "joining" <=> sock[k].at = "joining"
  PROVE  FeedAgrees(k)'
<1>1. Held(k)' = Held(k)
  BY DEF Held, Quiet, Coming
<1>2. pump'[current].at = "live"
  BY DEF FeedAgrees, Quiet
<1> QED BY <1>1, <1>2, FeedStays DEF Quiet

\* A socket moves on or stays; the others stay.
LEMMA FeedsQuiet ==
  ASSUME TypeOK, FeedsAgree, whole' \subseteq whole, \A k \in whole' : Quiet(k),
         \A k \in Sockets : sock'[k].at = sock[k].at
                            \/ (sock[k].at \in (Setup \cup Live) \ {"joining"}
                                /\ sock'[k].at \in (Setup \cup Live) \ {"joining"})
  PROVE  FeedsAgree'
<1>1. ASSUME NEW k \in whole' PROVE FeedAgrees(k)'
  <2>1. k \in Sockets /\ FeedAgrees(k) /\ Quiet(k) /\ Subscribed(k)
    BY DEF TypeOK, FeedsAgree, FeedAgrees
  <2>2. Subscribed(k)' /\ (sock'[k].at = "joining" <=> sock[k].at = "joining")
    BY <2>1 DEF Subscribed, Setup, Live
  <2> QED BY <2>1, <2>2, FeedQuiet
<1> QED BY <1>1 DEF FeedsAgree

LEMMA SubscribeFeeds ==
  ASSUME TypeOK, FeedsAgree, NEW k \in Sockets, NEW u \in Users, Subscribe(k, u)
  PROVE  FeedsAgree'
<1>1. sock'[k].at = "joining" /\ \A o \in Sockets \ {k} : sock'[o] = sock[o]
  BY DEF Subscribe, TypeOK, Senders
<1>2. CASE current = NULL
  <2>1. whole' = {}
    BY <1>2 DEF Subscribe, FeedsAgree, FeedAgrees
  <2> QED BY <2>1 DEF FeedsAgree
<1>3. CASE current # NULL
  <2>1. /\ whole' = IF pump[current].at = "live" THEN whole \cup {k} ELSE whole
        /\ UNCHANGED <<current, pump>>
    BY <1>3 DEF Subscribe
  <2>2. ASSUME NEW o \in whole' PROVE FeedAgrees(o)'
    <3>1. CASE o = k
      BY <1>1, <1>3, <2>1, <2>2, <3>1 DEF FeedAgrees, FeedsAgree, Subscribed, Setup
    <3>2. CASE o # k
      <4>1. o \in Sockets /\ FeedAgrees(o) /\ sock'[o] = sock[o]
        BY <1>1, <2>1, <2>2, <3>2 DEF FeedsAgree, TypeOK
      <4>2. Subscribed(o)' /\ Quiet(o)
        BY <2>1, <4>1 DEF FeedAgrees, Subscribed, Quiet, Subscribe, room
      <4> QED BY <4>1, <4>2, FeedQuiet
    <3> QED BY <3>1, <3>2
  <2> QED BY <2>2 DEF FeedsAgree
<1> QED BY <1>2, <1>3

LEMMA HistoryFeeds ==
  ASSUME TypeOK, FeedsAgree, NEW k \in Sockets, History(k)
  PROVE  FeedsAgree'
<1>1. sock'[k].at = "joined" /\ \A o \in Sockets \ {k} : sock'[o] = sock[o]
  BY GoesOn DEF History, Senders, Setup
<1>2. UNCHANGED <<current, pump, events, skipped, got, pushed>> /\ whole' \subseteq whole
  BY DEF History, room, feeds
<1>3. ASSUME NEW o \in whole' PROVE FeedAgrees(o)'
  <2>0. o \in Sockets /\ FeedAgrees(o) /\ Subscribed(o)
    BY <1>2, <1>3 DEF FeedsAgree, FeedAgrees, TypeOK
  <2>1. CASE o = k
    <3>1. past'[k] = stored
      BY <1>3, <2>1 DEF History, TypeOK
    <3>2. pushed' \subseteq Held(k)'
      BY <1>2, <3>1 DEF Held, TypeOK
    <3>3. Subscribed(k)' /\ current' # NULL /\ pump'[current'].at = "live"
      BY <1>1, <1>2, <2>0, <2>1 DEF Subscribed, Setup, FeedAgrees
    <3> QED BY <2>1, <3>2, <3>3 DEF FeedAgrees, Held
  <2>2. CASE o # k
    <3>1. past'[o] = past[o]
      BY <2>0, <2>2 DEF History, TypeOK
    <3>2. Quiet(o) /\ sock'[o] = sock[o]
      BY <1>1, <1>2, <2>0, <2>2, <3>1 DEF Quiet
    <3>3. Subscribed(o)'
      BY <2>0, <3>2 DEF Subscribed
    <3> QED BY <2>0, <3>2, <3>3, FeedQuiet
  <2> QED BY <2>1, <2>2
<1> QED BY <1>3 DEF FeedsAgree

LEMMA CloseFeeds ==
  ASSUME TypeOK, FeedsAgree, NEW k \in Sockets, Subscribed(k), Close(k)
  PROVE  FeedsAgree'
<1>1. \A o \in Sockets \ {k} : sock'[o] = sock[o]
  BY Closes DEF Senders
<1>2. ASSUME NEW o \in whole' PROVE FeedAgrees(o)'
  <2>1. o \in Sockets \ {k} /\ FeedAgrees(o) /\ Subscribed(o)
    BY <1>2 DEF Close, FeedsAgree, FeedAgrees, TypeOK
  <2>2. /\ events'[o] = events[o] /\ skipped'[o] = skipped[o]
        /\ past'[o] = past[o] /\ got'[o] = got[o]
    BY <2>1 DEF Close, TypeOK
  <2>3. current' = current /\ UNCHANGED <<pump, pushed>>
    BY <2>1 DEF Close, room
  <2>4. Quiet(o) /\ sock'[o] = sock[o] /\ Subscribed(o)'
    BY <1>1, <2>1, <2>2, <2>3 DEF Quiet, Subscribed
  <2> QED BY <2>1, <2>4, FeedQuiet
<1> QED BY <1>2 DEF FeedsAgree

\* A message that is published is in the inbox of every live pump.
LEMMA StoreFeeds ==
  ASSUME TypeOK, FeedsAgree, NEW x \in Senders, SendStores(x)
  PROVE  FeedsAgree'
<1>1. Goes(x, After(x)) /\ sock[x].at = "insert"
  BY DEF SendStores
<1>2. sock'[x].at = After(x) /\ \A y \in Senders \ {x} : sock'[y] = sock[y]
  BY <1>1, GoesOn DEF After, Live
<1>3. /\ UNCHANGED <<current, events, skipped, past, got, whole>>
      /\ \/ UNCHANGED <<pushed, pump>>
         \/ Publish(stored')
  BY DEF SendStores, record
<1>4. PICK n \in Messages : stored' = n
  BY RoomAssumption DEF SendStores, CreateChatMessage, TypeOK, Messages
<1>5. ASSUME NEW o \in whole' PROVE FeedAgrees(o)'
  <2>1. o \in Sockets /\ FeedAgrees(o) /\ Subscribed(o) /\ o \in Senders
    BY <1>3, <1>5 DEF FeedsAgree, FeedAgrees, TypeOK, Senders
  <2>2. Subscribed(o)' /\ (sock'[o].at = "joining" <=> sock[o].at = "joining")
    BY <1>1, <1>2, <2>1 DEF Subscribed, After, Live, Setup
  <2>3. CASE UNCHANGED <<pushed, pump>>
    <3>1. Quiet(o)
      BY <1>3, <2>3 DEF Quiet
    <3> QED BY <2>1, <2>2, <3>1, FeedQuiet
  <2>4. CASE Publish(stored')
    <3>1. current \in Pumps /\ pump[current].at = "live" /\ current # NULL
      BY <2>1 DEF FeedAgrees, TypeOK
    <3>2. pump[current].inbox \in Seq(Messages) /\ pump[current] \in PumpStates
      BY <3>1 DEF TypeOK, PumpStates
    <3>3. pump'[current] = [pump[current] EXCEPT !.inbox = Append(pump[current].inbox, n)]
      BY <1>4, <2>4, <3>1 DEF Publish
    <3>4. pump'[current].at = "live" /\ pump'[current].inbox = Append(pump[current].inbox, n)
      BY <3>1, <3>2, <3>3 DEF PumpStates
    <3>5. Elements(pump'[current].inbox) = Elements(pump[current].inbox) \cup {n}
      BY <3>2, <3>4, Appended
    <3>6. Coming(o)' = Coming(o) \cup {n}
      BY <1>3, <2>1, <3>1, <3>5 DEF Coming, Elements
    <3>7. Held(o)' = Held(o) \cup {n} /\ pushed' = pushed \cup {n}
      BY <1>3, <1>4, <2>4, <3>6 DEF Held, Publish
    <3> QED BY <1>3, <2>1, <2>2, <3>4, <3>7, FeedStays
  <2> QED BY <1>3, <2>3, <2>4
<1> QED BY <1>5 DEF FeedsAgree

\* A forwarded message goes from the inbox to the buffers, or is dropped there.
LEMMA ForwardFeeds ==
  ASSUME TypeOK, FeedsAgree, NEW p \in Pumps, PumpForwards(p)
  PROVE  FeedsAgree'
<1> DEFINE m == Head(pump[p].inbox)
<1>1. /\ pump' = [pump EXCEPT ![p].inbox = Tail(pump[p].inbox)]
      /\ pump[p].inbox \in Seq(Messages) /\ pump[p].inbox # <<>>
      /\ \A k \in Sockets :
           /\ Elements(events[k]) \subseteq Elements(events'[k]) /\ skipped[k] \subseteq skipped'[k]
           /\ Subscribed(k) => m \in Elements(events'[k]) \cup skipped'[k]
  BY Forwards
<1>2. UNCHANGED <<current, past, got, whole, sock, pushed>>
  BY DEF PumpForwards, room, record
<1>3. pump \in [Pumps -> PumpStates]
  BY DEF TypeOK, PumpStates
<1>4. Elements(pump[p].inbox) = Elements(Tail(pump[p].inbox)) \cup {m}
  BY <1>1, Taken
<1> HIDE DEF m
<1>5. ASSUME NEW k \in whole' PROVE FeedAgrees(k)'
  <2>1. k \in Sockets /\ FeedAgrees(k) /\ Subscribed(k)
    BY <1>2, <1>5 DEF FeedsAgree, FeedAgrees, TypeOK
  <2>2. current \in Pumps /\ current # NULL /\ pump[current].at = "live"
    BY <2>1 DEF FeedAgrees, TypeOK
  <2>3. /\ pump'[current].at = "live"
        /\ Elements(pump[current].inbox) \subseteq Elements(pump'[current].inbox) \cup {m}
    <3>1. CASE current = p
      BY <1>1, <1>3, <1>4, <2>2, <3>1 DEF PumpStates
    <3>2. CASE current # p
      BY <1>1, <1>3, <2>2, <3>2
    <3> QED BY <3>1, <3>2
  <2>4. Coming(k) = Elements(events[k]) \cup Elements(pump[current].inbox)
    BY <2>1, <2>2, ComingElements
  <2>5. Coming(k)' = Elements(events'[k]) \cup Elements(pump'[current].inbox)
    BY <1>2, <2>1, <2>2 DEF Coming, Elements
  <2>6. Held(k) \subseteq Held(k)'
    BY <1>1, <1>2, <2>1, <2>3, <2>4, <2>5 DEF Held
  <2>7. Subscribed(k)'
    BY <1>2, <2>1 DEF Subscribed
  <2> QED BY <1>2, <2>1, <2>3, <2>6, <2>7, FeedStays
<1> QED BY <1>5 DEF FeedsAgree

\* An event is written: it leaves the buffer for what the client has.
LEMMA WriteFeeds ==
  ASSUME TypeOK, FeedsAgree, NEW k \in Sockets, Write(k)
  PROVE  FeedsAgree'
<1>1. /\ events[k] \in Seq(Messages) /\ events[k] # <<>>
      /\ events' = [events EXCEPT ![k] = Tail(events[k])] /\ got' = [got EXCEPT ![k] = got[k] \cup {Head(events[k])}]
      /\ events \in [Sockets -> Seq(Messages)] /\ got \in [Sockets -> SUBSET Messages]
  BY DEF Write, TypeOK
<1>2. UNCHANGED <<sock, current, pump, skipped, past, whole, pushed>>
  BY DEF Write, room
<1>3. Elements(events[k]) = Elements(Tail(events[k])) \cup {Head(events[k])}
  BY <1>1, Taken
<1>4. ASSUME NEW o \in whole' PROVE FeedAgrees(o)'
  <2>1. o \in Sockets /\ FeedAgrees(o) /\ Subscribed(o) /\ Subscribed(o)'
    BY <1>2, <1>4 DEF FeedsAgree, FeedAgrees, TypeOK, Subscribed
  <2>2. CASE o = k
    <3>1. events'[k] = Tail(events[k]) /\ got'[k] = got[k] \cup {Head(events[k])}
      BY <1>1
    <3>2. current # NULL /\ pump[current].at = "live"
      BY <2>1 DEF FeedAgrees
    <3>3. Coming(k) = Elements(events[k]) \cup Elements(pump[current].inbox)
      BY <3>2, ComingElements
    <3>4. Coming(k)' = Elements(events'[k]) \cup Elements(pump[current].inbox)
      BY <1>2, <3>2 DEF Coming, Elements
    <3>5. Held(k) \subseteq Held(k)'
      BY <1>2, <1>3, <3>1, <3>3, <3>4 DEF Held
    <3> QED BY <1>2, <2>1, <2>2, <3>2, <3>5, FeedStays
  <2>3. CASE o # k
    <3>1. Quiet(o)
      BY <1>1, <1>2, <2>1, <2>3 DEF Quiet
    <3> QED BY <1>2, <2>1, <3>1, FeedQuiet
  <2> QED BY <2>2, <2>3
<1> QED BY <1>4 DEF FeedsAgree

\* The current pump, if a socket counts on it, is live: it does not start, and only the
\* loss of Redis ends it.
LEMMA PumpFeeds ==
  ASSUME TypeOK, FeedsAgree, NEW p \in Pumps, PumpStep(p) \/ PumpEnd(p)
  PROVE  FeedsAgree'
<1>1. CASE PumpForwards(p)
  BY <1>1, ForwardFeeds
<1>2. CASE PumpLosesRedis(p)
  BY <1>2 DEF PumpLosesRedis, FeedsAgree
<1>3. CASE PumpStarts(p) \/ PumpReturns(p)
  <2>1. ASSUME NEW k \in whole' PROVE FeedAgrees(k)'
    <3>1. UNCHANGED <<sock, current, events, skipped, past, got, whole, pushed>>
      BY <1>3 DEF PumpStarts, PumpReturns, room, record
    <3>2. k \in Sockets /\ FeedAgrees(k) /\ Subscribed(k) /\ Subscribed(k)'
      BY <2>1, <3>1 DEF FeedsAgree, FeedAgrees, TypeOK, Subscribed
    <3>3. current \in Pumps /\ current # NULL /\ pump[current].at = "live"
      BY <3>2 DEF FeedAgrees, TypeOK
    <3>4. current # p
      BY <1>3, <3>3 DEF PumpStarts, PumpReturns
    <3>5. pump'[current] = pump[current]
      BY <1>3, <3>3, <3>4 DEF PumpStarts, PumpReturns, TypeOK
    <3>6. Coming(k)' = Coming(k)
      BY <3>1, <3>5 DEF Coming
    <3>7. Held(k)' = Held(k)
      BY <3>1, <3>6 DEF Held
    <3> QED BY <3>1, <3>2, <3>3, <3>5, <3>7, FeedStays
  <2> QED BY <2>1 DEF FeedsAgree
<1> QED BY <1>1, <1>2, <1>3 DEF PumpStep, PumpEnd

LEMMA FeedsKept ==
  ASSUME TypeOK, FeedsAgree, [Next]_vars
  PROVE  FeedsAgree'
<1>0. ASSUME NEW k \in Sockets PROVE k \in Senders
  BY DEF Senders
<1>a. ASSUME UNCHANGED <<sock, feeds, record, pushed>> PROVE FeedsAgree'
  BY <1>a, FeedsQuiet DEF Quiet, feeds, record
\* A sender that goes on.
<1>b. ASSUME NEW x \in Senders, NEW at \in Live \cup {"registered", "closed"}, Goes(x, at),
             UNCHANGED <<feeds, record, pushed>>,
             x \in Sockets => sock[x].at \in (Setup \cup Live) \ {"joining"} /\ at # "closed"
      PROVE  FeedsAgree'
  <2>1. sock'[x].at = at /\ \A y \in Senders \ {x} : sock'[y] = sock[y]
    BY <1>b, GoesOn DEF Live, Setup
  <2>2. \A k \in Sockets : sock'[k].at = sock[k].at
                           \/ (sock[k].at \in (Setup \cup Live) \ {"joining"}
                               /\ sock'[k].at \in (Setup \cup Live) \ {"joining"})
    BY <1>0, <1>b, <2>1 DEF Setup, Live
  <2>3. whole' \subseteq whole /\ \A k \in whole' : Quiet(k)
    BY <1>b DEF Quiet, feeds, record
  <2> QED BY <2>2, <2>3, FeedsQuiet
<1>1. CASE UNCHANGED vars
  BY <1>1, <1>a DEF vars, room
<1>2. ASSUME NEW k \in Sockets, NEW u \in Users, Subscribe(k, u) PROVE FeedsAgree'
  BY <1>2, SubscribeFeeds
<1>3. ASSUME NEW k \in Sockets, History(k) PROVE FeedsAgree'
  BY <1>3, HistoryFeeds
<1>4. ASSUME NEW k \in Sockets, Subscribed(k), Close(k) PROVE FeedsAgree'
  BY <1>4, CloseFeeds
<1>5. ASSUME NEW k \in Sockets, Register(k) PROVE FeedsAgree'
  <2>1. /\ Goes(k, "registered") /\ UNCHANGED <<feeds, record, pushed>>
        /\ sock[k].at \in (Setup \cup Live) \ {"joining"}
    BY <1>5 DEF Register, room, Setup
  <2> QED BY <1>0, <1>b, <2>1
<1>6. ASSUME NEW k \in Sockets, Check(k) \/ HandleIncoming(k), ~Close(k) PROVE FeedsAgree'
  <2>1. /\ Goes(k, "loop") \/ Goes(k, "send")
        /\ UNCHANGED <<feeds, record, pushed>>
        /\ sock[k].at \in (Setup \cup Live) \ {"joining"}
    BY <1>6 DEF Check, HandleIncoming, room, Setup, Live
  <2> QED BY <1>0, <1>b, <2>1 DEF Live
<1>7. ASSUME NEW x \in Senders, SendChecks(x) \/ SendFails(x) PROVE FeedsAgree'
  <2>1. /\ \E at \in {"insert", After(x)} : Goes(x, at)
        /\ UNCHANGED <<feeds, record, pushed>>
        /\ sock[x].at \in {Before(x), "insert"}
    BY <1>7 DEF SendChecks, SendFails, room
  <2>2. PICK at \in {"insert", After(x)} : Goes(x, at)
    BY <2>1
  <2>3. at \in Live \cup {"registered", "closed"} /\ (x \in Sockets => at # "closed")
    BY <2>2, AfterSend DEF Live
  <2>4. x \in Sockets => sock[x].at \in (Setup \cup Live) \ {"joining"}
    BY <2>1 DEF Before, Setup, Live
  <2> QED BY <1>b, <2>1, <2>2, <2>3, <2>4
<1>8. ASSUME NEW x \in Senders, SendStores(x) PROVE FeedsAgree'
  BY <1>8, StoreFeeds
<1>9. ASSUME NEW p \in Pumps, PumpStep(p) \/ PumpEnd(p) PROVE FeedsAgree'
  BY <1>9, PumpFeeds
<1>10. ASSUME NEW k \in Sockets, Write(k) PROVE FeedsAgree'
  BY <1>10, WriteFeeds
<1>11. ASSUME NEW k \in Sockets, Expire(k) PROVE FeedsAgree'
  BY <1>11, <1>a DEF Expire, room
<1>12. ASSUME NEW u \in Users, Mark(u) \/ WatchRevocations(u) PROVE FeedsAgree'
  BY <1>12, <1>a DEF Mark, WatchRevocations, room
<1>13. CASE CloseThread
  BY <1>13, <1>a DEF CloseThread
\* The steps of a socket that may close it.
<1>14. ASSUME NEW k \in Sockets, Check(k) \/ HandleIncoming(k) \/ LoopStep(k) \/ Leave(k) PROVE FeedsAgree'
  <2>1. Subscribed(k)
    BY <1>14
    DEF Check, HandleIncoming, LoopStep, Leave, Drop, Expiry, Heartbeat, Subscribed, Setup, Live
  <2>2. CASE Close(k)
    BY <1>4, <2>1, <2>2
  <2>3. CASE ~Close(k)
    BY <1>6, <1>14, <2>3 DEF LoopStep, Leave, Drop, Expiry, Heartbeat
  <2> QED BY <2>2, <2>3
<1> QED
  BY <1>0, <1>1, <1>2, <1>3, <1>5, <1>7, <1>8, <1>9, <1>10, <1>11, <1>12, <1>13, <1>14
  DEF Next, SocketStep, SendStep, Senders

\* chat/handler.go, Subscribe before History leaves no gap: for any number of sockets,
\* senders and pumps and any buffer, a socket that joined a feed already live has, or
\* will be handed, every message published, except what its full buffer dropped.
THEOREM LiveMissesNothing ==
  Spec => []JoinedLiveMissesNothing
<1>1. Init => TypeOK /\ FeedsAgree
  BY TypeAtInit DEF Init, FeedsAgree
<1>2. (TypeOK /\ FeedsAgree) /\ [Next]_vars => (TypeOK /\ FeedsAgree)'
  BY TypeKept, FeedsKept
<1>3. FeedsAgree => JoinedLiveMissesNothing
  BY DEF FeedsAgree, FeedAgrees, JoinedLiveMissesNothing, Live
<1> QED BY <1>1, <1>2, <1>3, PTL DEF Spec
-----------------------------------------------------------------------------
(* One feed sends a message once *)

LEMMA DistinctGrows ==
  ASSUME NEW s \in Seq(Messages), NEW m \in Messages, Distinct(s), m \notin Elements(s)
  PROVE  Distinct(Append(s, m))
<1>1. /\ \A i \in 1..Len(s) : Append(s, m)[i] = s[i]
      /\ Append(s, m)[Len(s) + 1] = m
      /\ Append(s, m) \in Seq(Messages) /\ Len(Append(s, m)) = Len(s) + 1
  BY AppendProperties
<1>2. DOMAIN Append(s, m) = 1..Len(s) + 1 /\ DOMAIN s = 1..Len(s) /\ Len(s) \in Nat
  BY <1>1, LenProperties
<1>3. ASSUME NEW i \in 1..Len(s) + 1, NEW j \in 1..Len(s) + 1, Append(s, m)[i] = Append(s, m)[j]
      PROVE  i = j
  <2>1. \A h \in 1..Len(s) : s[h] # m
    BY <1>2 DEF Elements
  <2>2. i \in 1..Len(s) \/ i = Len(s) + 1
    BY <1>2
  <2>3. j \in 1..Len(s) \/ j = Len(s) + 1
    BY <1>2
  <2> QED BY <1>1, <1>2, <1>3, <2>1, <2>2, <2>3 DEF Distinct
<1> QED BY <1>2, <1>3 DEF Distinct

LEMMA DistinctShrinks ==
  ASSUME NEW s \in Seq(Messages), s # <<>>, Distinct(s)
  PROVE  Distinct(Tail(s)) /\ Head(s) \notin Elements(Tail(s))
<1>1. /\ Tail(s) \in Seq(Messages) /\ Len(Tail(s)) = Len(s) - 1
      /\ \A i \in 1..Len(Tail(s)) : Tail(s)[i] = s[i + 1]
  BY HeadTailProperties
<1>2. DOMAIN Tail(s) = 1..Len(s) - 1 /\ DOMAIN s = 1..Len(s) /\ Len(s) \in Nat \ {0} /\ Head(s) = s[1]
  BY <1>1, LenProperties, EmptySeq
<1>3. \A i \in DOMAIN Tail(s) : i \in Nat /\ i + 1 \in DOMAIN s /\ Tail(s)[i] = s[i + 1]
  BY <1>1, <1>2
<1>4. Distinct(Tail(s))
  <2> SUFFICES ASSUME NEW i \in DOMAIN Tail(s), NEW j \in DOMAIN Tail(s), Tail(s)[i] = Tail(s)[j]
               PROVE  i = j
    BY DEF Distinct
  <2>1. i + 1 = j + 1
    BY <1>3 DEF Distinct
  <2> QED BY <1>3, <2>1
<1>5. ASSUME NEW i \in DOMAIN Tail(s) PROVE Tail(s)[i] # Head(s)
  <2>1. i + 1 # 1 /\ 1 \in DOMAIN s
    BY <1>2, <1>3
  <2> QED BY <1>2, <1>3, <2>1 DEF Distinct
<1> QED BY <1>4, <1>5 DEF Elements

LEMMA NothingTwice ==
  Elements(<<>>) = {} /\ Distinct(<<>>)
BY DEF Elements, Distinct

\* A step that touches no feed, and closes no socket.
LEMMA ApartQuiet ==
  ASSUME FeedsApart, UNCHANGED <<current, pump, events, got, twice, pushed>>,
         \A k \in Sockets : Subscribed(k)' \/ ~Subscribed(k)
  PROVE  FeedsApart'
BY DEF FeedsApart, InboxApart, BufferApart, SentOnce

\* The first subscriber's pump has nothing yet, and no other socket has.
LEMMA SubscribeApart ==
  ASSUME TypeOK, FeedsApart, NEW k \in Sockets, NEW u \in Users, Subscribe(k, u)
  PROVE  FeedsApart'
<1>1. UNCHANGED <<events, got, twice, pushed>>
  BY DEF Subscribe, room
<1>2. Subscribed(k)' /\ \A o \in Sockets \ {k} : Subscribed(o)' = Subscribed(o)
  BY DEF Subscribe, TypeOK, Senders, Subscribed, Setup
<1>3. CASE UNCHANGED <<current, pump>>
  BY <1>1, <1>2, <1>3, ApartQuiet
<1>4. CASE current = NULL /\ ~UNCHANGED <<current, pump>>
  <2>1. PICK p \in Pumps : /\ pump[p].at = "none"
                           /\ pump' = [pump EXCEPT ![p].at = "starting"] /\ current' = p
    BY <1>4 DEF Subscribe
  <2>2. pump \in [Pumps -> PumpStates] /\ pump[p].inbox = <<>>
    BY <2>1 DEF TypeOK, PumpStates, FeedsApart, InboxApart
  <2>3. pump'[p].at = "starting" /\ \A q \in Pumps : pump'[q].inbox = pump[q].inbox
    BY <2>1, <2>2 DEF PumpStates
  <2>4. \A q \in Pumps \ {p} : pump'[q] = pump[q]
    BY <2>1, <2>2
  <2>5. \A q \in Pumps : InboxApart(q)'
    BY <1>1, <2>2, <2>3, <2>4 DEF FeedsApart, InboxApart
  <2>6. ASSUME NEW o \in Sockets PROVE BufferApart(o)'
    <3>1. BufferApart(o)
      BY DEF FeedsApart
    <3>2. Elements(pump'[current'].inbox) = {}
      BY <2>1, <2>2, <2>3, NothingTwice
    <3> QED BY <1>1, <1>2, <3>1, <3>2 DEF BufferApart
  <2> QED BY <1>1, <2>1, <2>3, <2>5, <2>6 DEF FeedsApart, SentOnce
<1> QED BY <1>3, <1>4 DEF Subscribe

LEMMA CloseApart ==
  ASSUME TypeOK, FeedsApart, NEW k \in Sockets, Subscribed(k), Close(k)
  PROVE  FeedsApart'
<1>1. UNCHANGED <<pump, twice, pushed>> /\ current' \in {current, NULL}
  BY DEF Close, room
<1>2. /\ events'[k] = <<>> /\ got'[k] = {}
      /\ \A o \in Sockets \ {k} : events'[o] = events[o] /\ got'[o] = got[o] /\ Subscribed(o)' = Subscribed(o)
  BY Closes DEF Close, TypeOK, Senders, Subscribed
<1>3. ASSUME NEW o \in Sockets PROVE BufferApart(o)'
  <2>1. CASE o = k
    BY <1>2, <2>1, NothingTwice DEF BufferApart
  <2>2. CASE o # k
    <3>1. BufferApart(o) /\ o \in Sockets \ {k}
      BY <2>2 DEF FeedsApart
    <3> QED BY <1>1, <1>2, <3>1 DEF BufferApart
  <2> QED BY <2>1, <2>2
<1> QED BY <1>1, <1>3 DEF FeedsApart, InboxApart, SentOnce

\* A message is published once, so it is new to every inbox, buffer and client.
LEMMA StoreApart ==
  ASSUME TypeOK, FeedsApart, NEW x \in Senders, SendStores(x)
  PROVE  FeedsApart'
<1>1. Goes(x, After(x)) /\ sock[x].at = "insert" /\ UNCHANGED <<current, events, got, twice>>
  BY DEF SendStores, record
<1>2. \A k \in Sockets : Subscribed(k)' <=> Subscribed(k)
  <2>1. After(x) \in Live \cup {"closed"} /\ (x \in Sockets => Subscribed(x) /\ After(x) # "closed")
    BY <1>1, AfterSend, InSend
  <2> QED BY <1>1, <2>1, GoesWithin
<1>3. CASE UNCHANGED <<pushed, pump>>
  BY <1>1, <1>2, <1>3, ApartQuiet
<1>4. CASE Publish(stored')
  <2>1. PICK n \in Messages : stored' = n /\ n \notin pushed
    BY RoomAssumption DEF SendStores, CreateChatMessage, TypeOK, Messages
  <2>2. /\ pushed' = pushed \cup {n}
        /\ \A p \in Pumps : pump'[p] = IF pump[p].at = "live"
                              THEN [pump[p] EXCEPT !.inbox = Append(@, n)] ELSE pump[p]
    BY <1>4, <2>1 DEF Publish
  <2>3. ASSUME NEW p \in Pumps
        PROVE  /\ InboxApart(p)' /\ pump'[p].at = pump[p].at
               /\ Elements(pump'[p].inbox) \subseteq Elements(pump[p].inbox) \cup {n}
    <3>1. InboxApart(p) /\ pump[p] \in PumpStates /\ pump[p].inbox \in Seq(Messages)
      BY DEF FeedsApart, TypeOK, PumpStates
    <3>2. CASE pump[p].at = "live"
      <4>1. pump'[p].at = "live" /\ pump'[p].inbox = Append(pump[p].inbox, n)
        BY <2>2, <3>1, <3>2 DEF PumpStates
      <4>2. Elements(Append(pump[p].inbox, n)) = Elements(pump[p].inbox) \cup {n}
        BY <3>1, Appended
      <4>3. n \notin Elements(pump[p].inbox)
        BY <2>1, <3>1 DEF InboxApart
      <4>4. Distinct(Append(pump[p].inbox, n))
        BY <3>1, <4>3, DistinctGrows DEF InboxApart
      <4> QED BY <2>2, <3>1, <3>2, <4>1, <4>2, <4>4 DEF InboxApart
    <3>3. CASE pump[p].at # "live"
      BY <2>2, <3>1, <3>3 DEF InboxApart
    <3> QED BY <3>2, <3>3
  <2>4. ASSUME NEW k \in Sockets PROVE BufferApart(k)'
    <3>1. BufferApart(k) /\ events'[k] = events[k] /\ got'[k] = got[k]
      BY <1>1 DEF FeedsApart
    <3>2. current # NULL => Elements(pump'[current].inbox) \cap (Elements(events[k]) \cup got[k]) = {}
      <4>1. n \notin Elements(events[k]) \cup got[k]
        BY <2>1, <3>1 DEF BufferApart
      <4> QED BY <2>3, <3>1, <4>1 DEF BufferApart, TypeOK
    <3> QED BY <1>1, <1>2, <2>2, <3>1, <3>2 DEF BufferApart
  <2>5. current # NULL => pump'[current].at \in {"starting", "live"}
    BY <2>3 DEF FeedsApart, TypeOK
  <2> QED BY <1>1, <2>3, <2>4, <2>5 DEF FeedsApart, SentOnce
<1> QED BY <1>3, <1>4 DEF SendStores

\* What a live pump forwards goes to sockets it is the pump of: with one feed it is the
\* current one, or no socket is subscribed.
LEMMA ForwardApart ==
  ASSUME TypeOK, FeedsApart, OneFeed, NEW p \in Pumps, PumpForwards(p)
  PROVE  FeedsApart'
<1> DEFINE m == Head(pump[p].inbox)
<1>1. /\ m \in Messages /\ pump' = [pump EXCEPT ![p].inbox = Tail(pump[p].inbox)]
      /\ pump[p].inbox \in Seq(Messages) /\ pump[p].inbox # <<>> /\ pump[p].at = "live"
      /\ pump \in [Pumps -> PumpStates]
  BY Forwards DEF PumpForwards, TypeOK, PumpStates
<1>2. Elements(pump[p].inbox) = Elements(Tail(pump[p].inbox)) \cup {m}
  BY <1>1, Taken
<1>3. Distinct(Tail(pump[p].inbox)) /\ m \notin Elements(Tail(pump[p].inbox)) /\ m \in pushed
  BY <1>1, <1>2, DistinctShrinks DEF FeedsApart, InboxApart
<1>4. /\ \A k \in Sockets : events'[k] = events[k] \/ (Subscribed(k) /\ events'[k] = Append(events[k], m))
      /\ UNCHANGED <<sock, current, got, twice, pushed>>
  BY DEF PumpForwards, room, record
<1> HIDE DEF m
<1>5. /\ pump'[p].at = "live" /\ pump'[p].inbox = Tail(pump[p].inbox)
      /\ \A q \in Pumps \ {p} : pump'[q] = pump[q]
  BY <1>1 DEF PumpStates
<1>6. ASSUME NEW q \in Pumps PROVE InboxApart(q)' /\ pump'[q].at = pump[q].at
  <2>1. InboxApart(q)
    BY DEF FeedsApart
  <2>2. CASE q = p
    BY <1>1, <1>2, <1>3, <1>4, <1>5, <2>1, <2>2 DEF InboxApart
  <2>3. CASE q # p
    BY <1>4, <1>5, <2>1, <2>3 DEF InboxApart
  <2> QED BY <2>2, <2>3
<1>7. current \in {p, NULL}
  BY <1>1 DEF OneFeed, FeedsApart, TypeOK
<1>8. ASSUME NEW k \in Sockets PROVE BufferApart(k)'
  <2>1. BufferApart(k) /\ Subscribed(k)' = Subscribed(k)
    BY <1>4 DEF FeedsApart, Subscribed
  <2>2. CASE events'[k] = events[k]
    <3>1. current # NULL => Elements(pump'[current].inbox) \subseteq Elements(pump[current].inbox)
      BY <1>2, <1>5, <1>7
    <3> QED BY <1>4, <2>1, <2>2, <3>1 DEF BufferApart
  <2>3. CASE Subscribed(k) /\ events'[k] = Append(events[k], m)
    <3>1. current = p /\ current # NULL
      BY <1>7, <2>3 DEF TypeOK
    <3>2. m \notin Elements(events[k]) /\ m \notin got[k]
      BY <1>2, <2>1, <3>1 DEF BufferApart
    <3>3. events[k] \in Seq(Messages)
      BY DEF TypeOK
    <3>4. /\ Distinct(events'[k]) /\ Elements(events'[k]) = Elements(events[k]) \cup {m}
      BY <1>1, <2>1, <2>3, <3>2, <3>3, Appended, DistinctGrows DEF BufferApart
    <3>5. Elements(pump'[current].inbox) \cap (Elements(events'[k]) \cup got[k]) = {}
      BY <1>2, <1>3, <1>5, <2>1, <3>1, <3>4 DEF BufferApart
    <3> QED BY <1>3, <1>4, <2>1, <2>3, <3>2, <3>4, <3>5 DEF BufferApart
  <2> QED BY <1>4, <2>2, <2>3
<1> QED BY <1>4, <1>6, <1>7, <1>8 DEF FeedsApart, SentOnce

\* What is written to a client was waiting for it, so it was not sent before.
LEMMA WriteApart ==
  ASSUME TypeOK, FeedsApart, NEW k \in Sockets, Write(k)
  PROVE  FeedsApart'
<1>1. /\ events[k] \in Seq(Messages) /\ events[k] # <<>>
      /\ events'[k] = Tail(events[k]) /\ got'[k] = got[k] \cup {Head(events[k])}
      /\ \A o \in Sockets \ {k} : events'[o] = events[o] /\ got'[o] = got[o]
      /\ UNCHANGED <<sock, current, pump, pushed>>
      /\ twice' = IF Head(events[k]) \in got[k] THEN twice \cup {k} ELSE twice
  BY DEF Write, TypeOK, room
<1>2. BufferApart(k) /\ Subscribed(k)
  BY DEF FeedsApart, Write, Subscribed, Live
<1>3. Elements(events[k]) = Elements(Tail(events[k])) \cup {Head(events[k])}
  BY <1>1, Taken
<1>4. Distinct(Tail(events[k])) /\ Head(events[k]) \notin Elements(Tail(events[k]))
  BY <1>1, <1>2, DistinctShrinks DEF BufferApart
<1>5. twice' = twice
  BY <1>1, <1>2, <1>3 DEF BufferApart
<1>6. ASSUME NEW o \in Sockets PROVE BufferApart(o)'
  <2>1. CASE o = k
    BY <1>1, <1>2, <1>3, <1>4, <2>1 DEF BufferApart, Subscribed
  <2>2. CASE o # k
    BY <1>1, <2>2 DEF FeedsApart, BufferApart, Subscribed
  <2> QED BY <2>1, <2>2
<1> QED BY <1>1, <1>5, <1>6 DEF FeedsApart, InboxApart, SentOnce

\* A pump that starts, ends or loses Redis hands nothing on.
LEMMA PumpApart ==
  ASSUME TypeOK, FeedsApart, OneFeed, NEW p \in Pumps, PumpStep(p) \/ PumpEnd(p)
  PROVE  FeedsApart'
<1>1. CASE PumpForwards(p)
  BY <1>1, ForwardApart
<1>2. CASE PumpStarts(p) \/ PumpLosesRedis(p) \/ PumpReturns(p)
  <2>1. UNCHANGED <<sock, current, events, got, twice, pushed>>
    BY <1>2 DEF PumpStarts, PumpLosesRedis, PumpReturns, room, record
  <2>2. /\ \A q \in Pumps \ {p} : pump'[q] = pump[q]
        /\ pump'[p].inbox = <<>>
        /\ current = p => pump'[p].at \in {"starting", "live"}
    <3>1. pump \in [Pumps -> PumpStates] /\ InboxApart(p)
      BY DEF TypeOK, PumpStates, FeedsApart
    <3> QED BY <1>2, <3>1 DEF PumpStarts, PumpLosesRedis, PumpReturns, PumpStates, InboxApart
  <2>3. ASSUME NEW q \in Pumps PROVE InboxApart(q)'
    <3>1. CASE q = p
      BY <2>2, <3>1, NothingTwice DEF InboxApart
    <3>2. CASE q # p
      BY <2>1, <2>2, <3>2 DEF FeedsApart, InboxApart
    <3> QED BY <3>1, <3>2
  <2>4. ASSUME NEW k \in Sockets PROVE BufferApart(k)'
    <3>1. BufferApart(k) /\ Subscribed(k)' = Subscribed(k)
      BY <2>1 DEF FeedsApart, Subscribed
    <3>2. current # NULL => Elements(pump'[current].inbox) \subseteq Elements(pump[current].inbox)
      <4>1. CASE current = p
        BY <2>2, <4>1, NothingTwice
      <4>2. CASE current \in Pumps \ {p}
        BY <2>2, <4>2
      <4> QED BY <4>1, <4>2 DEF TypeOK
    <3> QED BY <2>1, <3>1, <3>2 DEF BufferApart
  <2>5. current # NULL => pump'[current].at \in {"starting", "live"}
    BY <2>2 DEF FeedsApart, TypeOK
  <2> QED BY <2>1, <2>3, <2>4, <2>5 DEF FeedsApart, SentOnce
<1> QED BY <1>1, <1>2 DEF PumpStep, PumpEnd

LEMMA ApartKept ==
  ASSUME TypeOK, FeedsApart, OneFeed, [Next]_vars
  PROVE  FeedsApart'
\* A sender that goes on.
<1>a. ASSUME NEW x \in Senders, NEW at \in Live \cup {"joined", "registered", "closed"}, Goes(x, at),
             x \in Sockets => Subscribed(x) /\ at # "closed", UNCHANGED <<feeds, record, pushed>>
      PROVE  FeedsApart'
  BY <1>a, GoesWithin, ApartQuiet DEF feeds, record
<1>b. ASSUME UNCHANGED <<sock, feeds, record, pushed>> PROVE FeedsApart'
  BY <1>b, ApartQuiet DEF feeds, record, Subscribed
<1>0. ASSUME NEW k \in Sockets PROVE k \in Senders
  BY DEF Senders
<1>1. CASE UNCHANGED vars
  BY <1>1, <1>b DEF vars, room
<1>2. ASSUME NEW k \in Sockets, NEW u \in Users, Subscribe(k, u) PROVE FeedsApart'
  BY <1>2, SubscribeApart
<1>3. ASSUME NEW k \in Sockets, History(k) PROVE FeedsApart'
  <2>1. /\ Goes(k, "joined") /\ Subscribed(k)
        /\ UNCHANGED <<current, pump, events, got, twice, pushed>>
    BY <1>3 DEF History, Subscribed, Setup, room, feeds
  <2>2. \A o \in Sockets : Subscribed(o)' <=> Subscribed(o)
    BY <1>0, <2>1, GoesWithin
  <2> QED BY <2>1, <2>2, ApartQuiet
<1>4. ASSUME NEW k \in Sockets, Register(k) PROVE FeedsApart'
  <2>1. Goes(k, "registered") /\ Subscribed(k) /\ UNCHANGED <<feeds, record, pushed>>
    BY <1>4 DEF Register, Subscribed, Setup, room
  <2> QED BY <1>0, <1>a, <2>1
<1>5. ASSUME NEW k \in Sockets, Check(k) \/ HandleIncoming(k) \/ LoopStep(k) \/ Leave(k) PROVE FeedsApart'
  <2>1. Subscribed(k)
    BY <1>5
    DEF Check, HandleIncoming, LoopStep, Leave, Drop, Expiry, Heartbeat, Subscribed, Setup, Live
  <2>2. CASE Close(k)
    BY <2>1, <2>2, CloseApart
  <2>3. CASE ~Close(k)
    <3>1. PICK at \in {"loop", "send"} : Goes(k, at) /\ UNCHANGED <<feeds, record, pushed>>
      BY <1>5, <2>3 DEF Check, HandleIncoming, LoopStep, Leave, Drop, Expiry, Heartbeat, room
    <3> QED BY <1>0, <1>a, <2>1, <3>1 DEF Live
  <2> QED BY <2>2, <2>3
<1>6. ASSUME NEW x \in Senders, SendChecks(x) \/ SendFails(x) PROVE FeedsApart'
  <2>1. PICK at \in {"insert", After(x)} : Goes(x, at)
    BY <1>6 DEF SendChecks, SendFails
  <2>2. at \in Live \cup {"joined", "registered", "closed"} /\ (x \in Sockets => Subscribed(x) /\ at # "closed")
    BY <1>6, <2>1, AfterSend, InSend DEF Live, SendChecks, SendFails
  <2>3. UNCHANGED <<feeds, record, pushed>>
    BY <1>6 DEF SendChecks, SendFails, room
  <2> QED BY <1>a, <2>1, <2>2, <2>3
<1>7. ASSUME NEW x \in Senders, SendStores(x) PROVE FeedsApart'
  BY <1>7, StoreApart
<1>8. ASSUME NEW p \in Pumps, PumpStep(p) \/ PumpEnd(p) PROVE FeedsApart'
  BY <1>8, PumpApart
<1>9. ASSUME NEW k \in Sockets, Write(k) PROVE FeedsApart'
  BY <1>9, WriteApart
<1>10. ASSUME NEW k \in Sockets, Expire(k) PROVE FeedsApart'
  BY <1>10, <1>b DEF Expire, room
<1>11. ASSUME NEW u \in Users, Mark(u) \/ WatchRevocations(u) PROVE FeedsApart'
  BY <1>11, <1>b DEF Mark, WatchRevocations, room
<1>12. CASE CloseThread
  BY <1>12, <1>b DEF CloseThread
<1> QED
  BY <1>0, <1>1, <1>2, <1>3, <1>4, <1>5, <1>6, <1>7, <1>8, <1>9, <1>10, <1>11, <1>12
  DEF Next, SocketStep, SendStep, Senders

LEMMA ApartAtInit ==
  ASSUME Init
  PROVE  FeedsApart
<1>1. \A p \in Pumps : InboxApart(p)
  BY NothingTwice DEF Init, InboxApart
<1>2. \A k \in Sockets : BufferApart(k)
  BY NothingTwice DEF Init, BufferApart
<1> QED BY <1>1, <1>2 DEF Init, FeedsApart, SentOnce

\* chat/hub.go:157-158, as far as the code keeps it: two pumps at once, the cancelled one
\* not yet returned, are the only way a socket is sent a message in two events.  While
\* no two run, none is, for any number of sockets, senders, messages, losses of Redis and
\* any size of buffer.
THEOREM OneFeedSendsOnce ==
  Spec /\ []OneFeed => []SentOnce
<1>1. Init => TypeOK /\ FeedsApart
  BY TypeAtInit, ApartAtInit
<1>2. (TypeOK /\ FeedsApart) /\ OneFeed /\ [Next]_vars => (TypeOK /\ FeedsApart)'
  BY TypeKept, ApartKept
<1>3. FeedsApart => SentOnce
  BY DEF FeedsApart
<1> QED BY <1>1, <1>2, <1>3, PTL DEF Spec
=============================================================================
