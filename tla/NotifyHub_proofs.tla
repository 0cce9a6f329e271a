----------------------------- MODULE NotifyHub_proofs -----------------------------
(***************************************************************************)
(* What NotifyHub guarantees for any number of clients, feeds, results and  *)
(* faults, and any size of buffer.                                          *)
(***************************************************************************)
EXTENDS NotifyHub, SequenceTheorems, TLAPS

Events     == Results \cup {READY}
FeedStates == [at : {"none", "starting", "subscribed", "live", "down"},
               subs : SUBSET Clients, inbox : Seq(Events)]
SockStates == [feed : Feeds \cup {NULL}, told : BOOLEAN, cut : BOOLEAN]

\* A socket that was told ready has a feed that has been live.
ToldIsLive ==
  \A c \in Clients : Up(c) /\ sock[c].told /\ ~sock[c].cut => feed[users].at \in {"live", "down"}

\* A socket that is not up was told nothing.
ToldIsUp == \A c \in Clients : sock[c].told => Up(c)

Inv == TypeOK /\ ToldIsUp /\ ToldIsLive /\ NothingFallsBetween
-----------------------------------------------------------------------------
(* Sequences of events *)

Elements(s) == {s[i] : i \in DOMAIN s}

LEMMA Appended ==
  ASSUME NEW s \in Seq(Events), NEW e \in Events
  PROVE  /\ Append(s, e) \in Seq(Events) /\ Len(Append(s, e)) = Len(s) + 1 /\ Len(s) \in Nat
         /\ Elements(Append(s, e)) = Elements(s) \cup {e}
<1>1. /\ Append(s, e) \in Seq(Events) /\ Len(Append(s, e)) = Len(s) + 1
      /\ \A i \in 1..Len(s) : Append(s, e)[i] = s[i]
      /\ Append(s, e)[Len(s) + 1] = e
  BY AppendProperties
<1>2. DOMAIN Append(s, e) = 1..Len(s) + 1 /\ DOMAIN s = 1..Len(s) /\ Len(s) \in Nat
  BY <1>1, LenProperties
<1>3. 1..Len(s) + 1 = (1..Len(s)) \cup {Len(s) + 1}
  BY <1>2
<1>4. Elements(Append(s, e)) = Elements(s) \cup {e}
  BY <1>1, <1>2, <1>3 DEF Elements
<1> QED BY <1>1, <1>2, <1>4

LEMMA Taken ==
  ASSUME NEW s \in Seq(Events), s # <<>>
  PROVE  /\ Head(s) \in Events /\ Tail(s) \in Seq(Events) /\ Len(Tail(s)) = Len(s) - 1 /\ Len(s) \in Nat
         /\ Elements(s) = Elements(Tail(s)) \cup {Head(s)}
<1>1. /\ Head(s) \in Events /\ Tail(s) \in Seq(Events) /\ Len(Tail(s)) = Len(s) - 1
      /\ \A i \in 1..Len(Tail(s)) : Tail(s)[i] = s[i + 1]
  BY HeadTailProperties
<1>2. DOMAIN Tail(s) = 1..Len(s) - 1 /\ DOMAIN s = 1..Len(s) /\ Len(s) \in Nat \ {0} /\ Head(s) = s[1]
  BY <1>1, LenProperties, EmptySeq
<1>3. ASSUME NEW i \in 1..Len(s) PROVE s[i] \in Elements(Tail(s)) \cup {Head(s)}
  <2>1. CASE i = 1
    BY <1>2, <2>1
  <2>2. CASE i # 1
    <3>1. i - 1 \in DOMAIN Tail(s) /\ Tail(s)[i - 1] = s[i]
      BY <1>1, <1>2, <2>2
    <3> QED BY <3>1 DEF Elements
  <2> QED BY <2>1, <2>2
<1>4. ASSUME NEW i \in DOMAIN Tail(s) PROVE Tail(s)[i] \in Elements(s)
  <2>1. i + 1 \in DOMAIN s /\ Tail(s)[i] = s[i + 1]
    BY <1>1, <1>2
  <2> QED BY <2>1 DEF Elements
<1>5. Head(s) \in Elements(s)
  BY <1>2 DEF Elements
<1> QED BY <1>1, <1>2, <1>3, <1>4, <1>5 DEF Elements
-----------------------------------------------------------------------------
(* Types *)

\* TypeOK in two parts: what each variable holds, and how feeds and sockets fit.
Types ==
  /\ stored \in 0..MaxResults /\ unpushed \subseteq 1..stored /\ lost \subseteq 1..stored
  /\ users \in Feeds \cup {NULL}
  /\ feed \in [Feeds -> FeedStates]
  /\ sock \in [Clients -> SockStates]
  /\ events \in [Clients -> Seq(Events)]
  /\ \A c \in Clients : Len(events[c]) <= Buffer
  /\ asks \subseteq Clients /\ known \in [Clients -> SUBSET Results]
  /\ faults \in 0..MaxFaults

Fits ==
  /\ \A f \in Feeds \ {users} : feed[f].subs = {}
  /\ users # NULL => feed[users].at # "none" /\ feed[users].subs # {}
  /\ \A c \in Clients : Up(c) /\ ~sock[c].cut => sock[c].feed = users /\ c \in feed[users].subs

LEMMA Parts == TypeOK <=> Types /\ Fits
BY DEF TypeOK, Types, Fits, FeedStates, SockStates, Events

LEMMA FaultType ==
  ASSUME Types, Fault
  PROVE  faults' \in 0..MaxFaults
BY HubAssumption DEF Types, Fault

LEMMA WorkTypes ==
  ASSUME TypeOK, Store \/ \E n \in Results : Publish(n)
  PROVE  TypeOK'
<1>0. Types /\ Fits
  BY Parts
<1>1. CASE Store
  <2>1. stored' \in 0..MaxResults /\ unpushed' \subseteq 1..stored' /\ lost' \subseteq 1..stored'
    BY <1>0, <1>1, HubAssumption DEF Store, Types
  <2>2. Types'
    BY <1>0, <1>1, <2>1 DEF Store, Types, hub, client
  <2>3. Fits'
    BY <1>0, <1>1 DEF Store, Fits, Up, hub
  <2> QED BY <2>2, <2>3, Parts, PTL
<1>2. ASSUME NEW n \in Results, Publish(n) PROVE TypeOK'
  <2>1. feed' \in [Feeds -> FeedStates] /\ \A f \in Feeds : feed'[f].subs = feed[f].subs /\ feed'[f].at = feed[f].at
    <3>1. CASE UNCHANGED feed
      BY <1>0, <3>1 DEF Types
    <3>2. CASE feed' = [f \in Feeds |-> IF feed[f].at \in {"subscribed", "live"}
                          THEN [feed[f] EXCEPT !.inbox = Append(feed[f].inbox, n)] ELSE feed[f]]
      <4>1. ASSUME NEW f \in Feeds
            PROVE  /\ [feed[f] EXCEPT !.inbox = Append(feed[f].inbox, n)] \in FeedStates
                   /\ [feed[f] EXCEPT !.inbox = Append(feed[f].inbox, n)].subs = feed[f].subs
                   /\ [feed[f] EXCEPT !.inbox = Append(feed[f].inbox, n)].at = feed[f].at
        <5>1. feed[f] \in FeedStates
          BY <1>0 DEF Types
        <5>2. Append(feed[f].inbox, n) \in Seq(Events)
          BY <5>1, Appended DEF FeedStates, Events
        <5> QED BY <5>1, <5>2 DEF FeedStates
      <4>2. \A f \in Feeds : feed[f] \in FeedStates
        BY <1>0 DEF Types
      <4> QED BY <3>2, <4>1, <4>2
    <3> QED BY <1>2, <3>1, <3>2 DEF Publish
  <2>2. lost' \subseteq 1..stored' /\ unpushed' \subseteq 1..stored' /\ faults' \in 0..MaxFaults
    BY <1>0, <1>2, FaultType DEF Publish, Types
  <2>3. Types'
    BY <1>0, <1>2, <2>1, <2>2 DEF Publish, Types, client
  <2>4. Fits'
    BY <1>0, <1>2, <2>1 DEF Publish, Fits, Up, Types
  <2> QED BY <2>3, <2>4, Parts, PTL
<1> QED BY <1>1, <1>2

LEMMA SubscribeTypes ==
  ASSUME TypeOK, NEW c \in Clients, Subscribe(c)
  PROVE  /\ TypeOK' /\ users' # NULL
         /\ sock'[c].feed = users' /\ sock'[c].told = sock[c].told /\ sock'[c].cut = sock[c].cut
         /\ \A d \in Clients \ {c} : sock'[d] = sock[d]
         /\ users # NULL => users' = users /\ \A f \in Feeds : feed'[f].at = feed[f].at /\ feed'[f].inbox = feed[f].inbox
<1>0. Types /\ Fits /\ \A d \in Clients : sock[d] \in SockStates
  BY Parts DEF Types
<1>s. ASSUME NEW f \in Feeds, sock' = [sock EXCEPT ![c].feed = f]
      PROVE  /\ sock' \in [Clients -> SockStates]
             /\ sock'[c].feed = f /\ sock'[c].told = sock[c].told /\ sock'[c].cut = sock[c].cut
             /\ \A d \in Clients \ {c} : sock'[d] = sock[d]
  BY <1>0, <1>s DEF Types, SockStates
<1>1. CASE /\ users # NULL /\ UNCHANGED users
           /\ feed' = [feed EXCEPT ![users].subs = feed[users].subs \cup {c}]
           /\ sock' = [sock EXCEPT ![c].feed = users]
  <2>0. users \in Feeds /\ feed[users] \in FeedStates
    BY <1>0, <1>1 DEF Types
  <2>1. /\ feed' \in [Feeds -> FeedStates]
        /\ \A f \in Feeds : feed'[f].at = feed[f].at /\ feed'[f].inbox = feed[f].inbox
        /\ feed'[users].subs = feed[users].subs \cup {c}
        /\ \A f \in Feeds \ {users} : feed'[f] = feed[f]
    BY <1>0, <1>1, <2>0 DEF Types, FeedStates
  <2>2. /\ sock' \in [Clients -> SockStates]
        /\ sock'[c].feed = users /\ sock'[c].told = sock[c].told /\ sock'[c].cut = sock[c].cut
        /\ \A d \in Clients \ {c} : sock'[d] = sock[d]
    BY <1>1, <1>s, <2>0
  <2>3. Types'
    BY <1>0, <1>1, <2>1, <2>2 DEF Subscribe, Types, work, client
  <2>4. Fits'
    BY <1>0, <1>1, <2>0, <2>1, <2>2 DEF Fits, Up
  <2>5. TypeOK'
    BY <2>3, <2>4, Parts, PTL
  <2> QED BY <1>1, <2>1, <2>2, <2>5
<1>2. ASSUME users = NULL, NEW f \in Feeds, users' = f,
             feed' = [feed EXCEPT ![f] = [at |-> "starting", subs |-> {c}, inbox |-> <<>>]],
             sock' = [sock EXCEPT ![c].feed = f]
      PROVE  /\ TypeOK' /\ users' # NULL
             /\ sock'[c].feed = users' /\ sock'[c].told = sock[c].told /\ sock'[c].cut = sock[c].cut
             /\ \A d \in Clients \ {c} : sock'[d] = sock[d]
  <2>0. f # NULL
    BY HubAssumption
  <2>1. /\ feed' \in [Feeds -> FeedStates] /\ feed'[f].at = "starting" /\ feed'[f].subs = {c}
        /\ \A g \in Feeds \ {f} : feed'[g] = feed[g]
    <3>1. [at |-> "starting", subs |-> {c}, inbox |-> <<>>] \in FeedStates
      BY DEF FeedStates
    <3> QED BY <1>0, <1>2, <3>1 DEF Types
  <2>2. /\ sock' \in [Clients -> SockStates]
        /\ sock'[c].feed = f /\ sock'[c].told = sock[c].told /\ sock'[c].cut = sock[c].cut
        /\ \A d \in Clients \ {c} : sock'[d] = sock[d]
    BY <1>2, <1>s
  <2>3. Types'
    BY <1>0, <1>2, <2>1, <2>2 DEF Subscribe, Types, work, client
  <2>4. \A d \in Clients \ {c} : ~(Up(d) /\ ~sock[d].cut)
    BY <1>0, <1>2 DEF Fits, Up
  <2>5. \A g \in Feeds \ {users'} : feed'[g].subs = {}
    BY <1>0, <1>2, <2>1, HubAssumption DEF Fits
  <2>6. ASSUME NEW d \in Clients, Up(d)', ~sock'[d].cut
        PROVE  sock'[d].feed = users' /\ d \in feed'[users'].subs
    <3>1. CASE d = c
      BY <1>2, <2>1, <2>2, <3>1
    <3>2. CASE d # c
      BY <2>2, <2>4, <2>6, <3>2 DEF Up
    <3> QED BY <3>1, <3>2
  <2>7. Fits'
    BY <1>2, <2>0, <2>1, <2>5, <2>6 DEF Fits
  <2>8. TypeOK'
    BY <2>3, <2>7, Parts, PTL
  <2> QED BY <1>2, <2>0, <2>2, <2>8
<1> QED BY <1>1, <1>2 DEF Subscribe

\* The sockets left behind keep their feed, and the user does while one is left.
LEMMA UnsubscribeTypes ==
  ASSUME TypeOK, NEW c \in Clients, Unsubscribe(c), UNCHANGED <<work, known>>, faults' \in 0..MaxFaults
  PROVE  /\ TypeOK'
         /\ sock'[c] = NoSocket
         /\ \A d \in Clients \ {c} : sock'[d] = sock[d] /\ events'[d] = events[d] /\ (d \in asks => d \in asks')
         /\ \A f \in Feeds : feed'[f].at = feed[f].at /\ feed'[f].inbox = feed[f].inbox
         /\ \A d \in Clients \ {c} : Up(d) /\ ~sock[d].cut => users' = users
<1>0. Types /\ Fits /\ \A d \in Clients : sock[d] \in SockStates
  BY Parts DEF Types
<1> DEFINE left == IF users = NULL THEN {} ELSE feed[users].subs \ {c}
<1>1. /\ feed' = IF users = NULL THEN feed ELSE [feed EXCEPT ![users].subs = left]
      /\ users' = IF left = {} THEN NULL ELSE users
      /\ sock' = [sock EXCEPT ![c] = NoSocket] /\ events' = [events EXCEPT ![c] = <<>>] /\ asks' = asks \ {c}
  BY DEF Unsubscribe
<1>2. left \subseteq Clients /\ (users # NULL => left = feed[users].subs \ {c}) /\ (users = NULL => left = {})
  BY <1>0 DEF Types, FeedStates
<1> HIDE DEF left
<1>3. NoSocket \in SockStates /\ NoSocket.feed = NULL
  BY DEF NoSocket, SockStates
<1>4. /\ sock' \in [Clients -> SockStates] /\ sock'[c] = NoSocket
      /\ \A d \in Clients \ {c} : sock'[d] = sock[d]
  BY <1>0, <1>1, <1>3 DEF Types
<1>5. /\ events' \in [Clients -> Seq(Events)] /\ \A d \in Clients : Len(events'[d]) <= Buffer
      /\ \A d \in Clients \ {c} : events'[d] = events[d]
  <2>1. <<>> \in Seq(Events) /\ Len(<<>>) <= Buffer
    BY HubAssumption
  <2> QED BY <1>0, <1>1, <2>1 DEF Types
<1>6. /\ feed' \in [Feeds -> FeedStates]
      /\ \A f \in Feeds : feed'[f].at = feed[f].at /\ feed'[f].inbox = feed[f].inbox
      /\ \A f \in Feeds \ {users} : feed'[f] = feed[f]
      /\ users # NULL => feed'[users].subs = left
  <2>1. CASE users = NULL
    BY <1>0, <1>1, <2>1 DEF Types
  <2>2. CASE users # NULL
    <3>1. users \in Feeds /\ feed[users] \in FeedStates
      BY <1>0, <2>2 DEF Types
    <3>2. feed' = [feed EXCEPT ![users] = [feed[users] EXCEPT !.subs = left]]
      BY <1>1, <2>2
    <3>3. /\ [feed[users] EXCEPT !.subs = left] \in FeedStates
          /\ [feed[users] EXCEPT !.subs = left].at = feed[users].at
          /\ [feed[users] EXCEPT !.subs = left].inbox = feed[users].inbox
          /\ [feed[users] EXCEPT !.subs = left].subs = left
      BY <1>2, <3>1 DEF FeedStates
    <3> QED BY <1>0, <3>1, <3>2, <3>3 DEF Types
  <2> QED BY <2>1, <2>2
<1>7. Types'
  BY <1>0, <1>1, <1>4, <1>5, <1>6 DEF Types, work
<1>8. ASSUME NEW d \in Clients \ {c}, Up(d), ~sock[d].cut
      PROVE  users' = users /\ users # NULL /\ d \in left /\ sock[d].feed = users
  <2>1. sock[d].feed = users /\ users # NULL /\ d \in feed[users].subs
    BY <1>0, <1>8 DEF Fits, Up
  <2> QED BY <1>1, <1>2, <1>8, <2>1
<1>9. Fits'
  <2>1. \A f \in Feeds \ {users'} : feed'[f].subs = {}
    BY <1>0, <1>1, <1>2, <1>6, HubAssumption DEF Fits
  <2>2. users' # NULL => feed'[users'].at # "none" /\ feed'[users'].subs # {}
    BY <1>0, <1>1, <1>2, <1>6 DEF Fits, Types
  <2>3. ASSUME NEW d \in Clients, Up(d)', ~sock'[d].cut
        PROVE  sock'[d].feed = users' /\ d \in feed'[users'].subs
    <3>1. d # c
      BY <1>3, <1>4, <2>3 DEF Up
    <3>2. sock'[d] = sock[d] /\ Up(d) /\ ~sock[d].cut
      BY <1>4, <2>3, <3>1 DEF Up
    <3> QED BY <1>6, <1>8, <3>1, <3>2
  <2> QED BY <2>1, <2>2, <2>3 DEF Fits
<1>10. TypeOK'
  BY <1>7, <1>9, Parts, PTL
<1> QED BY <1>1, <1>4, <1>5, <1>6, <1>8, <1>10

\* A feed's pump goes on: its sockets stay.
LEMMA PumpMoves ==
  ASSUME TypeOK, NEW f \in Feeds,
         NEW at \in {"starting", "subscribed", "live", "down"}, NEW q \in Seq(Events), feed[f].at # "none",
         feed' = [feed EXCEPT ![f].at = at, ![f].inbox = q],
         faults' \in 0..MaxFaults, UNCHANGED <<work, users, sock, events, client>>
  PROVE  /\ TypeOK'
         /\ feed'[f].at = at /\ feed'[f].inbox = q
         /\ \A g \in Feeds \ {f} : feed'[g] = feed[g]
<1>0. Types /\ Fits /\ feed[f] \in FeedStates
  BY Parts DEF Types
<1>1. feed' = [feed EXCEPT ![f] = [feed[f] EXCEPT !.at = at, !.inbox = q]]
  BY <1>0 DEF Types
<1>2. /\ [feed[f] EXCEPT !.at = at, !.inbox = q] \in FeedStates
      /\ [feed[f] EXCEPT !.at = at, !.inbox = q].at = at
      /\ [feed[f] EXCEPT !.at = at, !.inbox = q].inbox = q
      /\ [feed[f] EXCEPT !.at = at, !.inbox = q].subs = feed[f].subs
  BY <1>0 DEF FeedStates
<1>3. /\ feed' \in [Feeds -> FeedStates]
      /\ feed'[f].at = at /\ feed'[f].inbox = q /\ feed'[f].subs = feed[f].subs
      /\ \A g \in Feeds \ {f} : feed'[g] = feed[g]
  BY <1>0, <1>1, <1>2 DEF Types
<1>4. Types'
  BY <1>0, <1>3 DEF Types, work, client
<1>5. Fits'
  BY <1>0, <1>3 DEF Fits, Up, Types
<1>6. TypeOK'
  BY <1>4, <1>5, Parts, PTL
<1> QED BY <1>3, <1>6

LEMMA PumpChanges ==
  ASSUME TypeOK, NEW f \in Feeds,
         PumpSubscribes(f) \/ PumpConfirms(f) \/ PumpResubscribes(f) \/ PumpLosesRedis(f)
  PROVE  /\ TypeOK' /\ UNCHANGED <<work, users, sock, events, client>>
         /\ \A g \in Feeds \ {f} : feed'[g] = feed[g]
         /\ \/ feed[f].at = "starting" /\ feed'[f].at = "subscribed"
            \/ feed[f].at = "subscribed" /\ feed'[f].at \in {"live", "starting"}
            \/ feed[f].at = "live" /\ feed'[f].at = "down"
            \/ feed[f].at = "down" /\ feed'[f].at = "live" /\ READY \in Elements(feed'[f].inbox)
<1>0. Types /\ feed[f] \in FeedStates /\ feed \in [Feeds -> FeedStates] /\ faults \in 0..MaxFaults
  BY Parts DEF Types
<1>1. CASE PumpSubscribes(f)
  <2>1. feed' = [feed EXCEPT ![f].at = "subscribed", ![f].inbox = feed[f].inbox]
    BY <1>0, <1>1 DEF PumpSubscribes, FeedStates
  <2> QED BY <1>0, <1>1, <2>1, PumpMoves DEF PumpSubscribes, FeedStates
<1>2. CASE PumpConfirms(f)
  <2>1. feed' = [feed EXCEPT ![f].at = "live", ![f].inbox = feed[f].inbox]
    BY <1>0, <1>2 DEF PumpConfirms, FeedStates
  <2> QED BY <1>0, <1>2, <2>1, PumpMoves DEF PumpConfirms, FeedStates
<1>3. CASE PumpResubscribes(f)
  <2>1. feed' = [feed EXCEPT ![f].at = "live", ![f].inbox = Append(feed[f].inbox, READY)]
    BY <1>3 DEF PumpResubscribes
  <2>2. READY \in Events /\ feed[f].inbox \in Seq(Events)
    BY <1>0 DEF Events, FeedStates
  <2>3. /\ Append(feed[f].inbox, READY) \in Seq(Events)
        /\ READY \in Elements(Append(feed[f].inbox, READY))
    BY <2>2, Appended
  <2> QED BY <1>0, <1>3, <2>1, <2>3, PumpMoves DEF PumpResubscribes
<1>4. CASE PumpLosesRedis(f)
  <2>1. /\ faults' \in 0..MaxFaults /\ <<>> \in Seq(Events) /\ feed[f].inbox \in Seq(Events)
        /\ UNCHANGED <<work, users, sock, events, client>>
    BY <1>0, <1>4, FaultType DEF PumpLosesRedis, FeedStates
  <2>2. CASE feed[f].at = "live"
    <3>1. feed' = [feed EXCEPT ![f].at = "down", ![f].inbox = feed[f].inbox]
      BY <1>0, <1>4, <2>2 DEF PumpLosesRedis, FeedStates
    <3> QED BY <2>1, <2>2, <3>1, PumpMoves
  <2>3. CASE feed[f].at = "subscribed"
    <3>1. feed' = [feed EXCEPT ![f].at = "starting", ![f].inbox = <<>>]
      BY <1>0, <1>4, <2>3 DEF PumpLosesRedis, FeedStates
    <3> QED BY <2>1, <2>3, <3>1, PumpMoves
  <2> QED BY <1>4, <2>2, <2>3 DEF PumpLosesRedis
<1> QED BY <1>1, <1>2, <1>3, <1>4

LEMMA PumpReturnsTypes ==
  ASSUME TypeOK, NEW f \in Feeds, PumpReturns(f)
  PROVE  TypeOK' /\ f # users /\ \A g \in Feeds \ {f} : feed'[g] = feed[g]
<1>0. Types /\ Fits /\ f # users
  BY Parts DEF PumpReturns
<1>1. NoFeed \in FeedStates /\ NoFeed.subs = {}
  BY DEF NoFeed, FeedStates
<1>2. /\ feed' \in [Feeds -> FeedStates] /\ feed'[f] = NoFeed
      /\ \A g \in Feeds \ {f} : feed'[g] = feed[g]
  BY <1>0, <1>1 DEF PumpReturns, Types
<1>3. Types'
  BY <1>0, <1>2 DEF PumpReturns, Types, work, client
<1>4. UNCHANGED <<users, sock>>
  BY DEF PumpReturns
<1>5. Fits'
  <2>1. \A g \in Feeds \ {users'} : feed'[g].subs = {}
    BY <1>0, <1>1, <1>2, <1>4 DEF Fits
  <2>2. users # NULL => users \in Feeds /\ feed'[users] = feed[users]
    BY <1>0, <1>2 DEF Types
  <2>3. \A c \in Clients : (Up(c)' <=> Up(c)) /\ (Up(c) /\ ~sock[c].cut => users # NULL)
    BY <1>0, <1>4 DEF Fits, Up
  <2> QED BY <1>0, <1>4, <2>1, <2>2, <2>3 DEF Fits
<1>6. TypeOK'
  BY <1>3, <1>5, Parts, PTL
<1> QED BY <1>0, <1>2, <1>6

\* What PumpForwards does: a socket of the user's feed is handed the message or cut off.
LEMMA Forwards ==
  ASSUME TypeOK, NEW f \in Feeds, PumpForwards(f)
  PROVE  /\ TypeOK' /\ UNCHANGED <<work, client>>
         /\ \A g \in Feeds \ {f} : feed'[g] = feed[g]
         /\ feed'[f].at = feed[f].at
         /\ Elements(feed[f].inbox) = Elements(feed'[f].inbox) \cup {Head(feed[f].inbox)}
         /\ \A c \in Clients :
              /\ sock'[c].feed = sock[c].feed /\ sock'[c].told = sock[c].told
              /\ ~sock'[c].cut => ~sock[c].cut
              /\ Elements(events[c]) \subseteq Elements(events'[c])
              /\ Up(c) /\ ~sock'[c].cut =>
                   /\ users' = users
                   /\ users = f => Head(feed[f].inbox) \in Elements(events'[c])
<1>0. Types /\ Fits /\ feed[f] \in FeedStates /\ \A c \in Clients : sock[c] \in SockStates
  BY Parts DEF Types
<1> DEFINE e == Head(feed[f].inbox)
           to == IF users = f THEN feed[f].subs ELSE {}
           full == {c \in to : Len(events[c]) = Buffer}
<1>1. feed[f].inbox \in Seq(Events) /\ feed[f].inbox # <<>>
  BY <1>0 DEF FeedStates, PumpForwards
<1>2. /\ e \in Events /\ Tail(feed[f].inbox) \in Seq(Events)
      /\ Elements(feed[f].inbox) = Elements(Tail(feed[f].inbox)) \cup {e}
  BY <1>1, Taken
<1>3. /\ events' = [c \in Clients |-> IF c \in to \ full THEN Append(events[c], e) ELSE events[c]]
      /\ sock' = [c \in Clients |-> IF c \in full THEN [sock[c] EXCEPT !.cut = TRUE] ELSE sock[c]]
      /\ feed' = [feed EXCEPT ![f].inbox = Tail(feed[f].inbox), ![f].subs = feed[f].subs \ full]
      /\ users' = IF users = f /\ to \ full = {} THEN NULL ELSE users
      /\ UNCHANGED <<work, client, faults>>
  BY DEF PumpForwards, IsCurrent
<1>4. to \subseteq Clients /\ full \subseteq to /\ (users = f => to = feed[f].subs) /\ (users # f => to = {})
      /\ \A c \in to \ full : Len(events[c]) # Buffer
  BY <1>0 DEF FeedStates
<1> HIDE DEF e, to, full
<1>5. ASSUME NEW c \in Clients
      PROVE  /\ events'[c] \in Seq(Events) /\ Len(events'[c]) <= Buffer
             /\ Elements(events[c]) \subseteq Elements(events'[c])
             /\ c \in to \ full => e \in Elements(events'[c])
  <2>1. events[c] \in Seq(Events) /\ Len(events[c]) <= Buffer
    BY <1>0 DEF Types
  <2>2. CASE c \in to \ full
    <3>1. events'[c] = Append(events[c], e)
      BY <1>3, <2>2
    <3>2. /\ Append(events[c], e) \in Seq(Events) /\ Len(Append(events[c], e)) = Len(events[c]) + 1
          /\ Len(events[c]) \in Nat
          /\ Elements(Append(events[c], e)) = Elements(events[c]) \cup {e}
      BY <1>2, <2>1, Appended
    <3>3. Len(events[c]) + 1 <= Buffer
      BY <1>4, <2>1, <2>2, <3>2, HubAssumption
    <3> QED BY <3>1, <3>2, <3>3
  <2>3. CASE c \notin to \ full
    <3>1. events'[c] = events[c]
      BY <1>3, <2>3
    <3> QED BY <2>1, <2>3, <3>1
  <2> QED BY <2>2, <2>3
<1>6. events' \in [Clients -> Seq(Events)]
  <2>1. events' = [c \in Clients |-> events'[c]]
    BY <1>3
  <2> QED BY <1>5, <2>1
<1>7. /\ sock' \in [Clients -> SockStates]
      /\ \A c \in Clients : /\ sock'[c].feed = sock[c].feed /\ sock'[c].told = sock[c].told
                            /\ ~sock'[c].cut => ~sock[c].cut /\ c \notin full
  <2>1. \A c \in Clients : /\ [sock[c] EXCEPT !.cut = TRUE] \in SockStates
                           /\ [sock[c] EXCEPT !.cut = TRUE].cut
                           /\ [sock[c] EXCEPT !.cut = TRUE].feed = sock[c].feed
                           /\ [sock[c] EXCEPT !.cut = TRUE].told = sock[c].told
    BY <1>0 DEF SockStates
  <2> QED BY <1>0, <1>3, <2>1
<1>8. /\ feed' \in [Feeds -> FeedStates]
      /\ feed'[f].at = feed[f].at /\ feed'[f].inbox = Tail(feed[f].inbox) /\ feed'[f].subs = feed[f].subs \ full
      /\ \A g \in Feeds \ {f} : feed'[g] = feed[g]
  <2>1. /\ feed \in [Feeds -> FeedStates]
        /\ feed' = [feed EXCEPT ![f] = [feed[f] EXCEPT !.inbox = Tail(feed[f].inbox), !.subs = feed[f].subs \ full]]
    BY <1>0, <1>3 DEF Types
  <2>2. /\ [feed[f] EXCEPT !.inbox = Tail(feed[f].inbox), !.subs = feed[f].subs \ full] \in FeedStates
        /\ [feed[f] EXCEPT !.inbox = Tail(feed[f].inbox), !.subs = feed[f].subs \ full].at = feed[f].at
        /\ [feed[f] EXCEPT !.inbox = Tail(feed[f].inbox), !.subs = feed[f].subs \ full].inbox = Tail(feed[f].inbox)
        /\ [feed[f] EXCEPT !.inbox = Tail(feed[f].inbox), !.subs = feed[f].subs \ full].subs = feed[f].subs \ full
    BY <1>0, <1>2 DEF FeedStates
  <2> QED BY <2>1, <2>2
<1>9. users' \in Feeds \cup {NULL}
  BY <1>0, <1>3 DEF Types
<1>10. Types'
  BY <1>0, <1>3, <1>5, <1>6, <1>7, <1>8, <1>9 DEF Types, work, client
<1>11. ASSUME NEW c \in Clients, Up(c), ~sock'[c].cut
       PROVE  /\ users' = users /\ sock'[c].feed = users /\ users \in Feeds /\ c \in feed[users].subs /\ c \notin full
              /\ users = f => c \in to \ full
  <2>1. ~sock[c].cut /\ c \notin full
    BY <1>7, <1>11
  <2>2. sock[c].feed = users /\ c \in feed[users].subs /\ users \in Feeds
    BY <1>0, <1>11, <2>1 DEF Fits, Types, Up
  <2>3. users = f => c \in to \ full
    BY <1>4, <2>1, <2>2
  <2> QED BY <1>3, <1>7, <2>1, <2>2, <2>3
<1>12. Fits'
  <2>1. \A g \in Feeds \ {users'} : feed'[g].subs = {}
    <3>1. ASSUME NEW g \in Feeds, g # users' PROVE feed'[g].subs = {}
      <4>1. CASE g = f /\ users = f
        BY <1>3, <1>4, <1>8, <3>1, <4>1
      <4>2. CASE g = f /\ users # f
        BY <1>0, <1>8, <4>2 DEF Fits
      <4>3. CASE g # f
        <5>1. g # users
          BY <1>3, <3>1, <4>3
        <5> QED BY <1>0, <1>8, <4>3, <5>1 DEF Fits
      <4> QED BY <4>1, <4>2, <4>3
    <3> QED BY <3>1
  <2>2. ASSUME users' # NULL PROVE feed'[users'].at # "none" /\ feed'[users'].subs # {}
    <3>1. users' = users /\ users \in Feeds /\ feed[users].at # "none" /\ feed[users].subs # {}
      BY <1>0, <1>3, <2>2 DEF Fits, Types
    <3>2. CASE users = f
      BY <1>3, <1>4, <1>8, <2>2, <3>1, <3>2
    <3>3. CASE users # f
      BY <1>8, <3>1, <3>3
    <3> QED BY <3>2, <3>3
  <2>3. ASSUME NEW c \in Clients, Up(c)', ~sock'[c].cut
        PROVE  sock'[c].feed = users' /\ c \in feed'[users'].subs
    <3>1. Up(c)
      BY <1>7, <2>3 DEF Up
    <3>2. /\ users' = users /\ sock'[c].feed = users /\ users \in Feeds
          /\ c \in feed[users].subs /\ c \notin full
      BY <1>11, <2>3, <3>1
    <3> QED BY <1>8, <3>2
  <2> QED BY <2>1, <2>2, <2>3 DEF Fits
<1>13. TypeOK'
  BY <1>10, <1>12, Parts, PTL
<1> QED BY <1>2, <1>3, <1>5, <1>7, <1>8, <1>11, <1>13 DEF e

LEMMA SocketTypes ==
  ASSUME TypeOK, NEW c \in Clients, TellReady(c) \/ Write(c) \/ Refetch(c)
  PROVE  TypeOK'
<1>0. Types /\ Fits /\ \A d \in Clients : sock[d] \in SockStates
  BY Parts DEF Types
<1>1. CASE TellReady(c)
  <2>1. /\ sock' \in [Clients -> SockStates]
        /\ \A d \in Clients : sock'[d].feed = sock[d].feed /\ sock'[d].cut = sock[d].cut
    BY <1>0, <1>1 DEF TellReady, Types, SockStates
  <2>2. Types'
    BY <1>0, <1>1, <2>1 DEF TellReady, Types, work
  <2>3. Fits'
    BY <1>0, <1>1, <2>1 DEF TellReady, Fits, Up
  <2> QED BY <2>2, <2>3, Parts, PTL
<1>2. CASE Write(c)
  <2>1. events[c] \in Seq(Events) /\ events[c] # <<>> /\ Len(events[c]) <= Buffer
    BY <1>0, <1>2 DEF Write, Types
  <2>2. Head(events[c]) \in Events /\ Tail(events[c]) \in Seq(Events) /\ Len(Tail(events[c])) <= Buffer
    BY <2>1, Taken, HubAssumption
  <2>3. /\ events' \in [Clients -> Seq(Events)]
        /\ \A d \in Clients : Len(events'[d]) <= Buffer
    BY <1>0, <1>2, <2>2 DEF Write, Types
  <2>4. asks' \subseteq Clients /\ known' \in [Clients -> SUBSET Results]
    BY <1>0, <1>2, <2>2 DEF Write, Types, Events
  <2>5. Types'
    BY <1>0, <1>2, <2>3, <2>4 DEF Write, Types, work
  <2>6. Fits'
    BY <1>0, <1>2 DEF Write, Fits, Up
  <2> QED BY <2>5, <2>6, Parts, PTL
<1>3. CASE Refetch(c)
  <2>1. 1..stored \subseteq Results
    BY <1>0, HubAssumption DEF Types, Results
  <2>2. asks' \subseteq Clients /\ known' \in [Clients -> SUBSET Results]
    BY <1>0, <1>3, <2>1 DEF Refetch, Types
  <2>3. Types'
    BY <1>0, <1>3, <2>2 DEF Refetch, Types, work, hub
  <2>4. Fits'
    BY <1>0, <1>3 DEF Refetch, Fits, Up, hub
  <2> QED BY <2>3, <2>4, Parts, PTL
<1> QED BY <1>1, <1>2, <1>3

LEMMA EndsUnsubscribes ==
  ASSUME TypeOK, NEW c \in Clients, Ends(c) \/ Leaves(c)
  PROVE  Unsubscribe(c) /\ UNCHANGED <<work, known>> /\ faults' \in 0..MaxFaults
BY FaultType, Parts DEF Ends, Leaves, Types

LEMMA TypeKept ==
  ASSUME TypeOK, [Next]_vars
  PROVE  TypeOK'
<1>1. CASE UNCHANGED vars
  BY <1>1 DEF vars, work, hub, client, TypeOK, Up
<1>2. CASE Store \/ \E n \in Results : Publish(n)
  BY <1>2, WorkTypes
<1>3. ASSUME NEW f \in Feeds, PumpStep(f) \/ PumpReturns(f) \/ PumpLosesRedis(f) PROVE TypeOK'
  BY <1>3, PumpChanges, PumpReturnsTypes, Forwards DEF PumpStep
<1>4. ASSUME NEW c \in Clients, Subscribe(c) \/ SocketStep(c) \/ Leaves(c) PROVE TypeOK'
  BY <1>4, SubscribeTypes, SocketTypes, EndsUnsubscribes, UnsubscribeTypes DEF SocketStep
<1> QED BY <1>1, <1>2, <1>3, <1>4 DEF Next

LEMMA TypeAtInit ==
  ASSUME Init
  PROVE  TypeOK
<1>1. NoFeed \in FeedStates /\ NoFeed.subs = {} /\ NoSocket \in SockStates /\ NoSocket.feed = NULL
  BY DEF NoFeed, FeedStates, NoSocket, SockStates
<1>2. 0 \in 0..MaxResults /\ 0 \in 0..MaxFaults /\ <<>> \in Seq(Events) /\ Len(<<>>) <= Buffer
  BY HubAssumption
<1>3. Types
  BY <1>1, <1>2 DEF Init, Types
<1>4. Fits
  BY <1>1 DEF Init, Fits, Up
<1> QED BY <1>3, <1>4, Parts

\* notify/hub.go: the user's map entry is a feed whose pump runs and which has a socket,
\* no other feed has one, and every socket not cut off is in it; whatever subscribes,
\* leaves, is cut off or loses its connection, and in whatever order.
THEOREM TypeCorrect ==
  Spec => []TypeOK
BY TypeAtInit, TypeKept, PTL DEF Spec
-----------------------------------------------------------------------------
(* Nothing falls between *)

Open(c) == Up(c) /\ sock[c].told /\ ~sock[c].cut

Covered(c) ==
  \/ c \in asks \/ READY \in Coming(c) \/ feed[sock[c].feed].at = "down"
  \/ 1..stored \subseteq known[c] \cup Coming(c) \cup unpushed \cup lost

\* An open socket is in the user's feed, which is live or coming back.
Served(c) == Open(c) => feed[users].at \in {"live", "down"} /\ Covered(c)

LEMMA ServedAll == Inv <=> TypeOK /\ ToldIsUp /\ \A c \in Clients : Served(c)
BY DEF Inv, ToldIsLive, NothingFallsBetween, Served, Open, Covered

LEMMA ComingElements == \A c : Coming(c) = Elements(events[c]) \cup Elements(feed[sock[c].feed].inbox)
BY DEF Coming, Elements

LEMMA OpenFeed ==
  ASSUME TypeOK, NEW c \in Clients, Open(c)
  PROVE  sock[c].feed = users /\ users \in Feeds
BY DEF TypeOK, Open, Up

\* A socket that was open, in the same feed, and has no less coming.
LEMMA ServedStays ==
  ASSUME NEW c \in Clients, Served(c), Open(c), users' = users, sock'[c].feed = sock[c].feed,
         sock[c].feed = users, feed'[users].at = feed[users].at,
         Coming(c) \subseteq Coming(c)' \cup (known'[c] \ {READY}), known[c] \subseteq known'[c], c \in asks => c \in asks',
         READY \in Coming(c) => READY \in Coming(c)' \/ c \in asks',
         unpushed \cup lost \subseteq unpushed' \cup lost' \cup Coming(c)',
         stored' = stored
  PROVE  Served(c)'
<1>1. feed[users].at \in {"live", "down"} /\ Covered(c)
  BY DEF Served
<1>2. Covered(c)'
  <2>1. CASE c \in asks
    BY <2>1 DEF Covered
  <2>2. CASE READY \in Coming(c)
    BY <2>2 DEF Covered
  <2>3. CASE feed[sock[c].feed].at = "down"
    BY <2>3 DEF Covered
  <2>4. CASE 1..stored \subseteq known[c] \cup Coming(c) \cup unpushed \cup lost
    <3>1. 1..stored' \subseteq known'[c] \cup Coming(c)' \cup unpushed' \cup lost'
      BY <2>4
    <3> QED BY <3>1 DEF Covered
  <2> QED BY <1>1, <2>1, <2>2, <2>3, <2>4 DEF Covered
<1> QED BY <1>1, <1>2 DEF Served

\* A step that leaves a socket, its feed and the work alone.
LEMMA ServedQuiet ==
  ASSUME TypeOK, NEW c \in Clients, Served(c), Open(c)' => Open(c), UNCHANGED <<users, work>>,
         sock'[c].feed = sock[c].feed, feed'[users].at = feed[users].at, feed'[users].inbox = feed[users].inbox,
         events'[c] = events[c], known'[c] = known[c], c \in asks => c \in asks'
  PROVE  Served(c)'
<1>1. CASE Open(c)
  <2>1. sock[c].feed = users
    BY <1>1, OpenFeed
  <2>2. Coming(c)' = Coming(c)
    BY <2>1 DEF Coming
  <2> QED BY <1>1, <2>1, <2>2, ServedStays DEF work
<1>2. CASE ~Open(c)
  <2>1. ~Open(c)'
    BY <1>2
  <2> QED BY <2>1 DEF Served
<1> QED BY <1>1, <1>2

LEMMA WorkServed ==
  ASSUME Inv, NEW c \in Clients, Store \/ \E n \in Results : Publish(n)
  PROVE  Served(c)'
<1>0. TypeOK /\ Served(c) /\ Types
  BY ServedAll, Parts
<1>1. CASE ~Open(c)
  <2>1. ~Open(c)'
    BY <1>1 DEF Open, Up, Store, Publish, hub
  <2> QED BY <2>1 DEF Served
<1>2. CASE Open(c)
  <2>0. sock[c].feed = users /\ users \in Feeds /\ feed[users].at \in {"live", "down"} /\ Covered(c)
    BY <1>0, <1>2, OpenFeed DEF Served
  <2>1. CASE Store
    <3>1. UNCHANGED <<users, sock, feed, events, asks, known, lost>> /\ Coming(c)' = Coming(c)
      BY <2>1 DEF Store, hub, client, Coming
    <3>2. 1..stored' \subseteq (1..stored) \cup {stored'} /\ unpushed' = unpushed \cup {stored'}
      BY <1>0, <2>1 DEF Store, Types
    <3>3. Covered(c)'
      BY <2>0, <3>1, <3>2 DEF Covered
    <3> QED BY <2>0, <3>1, <3>3 DEF Served
  <2>2. ASSUME NEW n \in Results, Publish(n) PROVE Served(c)'
    <3>1. UNCHANGED <<users, sock, events, asks, known, stored>> /\ unpushed' = unpushed \ {n}
      BY <2>2 DEF Publish, client
    <3>2. CASE lost' = lost \cup {n} /\ UNCHANGED feed
      <4>1. Coming(c)' = Coming(c)
        BY <3>1, <3>2 DEF Coming
      <4> QED BY <1>0, <1>2, <2>0, <3>1, <3>2, <4>1, ServedStays
    <3>3. CASE /\ UNCHANGED lost
               /\ feed' = [f \in Feeds |-> IF feed[f].at \in {"subscribed", "live"}
                             THEN [feed[f] EXCEPT !.inbox = Append(feed[f].inbox, n)] ELSE feed[f]]
      <4>1. feed[users] \in FeedStates /\ feed[users].inbox \in Seq(Events)
        BY <1>0, <2>0 DEF Types, FeedStates
      <4>2. CASE feed[users].at = "live"
        <5>1. feed'[users] = [feed[users] EXCEPT !.inbox = Append(feed[users].inbox, n)]
          BY <2>0, <3>3, <4>2
        <5>2. feed'[users].at = feed[users].at /\ feed'[users].inbox = Append(feed[users].inbox, n)
          BY <4>1, <5>1 DEF FeedStates
        <5>3. Elements(feed'[users].inbox) = Elements(feed[users].inbox) \cup {n}
          BY <4>1, <5>2, Appended DEF Events
        <5>4. Coming(c)' = Coming(c) \cup {n}
          BY <2>0, <3>1, <5>3 DEF Coming, Elements
        <5> QED BY <1>0, <1>2, <2>0, <3>1, <3>3, <5>2, <5>4, ServedStays
      <4>3. CASE feed[users].at = "down"
        <5>1. feed'[users] = feed[users]
          BY <2>0, <3>3, <4>3
        <5> QED BY <2>0, <3>1, <4>3, <5>1 DEF Served, Covered
      <4> QED BY <2>0, <4>2, <4>3
    <3> QED BY <2>2, <3>2, <3>3 DEF Publish
  <2> QED BY <2>1, <2>2
<1> QED BY <1>1, <1>2

LEMMA PumpServed ==
  ASSUME Inv, NEW c \in Clients, NEW f \in Feeds, PumpStep(f) \/ PumpReturns(f) \/ PumpLosesRedis(f)
  PROVE  Served(c)'
<1>0. TypeOK /\ Served(c) /\ Types /\ (Open(c) => sock[c].feed = users /\ users \in Feeds)
  BY ServedAll, Parts, OpenFeed
<1>1. CASE PumpSubscribes(f) \/ PumpConfirms(f) \/ PumpResubscribes(f) \/ PumpLosesRedis(f)
  <2>1. /\ UNCHANGED <<work, users, sock, events, client>>
        /\ \A g \in Feeds \ {f} : feed'[g] = feed[g]
        /\ \/ feed[f].at = "starting" /\ feed'[f].at = "subscribed"
           \/ feed[f].at = "subscribed" /\ feed'[f].at \in {"live", "starting"}
           \/ feed[f].at = "live" /\ feed'[f].at = "down"
           \/ feed[f].at = "down" /\ feed'[f].at = "live" /\ READY \in Elements(feed'[f].inbox)
    BY <1>0, <1>1, PumpChanges
  <2>2. Open(c)' <=> Open(c)
    BY <2>1 DEF Open, Up
  <2>3. CASE ~Open(c)
    BY <2>2, <2>3 DEF Served
  <2>4. CASE Open(c) /\ users # f
    <3>1. feed'[users] = feed[users]
      BY <1>0, <2>1, <2>4
    <3> QED BY <1>0, <2>1, <2>2, <3>1, ServedQuiet DEF client
  <2>5. CASE Open(c) /\ users = f
    <3>1. feed[f].at \in {"live", "down"}
      BY <1>0, <2>5 DEF Served
    <3>2. CASE feed'[f].at = "down"
      BY <1>0, <2>1, <2>5, <3>2 DEF Served, Covered
    <3>3. CASE feed'[f].at = "live" /\ READY \in Elements(feed'[f].inbox)
      <4>1. READY \in Coming(c)'
        BY <1>0, <2>1, <2>5, <3>3 DEF Coming, Elements
      <4> QED BY <2>1, <2>5, <3>3, <4>1 DEF Served, Covered
    <3> QED BY <2>1, <3>1, <3>2, <3>3
  <2> QED BY <2>3, <2>4, <2>5
<1>2. CASE PumpReturns(f)
  <2>1. /\ f # users /\ (\A g \in Feeds \ {f} : feed'[g] = feed[g])
        /\ UNCHANGED <<work, users, sock, events, client>>
    BY <1>0, <1>2, PumpReturnsTypes DEF PumpReturns
  <2>2. Open(c)' <=> Open(c)
    BY <2>1 DEF Open, Up
  <2>3. CASE ~Open(c)
    BY <2>2, <2>3 DEF Served
  <2>4. CASE Open(c)
    <3>1. feed'[users] = feed[users]
      BY <1>0, <2>1, <2>4
    <3> QED BY <1>0, <2>1, <2>2, <3>1, ServedQuiet DEF client
  <2> QED BY <2>3, <2>4
<1>3. CASE PumpForwards(f)
  <2> DEFINE e == Head(feed[f].inbox)
  <2>1. /\ UNCHANGED <<work, client>>
        /\ \A g \in Feeds \ {f} : feed'[g] = feed[g]
        /\ feed'[f].at = feed[f].at
        /\ Elements(feed[f].inbox) = Elements(feed'[f].inbox) \cup {e}
        /\ sock'[c].feed = sock[c].feed /\ sock'[c].told = sock[c].told
        /\ ~sock'[c].cut => ~sock[c].cut
        /\ Elements(events[c]) \subseteq Elements(events'[c])
        /\ Up(c) /\ ~sock'[c].cut => users' = users /\ (users = f => e \in Elements(events'[c]))
    BY <1>0, <1>3, Forwards
  <2> HIDE DEF e
  <2>2. CASE ~Open(c)'
    BY <2>2 DEF Served
  <2>3. CASE Open(c)'
    <3>1. Open(c) /\ Up(c) /\ ~sock'[c].cut
      BY <2>1, <2>3 DEF Open, Up
    <3>2. users' = users /\ (users = f => e \in Elements(events'[c])) /\ sock[c].feed = users /\ users \in Feeds
      BY <1>0, <2>1, <3>1
    <3>3. /\ feed'[users].at = feed[users].at
          /\ Elements(feed[users].inbox) \subseteq Elements(feed'[users].inbox) \cup Elements(events'[c])
      <4>1. CASE users = f
        BY <2>1, <3>2, <4>1
      <4>2. CASE users # f
        BY <2>1, <3>2, <4>2
      <4> QED BY <4>1, <4>2
    <3>4. Coming(c) \subseteq Coming(c)'
      <4>1. Coming(c) = Elements(events[c]) \cup Elements(feed[users].inbox)
        BY <3>2, ComingElements
      <4>2. Coming(c)' = Elements(events'[c]) \cup Elements(feed'[users].inbox)
        BY <2>1, <3>2 DEF Coming, Elements
      <4> QED BY <2>1, <3>3, <4>1, <4>2
    <3> QED BY <1>0, <2>1, <3>1, <3>2, <3>3, <3>4, ServedStays DEF work, client
  <2> QED BY <2>2, <2>3
<1> QED BY <1>1, <1>2, <1>3 DEF PumpStep

LEMMA SocketServed ==
  ASSUME Inv, NEW c \in Clients, NEW d \in Clients, Subscribe(d) \/ SocketStep(d) \/ Leaves(d)
  PROVE  Served(c)'
<1>0. TypeOK /\ Served(c) /\ Types /\ (Open(c) => sock[c].feed = users /\ users \in Feeds)
  BY ServedAll, Parts, OpenFeed
<1>1. CASE Subscribe(d)
  <2>1. /\ sock'[d].told = sock[d].told
        /\ \A b \in Clients \ {d} : sock'[b] = sock[b]
        /\ users # NULL => users' = users
             /\ \A f \in Feeds : feed'[f].at = feed[f].at /\ feed'[f].inbox = feed[f].inbox
    BY <1>0, <1>1, SubscribeTypes
  <2>2. UNCHANGED <<work, events, client>> /\ ~Up(d)
    BY <1>1 DEF Subscribe
  <2>3. CASE c = d
    <3>1. ~Open(c)'
      BY <2>1, <2>2, <2>3 DEF Inv, ToldIsUp, Open
    <3> QED BY <3>1 DEF Served
  <2>4. CASE c # d
    <3>1. CASE Open(c)
      <4>1. users # NULL /\ sock[c].feed = users /\ users \in Feeds /\ sock'[c] = sock[c]
        BY <1>0, <2>1, <2>4, <3>1, HubAssumption
      <4> QED BY <1>0, <2>1, <2>2, <3>1, <4>1, ServedQuiet DEF client
    <3>2. CASE ~Open(c)
      <4>1. ~Open(c)'
        BY <2>1, <2>4, <3>2 DEF Open, Up
      <4> QED BY <4>1 DEF Served
    <3> QED BY <3>1, <3>2
  <2> QED BY <2>3, <2>4
<1>2. CASE TellReady(d)
  <2>1. /\ UNCHANGED <<work, users, feed, events, known>> /\ asks' = asks \cup {d}
        /\ sock' = [sock EXCEPT ![d].told = TRUE] /\ Up(d) /\ feed[sock[d].feed].at \in {"live", "down"}
    BY <1>2 DEF TellReady
  <2>2. /\ sock'[c].feed = sock[c].feed /\ sock'[c].cut = sock[c].cut /\ (c # d => sock'[c] = sock[c])
    BY <1>0, <2>1 DEF Types, SockStates
  <2>3. CASE c = d
    <3>1. Open(c)' => feed[users].at \in {"live", "down"} /\ users' = users
      BY <1>0, <2>1, <2>2, <2>3, Parts DEF Open, Up, Fits
    <3>2. Covered(c)'
      BY <2>1, <2>3 DEF Covered
    <3> QED BY <2>1, <3>1, <3>2 DEF Served
  <2>4. CASE c # d
    <3>1. Open(c)' => Open(c)
      BY <2>2, <2>4 DEF Open, Up
    <3> QED BY <1>0, <2>1, <2>2, <3>1, ServedQuiet
  <2> QED BY <2>3, <2>4
<1>3. CASE Write(d)
  <2> DEFINE e == Head(events[d])
  <2>1. /\ UNCHANGED <<work, users, feed, sock>>
        /\ events \in [Clients -> Seq(Events)] /\ events[d] # <<>> /\ known \in [Clients -> SUBSET Results]
        /\ events' = [events EXCEPT ![d] = Tail(events[d])]
        /\ \/ e = READY /\ asks' = asks \cup {d} /\ UNCHANGED known
           \/ e # READY /\ known' = [known EXCEPT ![d] = known[d] \cup {e}] /\ UNCHANGED asks
    BY <1>0, <1>3 DEF Write, Types
  <2>2. Elements(events[d]) = Elements(Tail(events[d])) \cup {e}
    BY <2>1, Taken
  <2> HIDE DEF e
  <2>3. Open(c)' <=> Open(c)
    BY <2>1 DEF Open, Up
  <2>4. CASE ~Open(c)
    BY <2>3, <2>4 DEF Served
  <2>5. CASE Open(c) /\ c # d
    <3>1. events'[c] = events[c] /\ known'[c] = known[c] /\ (c \in asks => c \in asks')
      BY <2>1, <2>5
    <3> QED BY <1>0, <2>1, <2>3, <3>1, ServedQuiet
  <2>6. CASE Open(c) /\ c = d
    <3>1. Coming(c) = Coming(c)' \cup {e}
      <4>1. Coming(c) = Elements(events[c]) \cup Elements(feed[users].inbox)
        BY <1>0, <2>6, ComingElements
      <4>2. Coming(c)' = Elements(events'[c]) \cup Elements(feed[users].inbox)
        <5>1. sock'[c].feed = users /\ feed' = feed
          BY <1>0, <2>1, <2>6
        <5> QED BY <5>1 DEF Coming, Elements
      <4>3. events'[c] = Tail(events[d])
        BY <2>1, <2>6
      <4> QED BY <2>2, <2>6, <4>1, <4>2, <4>3
    <3>2. CASE e = READY /\ asks' = asks \cup {d} /\ UNCHANGED known
      <4>1. Covered(c)'
        BY <2>6, <3>2 DEF Covered
      <4> QED BY <1>0, <2>1, <2>6, <4>1 DEF Served
    <3>3. CASE e # READY /\ known' = [known EXCEPT ![d] = known[d] \cup {e}] /\ UNCHANGED asks
      <4>1. known'[c] = known[c] \cup {e}
        BY <2>1, <2>6, <3>3
      <4> QED BY <1>0, <2>1, <2>6, <3>1, <3>3, <4>1, ServedStays DEF work
    <3> QED BY <2>1, <3>2, <3>3
  <2> QED BY <2>4, <2>5, <2>6
<1>4. CASE Refetch(d)
  <2>1. /\ UNCHANGED <<work, users, feed, sock, events>>
        /\ asks' = asks \ {d} /\ known' = [known EXCEPT ![d] = known[d] \cup 1..stored]
    BY <1>4 DEF Refetch, hub
  <2>2. Open(c)' <=> Open(c)
    BY <2>1 DEF Open, Up
  <2>3. CASE ~Open(c)
    BY <2>2, <2>3 DEF Served
  <2>4. CASE Open(c) /\ c # d
    <3>1. known'[c] = known[c] /\ (c \in asks => c \in asks')
      BY <1>0, <2>1, <2>4 DEF Types
    <3> QED BY <1>0, <2>1, <2>2, <3>1, ServedQuiet
  <2>5. CASE Open(c) /\ c = d
    <3>1. 1..stored' \subseteq known'[c]
      BY <1>0, <2>1, <2>5 DEF Types, work
    <3>2. Covered(c)'
      BY <3>1 DEF Covered
    <3> QED BY <1>0, <2>1, <2>5, <3>2 DEF Served
  <2> QED BY <2>3, <2>4, <2>5
<1>5. CASE Ends(d) \/ Leaves(d)
  <2>1. /\ sock'[d] = NoSocket
        /\ \A b \in Clients \ {d} : sock'[b] = sock[b] /\ events'[b] = events[b] /\ (b \in asks => b \in asks')
        /\ \A f \in Feeds : feed'[f].at = feed[f].at /\ feed'[f].inbox = feed[f].inbox
        /\ \A b \in Clients \ {d} : Up(b) /\ ~sock[b].cut => users' = users
        /\ UNCHANGED <<work, known>>
    BY <1>0, <1>5, EndsUnsubscribes, UnsubscribeTypes
  <2>2. CASE c = d
    <3>1. ~Open(c)'
      BY <2>1, <2>2 DEF Open, NoSocket
    <3> QED BY <3>1 DEF Served
  <2>3. CASE c # d
    <3>1. Open(c)' <=> Open(c)
      BY <2>1, <2>3 DEF Open, Up
    <3>2. CASE ~Open(c)
      BY <3>1, <3>2 DEF Served
    <3>3. CASE Open(c)
      <4>1. users' = users /\ users \in Feeds
        BY <1>0, <2>1, <2>3, <3>3 DEF Open
      <4> QED BY <1>0, <2>1, <2>3, <3>1, <4>1, ServedQuiet
    <3> QED BY <3>2, <3>3
  <2> QED BY <2>2, <2>3
<1> QED BY <1>1, <1>2, <1>3, <1>4, <1>5 DEF SocketStep

LEMMA ToldKept ==
  ASSUME TypeOK, ToldIsUp, [Next]_vars
  PROVE  ToldIsUp'
<1>0. Types
  BY Parts
<1>1. ASSUME UNCHANGED sock PROVE ToldIsUp'
  BY <1>1 DEF ToldIsUp, Up
<1>2. ASSUME NEW c \in Clients, Subscribe(c) PROVE ToldIsUp'
  <2>1. users' # NULL /\ sock'[c].feed = users' /\ \A d \in Clients \ {c} : sock'[d] = sock[d]
    BY <1>2, SubscribeTypes
  <2> QED BY <2>1 DEF ToldIsUp, Up
<1>3. ASSUME NEW f \in Feeds, PumpForwards(f) PROVE ToldIsUp'
  <2>1. \A c \in Clients : sock'[c].feed = sock[c].feed /\ sock'[c].told = sock[c].told
    BY <1>3, Forwards
  <2> QED BY <2>1 DEF ToldIsUp, Up
<1>4. ASSUME NEW c \in Clients, TellReady(c) PROVE ToldIsUp'
  <2>1. /\ Up(c) /\ \A d \in Clients : sock'[d].feed = sock[d].feed
        /\ \A d \in Clients \ {c} : sock'[d].told = sock[d].told
    BY <1>0, <1>4 DEF TellReady, Types, SockStates
  <2> QED BY <2>1 DEF ToldIsUp, Up
<1>5. ASSUME NEW c \in Clients, Ends(c) \/ Leaves(c) PROVE ToldIsUp'
  <2>1. sock'[c] = NoSocket /\ \A d \in Clients \ {c} : sock'[d] = sock[d]
    BY <1>5, EndsUnsubscribes, UnsubscribeTypes
  <2> QED BY <2>1 DEF ToldIsUp, Up, NoSocket
<1>6. CASE Store \/ \E n \in Results : Publish(n)
  BY <1>1, <1>6 DEF Store, Publish, hub
<1>7. ASSUME NEW f \in Feeds,
             PumpSubscribes(f) \/ PumpConfirms(f) \/ PumpResubscribes(f) \/ PumpReturns(f) \/ PumpLosesRedis(f)
      PROVE  ToldIsUp'
  BY <1>1, <1>7 DEF PumpSubscribes, PumpConfirms, PumpResubscribes, PumpReturns, PumpLosesRedis
<1>8. ASSUME NEW c \in Clients, Write(c) \/ Refetch(c) PROVE ToldIsUp'
  BY <1>1, <1>8 DEF Write, Refetch, hub
<1>9. CASE UNCHANGED vars
  BY <1>1, <1>9 DEF vars, hub
<1> QED BY <1>2, <1>3, <1>4, <1>5, <1>6, <1>7, <1>8, <1>9 DEF Next, PumpStep, SocketStep

LEMMA InvKept ==
  ASSUME Inv, [Next]_vars
  PROVE  Inv'
<1>1. TypeOK' /\ ToldIsUp'
  BY TypeKept, ToldKept DEF Inv
<1>2. ASSUME NEW c \in Clients PROVE Served(c)'
  <2>1. CASE UNCHANGED vars
    <3>1. Served(c)
      BY ServedAll
    <3> QED BY <2>1, <3>1 DEF vars, work, hub, client, Served, Open, Up, Covered, Coming
  <2>2. CASE Next
    BY <2>2, WorkServed, PumpServed, SocketServed DEF Next
  <2> QED BY <2>1, <2>2
<1>3. TypeOK' /\ ToldIsUp' /\ \A c \in Clients : Served(c)'
  BY <1>1, <1>2
<1> QED BY <1>3 DEF Inv, ToldIsLive, NothingFallsBetween, Served, Open, Covered

\* docs/realtime.md, section 4, "Nothing falls in between": for any number of sockets,
\* feeds and results and any buffer, a client told ready knows every result stored, is
\* about to be pushed it, or is about to refetch, a failed publish and a cut socket apart.
THEOREM NothingLost ==
  Spec => []NothingFallsBetween
<1>1. Init => Inv
  <2>1. Init => \A c \in Clients : ~sock[c].told
    BY DEF Init, NoSocket
  <2> QED BY <2>1, TypeAtInit DEF Inv, ToldIsUp, ToldIsLive, NothingFallsBetween
<1>2. Inv /\ [Next]_vars => Inv'
  BY InvKept
<1>3. Inv => NothingFallsBetween
  BY DEF Inv
<1> QED BY <1>1, <1>2, <1>3, PTL DEF Spec
=============================================================================
