------------------------------ MODULE NotifyHub ------------------------------
(***************************************************************************)
(* One user's notifications on one replica: the hub and its Redis pump of   *)
(* notify/hub.go and the publish of notify/publish.go.  The socket handler  *)
(* and the app are not in the repository yet; they follow docs/realtime.md: *)
(* a result is stored before it is published, a socket passes `ready` on,   *)
(* and a client answers each `ready` with one refetch.                      *)
(*                                                                         *)
(* Register and EndSessions are the chat hub's, modelled in ChatRoom.       *)
(***************************************************************************)
EXTENDS Integers, Sequences, FiniteSets

CONSTANTS
  Clients,     \* the user's apps; each holds one socket at a time
  Feeds,       \* bound: userFeeds alive at once, cancelled ones included
  MaxResults,  \* bound: results stored in all
  Buffer,      \* capacity of subscriber.events
  MaxFaults,   \* bound: lost pushes, lost connections
  READY,       \* EventReady
  NULL

ASSUME HubAssumption == {MaxResults, MaxFaults} \subseteq Nat /\ Buffer \in Nat \ {0} /\ NULL \notin Feeds /\ READY \notin Nat

Results == 1..MaxResults

VARIABLES
  stored,   \* results in Postgres
  unpushed, \* those whose publish is still to come
  lost,     \* those whose publish failed
  users,    \* Hub.users: the user's feed, or NULL
  feed,     \* each feed: how far its pump is, its sockets, what Redis has sent it
  sock,     \* each client's socket: its feed, whether it was told ready, whether it was cut off
  events,   \* each socket's buffer
  asks,     \* clients told to refetch
  known,    \* the results each client has been pushed or has fetched
  faults    \* how much of MaxFaults is used

work   == <<stored, unpushed, lost>>
hub    == <<users, feed, sock, events>>
client == <<asks, known>>
vars   == <<work, hub, client, faults>>

NoFeed   == [at |-> "none", subs |-> {}, inbox |-> <<>>]
NoSocket == [feed |-> NULL, told |-> FALSE, cut |-> FALSE]
Up(c)    == sock[c].feed # NULL

\* A feed is the user's or nobody's, and a socket not cut off is in the user's feed.
TypeOK ==
  /\ stored \in 0..MaxResults /\ unpushed \subseteq 1..stored /\ lost \subseteq 1..stored
  /\ users \in Feeds \cup {NULL}
  /\ feed \in [Feeds -> [at : {"none", "starting", "subscribed", "live", "down"},
                         subs : SUBSET Clients, inbox : Seq(Results \cup {READY})]]
  /\ sock \in [Clients -> [feed : Feeds \cup {NULL}, told : BOOLEAN, cut : BOOLEAN]]
  /\ events \in [Clients -> Seq(Results \cup {READY})]
  /\ \A c \in Clients : Len(events[c]) <= Buffer
  /\ asks \subseteq Clients /\ known \in [Clients -> SUBSET Results]
  /\ faults \in 0..MaxFaults
  /\ \A f \in Feeds \ {users} : feed[f].subs = {}
  /\ users # NULL => feed[users].at # "none" /\ feed[users].subs # {}
  /\ \A c \in Clients : Up(c) /\ ~sock[c].cut => sock[c].feed = users /\ c \in feed[users].subs

Init ==
  /\ stored = 0 /\ unpushed = {} /\ lost = {}
  /\ users = NULL
  /\ feed = [f \in Feeds |-> NoFeed]
  /\ sock = [c \in Clients |-> NoSocket]
  /\ events = [c \in Clients |-> <<>>]
  /\ asks = {} /\ known = [c \in Clients |-> {}]
  /\ faults = 0

Fault == faults < MaxFaults /\ faults' = faults + 1
-----------------------------------------------------------------------------
(* Results *)

\* The row is written before anything is announced.
Store ==
  /\ stored < MaxResults
  /\ stored' = stored + 1 /\ unpushed' = unpushed \cup {stored'}
  /\ UNCHANGED <<lost, hub, client, faults>>

\* Publish reaches the feeds subscribed now, or fails.
Publish(n) ==
  /\ n \in unpushed
  /\ unpushed' = unpushed \ {n}
  /\ \/ /\ feed' = [f \in Feeds |-> IF feed[f].at \in {"subscribed", "live"}
                      THEN [feed[f] EXCEPT !.inbox = Append(@, n)] ELSE feed[f]]
        /\ UNCHANGED <<lost, faults>>
     \/ lost' = lost \cup {n} /\ UNCHANGED feed /\ Fault
  /\ UNCHANGED <<stored, users, sock, events, client>>
-----------------------------------------------------------------------------
(* Hub *)

\* The user's first socket starts a feed and its pump.
Subscribe(c) ==
  /\ ~Up(c)
  /\ \/ /\ users # NULL
        /\ feed' = [feed EXCEPT ![users].subs = @ \cup {c}]
        /\ sock' = [sock EXCEPT ![c].feed = users]
        /\ UNCHANGED users
     \/ /\ users = NULL
        /\ \E f \in Feeds :
             /\ feed[f].at = "none"
             /\ feed' = [feed EXCEPT ![f] = [at |-> "starting", subs |-> {c}, inbox |-> <<>>]]
             /\ users' = f
             /\ sock' = [sock EXCEPT ![c].feed = f]
  /\ UNCHANGED <<work, events, client, faults>>

\* unsubscribe; for a socket that was cut off there is nothing left to remove.
Unsubscribe(c) ==
  LET left == IF users = NULL THEN {} ELSE feed[users].subs \ {c} IN
  /\ sock' = [sock EXCEPT ![c] = NoSocket]
  /\ events' = [events EXCEPT ![c] = <<>>]
  /\ feed' = IF users = NULL THEN feed ELSE [feed EXCEPT ![users].subs = left]
  /\ users' = IF left = {} THEN NULL ELSE users
  /\ asks' = asks \ {c}

\* Redis takes the SUBSCRIBE in its own time.
PumpSubscribes(f) ==
  /\ feed[f].at = "starting"
  /\ feed' = [feed EXCEPT ![f].at = "subscribed"]
  /\ UNCHANGED <<work, users, sock, events, client, faults>>

\* Receive returns the confirmation: feed.ready is closed.
PumpConfirms(f) ==
  /\ feed[f].at = "subscribed"
  /\ feed' = [feed EXCEPT ![f].at = "live"]
  /\ UNCHANGED <<work, users, sock, events, client, faults>>

\* The connection to Redis is lost: before the confirmation, Receive is tried again.
PumpLosesRedis(f) ==
  /\ feed[f].at \in {"subscribed", "live"} /\ Fault
  /\ feed' = [feed EXCEPT ![f].at = IF @ = "live" THEN "down" ELSE "starting",
                          ![f].inbox = IF feed[f].at = "live" THEN @ ELSE <<>>]
  /\ UNCHANGED <<work, users, sock, events, client>>

\* Faulty variant: go-redis subscribes again and the sockets are told nothing.
PumpResubscribesSilently(f) ==
  /\ feed[f].at = "down"
  /\ feed' = [feed EXCEPT ![f].at = "live"]
  /\ UNCHANGED <<work, users, sock, events, client, faults>>

\* go-redis subscribes again, and the sockets are to be told.
PumpResubscribes(f) ==
  /\ feed[f].at = "down"
  /\ feed' = [feed EXCEPT ![f].at = "live", ![f].inbox = Append(@, READY)]
  /\ UNCHANGED <<work, users, sock, events, client, faults>>

\* Faulty variant: nobody asks whether the feed is still the user's.
AlwaysCurrent(f) == TRUE

\* broadcastLocal's guard: a cancelled pump may hold one last message.
IsCurrent(f) == users = f

\* broadcastLocal: full sockets are cut off, and a feed with none left is cancelled.
PumpForwards(f) ==
  /\ feed[f].at \in {"live", "down"} /\ feed[f].inbox # <<>>
  /\ LET e == Head(feed[f].inbox)
         to == IF IsCurrent(f) THEN feed[f].subs ELSE {}
         full == {c \in to : Len(events[c]) = Buffer}
     IN /\ events' = [c \in Clients |-> IF c \in to \ full THEN Append(events[c], e) ELSE events[c]]
        /\ sock' = [c \in Clients |-> IF c \in full THEN [sock[c] EXCEPT !.cut = TRUE] ELSE sock[c]]
        /\ feed' = [feed EXCEPT ![f].inbox = Tail(@), ![f].subs = @ \ full]
        /\ users' = IF IsCurrent(f) /\ to \ full = {} THEN NULL ELSE users
  /\ UNCHANGED <<work, client, faults>>

\* A cancelled pump sees ctx.Done.
PumpReturns(f) ==
  /\ f # users /\ feed[f].at # "none"
  /\ feed' = [feed EXCEPT ![f] = NoFeed]
  /\ UNCHANGED <<work, users, sock, events, client, faults>>
-----------------------------------------------------------------------------
(* A socket and its client *)

\* Faulty variant: ready as soon as the socket is accepted.
TellReadyAtOnce(c) ==
  /\ Up(c) /\ ~sock[c].told
  /\ sock' = [sock EXCEPT ![c].told = TRUE]
  /\ asks' = asks \cup {c}
  /\ UNCHANGED <<work, users, feed, events, known, faults>>

\* ready, once, when the feed's is closed; a feed that has been live stays ready.
TellReady(c) ==
  /\ Up(c) /\ ~sock[c].told /\ feed[sock[c].feed].at \in {"live", "down"}
  /\ sock' = [sock EXCEPT ![c].told = TRUE]
  /\ asks' = asks \cup {c}
  /\ UNCHANGED <<work, users, feed, events, known, faults>>

Write(c) ==
  /\ Up(c) /\ events[c] # <<>>
  /\ LET e == Head(events[c]) IN
     \/ e = READY /\ asks' = asks \cup {c} /\ UNCHANGED known
     \/ e # READY /\ known' = [known EXCEPT ![c] = @ \cup {e}] /\ UNCHANGED asks
  /\ events' = [events EXCEPT ![c] = Tail(@)]
  /\ UNCHANGED <<work, users, feed, sock, faults>>

\* The one REST refetch for a ready.
Refetch(c) ==
  /\ c \in asks
  /\ asks' = asks \ {c}
  /\ known' = [known EXCEPT ![c] = @ \cup 1..stored]
  /\ UNCHANGED <<work, hub, faults>>

\* A socket whose channel is closed ends once it is drained.
Ends(c) ==
  /\ sock[c].cut /\ events[c] = <<>>
  /\ Unsubscribe(c)
  /\ UNCHANGED <<work, known, faults>>

\* The client goes away, or its connection fails.
Leaves(c) ==
  /\ Up(c) /\ Fault
  /\ Unsubscribe(c)
  /\ UNCHANGED <<work, known>>
-----------------------------------------------------------------------------
PumpStep(f) == PumpSubscribes(f) \/ PumpConfirms(f) \/ PumpResubscribes(f) \/ PumpForwards(f)
SocketStep(c) == TellReady(c) \/ Write(c) \/ Refetch(c) \/ Ends(c)

Next ==
  \/ Store
  \/ \E n \in Results : Publish(n)
  \/ \E f \in Feeds : PumpStep(f) \/ PumpReturns(f) \/ PumpLosesRedis(f)
  \/ \E c \in Clients : Subscribe(c) \/ SocketStep(c) \/ Leaves(c)

Spec == Init /\ [][Next]_vars

\* Goroutines run on, go-redis keeps resubscribing, and a client reconnects.
FairSpec ==
  /\ Spec
  /\ \A n \in Results : WF_vars(Publish(n))
  /\ \A f \in Feeds : WF_vars(PumpStep(f)) /\ WF_vars(PumpReturns(f))
  /\ \A c \in Clients : WF_vars(SocketStep(c)) /\ WF_vars(Subscribe(c))
-----------------------------------------------------------------------------
\* What a socket's client is still to be handed: its buffer, and its feed's messages.
Coming(c) ==
  LET q == feed[sock[c].feed].inbox IN
  {events[c][i] : i \in DOMAIN events[c]} \cup {q[i] : i \in DOMAIN q}

\* docs/realtime.md, section 4: "Nothing falls in between." A client that has been told
\* ready knows every result stored, is about to be pushed it, or is about to refetch;
\* except a result whose publish failed, and unless its socket was cut off.
NothingFallsBetween ==
  \A c \in Clients : Up(c) /\ sock[c].told /\ ~sock[c].cut =>
    \/ c \in asks \/ READY \in Coming(c) \/ feed[sock[c].feed].at = "down"
    \/ 1..stored \subseteq known[c] \cup Coming(c) \cup unpushed \cup lost

\* Section 5: a slow socket, a lost connection or a new feed after an old one costs
\* latency only: every client comes to know every result, the lost pushes apart.
EveryoneLearns ==
  \A c \in Clients, n \in Results : n <= stored ~> n \in known[c] \cup lost
=============================================================================
