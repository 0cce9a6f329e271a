------------------------------- MODULE ChatRoom -------------------------------
(***************************************************************************)
(* The sockets one replica holds for one chat thread: websocket and         *)
(* handleIncoming of chat/handler.go, Send and Close of chat/service.go,    *)
(* the hub and its Redis pump of chat/hub.go, and the end of an account's   *)
(* sockets by announcement (auth/revocation.go), by heartbeat and by token  *)
(* expiry.  Posters are the REST senders of this and other replicas.        *)
(*                                                                         *)
(* Presence and typing change nothing here and are left out; so is the page *)
(* size of a history.                                                       *)
(***************************************************************************)
EXTENDS Integers, Sequences, FiniteSets

CONSTANTS
  Users,        \* the accounts that hold sockets
  MaxSockets,   \* bound: connections in all
  Posters,      \* callers of POST /messages, one message each
  MaxPumps,     \* bound: pump goroutines started in all
  MaxMessages,  \* bound: messages stored in all
  Buffer,       \* capacity of subscriber.events
  MaxFaults,    \* bound: failed publishes and lost announcements
  NULL

ASSUME RoomAssumption ==
  /\ {MaxSockets, MaxPumps, MaxMessages, MaxFaults} \subseteq Nat /\ Buffer \in Nat \ {0}
  /\ NULL \notin Users \cup Nat /\ Posters \cap Nat = {}

Sockets  == 1..MaxSockets
Pumps    == 1..MaxPumps
Senders  == Sockets \cup Posters
Messages == 1..MaxMessages

VARIABLES
  open,    \* chat_threads.status is active
  stored,  \* how many messages are in the transcript
  pushed,  \* those whose publish succeeded
  marked,  \* accounts whose row is marked deleted
  news,    \* revocations announced and not yet received here
  ended,   \* accounts this replica has run EndSessions for
  expired, \* sockets whose token has expired
  sock,    \* how far each socket's handler is, and whose it is
  index,   \* Hub.sockets
  dropped, \* sockets whose drop was called
  current, \* the pump of Hub.threads' entry, NULL when there is none
  pump,    \* each pump goroutine and what Redis has sent it
  events,  \* each subscriber's buffer
  past,    \* how much of the transcript each socket's history held
  got,     \* messages written to each socket as events
  skipped, \* messages dropped because a buffer was full
  twice,   \* sockets that were sent one message in two events
  whole,   \* sockets whose pump has been live ever since they subscribed
  late,    \* messages a sender stored after it should have been refused
  faults   \* how much of MaxFaults is used

room     == <<open, stored, pushed>>
accounts == <<marked, news, ended, expired>>
feeds    == <<current, pump, events, skipped>>
record   == <<past, got, twice, whole>>
vars     == <<room, accounts, sock, index, dropped, feeds, record, late, faults>>

Setup == {"joining", "joined", "registered"}
Live  == {"loop", "send", "insert"}
Subscribed(k) == sock[k].at \in Setup \cup Live
Closed == [at |-> "closed", user |-> NULL]

TypeOK ==
  /\ open \in BOOLEAN
  /\ stored \in 0..MaxMessages /\ pushed \subseteq 1..stored
  /\ {marked, news, ended} \subseteq SUBSET Users
  /\ expired \subseteq Sockets
  /\ sock \in [Senders -> [at : {"none"} \cup Setup \cup Live \cup {"closed"}, user : Users \cup {NULL}]]
  /\ index \subseteq {k \in Sockets : Subscribed(k)} /\ dropped \subseteq Sockets
  /\ current \in Pumps \cup {NULL}
  /\ current = NULL <=> \A k \in Sockets : ~Subscribed(k)
  /\ pump \in [Pumps -> [at : {"none", "starting", "live", "gone"}, inbox : Seq(Messages)]]
  /\ events \in [Sockets -> Seq(Messages)]
  /\ \A k \in Sockets : Len(events[k]) <= Buffer
  /\ {got, skipped} \subseteq [Sockets -> SUBSET Messages]
  /\ past \in [Sockets -> 0..MaxMessages]
  /\ twice \subseteq Sockets /\ whole \subseteq Sockets
  /\ late \in [Senders -> Nat]
  /\ faults \in 0..MaxFaults

Init ==
  /\ open = TRUE
  /\ stored = 0 /\ pushed = {}
  /\ marked = {} /\ news = {} /\ ended = {} /\ expired = {}
  /\ sock = [x \in Senders |-> [at |-> "none", user |-> NULL]]
  /\ index = {} /\ dropped = {}
  /\ current = NULL
  /\ pump = [p \in Pumps |-> [at |-> "none", inbox |-> <<>>]]
  /\ events = [k \in Sockets |-> <<>>]
  /\ past = [k \in Sockets |-> 0] /\ got = [k \in Sockets |-> {}] /\ skipped = [k \in Sockets |-> {}]
  /\ twice = {} /\ whole = {}
  /\ late = [x \in Senders |-> 0]
  /\ faults = 0

Fault == faults < MaxFaults /\ faults' = faults + 1
Goes(x, at) == sock' = [sock EXCEPT ![x].at = at]
-----------------------------------------------------------------------------
(* A socket's way in *)

\* sessionStatus: the account's row says it is deleted.
Revoked(k) == sock[k].user \in marked

\* Accept, then Hub.Subscribe: the first subscriber starts a pump.
Subscribe(k, u) ==
  /\ sock[k].at = "none" /\ \A o \in 1..k - 1 : sock[o].at # "none"
  /\ sock' = [sock EXCEPT ![k] = [at |-> "joining", user |-> u]]
  /\ \/ /\ current # NULL
        /\ whole' = IF pump[current].at = "live" THEN whole \cup {k} ELSE whole
        /\ UNCHANGED <<current, pump>>
     \/ /\ current = NULL
        /\ \E p \in Pumps :
             /\ pump[p].at = "none" /\ \A o \in 1..p - 1 : pump[o].at # "none"
             /\ pump' = [pump EXCEPT ![p].at = "starting"]
             /\ current' = p
        /\ UNCHANGED whole
  /\ UNCHANGED <<room, accounts, index, dropped, events, skipped, past, got, twice, late, faults>>

\* Faulty variant: the transcript is read before the socket is subscribed.
HistoryStale(k) ==
  /\ sock[k].at = "joining"
  /\ past' \in {[past EXCEPT ![k] = n] : n \in 0..stored}
  /\ Goes(k, "joined")
  /\ UNCHANGED <<room, accounts, index, dropped, feeds, got, twice, whole, late, faults>>

\* MarkOnline, then the transcript so far is written to the socket; when it cannot
\* be read, nothing is.
History(k) ==
  /\ sock[k].at = "joining"
  /\ \/ past' = [past EXCEPT ![k] = stored] /\ UNCHANGED <<whole, faults>>
     \/ whole' = whole \ {k} /\ UNCHANGED past /\ Fault
  /\ Goes(k, "joined")
  /\ UNCHANGED <<room, accounts, index, dropped, feeds, got, twice, late>>

Register(k) ==
  /\ sock[k].at = "joined"
  /\ index' = index \cup {k}
  /\ Goes(k, "registered")
  /\ UNCHANGED <<room, accounts, dropped, feeds, record, late, faults>>
-----------------------------------------------------------------------------
(* Its end *)

\* The deferred calls: deregister, MarkOffline, unsubscribe. The last subscriber
\* cancels the pump, whose Redis subscription lasts until the pump returns.
Close(k) ==
  /\ sock' = [sock EXCEPT ![k] = Closed]
  /\ index' = index \ {k}
  /\ dropped' = dropped \ {k} /\ expired' = expired \ {k} /\ whole' = whole \ {k}
  /\ events' = [events EXCEPT ![k] = <<>>]
  /\ past' = [past EXCEPT ![k] = 0] /\ got' = [got EXCEPT ![k] = {}]
  /\ skipped' = [skipped EXCEPT ![k] = {}]
  /\ current' = IF \E o \in Sockets \ {k} : Subscribed(o) THEN current ELSE NULL
  /\ UNCHANGED <<room, marked, news, ended, pump, twice, late, faults>>

\* The client leaves or its connection fails.
Leave(k) == Subscribed(k) /\ Close(k)

\* Faulty variant: the heartbeat leaves revocation to the announcement.
HeartbeatTrusts(k) == sock[k].at = "loop" /\ k \in dropped /\ Close(k)

\* The select loop's ways out: revoked, the expiry timer, and the heartbeat.
Drop(k)      == sock[k].at = "loop" /\ k \in dropped /\ Close(k)
Expiry(k)    == sock[k].at = "loop" /\ k \in expired /\ Close(k)
Heartbeat(k) == sock[k].at = "loop" /\ Revoked(k) /\ Close(k)

\* Faulty variant: the account is not read again once the socket is registered.
CheckNothing(k) ==
  /\ sock[k].at = "registered"
  /\ Goes(k, "loop")
  /\ UNCHANGED <<room, accounts, index, dropped, feeds, record, late, faults>>

\* sessionStatus, right after Register; a row that cannot be read is a Leave.
Check(k) ==
  /\ sock[k].at = "registered"
  /\ \/ Revoked(k) /\ Close(k)
     \/ /\ ~Revoked(k)
        /\ Goes(k, "loop")
        /\ UNCHANGED <<room, accounts, index, dropped, feeds, record, late, faults>>
-----------------------------------------------------------------------------
(* Messages *)

\* Faulty variant: an open socket is trusted.
HandleIncomingTrusts(k) ==
  /\ sock[k].at = "loop"
  /\ Goes(k, "send")
  /\ UNCHANGED <<room, accounts, index, dropped, feeds, record, late, faults>>

\* A client frame: token and account are checked again before it is dispatched.
HandleIncoming(k) ==
  /\ sock[k].at = "loop"
  /\ \/ k \in expired /\ Close(k)
     \/ Revoked(k) /\ Close(k)
     \/ /\ k \notin expired /\ ~Revoked(k)
        /\ Goes(k, "send")
        /\ UNCHANGED <<room, accounts, index, dropped, feeds, record, late, faults>>

\* Where a sender is before and after Send.
Before(x) == IF x \in Sockets THEN "send" ELSE "none"
After(x)  == IF x \in Sockets THEN "loop" ELSE "closed"

\* Send: activeThread. A refusal is written back to the socket.
SendChecks(x) ==
  /\ sock[x].at = Before(x)
  /\ Goes(x, IF open THEN "insert" ELSE After(x))
  /\ UNCHANGED <<room, accounts, index, dropped, feeds, record, late, faults>>

\* CreateChatMessage and TouchChatThread.
CreateChatMessage == stored' = stored + 1

\* Hub.Publish: Redis hands the event to every pump that is subscribed now.
Publish(n) ==
  /\ pushed' = pushed \cup {n}
  /\ pump' = [p \in Pumps |-> IF pump[p].at = "live"
                THEN [pump[p] EXCEPT !.inbox = Append(@, n)] ELSE pump[p]]

Refusable(x) == ~open \/ x \in expired \/ sock[x].user \in marked

\* The message is stored, then published: one step, for what happens between the two
\* can only put the message into a history too. A failed publish is logged and the
\* sender told of success.
SendStores(x) ==
  /\ sock[x].at = "insert" /\ stored < MaxMessages
  /\ CreateChatMessage
  /\ \/ Publish(stored') /\ UNCHANGED faults
     \/ UNCHANGED <<pushed, pump>> /\ Fault
  /\ Goes(x, After(x))
  /\ late' = IF Refusable(x) THEN [late EXCEPT ![x] = @ + 1] ELSE late
  /\ UNCHANGED <<open, accounts, index, dropped, current, events, skipped, record>>

\* CreateChatMessage fails, and the sender is told.
SendFails(x) ==
  /\ sock[x].at = "insert"
  /\ Goes(x, After(x))
  /\ UNCHANGED <<room, accounts, index, dropped, feeds, record, late, faults>>

\* CloseChatThread.
CloseChatThread == open' = FALSE

\* Service.Close, by either participant.
CloseThread ==
  /\ open /\ CloseChatThread
  /\ UNCHANGED <<stored, pushed, accounts, sock, index, dropped, feeds, record, late, faults>>

\* rdb.Subscribe is confirmed in its own time.
PumpStarts(p) ==
  /\ pump[p].at = "starting"
  /\ pump' = [pump EXCEPT ![p].at = "live"]
  /\ UNCHANGED <<room, accounts, sock, index, dropped, current, events, skipped, record, late, faults>>

\* The connection to Redis is lost; go-redis subscribes again.
PumpLosesRedis(p) ==
  /\ p = current /\ pump[p].at = "live" /\ Fault
  /\ pump' = [pump EXCEPT ![p] = [at |-> "starting", inbox |-> <<>>]]
  /\ whole' = {}
  /\ UNCHANGED <<room, accounts, sock, index, dropped, current, events, skipped, past, got, twice, late>>

\* Faulty variant: off by one.
FullLate(k) == Len(events[k]) > Buffer

\* The default of broadcastLocal's select.
Full(k) == Len(events[k]) = Buffer

\* ReceiveMessage and broadcastLocal: to the thread's sockets of now, whichever pump
\* it is, cancelled or not; a full buffer drops the event.
PumpForwards(p) ==
  /\ pump[p].at = "live" /\ pump[p].inbox # <<>>
  /\ LET m == Head(pump[p].inbox)
         to == {k \in Sockets : Subscribed(k)}
         full == {k \in to : Full(k)}
     IN /\ events' = [k \in Sockets |-> IF k \in to \ full THEN Append(events[k], m) ELSE events[k]]
        /\ skipped' = [k \in Sockets |-> IF k \in full THEN skipped[k] \cup {m} ELSE skipped[k]]
  /\ pump' = [pump EXCEPT ![p].inbox = Tail(@)]
  /\ UNCHANGED <<room, accounts, sock, index, dropped, current, record, late, faults>>

\* A cancelled pump returns when its ReceiveMessage does: no fairness, for a
\* blocking one does not notice the cancel (notify/hub.go:181-183).
PumpReturns(p) ==
  /\ p # current /\ pump[p].at \in {"starting", "live"}
  /\ pump' = [pump EXCEPT ![p] = [at |-> "gone", inbox |-> <<>>]]
  /\ UNCHANGED <<room, accounts, sock, index, dropped, current, events, skipped, record, late, faults>>

\* An event is written to the client.
Write(k) ==
  /\ sock[k].at = "loop" /\ events[k] # <<>>
  /\ LET m == Head(events[k]) IN
     /\ got' = [got EXCEPT ![k] = @ \cup {m}]
     /\ twice' = IF m \in got[k] THEN twice \cup {k} ELSE twice
  /\ events' = [events EXCEPT ![k] = Tail(@)]
  /\ UNCHANGED <<room, accounts, sock, index, dropped, current, pump, skipped, past, whole, late, faults>>
-----------------------------------------------------------------------------
(* Accounts *)

\* The deletion marks the row, then Revoke announces it; the announcement may fail.
Mark(u) ==
  /\ u \notin marked
  /\ marked' = marked \cup {u}
  /\ \/ news' = news \cup {u} /\ UNCHANGED faults
     \/ UNCHANGED news /\ Fault
  /\ UNCHANGED <<room, ended, expired, sock, index, dropped, feeds, record, late>>

\* Each socket of the account is forgotten and its drop called.
EndSessions(u) ==
  LET mine == {k \in index : sock[k].user = u} IN
  index' = index \ mine /\ dropped' = dropped \cup mine

WatchRevocations(u) ==
  /\ u \in news
  /\ news' = news \ {u} /\ ended' = ended \cup {u}
  /\ EndSessions(u)
  /\ UNCHANGED <<room, marked, expired, sock, feeds, record, late, faults>>

Expire(k) ==
  /\ sock[k].at \in Live /\ k \notin expired
  /\ expired' = expired \cup {k}
  /\ UNCHANGED <<room, marked, news, ended, sock, index, dropped, feeds, record, late, faults>>
-----------------------------------------------------------------------------
SendStep(x) == SendChecks(x) \/ SendStores(x) \/ SendFails(x)
SocketStep(k) == History(k) \/ Register(k) \/ Check(k) \/ SendStep(k)
LoopStep(k) == Drop(k) \/ Expiry(k) \/ Heartbeat(k)
PumpStep(p) == PumpStarts(p) \/ PumpForwards(p)
PumpEnd(p) == PumpReturns(p) \/ PumpLosesRedis(p)

Next ==
  \/ \E k \in Sockets :
       \/ \E u \in Users : Subscribe(k, u)
       \/ SocketStep(k) \/ LoopStep(k) \/ HandleIncoming(k) \/ Write(k) \/ Leave(k) \/ Expire(k)
  \/ \E x \in Posters : SendStep(x)
  \/ \E p \in Pumps : PumpStep(p) \/ PumpEnd(p)
  \/ \E u \in Users : Mark(u) \/ WatchRevocations(u)
  \/ CloseThread

Spec == Init /\ [][Next]_vars

\* A handler runs on, its writes bounded by writeTimeout; its timers fire.
FairSpec == Spec /\ \A k \in Sockets : WF_vars(SocketStep(k)) /\ WF_vars(LoopStep(k))
-----------------------------------------------------------------------------
\* handler.go:253-254: registering first and checking second leaves no gap. Once this
\* replica has acted on an announcement, every socket of the account still serving
\* has been told to end, however its set-up and the announcement interleaved.
AnnouncedIsDropped ==
  \A k \in Sockets : sock[k].at \in Live /\ sock[k].user \in ended => k \in dropped

\* "every client event is a privileged action": after its account is marked, its token
\* has expired or the thread is closed, a socket stores at most the one message it was
\* dispatching, and a poster the one it was posting.
OneLateMessage == \A x \in Senders : late[x] <= 1

\* The messages in a buffer or an inbox.
Elements(s) == {s[i] : i \in DOMAIN s}

\* Messages a socket will still be handed.
Coming(k) == Elements(events[k]) \cup (IF current = NULL THEN {} ELSE Elements(pump[current].inbox))

\* Subscribe before History leaves no gap: a socket that joined a live feed, one
\* Redis has not dropped since, has, or is
\* about to be handed, every message published, whenever it was stored; except what
\* its full buffer dropped.
JoinedLiveMissesNothing ==
  \A k \in whole : sock[k].at \in Live =>
    pushed \subseteq 1..past[k] \cup got[k] \cup skipped[k] \cup Coming(k)

\* No socket of a deleted account stays open, though its announcement be lost: the
\* heartbeat finds it.
RevokedSocketsEnd ==
  \A k \in Sockets : Subscribed(k) /\ sock[k].user \in marked ~> sock[k].at = "closed"

\* chat/hub.go:157-158: the last socket of a thread to leave "stops its Redis
\* subscription", so no message reaches a later socket twice.  The code does not keep
\* this: PumpForwards does not ask whose pump it is.
SentOnce == twice = {}

\* No pump starts while a cancelled one has yet to return: what SentOnce takes.
OneFeed == \A p, q \in Pumps : {pump[p].at, pump[q].at} \subseteq {"starting", "live"} => p = q
-----------------------------------------------------------------------------
(* What a socket's way so far implies: the proofs' induction.               *)

\* Whoever is told of an ended account was marked; a socket past Register is in the index
\* until its drop is called, and one let into the loop after its account ended was not let.
SocketsAgree ==
  /\ ended \cup news \subseteq marked
  /\ \A k \in Sockets : sock[k].at \in {"registered"} \cup Live => k \in index \cup dropped
  /\ AnnouncedIsDropped

\* A sender that has stored a late message is not about to store another.
SenderAgrees(x) ==
  /\ sock[x].at \in {"none"} \cup Setup => late[x] = 0
  /\ x \in Posters => sock[x].at \in {"none", "insert", "closed"}
  /\ \/ late[x] = 0
     \/ /\ late[x] = 1 /\ sock[x].at # "insert"
        /\ sock[x].at = "send" => ~open
        /\ sock[x].at = "loop" => Refusable(x)
SendersAgree == \A x \in Senders : SenderAgrees(x)

\* A socket that joined a live feed still has it, and from its history on has or is about
\* to be handed every message.
FeedAgrees(k) ==
  /\ Subscribed(k) /\ current # NULL /\ pump[current].at = "live"
  /\ sock[k].at # "joining" => pushed \subseteq 1..past[k] \cup got[k] \cup skipped[k] \cup Coming(k)
FeedsAgree == \A k \in whole : FeedAgrees(k)

\* With one feed, what a socket was sent, what waits in its buffer and what waits with its
\* pump have no message in common, nor any message twice.
Distinct(s) == \A i, j \in DOMAIN s : s[i] = s[j] => i = j

InboxApart(p) ==
  /\ Distinct(pump[p].inbox) /\ Elements(pump[p].inbox) \subseteq pushed
  /\ pump[p].at # "live" => pump[p].inbox = <<>>

BufferApart(k) ==
  /\ Distinct(events[k]) /\ Elements(events[k]) \cup got[k] \subseteq pushed
  /\ Elements(events[k]) \cap got[k] = {}
  /\ current # NULL => Elements(pump[current].inbox) \cap (Elements(events[k]) \cup got[k]) = {}
  /\ ~Subscribed(k) => events[k] = <<>> /\ got[k] = {}

FeedsApart ==
  /\ current # NULL => pump[current].at \in {"starting", "live"}
  /\ \A p \in Pumps : InboxApart(p)
  /\ \A k \in Sockets : BufferApart(k)
  /\ SentOnce
=============================================================================
