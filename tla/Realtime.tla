------------------------------ MODULE Realtime ------------------------------
(***************************************************************************)
(* Realtime messages, from the topic of device states to the browser.      *)
(*                                                                         *)
(* The backend (internal/realtime) reads the topic with one consumer,      *)
(* copies the connections registered under the message's tenant, and puts  *)
(* the message into the write buffer of each; every connection has a loop  *)
(* that writes its buffer to its socket.  A connection whose buffer is     *)
(* full is closed.  In the browser (hooks/useDevicesRealtime.ts) a mounted *)
(* hook keeps one socket open and opens another when it loses it; the hook *)
(* of the console's frame feeds the event inbox                            *)
(* (stores/eventInboxStore.ts).                                            *)
(***************************************************************************)
EXTENDS Integers, Sequences, FiniteSets

CONSTANTS
    Clients,        \* mounted hooks
    Console,        \* the one that feeds the event inbox
    Tenants,
    Owners,         \* what the clients' users may own when a behaviour starts
    Malformed,      \* the tenant of a message that has none or cannot be read
    Log,            \* the topic: the tenant of each message
    Buffer,         \* messages a connection buffers (64)
    InboxSize,      \* events the inbox keeps (20)
    Conns,          \* bound: connections at a time
    Budgets         \* bounds, of which a behaviour has one: failures of the
                    \* network and of Kafka, crashes, events marked as read,
                    \* and what else users do

ASSUME RealtimeWorld ==
    /\ Console \in Clients
    /\ Owners \subseteq [Clients -> SUBSET Tenants]
    /\ Malformed \notin Tenants
    /\ Log \in Seq(Tenants \cup {Malformed})
    /\ {Buffer, InboxSize} \subseteq Nat \ {0}
    /\ Conns \subseteq Nat \ {0}
    /\ Budgets \subseteq [{"failures", "crashes", "reads", "acts"} -> Nat]

VARIABLES
    consumer,       \* of the backend: whether it runs, its place in the topic, the
                    \* message in hand and the connections it still goes to
    committed,      \* offset of its consumer group
    conns,          \* the connections, as the backend has them and on the network
    client,         \* each hook: its status and its socket
    inbox,          \* the events the console keeps, newest first
    unread,         \* and how many it says are unread
    owned,          \* the tenants of each client's user
    loggedIn,       \* the clients whose session is valid
    left,           \* what is left of the budget
    handled,        \* history: the messages that were broadcast or dropped
    slow            \* history: the clients that had a connection with a full buffer

realtimeVars == <<consumer, committed, conns, client, inbox, unread, owned, loggedIn, left, handled, slow>>
inboxVars == <<inbox, unread>>
userVars == <<owned, loggedIn>>
historyVars == <<handled, slow>>

NoConn == 0
NoCode == 0
Idle == [up |-> TRUE, offset |-> 0, msg |-> 0, targets |-> {}, closing |-> NoConn]

\* StatusNormalClosure, StatusPolicyViolation (1008), StatusInternalError, and the
\* code a browser reports for a connection that ended without one.
Normal == 1000
Overflow == 1008
Internal == 1011
Abnormal == 1006

\* owed and got are history: the messages a connection was a target of, and those
\* its client received.
Unused == [phase |-> "unused", client |-> Console, tenants |-> {}, queue |-> <<>>, closed |-> FALSE,
           sealed |-> FALSE, code |-> NoCode, peer |-> TRUE, wire |-> <<>>, owed |-> <<>>, got |-> <<>>]

Init ==
    /\ consumer = Idle
    /\ committed = 0
    /\ conns = [i \in Conns |-> Unused]
    /\ client = [c \in Clients |-> [status |-> "connecting", conn |-> NoConn]]
    /\ inbox = <<>>
    /\ unread = 0
    /\ owned \in Owners
    /\ loggedIn = Clients
    /\ left \in Budgets
    /\ handled = {}
    /\ slow = {}

Spend(what) == left[what] > 0 /\ left' = [left EXCEPT ![what] = @ - 1]

----------------------------------------------------------------------------
(* The backend's connections. *)

\* closeWithReason: only the first call has an effect.
Close(k, code) == IF k.closed THEN k ELSE [k EXCEPT !.closed = TRUE, !.code = code]

\* Nothing of a connection that is gone on both sides matters any more.
Gone == [Unused EXCEPT !.phase = "unregistered", !.closed = TRUE, !.sealed = TRUE, !.peer = FALSE]
Retired(k) == IF k.phase = "unregistered" /\ ~k.peer THEN [Gone EXCEPT !.sealed = k.sealed] ELSE k

\* Where the next connection has room.
Free(i) ==
    \/ conns[i].phase = "unused"
    \/ conns[i] = Gone /\ i \notin consumer.targets /\ \A c \in Clients : client[c].conn # i

\* Run returned: the handler's deferred Unregister.  What is buffered is lost.
Unregistered(k) == Retired([k EXCEPT !.phase = "unregistered", !.queue = <<>>])

\* The handler authenticates, looks the user's tenants up, and accepts: the
\* connection keeps these tenants.
Serve(c, i) ==
    /\ consumer.up
    /\ client[c].status = "connecting" /\ client[c].conn = NoConn
    /\ c \in loggedIn /\ owned[c] # {}
    /\ Free(i) /\ \A j \in Conns : j < i => ~Free(j)
    /\ conns' = [conns EXCEPT ![i] = [Unused EXCEPT !.phase = "accepted", !.client = c, !.tenants = owned[c]]]
    /\ client' = [client EXCEPT ![c].conn = i]
    /\ UNCHANGED <<consumer, committed, inboxVars, userVars, left, historyVars>>

Register(i) ==
    /\ conns[i].phase = "accepted"
    /\ conns' = [conns EXCEPT ![i].phase = "registered"]
    /\ UNCHANGED <<consumer, committed, client, inboxVars, userVars, left, historyVars>>

\* writeLoop writes a message, which fails once the socket is closed.  After the
\* connection was closed it may still take one from the buffer.
Write(i) ==
    LET k == conns[i]
    IN  /\ k.phase = "registered" /\ k.queue # <<>>
        /\ conns' = [conns EXCEPT ![i] =
               IF k.peer /\ ~k.sealed
               THEN [k EXCEPT !.queue = Tail(@), !.wire = Append(@, Head(k.queue))]
               ELSE Unregistered(Close(k, Internal))]
        /\ UNCHANGED <<consumer, committed, client, inboxVars, userVars, left, historyVars>>

\* Mutant: a ping to a peer that is gone does not fail.
PingNeverFails(i) == FALSE /\ i \in Conns /\ UNCHANGED realtimeVars

\* Every 30 seconds: fails when the peer is gone.
PingFails(i) ==
    /\ conns[i].phase = "registered" /\ ~conns[i].peer
    /\ conns' = [conns EXCEPT ![i] = Unregistered(Close(@, Internal))]
    /\ UNCHANGED <<consumer, committed, client, inboxVars, userVars, left, historyVars>>

\* readLoop: the browser closed the socket, or it broke and this was noticed.
ReadFails(i) ==
    /\ conns[i].phase = "registered" /\ ~conns[i].peer /\ ~conns[i].closed
    /\ conns' = [conns EXCEPT ![i] = Close(@, Normal)]
    /\ UNCHANGED <<consumer, committed, client, inboxVars, userVars, left, historyVars>>

\* Mutant: a broadcast that closed the connection is never let go.
CloseSocketOnly(i) ==
    /\ conns[i].closed /\ ~conns[i].sealed
    /\ conns' = [conns EXCEPT ![i].sealed = TRUE]
    /\ UNCHANGED <<consumer, committed, client, inboxVars, userVars, left, historyVars>>

\* The rest of closeWithReason: the close frame is sent and answered, or that times
\* out.  A broadcast that closed the connection waits for it.
CloseSocket(i) ==
    /\ conns[i].closed /\ ~conns[i].sealed
    /\ conns' = [conns EXCEPT ![i].sealed = TRUE]
    /\ consumer' = IF consumer.closing = i
                   THEN [consumer EXCEPT !.closing = NoConn, !.targets = @ \ {i}] ELSE consumer
    /\ UNCHANGED <<committed, client, inboxVars, userVars, left, historyVars>>

\* writeLoop sees that the connection is closed.
WriteLoopReturns(i) ==
    /\ conns[i].phase = "registered" /\ conns[i].closed
    /\ conns' = [conns EXCEPT ![i] = Unregistered(@)]
    /\ UNCHANGED <<consumer, committed, client, inboxVars, userVars, left, historyVars>>

----------------------------------------------------------------------------
(* The consumer. *)

\* Mutant: Broadcast does not look at the tenant.
TargetsOfAll(tenant) == {i \in Conns : conns[i].phase = "registered"}

\* What Broadcast finds under a tenant: a closed connection stays there until it is
\* unregistered.
Targets(tenant) == {i \in Conns : conns[i].phase = "registered" /\ tenant \in conns[i].tenants}

\* A message is received and, if it has a tenant, the connections it goes to are
\* copied.
Receive ==
    LET n == consumer.offset + 1
        targets == IF Log[n] = Malformed THEN {} ELSE Targets(Log[n])
    IN  /\ consumer.up /\ consumer.msg = 0 /\ consumer.offset < Len(Log)
        /\ consumer' = [consumer EXCEPT !.offset = n, !.msg = n, !.targets = targets]
        /\ conns' = [i \in Conns |-> IF i \in targets THEN [conns[i] EXCEPT !.owed = Append(@, n)] ELSE conns[i]]
        /\ UNCHANGED <<committed, client, inboxVars, userVars, left, historyVars>>

HasRoom(i) == Len(conns[i].queue) < Buffer

\* Mutant: a full buffer is passed over and the connection stays.
FullSkips(i) ==
    /\ ~HasRoom(i)
    /\ consumer' = [consumer EXCEPT !.targets = @ \ {i}]
    /\ UNCHANGED <<conns, slow>>

\* The buffer is full: the connection is closed, with 1008.
Full(i) ==
    /\ ~HasRoom(i) /\ ~conns[i].closed
    /\ consumer' = [consumer EXCEPT !.closing = i]
    /\ conns' = [conns EXCEPT ![i] = Close(@, Overflow)]
    /\ slow' = slow \cup {conns[i].client}

\* Send, to one of the connections copied.  With room in the buffer of a closed
\* connection either case of the select may be taken.
Send(i) ==
    /\ i \in consumer.targets /\ consumer.closing = NoConn
    /\ \/ /\ conns[i].closed
          /\ consumer' = [consumer EXCEPT !.targets = @ \ {i}]
          /\ UNCHANGED <<conns, slow>>
       \/ /\ HasRoom(i) /\ conns[i].phase = "registered"
          /\ consumer' = [consumer EXCEPT !.targets = @ \ {i}]
          /\ conns' = [conns EXCEPT ![i].queue = Append(@, consumer.msg)]
          /\ UNCHANGED slow
       \/ Full(i)
    /\ UNCHANGED <<committed, client, inboxVars, userVars, left, handled>>

\* Mutant: the message is acknowledged before its broadcast has ended.
AckEarly ==
    /\ consumer.up /\ consumer.msg # 0 /\ consumer.closing = NoConn
    /\ consumer' = [consumer EXCEPT !.msg = 0, !.targets = {}]
    /\ handled' = IF consumer.targets = {} THEN handled \cup {consumer.msg} ELSE handled
    /\ committed' = consumer.msg
    /\ UNCHANGED <<conns, client, inboxVars, userVars, left, slow>>

\* Ack or Drop commits the message; that this failed is not noticed.
Ack ==
    /\ consumer.up /\ consumer.msg # 0 /\ consumer.targets = {}
    /\ consumer' = [consumer EXCEPT !.msg = 0]
    /\ handled' = handled \cup {consumer.msg}
    /\ \/ committed' = consumer.msg /\ UNCHANGED left
       \/ UNCHANGED committed /\ Spend("failures")
    /\ UNCHANGED <<conns, client, inboxVars, userVars, slow>>

\* The reader rejoins its group: what is not committed comes again.
Rejoin ==
    /\ Spend("failures")
    /\ consumer.up /\ consumer.offset # committed
    /\ consumer' = [consumer EXCEPT !.offset = committed]
    /\ UNCHANGED <<committed, conns, client, inboxVars, userVars, historyVars>>

\* The process ends, as it also does when Receive fails, and takes its connections
\* with it.
Crash ==
    /\ Spend("crashes")
    /\ consumer.up
    /\ consumer' = [Idle EXCEPT !.up = FALSE]
    /\ conns' = [i \in Conns |-> IF conns[i].phase = "unused" THEN Unused ELSE Gone]
    /\ UNCHANGED <<committed, client, inboxVars, userVars, historyVars>>

\* The consumer joins the configured group or, without one, a new one, which begins
\* with the first message.
Start ==
    /\ ~consumer.up
    /\ committed' \in {committed, 0}
    /\ consumer' = [Idle EXCEPT !.offset = committed']
    /\ UNCHANGED <<conns, client, inboxVars, userVars, left, historyVars>>

----------------------------------------------------------------------------
(* The browser. *)

\* Mutant: the event that falls out at the end is still counted.
PushEventCounts(n) ==
    IF \E j \in DOMAIN inbox : inbox[j].id = n THEN UNCHANGED inboxVars
    ELSE /\ inbox' = SubSeq(<<[id |-> n, read |-> FALSE]>> \o inbox, 1,
                            IF Len(inbox) < InboxSize THEN Len(inbox) + 1 ELSE InboxSize)
         /\ unread' = unread + 1

\* An event the inbox keeps already is not added again.
PushEvent(n) ==
    IF \E j \in DOMAIN inbox : inbox[j].id = n THEN UNCHANGED inboxVars
    ELSE LET items == SubSeq(<<[id |-> n, read |-> FALSE]>> \o inbox, 1,
                             IF Len(inbox) < InboxSize THEN Len(inbox) + 1 ELSE InboxSize)
         IN  inbox' = items /\ unread' = Cardinality({j \in DOMAIN items : ~items[j].read})

\* The socket is closed, and the browser's side of it gone.
Hang(i) == IF i = NoConn THEN conns ELSE [conns EXCEPT ![i] = Retired([@ EXCEPT !.peer = FALSE, !.wire = <<>>])]

OnOpen(c) ==
    /\ client[c].status = "connecting" /\ client[c].conn # NoConn
    /\ conns[client[c].conn].peer
    /\ client' = [client EXCEPT ![c].status = "open"]
    /\ UNCHANGED <<consumer, committed, conns, inboxVars, userVars, left, historyVars>>

OnMessage(c) ==
    LET i == client[c].conn
    IN  /\ client[c].status = "open" /\ conns[i].wire # <<>>
        /\ conns' = [conns EXCEPT ![i].wire = Tail(@), ![i].got = Append(@, Head(conns[i].wire))]
        /\ IF c = Console THEN PushEvent(Head(conns[i].wire)) ELSE UNCHANGED inboxVars
        /\ UNCHANGED <<consumer, committed, client, userVars, left, historyVars>>

\* Mutant: a lost connection is final, too.
StatusAfterAlwaysGivesUp(code) == IF code \in {Overflow, Abnormal} THEN "closed" ELSE "reconnecting"

\* A refused login, as the hook takes it, is final.
StatusAfter(code) == IF code = Overflow THEN "closed" ELSE "reconnecting"

\* The socket ended: after what was written, with the server's code; or without one.
OnClose(c) ==
    LET i == client[c].conn
        code == IF conns[i].peer THEN conns[i].code ELSE Abnormal
    IN  /\ i # NoConn
        /\ ~conns[i].peer \/ (client[c].status = "open" /\ conns[i].sealed /\ conns[i].wire = <<>>)
        /\ client' = [client EXCEPT ![c] = [status |-> StatusAfter(code), conn |-> NoConn]]
        /\ conns' = Hang(i)
        /\ UNCHANGED <<consumer, committed, inboxVars, userVars, left, historyVars>>

\* The handshake was refused or not answered.
Refused(c) == ~consumer.up \/ c \notin loggedIn \/ owned[c] = {}

OnHandshakeFailed(c) ==
    /\ client[c].status = "connecting" /\ client[c].conn = NoConn
    /\ IF Refused(c) THEN UNCHANGED left ELSE Spend("failures")
    /\ client' = [client EXCEPT ![c].status = StatusAfter(Abnormal)]
    /\ UNCHANGED <<consumer, committed, conns, inboxVars, userVars, historyVars>>

\* The timer of scheduleReconnect.
Reconnect(c) ==
    /\ client[c].status = "reconnecting"
    /\ client' = [client EXCEPT ![c].status = "connecting"]
    /\ UNCHANGED <<consumer, committed, conns, inboxVars, userVars, left, historyVars>>

\* The network loses a connection.
Lost(i) ==
    /\ Spend("failures")
    /\ conns[i].phase # "unused" /\ conns[i].peer
    /\ conns' = Hang(i)
    /\ UNCHANGED <<consumer, committed, client, inboxVars, userVars, historyVars>>

\* The page with the hook is left, or opened.
Unmount(c) ==
    /\ Spend("acts")
    /\ client[c].status # "idle"
    /\ client' = [client EXCEPT ![c] = [status |-> "idle", conn |-> NoConn]]
    /\ conns' = Hang(client[c].conn)
    /\ UNCHANGED <<consumer, committed, inboxVars, userVars, historyVars>>

Mount(c) ==
    /\ client[c].status = "idle"
    /\ client' = [client EXCEPT ![c].status = "connecting"]
    /\ UNCHANGED <<consumer, committed, conns, inboxVars, userVars, left, historyVars>>

MarkRead(n) ==
    /\ \E j \in DOMAIN inbox : inbox[j] = [id |-> n, read |-> FALSE]
    /\ Spend("reads")
    /\ inbox' = [j \in DOMAIN inbox |-> IF inbox[j].id = n THEN [inbox[j] EXCEPT !.read = TRUE] ELSE inbox[j]]
    /\ unread' = Cardinality({j \in DOMAIN inbox : ~inbox'[j].read})
    /\ UNCHANGED <<consumer, committed, conns, client, userVars, historyVars>>

MarkAllRead ==
    /\ Spend("reads")
    /\ unread # 0
    /\ inbox' = [j \in DOMAIN inbox |-> [inbox[j] EXCEPT !.read = TRUE]]
    /\ unread' = 0
    /\ UNCHANGED <<consumer, committed, conns, client, userVars, historyVars>>

\* A session ends, or another begins; a tenant is created.
SessionChanges(c) ==
    /\ Spend("acts")
    /\ loggedIn' = IF c \in loggedIn THEN loggedIn \ {c} ELSE loggedIn \cup {c}
    /\ UNCHANGED <<consumer, committed, conns, client, inboxVars, owned, historyVars>>

TenantCreated(c, t) ==
    /\ Spend("acts")
    /\ t \notin owned[c]
    /\ owned' = [owned EXCEPT ![c] = @ \cup {t}]
    /\ UNCHANGED <<consumer, committed, conns, client, inboxVars, loggedIn, historyVars>>

----------------------------------------------------------------------------
\* The consumer's goroutine, a connection's, and a hook.
Consume == Receive \/ Ack \/ Start \/ \E i \in Conns : Send(i)

Run(i) == Register(i) \/ Write(i) \/ PingFails(i) \/ WriteLoopReturns(i)

Hook(c) ==
    \/ \E i \in Conns : Serve(c, i)
    \/ OnOpen(c) \/ OnMessage(c) \/ OnClose(c) \/ OnHandshakeFailed(c) \/ Reconnect(c)

Users ==
    \/ \E c \in Clients : Unmount(c) \/ Mount(c) \/ SessionChanges(c) \/ \E t \in Tenants : TenantCreated(c, t)
    \/ MarkAllRead
    \/ \E n \in DOMAIN Log : MarkRead(n)

Next ==
    \/ Consume \/ Rejoin \/ Crash
    \/ \E i \in Conns : Run(i) \/ ReadFails(i) \/ CloseSocket(i) \/ Lost(i)
    \/ \E c \in Clients : Hook(c)
    \/ Users

Spec == Init /\ [][Next]_realtimeVars

\* The process is started again and its goroutines run, a close handshake is
\* answered or times out, and the browser delivers what reaches it.
Fairness ==
    /\ WF_realtimeVars(Consume)
    /\ \A i \in Conns : WF_realtimeVars(Run(i)) /\ WF_realtimeVars(CloseSocket(i))
    /\ \A c \in Clients : WF_realtimeVars(Hook(c))

LiveSpec == Spec /\ Fairness

----------------------------------------------------------------------------
Messages == Seq(DOMAIN Log)

Conn ==
    [phase : {"unused", "accepted", "registered", "unregistered"}, client : Clients,
     tenants : SUBSET Tenants, queue : Messages, closed : BOOLEAN, sealed : BOOLEAN,
     code : {NoCode, Normal, Overflow, Internal}, peer : BOOLEAN, wire : Messages, owed : Messages,
     got : Messages]

\* Type correctness of the backend, the network and the browser.
TypeOK ==
    /\ consumer \in [up : BOOLEAN, offset : 0 .. Len(Log), msg : 0 .. Len(Log), targets : SUBSET Conns,
                     closing : Conns \cup {NoConn}]
    /\ committed \in 0 .. Len(Log)
    /\ conns \in [Conns -> Conn]
    /\ \A i \in Conns : Len(conns[i].queue) <= Buffer
    /\ client \in [Clients -> [status : {"idle", "connecting", "open", "reconnecting", "closed"},
                               conn : Conns \cup {NoConn}]]
    /\ inbox \in Seq([id : DOMAIN Log, read : BOOLEAN]) /\ Len(inbox) <= InboxSize
    /\ unread \in 0 .. InboxSize
    /\ owned \in [Clients -> SUBSET Tenants] /\ loggedIn \subseteq Clients
    /\ left \in [{"failures", "crashes", "reads", "acts"} -> Nat]
    /\ handled \subseteq DOMAIN Log /\ slow \subseteq Clients

\* A connection that is open has skipped nothing: what its client received, what is
\* on the way, what is buffered and the message the consumer is about to send are
\* all the messages broadcast since it was registered, in order.  And whatever
\* becomes of it, what its client received is the beginning of them.
NothingSkipped ==
    \A i \in Conns :
        LET k == conns[i]
            sent == k.got \o k.wire
            pending == IF i \in consumer.targets THEN <<consumer.msg>> ELSE <<>>
        IN  /\ k.phase = "registered" /\ ~k.closed /\ k.peer => sent \o k.queue \o pending = k.owed
            /\ Len(sent) <= Len(k.owed) /\ sent = SubSeq(k.owed, 1, Len(sent))

\* A client receives only messages of tenants of its user.
OnlyOwnTenants ==
    \A i \in Conns : \A j \in DOMAIN conns[i].got : Log[conns[i].got[j]] \in owned[conns[i].client]

\* What is committed was broadcast, however often the process crashed in between:
\* no crash makes the backend pass a message over.
CommittedWasBroadcast == 1 .. committed \subseteq handled

\* A hook stops reconnecting only when the server closed its connection because it
\* was too slow: a server that goes away, a broken network and a refused session
\* never end its attempts.  (The hook takes the code for a refused login.)
GivesUpOnlyWhenSlow ==
    \A c \in Clients : client[c].status = "closed" => c \in slow

\* What the hook takes the code 1008 for (unauthorizedCloseCode): it stops
\* reconnecting only when its user is not logged in.  The server refuses such a
\* user before there is a socket, and sends the code to slow clients alone.
ClosedIsUnauthorized ==
    \A c \in Clients : client[c].status = "closed" => c \notin loggedIn

\* The inbox lists no event twice and counts its unread ones, also when messages
\* are broadcast again after a restart, and when old events, read or not, fall out
\* at its end.
InboxIsConsistent ==
    /\ \A i, j \in DOMAIN inbox : inbox[i].id = inbox[j].id => i = j
    /\ unread = Cardinality({j \in DOMAIN inbox : ~inbox[j].read})

\* Failures, crashes and what users do being over at some time (their number is
\* bounded), the connections whose clients are gone have been unregistered: also
\* those that no message is sent to.
GoneAreUnregistered == <>[](\A i \in Conns : conns[i].phase = "registered" => conns[i].peer)

\* Then, too, the consumer has got past every connection that was full or closed
\* meanwhile, to the end of the topic.
BroadcastsEnd == <>[](consumer.msg = 0 /\ consumer.offset = Len(Log))

Connected(c) == client[c].status = "open" /\ conns[client[c].conn].peer

\* And every hook whose session is valid has a socket, whatever it lost before: a
\* server that goes away and a broken network never end its attempts.  The only one
\* that stays without is the one whose buffer was full once.
Reconnects ==
    <>[](\A c \in loggedIn : owned[c] # {} =>
             \/ Connected(c) \/ client[c].status = "idle"
             \/ client[c].status = "closed" /\ c \in slow)
=============================================================================
