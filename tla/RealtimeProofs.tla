--------------------------- MODULE RealtimeProofs ---------------------------
(***************************************************************************)
(* Theorems about Realtime: what clients receive and what is committed,    *)
(* for every number of clients, connections, tenants and messages, every   *)
(* size of buffer and inbox, and any number of failures.                   *)
(***************************************************************************)
EXTENDS Realtime, TLAPS, FiniteSetTheorems, SequenceTheorems

\* The conjuncts of TypeOK, by variable.
ConnOK == {k \in Conn : Len(k.queue) <= Buffer}
ConsumerOK == consumer \in [up : BOOLEAN, offset : 0 .. Len(Log), msg : 0 .. Len(Log), targets : SUBSET Conns,
                            closing : Conns \cup {NoConn}]
CommittedOK == committed \in 0 .. Len(Log)
ConnsOK == conns \in [Conns -> ConnOK]
ClientOK == client \in [Clients -> [status : {"idle", "connecting", "open", "reconnecting", "closed"},
                                    conn : Conns \cup {NoConn}]]
InboxOK == inbox \in Seq([id : DOMAIN Log, read : BOOLEAN]) /\ Len(inbox) <= InboxSize /\ unread \in 0 .. InboxSize
UserOK == owned \in [Clients -> SUBSET Tenants] /\ loggedIn \subseteq Clients
LeftOK == left \in [{"failures", "crashes", "reads", "acts"} -> Nat]
HistoryOK == handled \subseteq DOMAIN Log /\ slow \subseteq Clients

LEMMA TypeParts ==
  TypeOK <=> ConsumerOK /\ CommittedOK /\ ConnsOK /\ ClientOK /\ InboxOK /\ UserOK /\ LeftOK /\ HistoryOK
<1>1. conns \in [Conns -> Conn] /\ (\A i \in Conns : Len(conns[i].queue) <= Buffer) <=> ConnsOK
  BY DEF ConnsOK, ConnOK
<1>2. QED
  BY <1>1 DEF TypeOK, ConsumerOK, CommittedOK, ClientOK, InboxOK, UserOK, LeftOK, HistoryOK

\* The log holds the messages its numbers name.
LEMMA LogFacts == /\ Len(Log) \in Nat /\ DOMAIN Log = 1 .. Len(Log)
                  /\ Buffer \in Nat /\ Buffer >= 1 /\ InboxSize \in Nat /\ InboxSize >= 1
                  /\ NoConn \notin Conns /\ Conns \subseteq Nat
BY RealtimeWorld DEF RealtimeWorld, NoConn

----------------------------------------------------------------------------
(* What the operations on a connection make of it. *)

LEMMA NoMessages == <<>> \in Messages /\ Len(<<>>) = 0
BY DEF Messages

LEMMA UnusedType == Unused \in ConnOK
<1>1. <<>> \in Messages
  BY NoMessages
<1>2. Unused \in Conn
  BY <1>1, RealtimeWorld DEF RealtimeWorld, Unused, Conn, NoCode
<1>3. Len(Unused.queue) <= Buffer
  BY LogFacts DEF Unused
<1>4. QED
  BY <1>2, <1>3 DEF ConnOK

LEMMA GoneType ==
  /\ Gone \in ConnOK
  /\ \A s \in BOOLEAN : [Gone EXCEPT !.sealed = s] \in ConnOK
BY UnusedType DEF Gone, ConnOK, Conn, Unused

LEMMA CloseType ==
  ASSUME NEW k \in ConnOK, NEW code \in {Normal, Overflow, Internal}
  PROVE  Close(k, code) \in ConnOK
BY DEF Close, ConnOK, Conn

LEMMA RetiredType ==
  ASSUME NEW k \in ConnOK
  PROVE  Retired(k) \in ConnOK
<1>1. k.sealed \in BOOLEAN
  BY DEF ConnOK, Conn
<1>2. QED
  BY <1>1, GoneType DEF Retired

LEMMA UnregisteredType ==
  ASSUME NEW k \in ConnOK
  PROVE  Unregistered(k) \in ConnOK
<1> DEFINE l == [k EXCEPT !.phase = "unregistered", !.queue = <<>>]
<1>a. l \in Conn
  BY NoMessages DEF ConnOK, Conn
<1>b. Len(l.queue) <= Buffer
  <2>1. l.queue = <<>>
    BY DEF ConnOK, Conn
  <2>2. QED
    BY <2>1, NoMessages, LogFacts
<1>1. l \in ConnOK
  BY <1>a, <1>b DEF ConnOK
<1>2. QED
  BY <1>1, RetiredType DEF Unregistered

LEMMA HangType ==
  ASSUME ConnsOK, NEW i \in Conns \cup {NoConn}
  PROVE  Hang(i) \in [Conns -> ConnOK]
<1>1. CASE i = NoConn
  BY <1>1 DEF Hang, ConnsOK
<1>2. CASE i # NoConn
  <2>1. conns[i] \in ConnOK
    BY <1>2 DEF ConnsOK
  <2>2. [conns[i] EXCEPT !.peer = FALSE, !.wire = <<>>] \in ConnOK
    BY <2>1, NoMessages DEF ConnOK, Conn
  <2>3. QED
    BY <1>2, <2>2, RetiredType DEF Hang, ConnsOK
<1>3. QED
  BY <1>1, <1>2

LEMMA SpendType ==
  ASSUME LeftOK, NEW what \in {"failures", "crashes", "reads", "acts"}, Spend(what)
  PROVE  LeftOK'
BY DEF LeftOK, Spend

----------------------------------------------------------------------------
(* What a step other than opening, filling or overflowing a connection makes *)
(* of one: it keeps its client and its tenants, and gets no new message, or  *)
(* it is gone.                                                               *)

Of(tenants) == {n \in DOMAIN Log : Log[n] \in tenants}

\* All messages in a connection are of its tenants.
Own(k) == k.queue \in Seq(Of(k.tenants)) /\ k.wire \in Seq(Of(k.tenants)) /\ k.got \in Seq(Of(k.tenants))

Keeps(k, l) ==
  /\ l.client = k.client /\ l.tenants = k.tenants
  /\ l.peer => k.peer
  /\ l.code = Overflow => k.code = Overflow
  /\ \/ l.phase = k.phase
     \/ k.phase # "unused" /\ l.phase = "unregistered"
     \/ k.phase = "accepted" /\ l.phase = "registered"
  /\ Own(k) => Own(l)

IsGone(k) ==
  /\ k.phase = "unregistered" /\ ~k.peer /\ k.code = NoCode
  /\ k.tenants = {} /\ k.queue = <<>> /\ k.wire = <<>> /\ k.got = <<>>

Follows(k, l) ==
  /\ l \in ConnOK
  /\ \/ Keeps(k, l)
     \/ k.phase # "unused" /\ IsGone(l)
     \/ k.phase = "unused" /\ l = Unused

AllFollow == conns' \in [Conns -> ConnOK] /\ \A i \in Conns : Follows(conns[i], conns'[i])

LEMMA SelfFollows ==
  ASSUME NEW k \in ConnOK
  PROVE  Follows(k, k)
BY DEF Follows, Keeps

LEMMA NothingFollows ==
  ASSUME ConnsOK, conns' = conns
  PROVE  AllFollow
BY SelfFollows DEF ConnsOK, AllFollow

LEMMA OneFollows ==
  ASSUME ConnsOK, NEW i \in Conns, NEW l, Follows(conns[i], l), conns' = [conns EXCEPT ![i] = l]
  PROVE  AllFollow
<1>1. l \in ConnOK
  BY DEF Follows
<1>2. ASSUME NEW j \in Conns
      PROVE  Follows(conns[j], conns'[j])
  <2>1. CASE j = i
    BY <2>1 DEF ConnsOK
  <2>2. CASE j # i
    BY <2>2, SelfFollows DEF ConnsOK
  <2>3. QED
    BY <2>1, <2>2
<1>3. QED
  BY <1>1, <1>2 DEF ConnsOK, AllFollow

LEMMA CloseFollows ==
  ASSUME NEW k \in ConnOK, NEW code \in {Normal, Internal}
  PROVE  Follows(k, Close(k, code)) /\ Keeps(k, Close(k, code)) /\ Close(k, code).phase = k.phase
<1>1. Close(k, code) \in ConnOK
  BY CloseType
<1>2. Keeps(k, Close(k, code)) /\ Close(k, code).phase = k.phase
  <2>1. CASE k.closed
    BY <2>1 DEF Close, Keeps
  <2>2. CASE ~k.closed
    BY <2>2 DEF Close, Keeps, Own, ConnOK, Conn, Normal, Internal, Overflow
  <2>3. QED
    BY <2>1, <2>2
<1>3. QED
  BY <1>1, <1>2 DEF Follows

LEMMA GoneIsGone == \A s \in BOOLEAN : IsGone([Gone EXCEPT !.sealed = s]) /\ IsGone(Gone)
BY DEF Gone, Unused, IsGone

LEMMA RetiredFollows ==
  ASSUME NEW k, NEW l \in ConnOK, Keeps(k, l), k.phase # "unused" \/ l.phase # "unregistered"
  PROVE  Follows(k, Retired(l))
<1>1. Retired(l) \in ConnOK /\ l.sealed \in BOOLEAN
  BY RetiredType DEF ConnOK, Conn
<1>2. Retired(l) = l \/ IsGone(Retired(l))
  BY <1>1, GoneIsGone DEF Retired
<1>3. k.phase = "unused" => Retired(l) = l
  BY DEF Retired
<1>4. QED
  BY <1>1, <1>2, <1>3 DEF Follows

LEMMA UnregisteredFollows ==
  ASSUME NEW k, k.phase # "unused", NEW l \in ConnOK, Keeps(k, l)
  PROVE  Follows(k, Unregistered(l))
<1> DEFINE m == [l EXCEPT !.phase = "unregistered", !.queue = <<>>]
<1>1. m \in ConnOK
  <2>1. m \in Conn /\ m.queue = <<>>
    BY NoMessages DEF ConnOK, Conn
  <2>2. Len(m.queue) <= Buffer
    BY <2>1, NoMessages, LogFacts
  <2>3. QED
    BY <2>1, <2>2 DEF ConnOK
<1>2. Own(l) => Own(m)
  BY DEF ConnOK, Conn, Own
<1>3. Keeps(k, m)
  BY <1>2 DEF ConnOK, Conn, Keeps
<1>4. QED
  BY <1>1, <1>3, RetiredFollows DEF Unregistered

LEMMA WrittenFollows ==
  ASSUME NEW k \in ConnOK, k.queue # <<>>
  PROVE  Follows(k, [k EXCEPT !.queue = Tail(@), !.wire = Append(@, Head(k.queue))])
<1> DEFINE l == [k EXCEPT !.queue = Tail(@), !.wire = Append(@, Head(k.queue))]
<1>1. k.queue \in Messages /\ k.wire \in Messages /\ k \in Conn /\ Len(k.queue) <= Buffer
  BY DEF ConnOK, Conn
<1>2. /\ Tail(k.queue) \in Messages /\ Len(Tail(k.queue)) = Len(k.queue) - 1
      /\ Append(k.wire, Head(k.queue)) \in Messages /\ Len(k.queue) \in Nat
  <2> DEFINE S == DOMAIN Log
  <2>1. k.queue \in Seq(S) /\ k.wire \in Seq(S)
    BY <1>1 DEF Messages
  <2>2. Head(k.queue) \in S /\ Tail(k.queue) \in Seq(S) /\ Len(Tail(k.queue)) = Len(k.queue) - 1
    <3> HIDE DEF S
    <3>1. QED
      BY <2>1, HeadTailProperties
  <2>3. Append(k.wire, Head(k.queue)) \in Seq(S) /\ Len(k.queue) \in Nat
    <3> HIDE DEF S
    <3>1. QED
      BY <2>1, <2>2
  <2>4. QED
    BY <2>2, <2>3 DEF Messages
<1>3. l.queue = Tail(k.queue) /\ l.wire = Append(k.wire, Head(k.queue)) /\ l \in Conn
  BY <1>1, <1>2 DEF Conn
<1>4. l \in ConnOK
  <2>1. Len(l.queue) <= Buffer
    BY <1>1, <1>2, <1>3, LogFacts
  <2>2. QED
    BY <1>3, <2>1 DEF ConnOK
<1>5. ASSUME Own(k)
      PROVE  Own(l)
  <2>1. /\ Tail(k.queue) \in Seq(Of(k.tenants)) /\ Head(k.queue) \in Of(k.tenants)
    BY <1>5, HeadTailProperties DEF Own
  <2>2. Append(k.wire, Head(k.queue)) \in Seq(Of(k.tenants))
    BY <1>5, <2>1 DEF Own
  <2>3. l.tenants = k.tenants /\ l.got = k.got
    BY <1>1 DEF Conn
  <2>4. QED
    BY <1>5, <1>3, <2>1, <2>2, <2>3 DEF Own
<1>6. Keeps(k, l)
  BY <1>1, <1>5 DEF Keeps, Conn
<1>7. QED
  BY <1>4, <1>6 DEF Follows

LEMMA RunFollows ==
  ASSUME ConnsOK, NEW i \in Conns, Run(i) \/ ReadFails(i) \/ CloseSocket(i)
  PROVE  AllFollow
<1> DEFINE k == conns[i]
<1>0. k \in ConnOK
  BY DEF ConnsOK
<1>1. CASE Register(i)
  <2>1. conns' = [conns EXCEPT ![i] = [k EXCEPT !.phase = "registered"]] /\ k.phase = "accepted"
    BY <1>1 DEF Register
  <2>2. [k EXCEPT !.phase = "registered"] \in ConnOK
    BY <1>0 DEF ConnOK, Conn
  <2>3. Keeps(k, [k EXCEPT !.phase = "registered"])
    BY <1>0, <2>1 DEF ConnOK, Conn, Keeps, Own
  <2>4. QED
    BY <2>1, <2>2, <2>3, OneFollows DEF Follows
<1>2. CASE Write(i)
  <2>1. CASE k.peer /\ ~k.sealed
    <3>1. /\ k.queue # <<>>
          /\ conns' = [conns EXCEPT ![i] = [k EXCEPT !.queue = Tail(@), !.wire = Append(@, Head(k.queue))]]
      BY <1>2, <2>1 DEF Write
    <3>2. QED
      BY <1>0, <3>1, WrittenFollows, OneFollows
  <2>2. CASE ~(k.peer /\ ~k.sealed)
    <3>1. conns' = [conns EXCEPT ![i] = Unregistered(Close(k, Internal))] /\ k.phase = "registered"
      BY <1>2, <2>2 DEF Write
    <3>2. Close(k, Internal) \in ConnOK /\ Keeps(k, Close(k, Internal))
      BY <1>0, CloseFollows DEF Follows
    <3>3. QED
      BY <3>1, <3>2, UnregisteredFollows, OneFollows
  <2>3. QED
    BY <2>1, <2>2
<1>3. CASE PingFails(i)
  <2>1. conns' = [conns EXCEPT ![i] = Unregistered(Close(k, Internal))] /\ k.phase = "registered"
    BY <1>3 DEF PingFails
  <2>2. Close(k, Internal) \in ConnOK /\ Keeps(k, Close(k, Internal))
    BY <1>0, CloseFollows DEF Follows
  <2>3. QED
    BY <2>1, <2>2, UnregisteredFollows, OneFollows
<1>4. CASE WriteLoopReturns(i)
  <2>1. conns' = [conns EXCEPT ![i] = Unregistered(k)] /\ k.phase = "registered"
    BY <1>4 DEF WriteLoopReturns
  <2>2. Keeps(k, k)
    BY DEF Keeps
  <2>3. QED
    BY <1>0, <2>1, <2>2, UnregisteredFollows, OneFollows
<1>5. CASE ReadFails(i)
  <2>1. conns' = [conns EXCEPT ![i] = Close(k, Normal)]
    BY <1>5 DEF ReadFails
  <2>2. QED
    BY <1>0, <2>1, CloseFollows, OneFollows
<1>6. CASE CloseSocket(i)
  <2>1. conns' = [conns EXCEPT ![i] = [k EXCEPT !.sealed = TRUE]]
    BY <1>6 DEF CloseSocket
  <2>2. [k EXCEPT !.sealed = TRUE] \in ConnOK /\ Keeps(k, [k EXCEPT !.sealed = TRUE])
    BY <1>0 DEF ConnOK, Conn, Keeps, Own
  <2>3. QED
    BY <2>1, <2>2, OneFollows DEF Follows
<1>7. QED
  BY <1>1, <1>2, <1>3, <1>4, <1>5, <1>6 DEF Run

LEMMA HangFollows ==
  ASSUME ConnsOK, NEW i \in Conns \cup {NoConn}, conns' = Hang(i)
  PROVE  AllFollow
<1>1. CASE i = NoConn
  BY <1>1, NothingFollows DEF Hang
<1>2. CASE i # NoConn
  <2> DEFINE k == conns[i]
             l == [k EXCEPT !.peer = FALSE, !.wire = <<>>]
  <2>1. k \in ConnOK /\ i \in Conns
    BY <1>2 DEF ConnsOK
  <2>2. l \in ConnOK /\ Keeps(k, l)
    <3>1. l \in ConnOK
      BY <2>1, NoMessages DEF ConnOK, Conn
    <3>2. Keeps(k, l)
      BY <2>1 DEF ConnOK, Conn, Keeps, Own
    <3>3. QED
      BY <3>1, <3>2
  <2>3. l.phase = k.phase
    BY <2>1 DEF ConnOK, Conn
  <2>4. k.phase # "unused" \/ l.phase # "unregistered"
    BY <2>3
  <2>5. Follows(k, Retired(l))
    BY <2>2, <2>4, RetiredFollows
  <2>6. conns' = [conns EXCEPT ![i] = Retired(l)]
    BY <1>2 DEF Hang
  <2>7. QED
    BY <2>1, <2>5, <2>6, OneFollows
<1>3. QED
  BY <1>1, <1>2

LEMMA CrashFollows ==
  ASSUME ConnsOK, Crash
  PROVE  AllFollow
<1>1. conns' = [i \in Conns |-> IF conns[i].phase = "unused" THEN Unused ELSE Gone]
  BY DEF Crash
<1>2. ASSUME NEW i \in Conns
      PROVE  Follows(conns[i], conns'[i])
  <2>1. CASE conns[i].phase = "unused"
    BY <1>1, <2>1, UnusedType DEF Follows
  <2>2. CASE conns[i].phase # "unused"
    <3>1. conns'[i] = Gone /\ IsGone(Gone)
      BY <1>1, <2>2, GoneIsGone
    <3>2. QED
      BY <2>2, <3>1, GoneType DEF Follows
  <2>3. QED
    BY <2>1, <2>2
<1>3. QED
  BY <1>1, <1>2, UnusedType, GoneType DEF AllFollow

LEMMA OwedFollows ==
  ASSUME NEW k \in ConnOK, NEW n \in DOMAIN Log
  PROVE  Follows(k, [k EXCEPT !.owed = Append(@, n)])
<1> DEFINE l == [k EXCEPT !.owed = Append(@, n)]
<1>1. k.owed \in Messages /\ Append(k.owed, n) \in Messages
  BY DEF ConnOK, Conn, Messages
<1>2. l \in ConnOK
  BY <1>1 DEF ConnOK, Conn
<1>3. Keeps(k, l)
  BY DEF ConnOK, Conn, Keeps, Own
<1>4. QED
  BY <1>2, <1>3 DEF Follows

LEMMA ReceiveFollows ==
  ASSUME ConsumerOK, ConnsOK, Receive
  PROVE  AllFollow
<1> DEFINE n == consumer.offset + 1
           targets == IF Log[n] = Malformed THEN {} ELSE Targets(Log[n])
<1>1. n \in DOMAIN Log
  BY LogFacts DEF Receive, ConsumerOK
<1>2. conns' = [i \in Conns |-> IF i \in targets THEN [conns[i] EXCEPT !.owed = Append(@, n)] ELSE conns[i]]
  BY DEF Receive
<1>3. ASSUME NEW i \in Conns
      PROVE  Follows(conns[i], conns'[i])
  <2>1. conns[i] \in ConnOK
    BY DEF ConnsOK
  <2>2. CASE i \in targets
    <3>1. conns'[i] = [conns[i] EXCEPT !.owed = Append(@, n)]
      BY <1>2, <2>2
    <3>2. QED
      BY <1>1, <2>1, <3>1, OwedFollows
  <2>3. CASE i \notin targets
    BY <1>2, <2>1, <2>3, SelfFollows
  <2>4. QED
    BY <2>2, <2>3
<1>4. conns' \in [Conns -> ConnOK]
  <2>1. \A i \in Conns : conns'[i] \in ConnOK
    BY <1>3 DEF Follows
  <2>2. QED
    BY <1>2, <2>1
<1>5. QED
  BY <1>3, <1>4 DEF AllFollow

\* A hook whose socket is open has one.
OpenHasConn == \A c \in Clients : client[c].status = "open" => client[c].conn \in Conns

LEMMA ReadFollows ==
  ASSUME NEW k \in ConnOK, k.wire # <<>>
  PROVE  /\ Head(k.wire) \in DOMAIN Log
         /\ Follows(k, [k EXCEPT !.wire = Tail(@), !.got = Append(@, Head(k.wire))])
<1> DEFINE l == [k EXCEPT !.wire = Tail(@), !.got = Append(@, Head(k.wire))]
<1>1. k.wire \in Messages /\ k.got \in Messages /\ k \in Conn
  BY DEF ConnOK, Conn
<1>2. /\ Head(k.wire) \in DOMAIN Log /\ Tail(k.wire) \in Messages
      /\ Append(k.got, Head(k.wire)) \in Messages
  <2> DEFINE S == DOMAIN Log
  <2>1. k.wire \in Seq(S) /\ k.got \in Seq(S)
    BY <1>1 DEF Messages
  <2>2. Head(k.wire) \in S /\ Tail(k.wire) \in Seq(S) /\ Append(k.got, Head(k.wire)) \in Seq(S)
    <3> HIDE DEF S
    <3>1. Head(k.wire) \in S /\ Tail(k.wire) \in Seq(S)
      BY <2>1, HeadTailProperties
    <3>2. QED
      BY <2>1, <3>1
  <2>3. QED
    BY <2>2 DEF Messages
<1>3. l.wire = Tail(k.wire) /\ l.got = Append(k.got, Head(k.wire)) /\ l \in Conn /\ l.queue = k.queue
  BY <1>1, <1>2 DEF Conn
<1>4. l \in ConnOK
  BY <1>3 DEF ConnOK
<1>5. ASSUME Own(k)
      PROVE  Own(l)
  <2>1. Tail(k.wire) \in Seq(Of(k.tenants)) /\ Head(k.wire) \in Of(k.tenants)
    BY <1>5, HeadTailProperties DEF Own
  <2>2. Append(k.got, Head(k.wire)) \in Seq(Of(k.tenants))
    BY <1>5, <2>1 DEF Own
  <2>3. l.tenants = k.tenants
    BY <1>1 DEF Conn
  <2>4. QED
    BY <1>5, <1>3, <2>1, <2>2, <2>3 DEF Own
<1>6. Keeps(k, l)
  BY <1>1, <1>5 DEF Keeps, Conn
<1>7. QED
  BY <1>2, <1>4, <1>6 DEF Follows

LEMMA OnMessageFollows ==
  ASSUME ConnsOK, OpenHasConn, NEW c \in Clients, OnMessage(c)
  PROVE  AllFollow /\ Head(conns[client[c].conn].wire) \in DOMAIN Log
<1> DEFINE i == client[c].conn
           k == conns[i]
<1>1. i \in Conns /\ k.wire # <<>>
  BY DEF OnMessage, OpenHasConn
<1>2. conns' = [conns EXCEPT ![i] = [k EXCEPT !.wire = Tail(@), !.got = Append(@, Head(k.wire))]]
  BY DEF OnMessage
<1>3. k \in ConnOK
  BY <1>1 DEF ConnsOK
<1>4. QED
  BY <1>1, <1>2, <1>3, ReadFollows, OneFollows

\* Serve and Send are the steps that give a connection something new.
LEMMA StepFollows ==
  ASSUME TypeOK, OpenHasConn, [Next]_realtimeVars
  PROVE  \/ AllFollow
         \/ \E c \in Clients, i \in Conns : Serve(c, i)
         \/ \E i \in Conns : Send(i)
<1> SUFFICES ASSUME ~(\E c \in Clients, i \in Conns : Serve(c, i)), ~(\E i \in Conns : Send(i))
             PROVE  AllFollow
  OBVIOUS
<1>0. ConnsOK /\ ConsumerOK /\ ClientOK
  BY TypeParts
<1>1. ASSUME conns' = conns
      PROVE  AllFollow
  BY <1>0, <1>1, NothingFollows
<1>2. CASE UNCHANGED realtimeVars
  BY <1>1, <1>2 DEF realtimeVars
<1>3. CASE Consume \/ Rejoin \/ Crash
  <2>1. CASE Ack \/ Start \/ Rejoin
    BY <1>1, <2>1 DEF Ack, Start, Rejoin
  <2>2. QED
    BY <1>0, <1>3, <2>1, ReceiveFollows, CrashFollows DEF Consume
<1>4. ASSUME NEW i \in Conns, Run(i) \/ ReadFails(i) \/ CloseSocket(i) \/ Lost(i)
      PROVE  AllFollow
  <2>1. CASE Lost(i)
    BY <1>0, <2>1, HangFollows DEF Lost
  <2>2. QED
    BY <1>0, <1>4, <2>1, RunFollows
<1>5. ASSUME NEW c \in Clients, Hook(c) \/ Unmount(c) \/ Mount(c) \/ SessionChanges(c)
      PROVE  AllFollow
  <2>1. client[c].conn \in Conns \cup {NoConn}
    BY <1>0 DEF ClientOK
  <2>2. CASE OnOpen(c) \/ OnHandshakeFailed(c) \/ Reconnect(c) \/ Mount(c) \/ SessionChanges(c)
    BY <1>1, <2>2 DEF OnOpen, OnHandshakeFailed, Reconnect, Mount, SessionChanges
  <2>3. CASE OnClose(c) \/ Unmount(c)
    <3>1. conns' = Hang(client[c].conn)
      BY <2>3 DEF OnClose, Unmount
    <3>2. QED
      BY <1>0, <2>1, <3>1, HangFollows
  <2>4. CASE OnMessage(c)
    BY <1>0, <2>4, OnMessageFollows
  <2>5. QED
    BY <1>5, <2>2, <2>3, <2>4 DEF Hook
<1>6. ASSUME NEW c \in Clients, NEW t \in Tenants, TenantCreated(c, t)
      PROVE  AllFollow
  BY <1>1, <1>6 DEF TenantCreated
<1>7. ASSUME MarkAllRead \/ \E n \in DOMAIN Log : MarkRead(n)
      PROVE  AllFollow
  BY <1>1, <1>7 DEF MarkAllRead, MarkRead
<1>8. QED
  BY <1>2, <1>3, <1>4, <1>5, <1>6, <1>7 DEF Next, Users
----------------------------------------------------------------------------
(* Type correctness, variable by variable. *)

LEMMA ServeType ==
  ASSUME TypeOK, NEW c \in Clients, NEW i \in Conns, Serve(c, i)
  PROVE  ConnsOK'
<1> DEFINE k == [Unused EXCEPT !.phase = "accepted", !.client = c, !.tenants = owned[c]]
<1>0. ConnsOK /\ owned[c] \in SUBSET Tenants
  BY TypeParts DEF UserOK
<1>1. k \in ConnOK
  BY <1>0, UnusedType DEF ConnOK, Conn, Unused
<1>2. conns' = [conns EXCEPT ![i] = k]
  BY DEF Serve
<1>3. QED
  BY <1>0, <1>1, <1>2 DEF ConnsOK

LEMMA QueuedType ==
  ASSUME NEW k \in ConnOK, NEW n \in DOMAIN Log, Len(k.queue) < Buffer
  PROVE  [k EXCEPT !.queue = Append(@, n)] \in ConnOK
<1> DEFINE l == [k EXCEPT !.queue = Append(@, n)]
<1>1. k \in Conn /\ k.queue \in Messages
  BY DEF ConnOK, Conn
<1>2. Append(k.queue, n) \in Messages /\ Len(Append(k.queue, n)) = Len(k.queue) + 1 /\ Len(k.queue) \in Nat
  BY <1>1 DEF Messages
<1>3. l \in Conn /\ l.queue = Append(k.queue, n)
  BY <1>1, <1>2 DEF Conn
<1>4. Len(l.queue) <= Buffer
  BY <1>2, <1>3, LogFacts
<1>5. QED
  BY <1>3, <1>4 DEF ConnOK

\* While a message goes to a connection, it is one of the log's.
InHand == consumer.targets # {} => consumer.msg # 0

LEMMA SendType ==
  ASSUME TypeOK, InHand, NEW i \in Conns, Send(i)
  PROVE  ConnsOK'
<1>0. ConnsOK /\ conns[i] \in ConnOK /\ ConsumerOK
  BY TypeParts DEF ConnsOK
<1>1. CASE UNCHANGED conns
  BY <1>0, <1>1 DEF ConnsOK
<1>2. CASE HasRoom(i) /\ conns' = [conns EXCEPT ![i].queue = Append(@, consumer.msg)]
  <2>1. consumer.msg \in DOMAIN Log
    BY <1>0, LogFacts DEF Send, InHand, ConsumerOK
  <2>2. [conns[i] EXCEPT !.queue = Append(@, consumer.msg)] \in ConnOK
    BY <1>0, <1>2, <2>1, QueuedType DEF HasRoom
  <2>3. conns' = [conns EXCEPT ![i] = [conns[i] EXCEPT !.queue = Append(@, consumer.msg)]]
    BY <1>2
  <2>4. QED
    BY <1>0, <2>2, <2>3 DEF ConnsOK
<1>3. CASE Full(i)
  <2>1. conns' = [conns EXCEPT ![i] = Close(conns[i], Overflow)]
    BY <1>3 DEF Full
  <2>2. Close(conns[i], Overflow) \in ConnOK
    BY <1>0, CloseType
  <2>3. QED
    BY <1>0, <2>1, <2>2 DEF ConnsOK
<1>4. QED
  BY <1>1, <1>2, <1>3 DEF Send

LEMMA ConnsStep ==
  ASSUME TypeOK, InHand, OpenHasConn, [Next]_realtimeVars
  PROVE  ConnsOK'
<1>1. CASE AllFollow
  BY <1>1 DEF AllFollow, ConnsOK
<1>2. QED
  BY <1>1, StepFollows, ServeType, SendType

\* What changes the consumer.
LEMMA ConsumerSteps ==
  ASSUME [Next]_realtimeVars
  PROVE  \/ UNCHANGED <<consumer, committed, handled>>
         \/ UNCHANGED <<committed, handled>> /\ \E i \in Conns : CloseSocket(i) \/ Send(i)
         \/ Receive \/ Ack \/ Rejoin \/ Crash \/ Start
<1>1. CASE UNCHANGED realtimeVars
  BY <1>1 DEF realtimeVars
<1>2. CASE Consume \/ Rejoin \/ Crash
  BY <1>2 DEF Consume, Send
<1>3. ASSUME NEW i \in Conns, Run(i) \/ ReadFails(i) \/ CloseSocket(i) \/ Lost(i)
      PROVE  UNCHANGED <<committed, handled>> /\ (UNCHANGED consumer \/ CloseSocket(i))
  BY <1>3 DEF Run, Register, Write, PingFails, WriteLoopReturns, ReadFails, CloseSocket, Lost, historyVars
<1>4. ASSUME NEW c \in Clients, Hook(c)
      PROVE  UNCHANGED <<consumer, committed, handled>>
  BY <1>4 DEF Hook, Serve, OnOpen, OnMessage, OnClose, OnHandshakeFailed, Reconnect, historyVars
<1>5. CASE Users
  BY <1>5 DEF Users, Unmount, Mount, SessionChanges, TenantCreated, MarkAllRead, MarkRead, historyVars
<1>6. QED
  BY <1>1, <1>2, <1>3, <1>4, <1>5 DEF Next

LEMMA IdleType ==
  /\ Idle \in [up : BOOLEAN, offset : 0 .. Len(Log), msg : 0 .. Len(Log), targets : SUBSET Conns,
               closing : Conns \cup {NoConn}]
  /\ Idle.targets = {} /\ Idle.offset = 0 /\ Idle.msg = 0
<1>1. 0 \in 0 .. Len(Log)
  BY LogFacts
<1>2. QED
  BY <1>1 DEF Idle

LEMMA ConsumerStep ==
  ASSUME ConsumerOK, CommittedOK, InHand, [Next]_realtimeVars
  PROVE  ConsumerOK' /\ CommittedOK' /\ InHand'
<1>1. CASE UNCHANGED <<consumer, committed, handled>>
  BY <1>1 DEF ConsumerOK, CommittedOK, InHand
<1>2. ASSUME NEW i \in Conns, UNCHANGED committed, CloseSocket(i) \/ Send(i)
      PROVE  ConsumerOK' /\ CommittedOK' /\ InHand'
  BY <1>2 DEF CloseSocket, Send, Full, ConsumerOK, CommittedOK, InHand
<1>3. CASE Receive
  <2> DEFINE n == consumer.offset + 1
             targets == IF Log[n] = Malformed THEN {} ELSE Targets(Log[n])
  <2>1. n \in 0 .. Len(Log) /\ n # 0 /\ targets \in SUBSET Conns
    BY <1>3, LogFacts DEF Receive, ConsumerOK, Targets
  <2>2. consumer' = [consumer EXCEPT !.offset = n, !.msg = n, !.targets = targets] /\ UNCHANGED committed
    BY <1>3 DEF Receive
  <2>3. ConsumerOK' /\ consumer'.msg = n
    <3> HIDE DEF n, targets
    <3>1. QED
      BY <2>1, <2>2 DEF ConsumerOK
  <2>4. QED
    BY <2>1, <2>2, <2>3 DEF CommittedOK, InHand
<1>4. CASE Ack
  BY <1>4 DEF Ack, ConsumerOK, CommittedOK, InHand
<1>5. CASE Rejoin
  BY <1>5 DEF Rejoin, ConsumerOK, CommittedOK, InHand
<1>6. CASE Crash
  <2>1. consumer' = [Idle EXCEPT !.up = FALSE] /\ UNCHANGED committed
    BY <1>6 DEF Crash
  <2>2. QED
    BY <2>1, IdleType DEF CommittedOK, ConsumerOK, InHand
<1>7. CASE Start
  <2>1. consumer' = [Idle EXCEPT !.offset = committed'] /\ committed' \in 0 .. Len(Log)
    BY <1>7, LogFacts DEF Start, CommittedOK
  <2>2. QED
    BY <2>1, IdleType DEF CommittedOK, ConsumerOK, InHand
<1>8. QED
  BY <1>1, <1>2, <1>3, <1>4, <1>5, <1>6, <1>7, ConsumerSteps

LEMMA ClientStep ==
  ASSUME ClientOK, OpenHasConn, [Next]_realtimeVars
  PROVE  ClientOK' /\ OpenHasConn'
<1>0. \A code : StatusAfter(code) \in {"closed", "reconnecting"}
  BY DEF StatusAfter
<1>1. ASSUME client' = client
      PROVE  ClientOK' /\ OpenHasConn'
  BY <1>1 DEF ClientOK, OpenHasConn
<1>2. CASE UNCHANGED realtimeVars
  BY <1>1, <1>2 DEF realtimeVars
<1>3. CASE Consume \/ Rejoin \/ Crash
  BY <1>1, <1>3 DEF Consume, Receive, Ack, Start, Send, Rejoin, Crash
<1>4. ASSUME NEW i \in Conns, Run(i) \/ ReadFails(i) \/ CloseSocket(i) \/ Lost(i)
      PROVE  ClientOK' /\ OpenHasConn'
  BY <1>1, <1>4 DEF Run, Register, Write, PingFails, WriteLoopReturns, ReadFails, CloseSocket, Lost
<1>5. ASSUME NEW c \in Clients, Hook(c) \/ Unmount(c) \/ Mount(c)
      PROVE  ClientOK' /\ OpenHasConn'
  <2>1. ASSUME NEW i \in Conns, Serve(c, i)
        PROVE  ClientOK' /\ OpenHasConn'
    BY <2>1 DEF Serve, ClientOK, OpenHasConn
  <2>2. CASE OnOpen(c)
    BY <2>2 DEF OnOpen, ClientOK, OpenHasConn
  <2>3. CASE OnMessage(c)
    BY <1>1, <2>3 DEF OnMessage
  <2>4. CASE OnClose(c)
    BY <1>0, <2>4 DEF OnClose, ClientOK, OpenHasConn
  <2>5. CASE OnHandshakeFailed(c)
    BY <1>0, <2>5 DEF OnHandshakeFailed, ClientOK, OpenHasConn
  <2>6. CASE Reconnect(c) \/ Mount(c)
    BY <2>6 DEF Reconnect, Mount, ClientOK, OpenHasConn
  <2>7. CASE Unmount(c)
    BY <2>7 DEF Unmount, ClientOK, OpenHasConn
  <2>8. QED
    BY <1>5, <2>1, <2>2, <2>3, <2>4, <2>5, <2>6, <2>7 DEF Hook
<1>6. CASE Users
  <2>1. CASE MarkAllRead \/ \E n \in DOMAIN Log : MarkRead(n)
    BY <1>1, <2>1 DEF MarkAllRead, MarkRead
  <2>2. ASSUME NEW c \in Clients, SessionChanges(c) \/ \E t \in Tenants : TenantCreated(c, t)
        PROVE  ClientOK' /\ OpenHasConn'
    BY <1>1, <2>2 DEF SessionChanges, TenantCreated
  <2>3. QED
    BY <1>5, <1>6, <2>1, <2>2 DEF Users
<1>7. QED
  BY <1>2, <1>3, <1>4, <1>5, <1>6 DEF Next

LEMMA UserStep ==
  ASSUME UserOK, [Next]_realtimeVars
  PROVE  UserOK' /\ \A c \in Clients : owned[c] \subseteq owned'[c]
<1>1. ASSUME UNCHANGED userVars
      PROVE  UserOK' /\ \A c \in Clients : owned[c] \subseteq owned'[c]
  BY <1>1 DEF UserOK, userVars
<1>2. CASE UNCHANGED realtimeVars
  BY <1>1, <1>2 DEF realtimeVars, userVars
<1>3. CASE Consume \/ Rejoin \/ Crash
  BY <1>1, <1>3 DEF Consume, Receive, Ack, Start, Send, Rejoin, Crash
<1>4. ASSUME NEW i \in Conns, Run(i) \/ ReadFails(i) \/ CloseSocket(i) \/ Lost(i)
      PROVE  UserOK' /\ \A c \in Clients : owned[c] \subseteq owned'[c]
  BY <1>1, <1>4 DEF Run, Register, Write, PingFails, WriteLoopReturns, ReadFails, CloseSocket, Lost
<1>5. ASSUME NEW c \in Clients, Hook(c) \/ Unmount(c) \/ Mount(c)
      PROVE  UserOK' /\ \A d \in Clients : owned[d] \subseteq owned'[d]
  BY <1>1, <1>5 DEF Hook, Serve, OnOpen, OnMessage, OnClose, OnHandshakeFailed, Reconnect, Unmount, Mount
<1>6. CASE Users
  <2>1. CASE MarkAllRead \/ \E n \in DOMAIN Log : MarkRead(n)
    BY <1>1, <2>1 DEF MarkAllRead, MarkRead
  <2>2. ASSUME NEW c \in Clients, SessionChanges(c)
        PROVE  UserOK' /\ \A d \in Clients : owned[d] \subseteq owned'[d]
    BY <2>2 DEF SessionChanges, UserOK
  <2>3. ASSUME NEW c \in Clients, NEW t \in Tenants, TenantCreated(c, t)
        PROVE  UserOK' /\ \A d \in Clients : owned[d] \subseteq owned'[d]
    <3>1. owned' = [owned EXCEPT ![c] = @ \cup {t}] /\ loggedIn' = loggedIn
      BY <2>3 DEF TenantCreated
    <3>2. QED
      BY <3>1 DEF UserOK
  <2>4. QED
    BY <1>5, <1>6, <2>1, <2>2, <2>3 DEF Users
<1>7. QED
  BY <1>2, <1>3, <1>4, <1>5, <1>6 DEF Next

LEMMA LeftStep ==
  ASSUME LeftOK, [Next]_realtimeVars
  PROVE  LeftOK'
<1>1. ASSUME UNCHANGED left \/ Spend("failures") \/ Spend("crashes") \/ Spend("reads") \/ Spend("acts")
      PROVE  LeftOK'
  BY <1>1, SpendType DEF LeftOK
<1>2. CASE UNCHANGED realtimeVars
  BY <1>1, <1>2 DEF realtimeVars
<1>3. CASE Consume \/ Rejoin \/ Crash
  BY <1>1, <1>3 DEF Consume, Receive, Ack, Start, Send, Rejoin, Crash
<1>4. ASSUME NEW i \in Conns, Run(i) \/ ReadFails(i) \/ CloseSocket(i) \/ Lost(i)
      PROVE  LeftOK'
  BY <1>1, <1>4 DEF Run, Register, Write, PingFails, WriteLoopReturns, ReadFails, CloseSocket, Lost
<1>5. ASSUME NEW c \in Clients, Hook(c)
      PROVE  LeftOK'
  BY <1>1, <1>5 DEF Hook, Serve, OnOpen, OnMessage, OnClose, OnHandshakeFailed, Reconnect
<1>6. CASE Users
  BY <1>1, <1>6 DEF Users, Unmount, Mount, SessionChanges, TenantCreated, MarkAllRead, MarkRead
<1>7. QED
  BY <1>2, <1>3, <1>4, <1>5, <1>6 DEF Next

LEMMA HistoryStep ==
  ASSUME HistoryOK, ConsumerOK, ConnsOK, [Next]_realtimeVars
  PROVE  HistoryOK' /\ slow \subseteq slow'
<1>1. ASSUME UNCHANGED historyVars
      PROVE  HistoryOK' /\ slow \subseteq slow'
  BY <1>1 DEF HistoryOK, historyVars
<1>2. CASE UNCHANGED realtimeVars
  BY <1>1, <1>2 DEF realtimeVars, historyVars
<1>3. CASE Receive \/ Start \/ Rejoin \/ Crash
  BY <1>1, <1>3 DEF Receive, Start, Rejoin, Crash
<1>4. CASE Ack
  <2>1. consumer.msg \in DOMAIN Log
    BY <1>4, LogFacts DEF Ack, ConsumerOK
  <2>2. handled' = handled \cup {consumer.msg} /\ slow' = slow
    BY <1>4 DEF Ack
  <2>3. QED
    BY <2>1, <2>2 DEF HistoryOK
<1>5. ASSUME NEW i \in Conns, Send(i)
      PROVE  HistoryOK' /\ slow \subseteq slow'
  <2>1. conns[i].client \in Clients
    BY DEF ConnsOK, ConnOK, Conn
  <2>2. handled' = handled /\ (slow' = slow \/ slow' = slow \cup {conns[i].client})
    BY <1>5 DEF Send, Full
  <2>3. QED
    BY <2>1, <2>2 DEF HistoryOK
<1>6. ASSUME NEW i \in Conns, Run(i) \/ ReadFails(i) \/ CloseSocket(i) \/ Lost(i)
      PROVE  HistoryOK' /\ slow \subseteq slow'
  BY <1>1, <1>6 DEF Run, Register, Write, PingFails, WriteLoopReturns, ReadFails, CloseSocket, Lost
<1>7. ASSUME NEW c \in Clients, Hook(c)
      PROVE  HistoryOK' /\ slow \subseteq slow'
  BY <1>1, <1>7 DEF Hook, Serve, OnOpen, OnMessage, OnClose, OnHandshakeFailed, Reconnect
<1>8. CASE Users
  BY <1>1, <1>8 DEF Users, Unmount, Mount, SessionChanges, TenantCreated, MarkAllRead, MarkRead
<1>9. QED
  BY <1>2, <1>3, <1>4, <1>5, <1>6, <1>7, <1>8 DEF Next, Consume

----------------------------------------------------------------------------
(* The event inbox. *)

Item == [id : DOMAIN Log, read : BOOLEAN]
UnreadOf(items) == {j \in DOMAIN items : ~items[j].read}
NoDoubles(items) == \A i, j \in DOMAIN items : items[i].id = items[j].id => i = j

LEMMA UnreadBound ==
  ASSUME NEW items \in Seq(Item), Len(items) <= InboxSize
  PROVE  Cardinality(UnreadOf(items)) \in 0 .. InboxSize
<1>1. DOMAIN items = 1 .. Len(items) /\ Len(items) \in Nat
  OBVIOUS
<1>2. IsFiniteSet(1 .. Len(items)) /\ Cardinality(1 .. Len(items)) = Len(items)
  BY <1>1, FS_Interval
<1>3. UnreadOf(items) \in SUBSET (1 .. Len(items))
  BY <1>1 DEF UnreadOf
<1>4. /\ IsFiniteSet(UnreadOf(items))
      /\ Cardinality(UnreadOf(items)) <= Cardinality(1 .. Len(items))
  BY <1>2, <1>3, FS_Subset
<1>5. Cardinality(UnreadOf(items)) \in Nat
  BY <1>4, FS_CardinalityType
<1>6. QED
  BY <1>1, <1>2, <1>4, <1>5, LogFacts

\* The inbox with a new item in front, cut to its size.
LEMMA PushedItems ==
  ASSUME NEW items \in Seq(Item), Len(items) <= InboxSize, NEW e \in Item,
         NoDoubles(items), \A j \in DOMAIN items : items[j].id # e.id,
         NEW pushed, pushed = SubSeq(<<e>> \o items, 1, IF Len(items) < InboxSize THEN Len(items) + 1 ELSE InboxSize)
  PROVE  pushed \in Seq(Item) /\ Len(pushed) <= InboxSize /\ NoDoubles(pushed)
<1> DEFINE m == IF Len(items) < InboxSize THEN Len(items) + 1 ELSE InboxSize
           all == <<e>> \o items
<1>1. Len(items) \in Nat /\ m \in Nat /\ m <= Len(items) + 1 /\ m <= InboxSize /\ m >= 1
  BY LogFacts
<1>2. /\ Len(all) = Len(items) + 1 /\ all \in Seq(Item)
      /\ all[1] = e /\ \A j \in 2 .. Len(items) + 1 : all[j] = items[j - 1]
  <2> HIDE DEF Item
  <2>1. <<e>> \in Seq(Item) /\ Len(<<e>>) = 1 /\ <<e>>[1] = e
    OBVIOUS
  <2>2. /\ all \in Seq(Item) /\ Len(all) = 1 + Len(items)
        /\ \A j \in 1 .. 1 + Len(items) : all[j] = IF j <= 1 THEN <<e>>[j] ELSE items[j - 1]
    BY <2>1, ConcatProperties
  <2>3. all[1] = e
    BY <1>1, <2>1, <2>2
  <2>4. ASSUME NEW j \in 2 .. Len(items) + 1
        PROVE  all[j] = items[j - 1]
    <3>1. j \in 1 .. 1 + Len(items) /\ ~(j <= 1)
      BY <1>1
    <3> HIDE DEF all
    <3>2. QED
      BY <2>2, <3>1
  <2> HIDE DEF all
  <2>5. QED
    BY <1>1, <2>2, <2>3, <2>4
<1>3. /\ pushed \in Seq(Item) /\ Len(pushed) = m
      /\ \A j \in 1 .. m : pushed[j] = all[j]
  <2>1. \A j \in 1 .. m : all[j] \in Item
    BY <1>1, <1>2
  <2>2. pushed = SubSeq(all, 1, m)
    OBVIOUS
  <2> HIDE DEF all, m, Item
  <2>3. /\ SubSeq(all, 1, m) \in Seq(Item)
        /\ Len(SubSeq(all, 1, m)) = IF 1 <= m THEN m - 1 + 1 ELSE 0
        /\ \A j \in 1 .. m - 1 + 1 : SubSeq(all, 1, m)[j] = all[1 + j - 1]
    BY <1>1, <2>1, SubSeqProperties
  <2>4. m - 1 + 1 = m
    BY <1>1
  <2>5. Len(pushed) = m
    BY <1>1, <2>2, <2>3, <2>4
  <2>6. ASSUME NEW j \in 1 .. m
        PROVE  pushed[j] = all[j]
    <3>1. 1 + j - 1 = j
      BY <1>1
    <3>2. pushed[j] = all[1 + j - 1]
      BY <2>2, <2>3, <2>4
    <3>3. QED
      BY <3>1, <3>2
  <2>7. QED
    BY <2>2, <2>3, <2>5, <2>6
<1>4. ASSUME NEW i \in 1 .. m, NEW j \in 1 .. m, pushed[i].id = pushed[j].id
      PROVE  i = j
  <2>1. ASSUME NEW k \in 1 .. m, k # 1
        PROVE  k - 1 \in DOMAIN items /\ pushed[k] = items[k - 1]
    BY <1>1, <1>2, <1>3, <2>1
  <2>2. pushed[1] = e
    BY <1>1, <1>2, <1>3
  <2>3. CASE i = 1 \/ j = 1
    BY <1>4, <2>1, <2>2, <2>3
  <2>4. CASE i # 1 /\ j # 1
    <3>1. i - 1 = j - 1
      BY <1>4, <2>1, <2>4 DEF NoDoubles
    <3>2. QED
      BY <3>1
  <2>5. QED
    BY <2>3, <2>4
<1>5. DOMAIN pushed = 1 .. m
  BY <1>1, <1>3
<1>6. QED
  BY <1>1, <1>3, <1>4, <1>5 DEF NoDoubles

LEMMA MarkedItems ==
  ASSUME NEW items \in Seq(Item), NoDoubles(items),
         NEW marked, marked \in [DOMAIN items -> Item], \A j \in DOMAIN items : marked[j].id = items[j].id
  PROVE  marked \in Seq(Item) /\ Len(marked) = Len(items) /\ NoDoubles(marked)
<1>1. Len(items) \in Nat /\ DOMAIN items = 1 .. Len(items)
  OBVIOUS
<1>2. marked \in [1 .. Len(items) -> Item]
  BY <1>1
<1>3. marked \in Seq(Item) /\ Len(marked) = Len(items)
  <2> HIDE DEF Item
  <2>1. QED
    BY <1>1, <1>2
<1>4. QED
  BY <1>3 DEF NoDoubles

LEMMA PushEventStep ==
  ASSUME InboxOK, InboxIsConsistent, NEW n \in DOMAIN Log, PushEvent(n)
  PROVE  InboxOK' /\ InboxIsConsistent'
<1>1. CASE UNCHANGED inboxVars
  BY <1>1 DEF inboxVars, InboxOK, InboxIsConsistent
<1>2. CASE ~(UNCHANGED inboxVars)
  <2> DEFINE e == [id |-> n, read |-> FALSE]
  <2>1. /\ inbox \in Seq(Item) /\ Len(inbox) <= InboxSize /\ e \in Item /\ NoDoubles(inbox)
    BY DEF InboxOK, InboxIsConsistent, Item, NoDoubles
  <2>2. /\ inbox' = SubSeq(<<e>> \o inbox, 1, IF Len(inbox) < InboxSize THEN Len(inbox) + 1 ELSE InboxSize)
        /\ unread' = Cardinality(UnreadOf(inbox'))
        /\ \A j \in DOMAIN inbox : inbox[j].id # e.id
    BY <1>2 DEF PushEvent, UnreadOf
  <2> HIDE DEF e
  <2>3. inbox' \in Seq(Item) /\ Len(inbox') <= InboxSize /\ NoDoubles(inbox')
    BY <2>1, <2>2, PushedItems
  <2>4. unread' \in 0 .. InboxSize
    BY <2>2, <2>3, UnreadBound
  <2>5. QED
    BY <2>2, <2>3, <2>4 DEF InboxOK, InboxIsConsistent, Item, NoDoubles, UnreadOf
<1>3. QED
  BY <1>1, <1>2

LEMMA MarkStep ==
  ASSUME InboxOK, InboxIsConsistent, MarkAllRead \/ \E n \in DOMAIN Log : MarkRead(n)
  PROVE  InboxOK' /\ InboxIsConsistent'
<1>1. inbox \in Seq(Item) /\ Len(inbox) <= InboxSize /\ NoDoubles(inbox)
  BY DEF InboxOK, InboxIsConsistent, Item, NoDoubles
<1>2. \A j \in DOMAIN inbox : inbox[j] \in Item
  BY <1>1
<1>3. /\ inbox' \in [DOMAIN inbox -> Item] /\ \A j \in DOMAIN inbox : inbox'[j].id = inbox[j].id
  BY <1>2 DEF MarkAllRead, MarkRead, Item
<1>4. inbox' \in Seq(Item) /\ Len(inbox') = Len(inbox) /\ NoDoubles(inbox')
  BY <1>1, <1>3, MarkedItems
<1>5. unread' = Cardinality(UnreadOf(inbox'))
  <2>1. CASE MarkAllRead
    <3>1. \A j \in DOMAIN inbox' : inbox'[j].read
      BY <1>2, <2>1 DEF MarkAllRead, Item
    <3>2. UnreadOf(inbox') = {}
      BY <3>1 DEF UnreadOf
    <3>3. QED
      BY <2>1, <3>2, FS_EmptySet DEF MarkAllRead
  <2>2. ASSUME NEW n \in DOMAIN Log, MarkRead(n)
        PROVE  unread' = Cardinality(UnreadOf(inbox'))
    <3>1. DOMAIN inbox' = DOMAIN inbox
      BY <1>3
    <3>2. QED
      BY <2>2, <3>1 DEF MarkRead, UnreadOf
  <2>3. QED
    BY <2>1, <2>2
<1>6. unread' \in 0 .. InboxSize
  BY <1>1, <1>4, <1>5, UnreadBound
<1>7. QED
  BY <1>1, <1>4, <1>5, <1>6 DEF InboxOK, InboxIsConsistent, Item, NoDoubles, UnreadOf

LEMMA InboxStep ==
  ASSUME ConnsOK, InboxOK, InboxIsConsistent, OpenHasConn, [Next]_realtimeVars
  PROVE  InboxOK' /\ InboxIsConsistent'
<1>1. ASSUME UNCHANGED inboxVars
      PROVE  InboxOK' /\ InboxIsConsistent'
  BY <1>1 DEF inboxVars, InboxOK, InboxIsConsistent
<1>2. CASE UNCHANGED realtimeVars
  BY <1>1, <1>2 DEF realtimeVars, inboxVars
<1>3. CASE Consume \/ Rejoin \/ Crash
  BY <1>1, <1>3 DEF Consume, Receive, Ack, Start, Send, Rejoin, Crash
<1>4. ASSUME NEW i \in Conns, Run(i) \/ ReadFails(i) \/ CloseSocket(i) \/ Lost(i)
      PROVE  InboxOK' /\ InboxIsConsistent'
  BY <1>1, <1>4 DEF Run, Register, Write, PingFails, WriteLoopReturns, ReadFails, CloseSocket, Lost
<1>5. ASSUME NEW c \in Clients, Hook(c)
      PROVE  InboxOK' /\ InboxIsConsistent'
  <2>1. CASE OnMessage(c)
    <3>1. Head(conns[client[c].conn].wire) \in DOMAIN Log
      BY <2>1, OnMessageFollows
    <3>2. PushEvent(Head(conns[client[c].conn].wire)) \/ UNCHANGED inboxVars
      BY <2>1 DEF OnMessage
    <3>3. QED
      BY <1>1, <3>1, <3>2, PushEventStep
  <2>2. CASE ~OnMessage(c)
    BY <1>1, <1>5, <2>2 DEF Hook, Serve, OnOpen, OnClose, OnHandshakeFailed, Reconnect
  <2>3. QED
    BY <2>1, <2>2
<1>6. CASE Users
  BY <1>1, <1>6, MarkStep DEF Users, Unmount, Mount, SessionChanges, TenantCreated
<1>7. QED
  BY <1>2, <1>3, <1>4, <1>5, <1>6 DEF Next

----------------------------------------------------------------------------
(* Type correctness, and the event inbox. *)

\* What is carried along with the types.
AlsoTrue == InHand /\ OpenHasConn /\ InboxIsConsistent

LEMMA TypeInit ==
  ASSUME Init
  PROVE  TypeOK /\ AlsoTrue
<1>1. ConsumerOK /\ InHand /\ CommittedOK
  <2>1. 0 \in 0 .. Len(Log)
    BY LogFacts
  <2>2. QED
    BY <2>1, IdleType DEF Init, ConsumerOK, CommittedOK, InHand
<1>2. ConnsOK
  BY UnusedType DEF Init, ConnsOK
<1>3. ClientOK /\ OpenHasConn
  BY DEF Init, ClientOK, OpenHasConn
<1>4. InboxOK /\ InboxIsConsistent
  <2>1. inbox = <<>> /\ unread = 0
    BY DEF Init
  <2>2. inbox \in Seq([id : DOMAIN Log, read : BOOLEAN]) /\ Len(inbox) = 0 /\ DOMAIN inbox = {}
    <3> DEFINE S == [id : DOMAIN Log, read : BOOLEAN]
    <3>1. <<>> \in Seq(S) /\ Len(<<>>) = 0 /\ DOMAIN <<>> = {}
      <4> HIDE DEF S
      <4>1. QED
        OBVIOUS
    <3>2. QED
      BY <2>1, <3>1
  <2>3. {j \in DOMAIN inbox : ~inbox[j].read} = {}
    BY <2>2
  <2>4. QED
    BY <2>1, <2>2, <2>3, FS_EmptySet, LogFacts DEF InboxOK, InboxIsConsistent
<1>5. UserOK /\ LeftOK /\ HistoryOK
  BY RealtimeWorld DEF RealtimeWorld, Init, UserOK, LeftOK, HistoryOK
<1>6. QED
  BY <1>1, <1>2, <1>3, <1>4, <1>5, TypeParts DEF AlsoTrue

LEMMA TypeStep ==
  ASSUME TypeOK, AlsoTrue, [Next]_realtimeVars
  PROVE  TypeOK' /\ AlsoTrue'
<1>1. /\ ConsumerOK /\ CommittedOK /\ ConnsOK /\ ClientOK /\ InboxOK /\ UserOK /\ LeftOK /\ HistoryOK
      /\ InHand /\ OpenHasConn /\ InboxIsConsistent
  BY TypeParts DEF AlsoTrue
<1>2. ConsumerOK' /\ CommittedOK' /\ InHand'
  BY <1>1, ConsumerStep
<1>3. ConnsOK'
  BY <1>1, ConnsStep
<1>4. ClientOK' /\ OpenHasConn'
  BY <1>1, ClientStep
<1>5. InboxOK' /\ InboxIsConsistent'
  BY <1>1, InboxStep
<1>6. UserOK' /\ LeftOK' /\ HistoryOK'
  BY <1>1, UserStep, LeftStep, HistoryStep
<1>7. TypeOK'
  BY <1>2, <1>3, <1>4, <1>5, <1>6 DEF TypeOK, ConsumerOK, CommittedOK, ConnsOK, ConnOK, ClientOK, InboxOK, UserOK,
     LeftOK, HistoryOK
<1>8. QED
  BY <1>2, <1>4, <1>5, <1>7 DEF AlsoTrue

LEMMA Invariant == Spec => [](TypeOK /\ AlsoTrue)
<1>1. Init => TypeOK /\ AlsoTrue
  BY TypeInit
<1>2. TypeOK /\ AlsoTrue /\ [Next]_realtimeVars => (TypeOK /\ AlsoTrue)'
  BY TypeStep
<1>3. QED
  BY <1>1, <1>2, PTL DEF Spec

\* Every variable of the backend, the network and the browser keeps its type: a
\* buffer and the inbox never hold more than they may (Send, pushEvent).
THEOREM RealtimeTypeCorrect == Spec => []TypeOK
BY Invariant, PTL

\* The inbox lists no event twice and its count of unread ones is right, after any
\* number of restarts of the backend and of events read (pushEvent, markRead,
\* markAllRead).
THEOREM InboxConsistent == Spec => []InboxIsConsistent
<1>1. TypeOK /\ AlsoTrue => InboxIsConsistent
  BY DEF AlsoTrue
<1>2. QED
  BY <1>1, Invariant, PTL

----------------------------------------------------------------------------
(* What is committed was broadcast. *)

\* The consumer has broadcast all it has got past, and it never is ahead of the
\* group's offset without having broadcast what lies between.
Covered ==
  /\ 1 .. committed \subseteq handled
  /\ \A n \in 1 .. consumer.offset : n \in handled \/ n = consumer.msg
  /\ consumer.msg # 0 => \A n \in 1 .. consumer.msg : n \in handled \/ n = consumer.msg

LEMMA CoveredStep ==
  ASSUME ConsumerOK, CommittedOK, Covered, [Next]_realtimeVars
  PROVE  Covered'
<1>0. /\ committed \in Nat /\ consumer.offset \in Nat /\ consumer.msg \in Nat
      /\ Len(Log) \in Nat
  BY LogFacts DEF ConsumerOK, CommittedOK
<1>1. CASE UNCHANGED <<consumer, committed, handled>>
  BY <1>1 DEF Covered
<1>2. ASSUME NEW i \in Conns, UNCHANGED <<committed, handled>>, CloseSocket(i) \/ Send(i)
      PROVE  Covered'
  <2>1. consumer'.offset = consumer.offset /\ consumer'.msg = consumer.msg
    BY <1>2 DEF CloseSocket, Send, Full, ConsumerOK
  <2>2. QED
    BY <1>2, <2>1 DEF Covered
<1>3. CASE Receive
  <2>1. /\ consumer'.offset = consumer.offset + 1 /\ consumer'.msg = consumer.offset + 1
        /\ consumer.msg = 0 /\ UNCHANGED <<committed, handled>>
    BY <1>3 DEF Receive, ConsumerOK, historyVars
  <2>2. \A n \in 1 .. consumer.offset : n \in handled
    BY <2>1 DEF Covered
  <2>3. \A n \in 1 .. consumer.offset + 1 : n \in handled \/ n = consumer.offset + 1
    BY <1>0, <2>2
  <2>4. QED
    BY <2>1, <2>3 DEF Covered
<1>4. CASE Ack
  <2>1. /\ consumer'.offset = consumer.offset /\ consumer'.msg = 0 /\ consumer.msg # 0
        /\ handled' = handled \cup {consumer.msg}
        /\ committed' = consumer.msg \/ committed' = committed
    BY <1>4 DEF Ack, ConsumerOK
  <2>2. \A n \in 1 .. consumer.msg : n \in handled'
    BY <2>1 DEF Covered
  <2>3. 1 .. committed' \subseteq handled'
    BY <2>1, <2>2 DEF Covered
  <2>4. \A n \in 1 .. consumer.offset : n \in handled'
    BY <2>1 DEF Covered
  <2>5. QED
    BY <2>1, <2>3, <2>4 DEF Covered
<1>5. CASE Rejoin
  <2>1. /\ consumer'.offset = committed /\ consumer'.msg = consumer.msg
        /\ UNCHANGED <<committed, handled>>
    BY <1>5 DEF Rejoin, ConsumerOK, historyVars
  <2>2. QED
    BY <2>1 DEF Covered
<1>6. CASE Crash
  <2>1. consumer'.offset = 0 /\ consumer'.msg = 0 /\ UNCHANGED <<committed, handled>>
    BY <1>6 DEF Crash, Idle, historyVars
  <2>2. QED
    BY <2>1 DEF Covered
<1>7. CASE Start
  <2>1. /\ consumer'.offset = committed' /\ consumer'.msg = 0 /\ handled' = handled
        /\ committed' = committed \/ committed' = 0
    BY <1>7 DEF Start, Idle, historyVars
  <2>2. QED
    BY <1>0, <2>1 DEF Covered
<1>8. QED
  BY <1>1, <1>2, <1>3, <1>4, <1>5, <1>6, <1>7, ConsumerSteps

\* The group's offset never passes a message that was not broadcast, whatever the
\* number of crashes, commits that failed and rebalances (Run, Receive, Ack, Drop).
THEOREM CommittedIsBroadcast == Spec => []CommittedWasBroadcast
<1>1. Init => Covered
  BY DEF Init, Idle, Covered
<1>2. TypeOK /\ Covered /\ [Next]_realtimeVars => Covered'
  BY CoveredStep, TypeParts
<1>3. Covered => CommittedWasBroadcast
  BY DEF Covered, CommittedWasBroadcast
<1>4. QED
  BY <1>1, <1>2, <1>3, RealtimeTypeCorrect, PTL DEF Spec

----------------------------------------------------------------------------
(* Clients receive messages of their own tenants only. *)

\* A connection carries messages of its tenants, which its user owns.
Carries(i) == Own(conns[i]) /\ conns[i].tenants \subseteq owned[conns[i].client]

\* The message in hand goes to registered connections of its tenant, or to what
\* has become of them meanwhile.
Aims(i) ==
  i \in consumer.targets =>
      /\ conns[i].phase \notin {"unused", "accepted"}
      /\ conns[i].phase = "registered" => consumer.msg \in Of(conns[i].tenants)

Separated == \A i \in Conns : Carries(i) /\ Aims(i)

LEMMA NoneOwned == \A k : k.queue = <<>> /\ k.wire = <<>> /\ k.got = <<>> => Own(k)
BY DEF Own

LEMMA CarriesFollows ==
  ASSUME ConnsOK, NEW i \in Conns, Carries(i), Follows(conns[i], conns'[i]),
         \A c \in Clients : owned[c] \subseteq owned'[c]
  PROVE  Carries(i)'
<1>0. conns[i].client \in Clients /\ conns'[i].client \in Clients
  BY DEF ConnsOK, ConnOK, Conn, Follows
<1>1. CASE Keeps(conns[i], conns'[i])
  BY <1>0, <1>1 DEF Carries, Keeps
<1>2. CASE IsGone(conns'[i])
  <2>1. Own(conns'[i]) /\ conns'[i].tenants = {}
    BY <1>2, NoneOwned DEF IsGone
  <2>2. QED
    BY <2>1 DEF Carries
<1>3. CASE conns'[i] = Unused
  <2>1. Own(conns'[i]) /\ conns'[i].tenants = {}
    BY <1>3, NoneOwned DEF Unused
  <2>2. QED
    BY <2>1 DEF Carries
<1>4. QED
  BY <1>1, <1>2, <1>3 DEF Follows

\* What the consumer aims at: nothing new but with the next message.
LEMMA TargetsStep ==
  ASSUME ConsumerOK, [Next]_realtimeVars, ~Receive
  PROVE  /\ consumer'.targets \subseteq consumer.targets
         /\ consumer'.targets # {} => consumer'.msg = consumer.msg
<1>1. CASE UNCHANGED consumer
  BY <1>1
<1>2. ASSUME NEW i \in Conns, CloseSocket(i) \/ Send(i)
      PROVE  /\ consumer'.targets \subseteq consumer.targets /\ consumer'.msg = consumer.msg
  BY <1>2 DEF CloseSocket, Send, Full, ConsumerOK
<1>3. CASE Ack
  BY <1>3 DEF Ack, ConsumerOK
<1>4. CASE Rejoin
  BY <1>4 DEF Rejoin, ConsumerOK
<1>5. CASE Crash \/ Start
  <2>1. consumer'.targets = {}
    BY <1>5 DEF Crash, Start, Idle
  <2>2. QED
    BY <2>1
<1>6. QED
  BY <1>1, <1>2, <1>3, <1>4, <1>5, ConsumerSteps

LEMMA AimsFollows ==
  ASSUME NEW i \in Conns, Aims(i), Follows(conns[i], conns'[i]),
         consumer'.targets \subseteq consumer.targets,
         consumer'.targets # {} => consumer'.msg = consumer.msg
  PROVE  Aims(i)'
<1> SUFFICES ASSUME i \in consumer'.targets
             PROVE  /\ conns'[i].phase \notin {"unused", "accepted"}
                    /\ conns'[i].phase = "registered" => consumer'.msg \in Of(conns'[i].tenants)
  BY DEF Aims
<1>1. i \in consumer.targets /\ consumer'.msg = consumer.msg
  OBVIOUS
<1>2. /\ conns[i].phase \notin {"unused", "accepted"}
      /\ conns[i].phase = "registered" => consumer.msg \in Of(conns[i].tenants)
  BY <1>1 DEF Aims
<1>3. CASE Keeps(conns[i], conns'[i])
  BY <1>1, <1>2, <1>3 DEF Keeps
<1>4. CASE IsGone(conns'[i])
  BY <1>4 DEF IsGone
<1>5. QED
  BY <1>2, <1>3, <1>4 DEF Follows

\* A step that leaves the connections but one as they are.
LEMMA OthersSeparated ==
  ASSUME ConnsOK, Separated, NEW i \in Conns, NEW l, conns' = [conns EXCEPT ![i] = l], UNCHANGED owned,
         consumer'.targets \subseteq consumer.targets, consumer'.msg = consumer.msg,
         NEW j \in Conns, j # i
  PROVE  Carries(j)' /\ Aims(j)'
<1>1. conns'[j] = conns[j]
  BY DEF ConnsOK
<1>2. Carries(j) /\ Aims(j)
  BY DEF Separated
<1>3. QED
  BY <1>1, <1>2 DEF Carries, Aims

LEMMA ServeSeparated ==
  ASSUME TypeOK, Separated, NEW c \in Clients, NEW i \in Conns, Serve(c, i)
  PROVE  Separated'
<1> DEFINE k == [Unused EXCEPT !.phase = "accepted", !.client = c, !.tenants = owned[c]]
<1>0. ConnsOK
  BY TypeParts
<1>1. conns' = [conns EXCEPT ![i] = k] /\ UNCHANGED <<consumer, owned>>
  BY DEF Serve, userVars
<1>2. conns'[i] = k
  BY <1>0, <1>1 DEF ConnsOK
<1>3. k.client = c /\ k.tenants = owned[c] /\ k.queue = <<>> /\ k.wire = <<>> /\ k.got = <<>>
  BY DEF Unused
<1>4. Carries(i)'
  <2>1. Own(k)
    BY <1>3, NoneOwned
  <2>2. QED
    BY <1>1, <1>2, <1>3, <2>1 DEF Carries
<1>5. i \notin consumer.targets
  BY DEF Serve, Free, Separated, Aims
<1>6. Aims(i)'
  BY <1>1, <1>5 DEF Aims
<1>7. \A j \in Conns : j # i => Carries(j)' /\ Aims(j)'
  BY <1>0, <1>1, OthersSeparated
<1>8. QED
  BY <1>4, <1>6, <1>7 DEF Separated

LEMMA SendSeparated ==
  ASSUME TypeOK, Separated, NEW i \in Conns, Send(i)
  PROVE  Separated'
<1> DEFINE k == conns[i]
<1>0. ConnsOK /\ ConsumerOK /\ k \in ConnOK /\ k \in Conn
  BY TypeParts DEF ConnsOK, ConnOK
<1>1. consumer'.targets \subseteq consumer.targets /\ consumer'.msg = consumer.msg /\ UNCHANGED owned
  BY <1>0 DEF Send, Full, ConsumerOK, userVars
<1>2. Carries(i) /\ Aims(i)
  BY DEF Separated
<1>3. ASSUME NEW l, conns' = [conns EXCEPT ![i] = l], Own(l), l.client = k.client, l.tenants = k.tenants,
             l.phase = k.phase
      PROVE  Separated'
  <2>1. conns'[i] = l
    BY <1>0, <1>3 DEF ConnsOK
  <2>2. Carries(i)'
    BY <1>1, <1>2, <1>3, <2>1 DEF Carries
  <2>3. Aims(i)'
    BY <1>1, <1>2, <1>3, <2>1 DEF Aims
  <2>4. \A j \in Conns : j # i => Carries(j)' /\ Aims(j)'
    BY <1>0, <1>1, <1>3, OthersSeparated
  <2>5. QED
    BY <2>2, <2>3, <2>4 DEF Separated
<1>4. CASE UNCHANGED conns
  <2>1. conns' = [conns EXCEPT ![i] = k] /\ Own(k)
    BY <1>0, <1>2, <1>4 DEF ConnsOK, Carries
  <2>2. QED
    BY <1>3, <2>1
<1>5. CASE HasRoom(i) /\ k.phase = "registered" /\ conns' = [conns EXCEPT ![i].queue = Append(@, consumer.msg)]
  <2> DEFINE l == [k EXCEPT !.queue = Append(@, consumer.msg)]
  <2>1. conns' = [conns EXCEPT ![i] = l]
    BY <1>5
  <2>2. /\ l.queue = Append(k.queue, consumer.msg) /\ l.wire = k.wire /\ l.got = k.got
        /\ l.client = k.client /\ l.tenants = k.tenants /\ l.phase = k.phase
    BY <1>0 DEF Conn
  <2>3. consumer.msg \in Of(k.tenants) /\ Own(k)
    BY <1>2, <1>5 DEF Send, Aims, Carries
  <2>4. Append(k.queue, consumer.msg) \in Seq(Of(k.tenants))
    BY <2>3 DEF Own
  <2>5. Own(l)
    BY <2>2, <2>3, <2>4 DEF Own
  <2> HIDE DEF l
  <2>6. QED
    BY <1>3, <2>1, <2>2, <2>5
<1>6. CASE Full(i)
  <2> DEFINE l == Close(k, Overflow)
  <2>1. conns' = [conns EXCEPT ![i] = l]
    BY <1>6 DEF Full
  <2>2. /\ l.queue = k.queue /\ l.wire = k.wire /\ l.got = k.got
        /\ l.client = k.client /\ l.tenants = k.tenants /\ l.phase = k.phase
    BY <1>0 DEF Conn, Close
  <2>3. Own(l)
    BY <1>2, <2>2 DEF Own, Carries
  <2> HIDE DEF l
  <2>4. QED
    BY <1>3, <2>1, <2>2, <2>3
<1>7. QED
  BY <1>4, <1>5, <1>6 DEF Send

LEMMA ReceiveSeparated ==
  ASSUME TypeOK, Separated, Receive
  PROVE  Separated'
<1> DEFINE n == consumer.offset + 1
           targets == IF Log[n] = Malformed THEN {} ELSE Targets(Log[n])
<1>0. ConnsOK /\ ConsumerOK
  BY TypeParts
<1>1. /\ n \in DOMAIN Log /\ consumer'.msg = n /\ consumer'.targets = targets /\ UNCHANGED owned
      /\ conns' = [i \in Conns |-> IF i \in targets THEN [conns[i] EXCEPT !.owed = Append(@, n)] ELSE conns[i]]
  BY <1>0, LogFacts DEF Receive, ConsumerOK, userVars
<1>2. ASSUME NEW i \in Conns
      PROVE  Carries(i)'
  <2>1. AllFollow
    BY <1>0, ReceiveFollows
  <2>2. QED
    BY <1>0, <1>1, <2>1, CarriesFollows DEF AllFollow, Separated
<1>3. ASSUME NEW i \in Conns
      PROVE  Aims(i)'
  <2>1. CASE i \in targets
    <3>1. conns[i].phase = "registered" /\ Log[n] \in conns[i].tenants
      BY <2>1 DEF Targets
    <3>2. conns'[i] = [conns[i] EXCEPT !.owed = Append(@, n)] /\ conns[i] \in Conn
      BY <1>0, <1>1, <2>1 DEF ConnsOK, ConnOK
    <3>3. conns'[i].phase = conns[i].phase /\ conns'[i].tenants = conns[i].tenants
      BY <3>2 DEF Conn
    <3> HIDE DEF n, targets
    <3>4. QED
      BY <1>1, <3>1, <3>3 DEF Aims, Of
  <2>2. CASE i \notin targets
    <3> HIDE DEF n, targets
    <3>1. QED
      BY <1>1, <2>2 DEF Aims
  <2>3. QED
    BY <2>1, <2>2
<1>4. QED
  BY <1>2, <1>3 DEF Separated

LEMMA SeparatedStep ==
  ASSUME TypeOK, AlsoTrue, Separated, [Next]_realtimeVars
  PROVE  Separated'
<1>0. ConnsOK /\ ConsumerOK /\ OpenHasConn /\ (\A c \in Clients : owned[c] \subseteq owned'[c])
  BY TypeParts, UserStep DEF AlsoTrue
<1>1. CASE AllFollow /\ ~Receive
  <2>1. ASSUME NEW i \in Conns
        PROVE  Carries(i)' /\ Aims(i)'
    <3>1. Carries(i) /\ Aims(i) /\ Follows(conns[i], conns'[i])
      BY <1>1 DEF AllFollow, Separated
    <3>2. Carries(i)'
      BY <1>0, <3>1, CarriesFollows
    <3>3. Aims(i)'
      BY <1>0, <1>1, <3>1, TargetsStep, AimsFollows
    <3>4. QED
      BY <3>2, <3>3
  <2>2. QED
    BY <2>1 DEF Separated
<1>2. QED
  BY <1>0, <1>1, StepFollows, ServeSeparated, SendSeparated, ReceiveSeparated

LEMMA Separation == Spec => [](TypeOK /\ Separated)
<1>1. Init => Separated
  <2>1. ASSUME Init, NEW i \in Conns
        PROVE  Carries(i) /\ Aims(i)
    <3>1. conns[i] = Unused /\ consumer.targets = {}
      BY <2>1 DEF Init, Idle
    <3>2. Own(Unused) /\ Unused.tenants = {}
      BY NoneOwned DEF Unused
    <3>3. QED
      BY <3>1, <3>2 DEF Carries, Aims
  <2>2. QED
    BY <2>1 DEF Separated
<1>2. TypeOK /\ AlsoTrue /\ Separated /\ [Next]_realtimeVars => Separated'
  BY SeparatedStep
<1>3. QED
  BY <1>1, <1>2, Invariant, PTL DEF Spec

\* A client receives only messages of tenants its user owns, however connections,
\* their places and the consumer's copies of them come and go (Register, Broadcast,
\* Unregister).
THEOREM TenantsAreSeparate == Spec => []OnlyOwnTenants
<1>1. ASSUME TypeOK, Separated
      PROVE  OnlyOwnTenants
  <2>1. ASSUME NEW i \in Conns, NEW j \in DOMAIN conns[i].got
        PROVE  Log[conns[i].got[j]] \in owned[conns[i].client]
    <3>1. conns[i].got \in Seq(Of(conns[i].tenants)) /\ conns[i].tenants \subseteq owned[conns[i].client]
      BY <1>1 DEF Separated, Carries, Own
    <3>2. conns[i].got[j] \in Of(conns[i].tenants)
      BY <3>1
    <3>3. QED
      BY <3>1, <3>2 DEF Of
  <2>2. QED
    BY <2>1 DEF OnlyOwnTenants
<1>2. QED
  BY <1>1, Separation, PTL

----------------------------------------------------------------------------
(* A hook gives up only when its connection was too slow. *)

Blamed == \A i \in Conns : conns[i].code = Overflow => conns[i].client \in slow

\* While a hook's socket is up, it is that of the hook's own connection.
Linked ==
  \A c \in Clients : client[c].conn \in Conns =>
      /\ conns[client[c].conn].phase # "unused"
      /\ conns[client[c].conn].peer => conns[client[c].conn].client = c

Hooked == Blamed /\ Linked /\ GivesUpOnlyWhenSlow

LEMMA SendKeeps ==
  ASSUME TypeOK, NEW i \in Conns, Send(i), NEW j \in Conns
  PROVE  /\ conns'[j].phase = conns[j].phase /\ conns'[j].peer = conns[j].peer
         /\ conns'[j].client = conns[j].client
         /\ conns'[j].code = Overflow => conns[j].code = Overflow \/ conns[j].client \in slow'
<1>0. conns \in [Conns -> ConnOK] /\ conns[j] \in Conn
  BY TypeParts DEF ConnsOK, ConnOK
<1>1. CASE j # i \/ UNCHANGED conns
  BY <1>0, <1>1 DEF Send, Full
<1>2. CASE j = i /\ conns' = [conns EXCEPT ![i].queue = Append(@, consumer.msg)]
  BY <1>0, <1>2 DEF Conn
<1>3. CASE j = i /\ Full(i)
  <2>1. conns'[j] = Close(conns[j], Overflow) /\ conns[j].client \in slow'
    BY <1>0, <1>3 DEF Full
  <2>2. QED
    BY <1>0, <2>1 DEF Close, Conn
<1>4. QED
  BY <1>1, <1>2, <1>3 DEF Send

\* A hook comes to a connection only when it is served.
LEMMA LinksStep ==
  ASSUME ClientOK, [Next]_realtimeVars, NEW c \in Clients
  PROVE  client'[c].conn \in {client[c].conn, NoConn} \/ \E i \in Conns : Serve(c, i)
<1>1. CASE client' = client
  BY <1>1
<1>2. CASE UNCHANGED realtimeVars
  BY <1>1, <1>2 DEF realtimeVars
<1>3. CASE Consume \/ Rejoin \/ Crash
  BY <1>1, <1>3 DEF Consume, Receive, Ack, Start, Send, Rejoin, Crash
<1>4. ASSUME NEW i \in Conns, Run(i) \/ ReadFails(i) \/ CloseSocket(i) \/ Lost(i)
      PROVE  client' = client
  BY <1>4 DEF Run, Register, Write, PingFails, WriteLoopReturns, ReadFails, CloseSocket, Lost
<1>5. ASSUME NEW d \in Clients, Hook(d) \/ Unmount(d) \/ Mount(d)
      PROVE  client'[c].conn \in {client[c].conn, NoConn} \/ \E i \in Conns : Serve(c, i)
  <2>1. ASSUME NEW i \in Conns, Serve(d, i)
        PROVE  client'[c].conn = client[c].conn \/ Serve(c, i)
    <3>1. CASE d = c
      BY <2>1, <3>1
    <3>2. CASE d # c
      <4>1. client' = [client EXCEPT ![d].conn = i]
        BY <2>1 DEF Serve
      <4>2. QED
        BY <3>2, <4>1 DEF ClientOK
    <3>3. QED
      BY <3>1, <3>2
  <2>2. CASE ~(\E i \in Conns : Serve(d, i))
    BY <1>5, <2>2 DEF Hook, OnOpen, OnMessage, OnClose, OnHandshakeFailed, Reconnect, Unmount, Mount, ClientOK
  <2>3. QED
    BY <2>1, <2>2
<1>6. CASE Users
  <2>1. CASE MarkAllRead \/ \E n \in DOMAIN Log : MarkRead(n)
    BY <1>1, <2>1 DEF MarkAllRead, MarkRead
  <2>2. ASSUME NEW d \in Clients, SessionChanges(d) \/ \E t \in Tenants : TenantCreated(d, t)
        PROVE  client' = client
    BY <2>2 DEF SessionChanges, TenantCreated
  <2>3. QED
    BY <1>1, <1>5, <1>6, <2>1, <2>2 DEF Users
<1>7. QED
  BY <1>1, <1>2, <1>3, <1>4, <1>5, <1>6 DEF Next

\* And it stops only when its socket ended with the server's code.
LEMMA StopsStep ==
  ASSUME ClientOK, [Next]_realtimeVars, NEW c \in Clients, client'[c].status = "closed"
  PROVE  \/ client[c].status = "closed"
         \/ /\ client[c].conn # NoConn
            /\ conns[client[c].conn].peer /\ conns[client[c].conn].code = Overflow
<1>1. CASE client' = client
  BY <1>1
<1>2. CASE UNCHANGED realtimeVars
  BY <1>1, <1>2 DEF realtimeVars
<1>3. CASE Consume \/ Rejoin \/ Crash
  BY <1>1, <1>3 DEF Consume, Receive, Ack, Start, Send, Rejoin, Crash
<1>4. ASSUME NEW i \in Conns, Run(i) \/ ReadFails(i) \/ CloseSocket(i) \/ Lost(i)
      PROVE  client' = client
  BY <1>4 DEF Run, Register, Write, PingFails, WriteLoopReturns, ReadFails, CloseSocket, Lost
<1>5. ASSUME NEW d \in Clients, Hook(d) \/ Unmount(d) \/ Mount(d)
      PROVE  \/ client[c].status = "closed"
             \/ /\ client[c].conn # NoConn
                /\ conns[client[c].conn].peer /\ conns[client[c].conn].code = Overflow
  <2>1. ASSUME NEW i \in Conns, Serve(d, i)
        PROVE  client'[c].status = client[c].status
    BY <2>1 DEF Serve, ClientOK
  <2>2. CASE OnOpen(d) \/ OnMessage(d) \/ Reconnect(d) \/ Unmount(d) \/ Mount(d)
    BY <2>2 DEF OnOpen, OnMessage, Reconnect, Unmount, Mount, ClientOK
  <2>3. CASE OnHandshakeFailed(d)
    <3>1. StatusAfter(Abnormal) = "reconnecting"
      BY DEF StatusAfter, Abnormal, Overflow
    <3>2. client' = [client EXCEPT ![d].status = "reconnecting"]
      BY <2>3, <3>1 DEF OnHandshakeFailed
    <3>3. QED
      BY <3>2 DEF ClientOK
  <2>4. CASE OnClose(d)
    <3> DEFINE k == conns[client[d].conn]
               code == IF k.peer THEN k.code ELSE Abnormal
    <3>1. client[d].conn # NoConn /\ client' = [client EXCEPT ![d] = [status |-> StatusAfter(code), conn |-> NoConn]]
      BY <2>4 DEF OnClose
    <3>2. CASE d = c
      <4>1. StatusAfter(code) = "closed"
        BY <3>1, <3>2 DEF ClientOK
      <4>2. code = Overflow
        BY <4>1 DEF StatusAfter
      <4>3. k.peer /\ k.code = Overflow
        BY <4>2 DEF Abnormal, Overflow
      <4>4. QED
        BY <3>1, <3>2, <4>3
    <3>3. CASE d # c
      BY <3>1, <3>3 DEF ClientOK
    <3>4. QED
      BY <3>2, <3>3
  <2>5. QED
    BY <1>5, <2>1, <2>2, <2>3, <2>4 DEF Hook
<1>6. CASE Users
  <2>1. CASE MarkAllRead \/ \E n \in DOMAIN Log : MarkRead(n)
    BY <1>1, <2>1 DEF MarkAllRead, MarkRead
  <2>2. ASSUME NEW d \in Clients, SessionChanges(d) \/ \E t \in Tenants : TenantCreated(d, t)
        PROVE  client' = client
    BY <2>2 DEF SessionChanges, TenantCreated
  <2>3. QED
    BY <1>1, <1>5, <1>6, <2>1, <2>2 DEF Users
<1>7. QED
  BY <1>1, <1>2, <1>3, <1>4, <1>5, <1>6 DEF Next

LEMMA FollowsHooked ==
  ASSUME NEW k, NEW l, Follows(k, l)
  PROVE  /\ l.code = Overflow => k.code = Overflow /\ l.client = k.client
         /\ k.phase # "unused" => l.phase # "unused" /\ (l.peer => k.peer /\ l.client = k.client)
<1>1. CASE Keeps(k, l)
  BY <1>1 DEF Keeps
<1>2. CASE k.phase # "unused" /\ IsGone(l)
  BY <1>2 DEF IsGone, NoCode, Overflow
<1>3. CASE k.phase = "unused" /\ l = Unused
  BY <1>3 DEF Unused, NoCode, Overflow
<1>4. QED
  BY <1>1, <1>2, <1>3 DEF Follows

LEMMA HookedStep ==
  ASSUME TypeOK, AlsoTrue, Hooked, [Next]_realtimeVars
  PROVE  Hooked'
<1>0. ClientOK /\ ConnsOK /\ OpenHasConn /\ slow \subseteq slow'
  BY TypeParts, HistoryStep DEF AlsoTrue
<1>1. GivesUpOnlyWhenSlow'
  <2>1. ASSUME NEW c \in Clients, client'[c].status = "closed"
        PROVE  c \in slow
    <3>1. CASE client[c].status = "closed"
      BY <3>1 DEF Hooked, GivesUpOnlyWhenSlow
    <3>2. CASE /\ client[c].conn # NoConn
               /\ conns[client[c].conn].peer /\ conns[client[c].conn].code = Overflow
      <4>1. client[c].conn \in Conns
        BY <1>0, <3>2 DEF ClientOK
      <4>2. QED
        BY <3>2, <4>1 DEF Hooked, Linked, Blamed
    <3>3. QED
      BY <1>0, <2>1, <3>1, <3>2, StopsStep
  <2>2. QED
    BY <1>0, <2>1 DEF GivesUpOnlyWhenSlow
<1>2. ASSUME NEW c \in Clients, NEW i \in Conns, Serve(c, i)
      PROVE  Blamed' /\ Linked'
  <2> DEFINE k == [Unused EXCEPT !.phase = "accepted", !.client = c, !.tenants = owned[c]]
  <2>1. /\ conns' = [conns EXCEPT ![i] = k] /\ client' = [client EXCEPT ![c].conn = i]
        /\ UNCHANGED slow
    BY <1>2 DEF Serve, historyVars
  <2>2. k.client = c /\ k.phase = "accepted" /\ k.code # Overflow
    BY DEF Unused, NoCode, Overflow
  <2>3. \A d \in Clients : client[d].conn # i
    BY <1>2 DEF Serve, Free, Hooked, Linked
  <2> HIDE DEF k
  <2>4. \A j \in Conns : conns'[j] = IF j = i THEN k ELSE conns[j]
    BY <1>0, <2>1 DEF ConnsOK
  <2>5. Blamed'
    BY <2>1, <2>2, <2>4 DEF Hooked, Blamed
  <2>6. ASSUME NEW d \in Clients, client'[d].conn \in Conns
        PROVE  /\ conns'[client'[d].conn].phase # "unused"
               /\ conns'[client'[d].conn].peer => conns'[client'[d].conn].client = d
    <3>1. CASE d = c
      <4>1. client'[d].conn = i
        BY <1>0, <2>1, <3>1 DEF ClientOK
      <4>2. QED
        BY <2>2, <2>4, <3>1, <4>1
    <3>2. CASE d # c
      <4>1. client'[d].conn = client[d].conn /\ client[d].conn # i
        BY <1>0, <2>1, <2>3, <3>2 DEF ClientOK
      <4>2. QED
        BY <2>4, <2>6, <4>1 DEF Hooked, Linked
    <3>3. QED
      BY <3>1, <3>2
  <2>7. QED
    BY <2>5, <2>6 DEF Linked
<1>3. CASE ~(\E c \in Clients, i \in Conns : Serve(c, i))
  <2>1. ASSUME NEW j \in Conns
        PROVE  /\ conns'[j].code = Overflow => conns'[j].client \in slow'
               /\ conns[j].phase # "unused" =>
                      /\ conns'[j].phase # "unused"
                      /\ conns'[j].peer => conns[j].peer /\ conns'[j].client = conns[j].client
    <3>1. CASE AllFollow
      <4>1. Follows(conns[j], conns'[j])
        BY <3>1 DEF AllFollow
      <4>2. QED
        BY <1>0, <4>1, FollowsHooked DEF Hooked, Blamed
    <3>2. ASSUME NEW i \in Conns, Send(i)
          PROVE  /\ conns'[j].code = Overflow => conns'[j].client \in slow'
                 /\ conns[j].phase # "unused" =>
                        /\ conns'[j].phase # "unused"
                        /\ conns'[j].peer => conns[j].peer /\ conns'[j].client = conns[j].client
      BY <1>0, <3>2, SendKeeps DEF Hooked, Blamed
    <3>3. QED
      BY <1>0, <1>3, <3>1, <3>2, StepFollows
  <2>2. ASSUME NEW c \in Clients, client'[c].conn \in Conns
        PROVE  client'[c].conn = client[c].conn
    BY <1>0, <1>3, <2>2, LinksStep, LogFacts
  <2>3. Linked'
    BY <2>1, <2>2 DEF Hooked, Linked
  <2>4. Blamed'
    <3>1. \A j \in Conns : conns'[j].code = Overflow => conns'[j].client \in slow'
      BY <2>1
    <3>2. QED
      BY <3>1 DEF Blamed
  <2>5. QED
    BY <1>1, <2>3, <2>4 DEF Hooked
<1>4. QED
  BY <1>1, <1>2, <1>3 DEF Hooked

\* A hook stops reconnecting only after a connection of its own was closed for a
\* full buffer: a server that goes away, a broken network and a refused session
\* never end its attempts (socket.onclose, Send).
THEOREM OnlySlowHooksGiveUp == Spec => []GivesUpOnlyWhenSlow
<1>1. Init => Hooked
  BY LogFacts DEF Init, Hooked, Blamed, Linked, GivesUpOnlyWhenSlow, Unused, NoCode, Overflow
<1>2. TypeOK /\ AlsoTrue /\ Hooked /\ [Next]_realtimeVars => Hooked'
  BY HookedStep
<1>3. Hooked => GivesUpOnlyWhenSlow
  BY DEF Hooked
<1>4. QED
  BY <1>1, <1>2, <1>3, Invariant, PTL DEF Spec

----------------------------------------------------------------------------
(* Sequences of messages, one of which begins another. *)

Begins(s, t) == Len(s) <= Len(t) /\ s = SubSeq(t, 1, Len(s))

LEMMA BeginsWhenContinued ==
  ASSUME NEW S, NEW s \in Seq(S), NEW t \in Seq(S)
  PROVE  Begins(s, t) <=> \E r \in Seq(S) : t = s \o r
<1>0. Len(s) \in Nat /\ Len(t) \in Nat /\ \A j \in 1 .. Len(t) : t[j] \in S
  BY LenProperties, ElementOfSeq
<1>1. ASSUME Begins(s, t)
      PROVE  \E r \in Seq(S) : t = s \o r
  <2> DEFINE r == SubSeq(t, Len(s) + 1, Len(t))
  <2>1. r \in Seq(S)
    BY <1>0, SubSeqProperties
  <2>2. Len(s) <= Len(t) /\ s = SubSeq(t, 1, Len(s))
    BY <1>1 DEF Begins
  <2>3. SubSeq(t, 1, Len(s)) \o r = SubSeq(t, 1, Len(t))
    <3>1. 1 \in 1 .. Len(t) + 1 /\ Len(s) \in 1 - 1 .. Len(t) /\ Len(t) \in Len(s) .. Len(t)
      BY <1>0, <2>2
    <3>2. QED
      BY <3>1, ConcatAdjacentSubSeq
  <2>4. t = s \o r
    BY <2>2, <2>3, SubSeqFull
  <2> HIDE DEF r
  <2>5. QED
    BY <2>1, <2>4
<1>2. ASSUME NEW r \in Seq(S), t = s \o r
      PROVE  Begins(s, t)
  <2>1. Len(t) = Len(s) + Len(r) /\ Len(r) \in Nat
    BY <1>2, ConcatProperties, LenProperties
  <2>2. CASE Len(s) = 0
    <3>1. s = <<>> /\ SubSeq(t, 1, Len(s)) = <<>>
      BY <1>0, <2>2, SubSeqEmpty, EmptySeq
    <3>2. QED
      BY <1>0, <2>1, <2>2, <3>1 DEF Begins
  <2>3. CASE Len(s) # 0
    <3>1. 1 \in 1 .. Len(s) /\ Len(s) \in 1 .. Len(s)
      BY <1>0, <2>3
    <3>2. SubSeq(s \o r, 1, Len(s)) = SubSeq(s, 1, Len(s))
      BY <3>1, SubSeqOfConcat1
    <3>3. SubSeq(t, 1, Len(s)) = s
      BY <1>2, <3>2, SubSeqFull
    <3>4. QED
      BY <1>0, <2>1, <3>3 DEF Begins
  <2>4. QED
    BY <2>2, <2>3
<1>3. QED
  BY <1>1, <1>2

\* A longer sequence begins with what the shorter one begins with, and so does a
\* sequence with what begins a beginning of it.
LEMMA BeginsLonger ==
  ASSUME NEW S, NEW s \in Seq(S), NEW t \in Seq(S), NEW u \in Seq(S)
  PROVE  /\ Begins(s, t) => Begins(s, t \o u)
         /\ Begins(s \o u, t) => Begins(s, t)
         /\ Begins(s, s \o u)
<1>0. s \o u \in Seq(S) /\ t \o u \in Seq(S)
  BY ConcatProperties
<1>1. Begins(s, s \o u)
  BY <1>0, BeginsWhenContinued
<1>2. ASSUME Begins(s, t)
      PROVE  Begins(s, t \o u)
  <2>1. PICK r \in Seq(S) : t = s \o r
    BY <1>2, BeginsWhenContinued
  <2>2. t \o u = s \o (r \o u) /\ r \o u \in Seq(S)
    <3>1. (s \o r) \o u = s \o (r \o u)
      BY ConcatAssociative
    <3>2. r \o u \in Seq(S)
      BY ConcatProperties
    <3>3. QED
      BY <2>1, <3>1, <3>2
  <2>3. QED
    BY <1>0, <2>2, BeginsWhenContinued
<1>3. ASSUME Begins(s \o u, t)
      PROVE  Begins(s, t)
  <2>1. PICK r \in Seq(S) : t = (s \o u) \o r
    BY <1>0, <1>3, BeginsWhenContinued
  <2>2. t = s \o (u \o r) /\ u \o r \in Seq(S)
    <3>1. (s \o u) \o r = s \o (u \o r)
      BY ConcatAssociative
    <3>2. u \o r \in Seq(S)
      BY ConcatProperties
    <3>3. QED
      BY <2>1, <3>1, <3>2
  <2>3. QED
    BY <2>2, BeginsWhenContinued
<1>4. QED
  BY <1>1, <1>2, <1>3

\* Passing the head of one sequence to the end of another.
LEMMA HeadPasses ==
  ASSUME NEW S, NEW s \in Seq(S), NEW t \in Seq(S), t # <<>>
  PROVE  /\ Append(s, Head(t)) \o Tail(t) = s \o t
         /\ Append(s, Head(t)) \in Seq(S) /\ Tail(t) \in Seq(S) /\ Head(t) \in S
<1>1. /\ Head(t) \in S /\ Tail(t) \in Seq(S) /\ Len(Tail(t)) = Len(t) - 1
      /\ \A j \in 1 .. Len(Tail(t)) : Tail(t)[j] = t[j + 1]
  BY HeadTailProperties
<1>2. Len(s) \in Nat /\ Len(t) \in Nat /\ Len(t) >= 1
  BY LenProperties, EmptySeq
<1>3. /\ Append(s, Head(t)) \in Seq(S) /\ Len(Append(s, Head(t))) = Len(s) + 1
      /\ \A j \in 1 .. Len(s) : Append(s, Head(t))[j] = s[j]
      /\ Append(s, Head(t))[Len(s) + 1] = t[1]
  <2>1. Head(t) = t[1]
    OBVIOUS
  <2>2. QED
    BY <1>1, <2>1, AppendProperties
<1> DEFINE a == Append(s, Head(t))
           b == Tail(t)
<1> HIDE DEF a, b
<1>4. a \in Seq(S) /\ b \in Seq(S) /\ Len(a) = Len(s) + 1 /\ Len(b) = Len(t) - 1
  BY <1>1, <1>3 DEF a, b
<1>5. /\ a \o b \in Seq(S) /\ Len(a \o b) = Len(a) + Len(b)
      /\ \A j \in 1 .. Len(a) + Len(b) : (a \o b)[j] = IF j <= Len(a) THEN a[j] ELSE b[j - Len(a)]
  BY <1>4, ConcatProperties
<1>6. /\ s \o t \in Seq(S) /\ Len(s \o t) = Len(s) + Len(t)
      /\ \A j \in 1 .. Len(s) + Len(t) : (s \o t)[j] = IF j <= Len(s) THEN s[j] ELSE t[j - Len(s)]
  BY ConcatProperties
<1>7. Len(a) + Len(b) = Len(s) + Len(t)
  BY <1>2, <1>4
<1>8. ASSUME NEW j \in 1 .. Len(s) + Len(t)
      PROVE  (a \o b)[j] = (s \o t)[j]
  <2>1. CASE j <= Len(s)
    <3>1. j <= Len(a) /\ a[j] = s[j]
      BY <1>2, <1>3, <1>4, <2>1 DEF a
    <3>2. QED
      BY <1>5, <1>6, <1>7, <2>1, <3>1
  <2>2. CASE j = Len(s) + 1
    <3>1. j <= Len(a) /\ a[j] = t[1] /\ ~(j <= Len(s)) /\ j - Len(s) = 1
      BY <1>2, <1>3, <1>4, <2>2 DEF a
    <3>2. QED
      BY <1>5, <1>6, <1>7, <3>1
  <2>3. CASE j > Len(s) + 1
    <3>1. ~(j <= Len(a)) /\ ~(j <= Len(s)) /\ j - Len(a) \in 1 .. Len(b) /\ (j - Len(a)) + 1 = j - Len(s)
      BY <1>2, <1>4, <2>3
    <3>2. b[j - Len(a)] = t[(j - Len(a)) + 1]
      BY <1>1, <3>1 DEF b
    <3>3. QED
      BY <1>5, <1>6, <1>7, <3>1, <3>2
  <2>4. j <= Len(s) \/ j = Len(s) + 1 \/ j > Len(s) + 1
    BY <1>2
  <2>5. QED
    BY <2>1, <2>2, <2>3, <2>4
<1>9. a \o b = s \o t
  BY <1>5, <1>6, <1>7, <1>8, SeqEqual
<1>10. QED
  BY <1>1, <1>3, <1>9 DEF a, b

----------------------------------------------------------------------------
(* No message is skipped. *)

Pending(aimed, n) == IF aimed THEN <<n>> ELSE <<>>
Sent(k) == k.got \o k.wire
Fresh(k) == k.owed = <<>> /\ k.queue = <<>> /\ k.wire = <<>> /\ k.got = <<>> /\ ~k.closed

\* A registered connection that can still be written to is owed what was sent on it,
\* what is buffered, and the message in hand if it is aimed at it; when it is closed
\* already, the broadcast waits for its close handshake, and no message gets to it
\* out of turn.  Once nothing more can be written, only this remains: what was sent
\* is the beginning of what is owed.
Chained(k, aimed, n, closing) ==
  /\ k.phase \in {"unused", "accepted"} => ~aimed /\ Fresh(k)
  /\ k.phase = "registered" /\ k.peer /\ ~k.sealed =>
       /\ Sent(k) \o k.queue \o Pending(aimed, n) = k.owed
       /\ k.closed => closing
  /\ Begins(Sent(k), k.owed)
  /\ k.sealed => k.closed

\* The message in hand is aimed at connections; without one, nothing is.
Tracked ==
  /\ consumer.msg = 0 => consumer.targets = {}
  /\ \A i \in Conns : Chained(conns[i], i \in consumer.targets, consumer.msg, consumer.closing = i)

\* A consumer that does not run has nothing under way.
Rests == ~consumer.up => consumer.closing = NoConn /\ consumer.targets = {}

LEMMA ConnFields ==
  ASSUME NEW k \in ConnOK
  PROVE  /\ k \in Conn
         /\ k.queue \in Seq(DOMAIN Log) /\ k.wire \in Seq(DOMAIN Log)
         /\ k.owed \in Seq(DOMAIN Log) /\ k.got \in Seq(DOMAIN Log)
         /\ Sent(k) \in Seq(DOMAIN Log)
<1>1. /\ k \in Conn
      /\ k.queue \in Seq(DOMAIN Log) /\ k.wire \in Seq(DOMAIN Log)
      /\ k.owed \in Seq(DOMAIN Log) /\ k.got \in Seq(DOMAIN Log)
  BY DEF ConnOK, Conn, Messages
<1>2. QED
  BY <1>1, ConcatProperties DEF Sent

LEMMA NothingSent ==
  ASSUME NEW k, k.owed = <<>>, k.wire = <<>>, k.got = <<>>
  PROVE  Begins(Sent(k), k.owed) /\ Sent(k) = <<>>
<1>1. <<>> \in Seq(DOMAIN Log) /\ <<>> \o <<>> = <<>>
  BY ConcatEmptySeq, EmptySeq
<1>2. Begins(<<>>, <<>> \o <<>>)
  BY <1>1, BeginsLonger
<1>3. QED
  BY <1>1, <1>2 DEF Sent

LEMMA GoneChained ==
  ASSUME NEW k, NEW s \in BOOLEAN, k = Gone \/ k = [Gone EXCEPT !.sealed = s]
  PROVE  \A aimed, n, closing : Chained(k, aimed, n, closing)
<1>1. k.owed = <<>> /\ k.wire = <<>> /\ k.got = <<>> /\ k.phase = "unregistered" /\ k.closed
  BY DEF Gone, Unused
<1>2. QED
  BY <1>1, NothingSent DEF Chained

LEMMA FreshChained ==
  ASSUME NEW k, Fresh(k), ~k.sealed, k.phase \in {"unused", "accepted"}
  PROVE  \A n, closing : Chained(k, FALSE, n, closing)
<1>1. Begins(Sent(k), k.owed)
  BY NothingSent DEF Fresh
<1>2. QED
  BY <1>1 DEF Chained

\* A connection that has the same messages, and of which no more is claimed.
LEMMA WeakerChained ==
  ASSUME NEW k, NEW aimed, NEW n, NEW closing, Chained(k, aimed, n, closing), NEW l, NEW aims, NEW m, NEW closes,
         l.phase \notin {"unused", "accepted"},
         ~(l.phase = "registered" /\ l.peer /\ ~l.sealed),
         l.got = k.got /\ l.wire = k.wire /\ l.owed = k.owed,
         l.sealed => l.closed
  PROVE  Chained(l, aims, m, closes)
BY DEF Chained, Sent

LEMMA CloseChained ==
  ASSUME NEW k \in ConnOK, NEW aimed, NEW n, NEW closing, Chained(k, aimed, n, closing), k.phase = "registered",
         ~(k.peer /\ ~k.sealed), NEW code \in {Normal, Internal}
  PROVE  Chained(Close(k, code), aimed, n, closing)
<1> DEFINE l == Close(k, code)
<1>1. /\ l.phase = k.phase /\ l.peer = k.peer /\ l.sealed = k.sealed /\ l.closed
      /\ l.got = k.got /\ l.wire = k.wire /\ l.owed = k.owed
  BY ConnFields DEF Close, Conn
<1> HIDE DEF l
<1>2. l.phase \notin {"unused", "accepted"} /\ ~(l.phase = "registered" /\ l.peer /\ ~l.sealed)
  BY <1>1
<1>3. Chained(l, aimed, n, closing)
  BY <1>1, <1>2, WeakerChained
<1>4. QED
  BY <1>3 DEF l

LEMMA RetiredChained ==
  ASSUME NEW k \in ConnOK, NEW aimed, NEW n, NEW closing, Chained(k, aimed, n, closing)
  PROVE  Chained(Retired(k), aimed, n, closing)
<1>1. k.sealed \in BOOLEAN
  BY ConnFields DEF Conn
<1>2. CASE Retired(k) = k
  BY <1>2
<1>3. CASE Retired(k) = [Gone EXCEPT !.sealed = k.sealed]
  BY <1>1, <1>3, GoneChained
<1>4. QED
  BY <1>2, <1>3 DEF Retired

LEMMA UnregisteredChained ==
  ASSUME NEW k \in ConnOK, NEW aimed, NEW n, NEW closing, Chained(k, aimed, n, closing)
  PROVE  Chained(Unregistered(k), aimed, n, closing)
<1> DEFINE l == [k EXCEPT !.phase = "unregistered", !.queue = <<>>]
<1>1. l \in ConnOK
  <2>1. l \in Conn /\ l.queue = <<>>
    BY NoMessages, ConnFields DEF Conn
  <2>2. Len(l.queue) <= Buffer
    BY <2>1, NoMessages, LogFacts
  <2>3. QED
    BY <2>1, <2>2 DEF ConnOK
<1>2. /\ l.phase = "unregistered" /\ l.sealed = k.sealed /\ l.closed = k.closed
      /\ l.got = k.got /\ l.wire = k.wire /\ l.owed = k.owed
  BY ConnFields DEF Conn
<1>3. k.sealed => k.closed
  BY DEF Chained
<1> HIDE DEF l
<1>4. l.phase \notin {"unused", "accepted"} /\ ~(l.phase = "registered" /\ l.peer /\ ~l.sealed)
  BY <1>2
<1>5. Chained(l, aimed, n, closing)
  BY <1>2, <1>3, <1>4, WeakerChained
<1>6. Chained(Retired(l), aimed, n, closing)
  BY <1>1, <1>5, RetiredChained
<1>7. QED
  BY <1>6 DEF Unregistered, l

LEMMA RegisterChained ==
  ASSUME NEW k \in ConnOK, k.phase = "accepted", NEW aimed, NEW n, NEW closing, Chained(k, aimed, n, closing)
  PROVE  Chained([k EXCEPT !.phase = "registered"], aimed, n, closing)
<1> DEFINE l == [k EXCEPT !.phase = "registered"]
<1>1. /\ l.phase = "registered" /\ l.sealed = k.sealed /\ l.closed = k.closed /\ l.peer = k.peer
      /\ l.got = k.got /\ l.wire = k.wire /\ l.owed = k.owed /\ l.queue = k.queue
  BY ConnFields DEF Conn
<1>2. ~aimed /\ Fresh(k) /\ Begins(Sent(k), k.owed) /\ (k.sealed => k.closed)
  BY DEF Chained
<1>3. Sent(l) = Sent(k) /\ Sent(k) = <<>>
  BY <1>1, <1>2, NothingSent DEF Sent, Fresh
<1>4. <<>> \o <<>> = <<>>
  BY ConcatEmptySeq, EmptySeq
<1> HIDE DEF l
<1>5. Sent(l) \o l.queue \o Pending(aimed, n) = l.owed
  BY <1>1, <1>2, <1>3, <1>4 DEF Fresh, Pending
<1>6. Chained(l, aimed, n, closing)
  BY <1>1, <1>2, <1>3, <1>5 DEF Chained, Fresh
<1>7. QED
  BY <1>6 DEF l

\* The same with something before them and after them.
LEMMA HeadPassesWithin ==
  ASSUME NEW S, NEW g \in Seq(S), NEW w \in Seq(S), NEW q \in Seq(S), q # <<>>, NEW p \in Seq(S)
  PROVE  LET v == Append(w, Head(q))
         IN  /\ v \in Seq(S) /\ Tail(q) \in Seq(S) /\ g \o v \in Seq(S)
             /\ ((g \o v) \o Tail(q)) \o p = ((g \o w) \o q) \o p
             /\ Begins(g \o v, ((g \o v) \o Tail(q)) \o p)
<1> DEFINE v == Append(w, Head(q))
           r == Tail(q)
<1>a. v \o r = w \o q
  BY HeadPasses
<1>1. v \in Seq(S) /\ r \in Seq(S)
  BY HeadPasses
<1> HIDE DEF v, r
<1>2. (g \o v) \o r = g \o (v \o r)
  BY <1>1, ConcatAssociative, SMTT(20)
<1>3. (g \o w) \o q = g \o (w \o q)
  BY ConcatAssociative, SMTT(20)
<1>4. g \o v \in Seq(S)
  BY <1>1, ConcatProperties
<1> DEFINE s == g \o v
<1>5. s \in Seq(S)
  BY <1>4
<1>6. Begins(s, (s \o r) \o p)
  <2> HIDE DEF s
  <2>1. Begins(s, s \o r)
    BY <1>1, <1>5, BeginsLonger
  <2>2. s \o r \in Seq(S)
    BY <1>1, <1>5, ConcatProperties
  <2>3. QED
    BY <1>5, <2>1, <2>2, BeginsLonger
<1>7. QED
  BY <1>a, <1>1, <1>2, <1>3, <1>4, <1>6 DEF v, r

LEMMA AppendedWithin ==
  ASSUME NEW S, NEW s \in Seq(S), NEW q \in Seq(S), NEW n \in S
  PROVE  (s \o Append(q, n)) \o <<>> = (s \o q) \o <<n>>
<1>1. <<n>> \in Seq(S) /\ Append(q, n) = q \o <<n>>
  BY AppendIsConcat
<1> DEFINE p == <<n>>
<1> HIDE DEF p
<1>2. p \in Seq(S) /\ q \o p \in Seq(S)
  BY <1>1, ConcatProperties DEF p
<1>3. s \o (q \o p) = (s \o q) \o p /\ s \o (q \o p) \in Seq(S)
  BY <1>2, ConcatAssociative, ConcatProperties
<1>4. (s \o (q \o p)) \o <<>> = s \o (q \o p)
  BY <1>3, ConcatEmptySeq
<1>5. QED
  BY <1>1, <1>3, <1>4 DEF p

LEMMA PendingType ==
  ASSUME NEW aimed \in BOOLEAN, NEW n \in DOMAIN Log
  PROVE  Pending(aimed, n) \in Seq(DOMAIN Log)
<1> DEFINE S == DOMAIN Log
<1>1. n \in S
  OBVIOUS
<1> HIDE DEF S
<1>2. <<n>> \in Seq(S) /\ <<>> \in Seq(S)
  BY <1>1, EmptySeq
<1>3. QED
  BY <1>2 DEF Pending, S

\* Write: what is buffered first goes to the end of what was sent.
LEMMA WrittenChained ==
  ASSUME NEW k \in ConnOK, k.queue # <<>>, k.phase = "registered", k.peer, ~k.sealed,
         NEW aimed \in BOOLEAN, NEW n \in DOMAIN Log, NEW closing, Chained(k, aimed, n, closing)
  PROVE  Chained([k EXCEPT !.queue = Tail(@), !.wire = Append(@, Head(k.queue))], aimed, n, closing)
<1> DEFINE S == DOMAIN Log
           l == [k EXCEPT !.queue = Tail(@), !.wire = Append(@, Head(k.queue))]
           p == Pending(aimed, n)
<1>1. /\ l.phase = k.phase /\ l.sealed = k.sealed /\ l.closed = k.closed /\ l.peer = k.peer
      /\ l.got = k.got /\ l.wire = Append(k.wire, Head(k.queue)) /\ l.owed = k.owed /\ l.queue = Tail(k.queue)
  BY ConnFields DEF Conn
<1>2. p \in Seq(S) /\ k.queue \in Seq(S) /\ k.wire \in Seq(S) /\ k.got \in Seq(S) /\ Sent(k) \in Seq(S)
  BY ConnFields, PendingType
<1>3. Sent(k) \o k.queue \o p = k.owed /\ (k.closed => closing) /\ ~k.sealed
  BY DEF Chained
<1> HIDE DEF l, S, p
<1>4. LET v == Append(k.wire, Head(k.queue))
      IN  /\ ((k.got \o v) \o Tail(k.queue)) \o p = ((k.got \o k.wire) \o k.queue) \o p
          /\ Begins(k.got \o v, ((k.got \o v) \o Tail(k.queue)) \o p)
  <2> DEFINE g == k.got
             w == k.wire
             q == k.queue
  <2>1. g \in Seq(S) /\ w \in Seq(S) /\ q \in Seq(S) /\ q # <<>> /\ p \in Seq(S)
    BY <1>2
  <2> HIDE DEF g, w, q
  <2>2. LET v == Append(w, Head(q))
        IN  /\ v \in Seq(S) /\ Tail(q) \in Seq(S) /\ g \o v \in Seq(S)
            /\ ((g \o v) \o Tail(q)) \o p = ((g \o w) \o q) \o p
            /\ Begins(g \o v, ((g \o v) \o Tail(q)) \o p)
    BY <2>1, HeadPassesWithin, Zenon
  <2>3. QED
    BY <2>2 DEF g, w, q
<1>5. Sent(l) \o l.queue \o p = l.owed
  BY <1>1, <1>3, <1>4 DEF Sent
<1>6. Begins(Sent(l), l.owed)
  BY <1>1, <1>4, <1>5 DEF Sent
<1>7. Chained(l, aimed, n, closing)
  BY <1>1, <1>3, <1>5, <1>6 DEF Chained, p
<1>8. QED
  BY <1>7 DEF l

LEMMA SealedChained ==
  ASSUME NEW k \in ConnOK, k.closed, NEW aimed, NEW n, NEW closing, Chained(k, aimed, n, closing),
         NEW aims, aims => aimed, NEW closes
  PROVE  Chained([k EXCEPT !.sealed = TRUE], aims, n, closes)
<1> DEFINE l == [k EXCEPT !.sealed = TRUE]
<1>1. /\ l.phase = k.phase /\ l.sealed /\ l.closed
      /\ l.got = k.got /\ l.wire = k.wire /\ l.owed = k.owed
  BY ConnFields DEF Conn
<1>2. l.phase \notin {"unused", "accepted"} /\ ~(l.phase = "registered" /\ l.peer /\ ~l.sealed)
  BY <1>1 DEF Chained, Fresh
<1> HIDE DEF l
<1>3. Chained(l, aims, n, closes)
  BY <1>1, <1>2, WeakerChained
<1>4. QED
  BY <1>3 DEF l

\* The socket is gone: what was on the way is not received, what was received before
\* remains the beginning.
LEMMA HangChained ==
  ASSUME NEW k \in ConnOK, NEW aimed, NEW n, NEW closing, Chained(k, aimed, n, closing)
  PROVE  Chained(Retired([k EXCEPT !.peer = FALSE, !.wire = <<>>]), aimed, n, closing)
<1> DEFINE l == [k EXCEPT !.peer = FALSE, !.wire = <<>>]
<1>1. /\ l.phase = k.phase /\ l.sealed = k.sealed /\ l.closed = k.closed /\ ~l.peer
      /\ l.got = k.got /\ l.wire = <<>> /\ l.owed = k.owed /\ l.queue = k.queue
  BY ConnFields DEF Conn
<1>2. l \in ConnOK
  BY NoMessages DEF ConnOK, Conn
<1> HIDE DEF l
<1>3. Sent(l) = k.got /\ k.got \in Seq(DOMAIN Log) /\ k.wire \in Seq(DOMAIN Log) /\ k.owed \in Seq(DOMAIN Log)
  BY <1>1, ConnFields, ConcatEmptySeq DEF Sent
<1>4. Begins(Sent(l), l.owed)
  BY <1>1, <1>3, BeginsLonger DEF Chained, Sent
<1>5. Chained(l, aimed, n, closing)
  BY <1>1, <1>4 DEF Chained, Fresh
<1>6. QED
  BY <1>2, <1>5, RetiredChained DEF l

\* onmessage: what is on the way first goes to the end of what was received.
LEMMA ReadChained ==
  ASSUME NEW k \in ConnOK, k.wire # <<>>, NEW aimed, NEW n, NEW closing, Chained(k, aimed, n, closing)
  PROVE  Chained([k EXCEPT !.wire = Tail(@), !.got = Append(@, Head(k.wire))], aimed, n, closing)
<1> DEFINE l == [k EXCEPT !.wire = Tail(@), !.got = Append(@, Head(k.wire))]
<1>1. /\ l.phase = k.phase /\ l.sealed = k.sealed /\ l.closed = k.closed /\ l.peer = k.peer
      /\ l.got = Append(k.got, Head(k.wire)) /\ l.wire = Tail(k.wire) /\ l.owed = k.owed /\ l.queue = k.queue
  BY ConnFields DEF Conn
<1>2. Append(k.got, Head(k.wire)) \o Tail(k.wire) = k.got \o k.wire
  BY ConnFields, HeadPasses
<1> HIDE DEF l
<1>3. Sent(l) = Sent(k)
  BY <1>1, <1>2 DEF Sent
<1>4. Chained(l, aimed, n, closing)
  BY <1>1, <1>3 DEF Chained, Fresh
<1>5. QED
  BY <1>4 DEF l

\* Receive: a connection becomes a target of the next message.
LEMMA OwedChained ==
  ASSUME NEW k \in ConnOK, k.phase = "registered", NEW n \in DOMAIN Log, NEW m, NEW closing,
         Chained(k, FALSE, m, closing)
  PROVE  Chained([k EXCEPT !.owed = Append(@, n)], TRUE, n, closing)
<1> DEFINE l == [k EXCEPT !.owed = Append(@, n)]
           S == DOMAIN Log
<1>1. /\ l.phase = k.phase /\ l.sealed = k.sealed /\ l.closed = k.closed /\ l.peer = k.peer
      /\ l.got = k.got /\ l.wire = k.wire /\ l.owed = Append(k.owed, n) /\ l.queue = k.queue
  BY ConnFields DEF Conn
<1>2. k.owed \in Seq(S) /\ k.queue \in Seq(S) /\ Sent(k) \in Seq(S) /\ <<n>> \in Seq(S) /\ <<>> \in Seq(S)
  BY ConnFields
<1>3. Append(k.owed, n) = k.owed \o <<n>>
  BY <1>2, AppendIsConcat
<1>4. Sent(l) = Sent(k)
  BY <1>1 DEF Sent
<1> HIDE DEF l, S
<1>5. ASSUME k.peer, ~k.sealed
      PROVE  Sent(l) \o l.queue \o Pending(TRUE, n) = l.owed /\ (l.closed => closing)
  <2>1. Sent(k) \o k.queue \o <<>> = k.owed /\ (k.closed => closing)
    BY <1>5 DEF Chained, Pending
  <2>2. Sent(k) \o k.queue \o <<>> = Sent(k) \o k.queue
    BY <1>2, ConcatProperties, ConcatEmptySeq
  <2>3. QED
    BY <1>1, <1>3, <1>4, <2>1, <2>2 DEF Pending
<1>6. Begins(Sent(l), l.owed)
  <2>1. Begins(Sent(k), k.owed)
    BY DEF Chained
  <2>2. Begins(Sent(k), k.owed \o <<n>>)
    BY <1>2, <2>1, BeginsLonger
  <2>3. QED
    BY <1>1, <1>3, <1>4, <2>2
<1>7. Chained(l, TRUE, n, closing)
  BY <1>1, <1>5, <1>6 DEF Chained
<1>8. QED
  BY <1>7 DEF l

\* Send: the message in hand is buffered,
LEMMA QueuedChained ==
  ASSUME NEW k \in ConnOK, k.phase = "registered", NEW n \in DOMAIN Log, NEW closing, Chained(k, TRUE, n, closing)
  PROVE  Chained([k EXCEPT !.queue = Append(@, n)], FALSE, n, closing)
<1> DEFINE l == [k EXCEPT !.queue = Append(@, n)]
           S == DOMAIN Log
<1>1. /\ l.phase = k.phase /\ l.sealed = k.sealed /\ l.closed = k.closed /\ l.peer = k.peer
      /\ l.got = k.got /\ l.wire = k.wire /\ l.owed = k.owed /\ l.queue = Append(k.queue, n)
  BY ConnFields DEF Conn
<1>2. k.queue \in Seq(S) /\ Sent(k) \in Seq(S) /\ n \in S
  BY ConnFields
<1>3. (Sent(k) \o Append(k.queue, n)) \o <<>> = (Sent(k) \o k.queue) \o <<n>>
  <2> HIDE DEF S
  <2>1. QED
    BY <1>2, AppendedWithin
<1>4. Sent(l) = Sent(k)
  BY <1>1 DEF Sent
<1> HIDE DEF l, S
<1>5. Sent(l) \o l.queue \o Pending(FALSE, n) = Sent(k) \o k.queue \o Pending(TRUE, n)
  BY <1>1, <1>3, <1>4 DEF Pending
<1>6. Chained(l, FALSE, n, closing)
  BY <1>1, <1>4, <1>5 DEF Chained
<1>7. QED
  BY <1>6 DEF l

\* or, as the connection is closed, not: it was not closed by this broadcast,
LEMMA DroppedChained ==
  ASSUME NEW k \in ConnOK, k.closed, NEW n, Chained(k, TRUE, n, FALSE)
  PROVE  Chained(k, FALSE, n, FALSE)
<1>1. k.phase \notin {"unused", "accepted"} /\ ~(k.phase = "registered" /\ k.peer /\ ~k.sealed)
  BY DEF Chained
<1>2. QED
  BY <1>1 DEF Chained

\* or the connection is closed, the buffer being full.
LEMMA FullChained ==
  ASSUME NEW k \in ConnOK, ~k.closed, NEW aimed, NEW n, NEW closing, Chained(k, aimed, n, closing), aimed
  PROVE  Chained(Close(k, Overflow), aimed, n, TRUE)
<1> DEFINE l == Close(k, Overflow)
<1>1. /\ l.phase = k.phase /\ l.peer = k.peer /\ l.sealed = k.sealed /\ l.closed
      /\ l.got = k.got /\ l.wire = k.wire /\ l.owed = k.owed /\ l.queue = k.queue
  BY ConnFields DEF Close, Conn
<1> HIDE DEF l
<1>2. Chained(l, aimed, n, TRUE)
  BY <1>1 DEF Chained, Sent
<1>3. QED
  BY <1>2 DEF l

\* A step that changes one connection, and what the consumer does to that one alone.
LEMMA OneTracked ==
  ASSUME ConnsOK, Tracked, NEW i \in Conns, NEW l, conns' = [conns EXCEPT ![i] = l],
         Chained(l, i \in consumer'.targets, consumer'.msg, consumer'.closing = i),
         consumer'.targets \subseteq consumer.targets, consumer'.msg = consumer.msg,
         \A j \in Conns : j # i => /\ j \in consumer'.targets <=> j \in consumer.targets
                                   /\ consumer'.closing = j <=> consumer.closing = j
  PROVE  Tracked'
<1>1. ASSUME NEW j \in Conns
      PROVE  Chained(conns'[j], j \in consumer'.targets, consumer'.msg, consumer'.closing = j)
  <2>1. CASE j = i
    BY <2>1 DEF ConnsOK
  <2>2. CASE j # i
    <3>1. conns'[j] = conns[j] /\ Chained(conns[j], j \in consumer.targets, consumer.msg, consumer.closing = j)
      BY <2>2 DEF ConnsOK, Tracked
    <3>2. (j \in consumer'.targets) = (j \in consumer.targets) /\ (consumer'.closing = j) = (consumer.closing = j)
      BY <2>2
    <3>3. QED
      BY <3>1, <3>2
  <2>3. QED
    BY <2>1, <2>2
<1>2. consumer'.msg = 0 => consumer'.targets = {}
  BY DEF Tracked
<1>3. QED
  BY <1>1, <1>2 DEF Tracked

LEMMA SameConsumerTracked ==
  ASSUME ConnsOK, Tracked, NEW i \in Conns, NEW l, conns' = [conns EXCEPT ![i] = l], UNCHANGED consumer,
         Chained(l, i \in consumer.targets, consumer.msg, consumer.closing = i)
  PROVE  Tracked'
BY OneTracked, Zenon

LEMMA RunTracked ==
  ASSUME ConnsOK, Tracked, ConsumerOK, NEW i \in Conns, Run(i) \/ ReadFails(i)
  PROVE  Tracked'
<1> DEFINE k == conns[i]
           aimed == i \in consumer.targets
           n == consumer.msg
           closing == consumer.closing = i
<1>0. k \in ConnOK /\ aimed \in BOOLEAN /\ Chained(k, aimed, n, closing)
  BY DEF ConnsOK, Tracked
<1>a. k.closed \in BOOLEAN /\ k.sealed \in BOOLEAN /\ k.peer \in BOOLEAN
  BY <1>0, ConnFields DEF Conn
<1>b. UNCHANGED consumer
  BY DEF Run, Register, Write, PingFails, WriteLoopReturns, ReadFails
<1>c. ASSUME NEW l, conns' = [conns EXCEPT ![i] = l], Chained(l, aimed, n, closing)
      PROVE  Tracked'
  BY <1>b, <1>c, SameConsumerTracked
<1>1. CASE Register(i)
  <2>1. conns' = [conns EXCEPT ![i] = [k EXCEPT !.phase = "registered"]] /\ k.phase = "accepted"
    BY <1>1 DEF Register
  <2>2. Chained([k EXCEPT !.phase = "registered"], aimed, n, closing)
    BY <1>0, <2>1, RegisterChained
  <2>3. QED
    BY <1>c, <2>1, <2>2
<1>2. CASE Write(i)
  <2>0. k.phase = "registered" /\ k.queue # <<>>
    BY <1>2 DEF Write
  <2>1. CASE k.peer /\ ~k.sealed
    <3> DEFINE l == [k EXCEPT !.queue = Tail(@), !.wire = Append(@, Head(k.queue))]
    <3>1. conns' = [conns EXCEPT ![i] = l]
      BY <1>2, <2>1 DEF Write
    <3>2. CASE ~aimed
      <4>1. Chained(k, FALSE, 1, closing) /\ ~aimed
        BY <1>0, <3>2 DEF Chained, Pending
      <4>2. CASE DOMAIN Log = {}
        <5>1. k.queue \in Seq({})
          BY <1>0, <4>2, ConnFields
        <5>2. QED
          BY <2>0, <5>1, HeadTailProperties
      <4>3. CASE DOMAIN Log # {}
        <5>1. 1 \in DOMAIN Log
          BY <4>3, LogFacts
        <5>2. Chained(l, FALSE, 1, closing)
          BY <1>0, <2>0, <2>1, <4>1, <5>1, WrittenChained
        <5>3. Chained(l, aimed, n, closing)
          BY <3>2, <5>2 DEF Chained, Pending
        <5>4. QED
          BY <1>c, <3>1, <5>3
      <4>4. QED
        BY <4>2, <4>3
    <3>3. CASE aimed
      <4>1. n \in DOMAIN Log
        BY <3>3, LogFacts DEF Tracked, ConsumerOK
      <4>2. Chained(l, aimed, n, closing)
        BY <1>0, <2>0, <2>1, <4>1, WrittenChained
      <4>3. QED
        BY <1>c, <3>1, <4>2
    <3>4. QED
      BY <3>2, <3>3
  <2>2. CASE ~(k.peer /\ ~k.sealed)
    <3> DEFINE l == Close(k, Internal)
    <3>1. conns' = [conns EXCEPT ![i] = Unregistered(l)]
      BY <1>2, <2>2 DEF Write
    <3>2. l \in ConnOK /\ Chained(l, aimed, n, closing)
      BY <1>0, <2>0, <2>2, CloseType, CloseChained
    <3>3. Chained(Unregistered(l), aimed, n, closing)
      BY <3>2, UnregisteredChained
    <3>4. QED
      BY <1>c, <3>1, <3>3
  <2>3. QED
    BY <2>1, <2>2
<1>3. CASE PingFails(i)
  <2> DEFINE l == Close(k, Internal)
  <2>1. conns' = [conns EXCEPT ![i] = Unregistered(l)] /\ k.phase = "registered" /\ ~k.peer
    BY <1>3 DEF PingFails
  <2>2. l \in ConnOK /\ Chained(l, aimed, n, closing)
    BY <1>0, <2>1, CloseType, CloseChained
  <2>3. Chained(Unregistered(l), aimed, n, closing)
    BY <2>2, UnregisteredChained
  <2>4. QED
    BY <1>c, <2>1, <2>3
<1>4. CASE WriteLoopReturns(i)
  <2>1. conns' = [conns EXCEPT ![i] = Unregistered(k)]
    BY <1>4 DEF WriteLoopReturns
  <2>2. QED
    BY <1>0, <1>c, <2>1, UnregisteredChained
<1>5. CASE ReadFails(i)
  <2>1. conns' = [conns EXCEPT ![i] = Close(k, Normal)] /\ k.phase = "registered" /\ ~k.peer
    BY <1>5 DEF ReadFails
  <2>2. Chained(Close(k, Normal), aimed, n, closing)
    BY <1>0, <2>1, CloseChained
  <2>3. QED
    BY <1>c, <2>1, <2>2
<1>6. QED
  BY <1>1, <1>2, <1>3, <1>4, <1>5 DEF Run

LEMMA CloseSocketTracked ==
  ASSUME ConnsOK, ConsumerOK, Tracked, NEW i \in Conns, CloseSocket(i)
  PROVE  Tracked'
<1> DEFINE k == conns[i]
           l == [k EXCEPT !.sealed = TRUE]
<1>1. conns' = [conns EXCEPT ![i] = l] /\ k.closed
  BY DEF CloseSocket
<1>2. /\ consumer'.targets \subseteq consumer.targets /\ consumer'.msg = consumer.msg
      /\ \A j \in Conns : j # i => /\ j \in consumer'.targets <=> j \in consumer.targets
                                   /\ consumer'.closing = j <=> consumer.closing = j
  BY LogFacts DEF CloseSocket, ConsumerOK
<1>3. k \in ConnOK /\ Chained(k, i \in consumer.targets, consumer.msg, consumer.closing = i)
  BY DEF ConnsOK, Tracked
<1>4. Chained(l, i \in consumer'.targets, consumer'.msg, consumer'.closing = i)
  <2>1. i \in consumer'.targets => i \in consumer.targets
    BY <1>2
  <2> HIDE DEF l
  <2>2. Chained([k EXCEPT !.sealed = TRUE], i \in consumer'.targets, consumer.msg, consumer'.closing = i)
    BY <1>1, <1>3, <2>1, SealedChained
  <2>3. QED
    BY <1>2, <2>2 DEF l
<1> HIDE DEF l, k
<1>5. QED
  BY <1>1, <1>2, <1>4, OneTracked

LEMMA HangTracked ==
  ASSUME ConnsOK, Tracked, NEW i \in Conns \cup {NoConn}, conns' = Hang(i), UNCHANGED consumer
  PROVE  Tracked'
<1>1. CASE i = NoConn
  BY <1>1 DEF Hang, Tracked
<1>2. CASE i # NoConn
  <2> DEFINE k == conns[i]
             l == Retired([k EXCEPT !.peer = FALSE, !.wire = <<>>])
  <2>1. conns' = [conns EXCEPT ![i] = l] /\ i \in Conns
    BY <1>2 DEF Hang
  <2>2. k \in ConnOK /\ Chained(k, i \in consumer.targets, consumer.msg, consumer.closing = i)
    BY <2>1 DEF ConnsOK, Tracked
  <2>3. Chained(l, i \in consumer.targets, consumer.msg, consumer.closing = i)
    BY <2>2, HangChained
  <2> HIDE DEF l, k
  <2>4. QED
    BY <2>1, <2>3, SameConsumerTracked
<1>3. QED
  BY <1>1, <1>2

LEMMA OnMessageTracked ==
  ASSUME ConnsOK, OpenHasConn, Tracked, NEW c \in Clients, OnMessage(c)
  PROVE  Tracked'
<1> DEFINE i == client[c].conn
           k == conns[i]
           l == [k EXCEPT !.wire = Tail(@), !.got = Append(@, Head(k.wire))]
<1>1. i \in Conns /\ k.wire # <<>> /\ conns' = [conns EXCEPT ![i] = l] /\ UNCHANGED consumer
  BY DEF OnMessage, OpenHasConn
<1>2. k \in ConnOK /\ Chained(k, i \in consumer.targets, consumer.msg, consumer.closing = i)
  BY <1>1 DEF ConnsOK, Tracked
<1>3. Chained(l, i \in consumer.targets, consumer.msg, consumer.closing = i)
  BY <1>1, <1>2, ReadChained
<1> HIDE DEF l, k, i
<1>4. QED
  BY <1>1, <1>3, SameConsumerTracked

LEMMA ServeTracked ==
  ASSUME ConnsOK, Tracked, NEW c \in Clients, NEW i \in Conns, Serve(c, i)
  PROVE  Tracked'
<1> DEFINE l == [Unused EXCEPT !.phase = "accepted", !.client = c, !.tenants = owned[c]]
<1>1. conns' = [conns EXCEPT ![i] = l] /\ UNCHANGED consumer
  BY DEF Serve
<1>2. Fresh(l) /\ ~l.sealed /\ l.phase \in {"unused", "accepted"}
  BY DEF Unused, Fresh
<1>3. i \notin consumer.targets
  BY DEF Serve, Free, Tracked, Chained
<1> HIDE DEF l
<1>4. Chained(l, FALSE, consumer.msg, consumer.closing = i)
  BY <1>2, FreshChained
<1>5. Chained(l, i \in consumer.targets, consumer.msg, consumer.closing = i)
  <2>1. (i \in consumer.targets) = FALSE
    BY <1>3
  <2>2. QED
    BY <1>4, <2>1
<1>6. QED
  BY <1>1, <1>5, SameConsumerTracked

LEMMA SendTracked ==
  ASSUME ConnsOK, ConsumerOK, Tracked, NEW i \in Conns, Send(i)
  PROVE  Tracked'
<1> DEFINE k == conns[i]
           n == consumer.msg
<1>0. i \in consumer.targets /\ consumer.closing = NoConn /\ i # NoConn
  BY LogFacts DEF Send
<1>1. k \in ConnOK /\ Chained(k, TRUE, n, FALSE) /\ n \in DOMAIN Log
  <2>1. k \in ConnOK /\ Chained(k, i \in consumer.targets, n, consumer.closing = i)
    BY DEF ConnsOK, Tracked
  <2>2. n \in DOMAIN Log
    BY <1>0, LogFacts DEF Tracked, ConsumerOK
  <2>3. (i \in consumer.targets) = TRUE /\ (consumer.closing = i) = FALSE
    BY <1>0
  <2>4. QED
    BY <2>1, <2>2, <2>3
<1>2. ASSUME NEW l, conns' = [conns EXCEPT ![i] = l], Chained(l, FALSE, n, FALSE),
             consumer' = [consumer EXCEPT !.targets = @ \ {i}]
      PROVE  Tracked'
  <2>1. /\ consumer'.targets = consumer.targets \ {i} /\ consumer'.msg = n /\ consumer'.closing = consumer.closing
    BY <1>2 DEF ConsumerOK
  <2>2. (i \in consumer'.targets) = FALSE /\ (consumer'.closing = i) = FALSE
    BY <1>0, <2>1
  <2>3. Chained(l, i \in consumer'.targets, consumer'.msg, consumer'.closing = i)
    BY <1>2, <2>1, <2>2
  <2>4. /\ consumer'.targets \subseteq consumer.targets
        /\ \A j \in Conns : j # i => /\ j \in consumer'.targets <=> j \in consumer.targets
                                     /\ consumer'.closing = j <=> consumer.closing = j
    BY <2>1
  <2> HIDE DEF k
  <2>5. QED
    BY <1>2, <2>1, <2>3, <2>4, OneTracked
<1>3. CASE k.closed /\ consumer' = [consumer EXCEPT !.targets = @ \ {i}] /\ UNCHANGED conns
  <2>1. conns' = [conns EXCEPT ![i] = k]
    BY <1>3 DEF ConnsOK
  <2>2. Chained(k, FALSE, n, FALSE)
    BY <1>1, <1>3, DroppedChained
  <2>3. QED
    BY <1>2, <1>3, <2>1, <2>2
<1>4. CASE /\ k.phase = "registered"
           /\ consumer' = [consumer EXCEPT !.targets = @ \ {i}]
           /\ conns' = [conns EXCEPT ![i].queue = Append(@, n)]
  <2> DEFINE l == [k EXCEPT !.queue = Append(@, n)]
  <2>1. conns' = [conns EXCEPT ![i] = l]
    BY <1>4
  <2>2. Chained(l, FALSE, n, FALSE)
    BY <1>1, <1>4, QueuedChained
  <2> HIDE DEF l
  <2>3. QED
    BY <1>2, <1>4, <2>1, <2>2
<1>5. CASE Full(i)
  <2> DEFINE l == Close(k, Overflow)
  <2>1. ~k.closed /\ consumer' = [consumer EXCEPT !.closing = i] /\ conns' = [conns EXCEPT ![i] = l]
    BY <1>5 DEF Full
  <2>2. Chained(l, TRUE, n, TRUE)
    BY <1>1, <2>1, FullChained
  <2>3. consumer'.targets = consumer.targets /\ consumer'.msg = n /\ consumer'.closing = i
    BY <2>1 DEF ConsumerOK
  <2>4. (i \in consumer'.targets) = TRUE /\ (consumer'.closing = i) = TRUE
    BY <1>0, <2>3
  <2>5. Chained(l, i \in consumer'.targets, consumer'.msg, consumer'.closing = i)
    BY <2>2, <2>3, <2>4
  <2>6. \A j \in Conns : j # i => /\ j \in consumer'.targets <=> j \in consumer.targets
                                  /\ consumer'.closing = j <=> consumer.closing = j
    BY <1>0, <2>3, LogFacts
  <2> HIDE DEF l, k
  <2>7. QED
    BY <2>1, <2>3, <2>5, <2>6, OneTracked
<1>6. QED
  BY <1>3, <1>4, <1>5 DEF Send

LEMMA ReceiveTracked ==
  ASSUME ConnsOK, ConsumerOK, Tracked, Receive
  PROVE  Tracked'
<1> DEFINE n == consumer.offset + 1
           targets == IF Log[n] = Malformed THEN {} ELSE Targets(Log[n])
<1>1. /\ n \in DOMAIN Log /\ consumer.targets = {} /\ consumer'.msg = n /\ consumer'.targets = targets
      /\ consumer'.closing = consumer.closing
      /\ conns' = [i \in Conns |-> IF i \in targets THEN [conns[i] EXCEPT !.owed = Append(@, n)] ELSE conns[i]]
  BY LogFacts DEF Receive, ConsumerOK, Tracked
<1>2. \A i \in targets : conns[i].phase = "registered"
  BY DEF Targets
<1>3. n # 0
  BY <1>1, LogFacts
<1> HIDE DEF n, targets
<1>4. ASSUME NEW i \in Conns
      PROVE  Chained(conns'[i], i \in consumer'.targets, consumer'.msg, consumer'.closing = i)
  <2> DEFINE k == conns[i]
  <2>1. k \in ConnOK /\ Chained(k, i \in consumer.targets, consumer.msg, consumer.closing = i)
    BY DEF ConnsOK, Tracked
  <2>2. (i \in consumer.targets) = FALSE
    BY <1>1
  <2>3. Chained(k, FALSE, consumer.msg, consumer'.closing = i)
    BY <1>1, <2>1, <2>2
  <2>4. CASE i \in targets
    <3> DEFINE l == [k EXCEPT !.owed = Append(@, n)]
    <3>1. conns'[i] = l /\ k.phase = "registered"
      BY <1>1, <1>2, <2>4
    <3>2. Chained(l, TRUE, n, consumer'.closing = i)
      BY <1>1, <2>1, <2>3, <3>1, OwedChained
    <3>3. (i \in consumer'.targets) = TRUE
      BY <1>1, <2>4
    <3> HIDE DEF l, k
    <3>4. QED
      BY <1>1, <3>1, <3>2, <3>3
  <2>5. CASE i \notin targets
    <3>1. conns'[i] = k /\ (i \in consumer'.targets) = FALSE
      BY <1>1, <2>5
    <3>2. Chained(k, FALSE, n, consumer'.closing = i)
      BY <2>3 DEF Chained, Pending
    <3> HIDE DEF k
    <3>3. QED
      BY <1>1, <3>1, <3>2
  <2>6. QED
    BY <2>4, <2>5
<1>5. QED
  BY <1>1, <1>3, <1>4 DEF Tracked

LEMMA CrashTracked ==
  ASSUME ConnsOK, Tracked, Crash
  PROVE  Tracked'
<1>1. /\ conns' = [i \in Conns |-> IF conns[i].phase = "unused" THEN Unused ELSE Gone]
      /\ consumer'.targets = {}
  BY DEF Crash, Idle
<1>2. Fresh(Unused) /\ ~Unused.sealed /\ Unused.phase = "unused"
  BY DEF Fresh, Unused
<1>3. \A m, closing : Chained(Unused, FALSE, m, closing) /\ Chained(Gone, FALSE, m, closing)
  BY <1>2, FreshChained, GoneChained
<1>4. ASSUME NEW i \in Conns
      PROVE  Chained(conns'[i], i \in consumer'.targets, consumer'.msg, consumer'.closing = i)
  <2>1. (i \in consumer'.targets) = FALSE /\ (conns'[i] = Unused \/ conns'[i] = Gone)
    BY <1>1
  <2>2. QED
    BY <1>3, <2>1
<1>5. QED
  BY <1>1, <1>4 DEF Tracked

LEMMA AckTracked ==
  ASSUME ConnsOK, ConsumerOK, Rests, Tracked, Ack \/ Rejoin \/ Start
  PROVE  Tracked'
<1>1. conns' = conns
  BY DEF Ack, Rejoin, Start
<1>2. CASE Rejoin
  <2>1. consumer'.targets = consumer.targets /\ consumer'.msg = consumer.msg /\ consumer'.closing = consumer.closing
    BY <1>2 DEF Rejoin, ConsumerOK
  <2>2. QED
    BY <1>1, <2>1 DEF Tracked
<1>3. CASE Ack
  <2>1. consumer'.targets = {} /\ consumer.targets = {} /\ consumer'.closing = consumer.closing
    BY <1>3 DEF Ack, ConsumerOK
  <2>2. ASSUME NEW i \in Conns
        PROVE  Chained(conns'[i], i \in consumer'.targets, consumer'.msg, consumer'.closing = i)
    <3>1. Chained(conns[i], i \in consumer.targets, consumer.msg, consumer.closing = i)
      BY DEF Tracked
    <3>2. (i \in consumer'.targets) = FALSE /\ (i \in consumer.targets) = FALSE
      BY <2>1
    <3>3. Chained(conns[i], FALSE, consumer.msg, consumer'.closing = i)
      BY <2>1, <3>1, <3>2
    <3>4. Chained(conns[i], FALSE, consumer'.msg, consumer'.closing = i)
      BY <3>3 DEF Chained, Pending
    <3>5. QED
      BY <1>1, <3>2, <3>4
  <2>3. QED
    BY <2>1, <2>2 DEF Tracked
<1>4. CASE Start
  <2>1. /\ consumer'.targets = {} /\ consumer'.msg = 0 /\ consumer'.closing = NoConn
        /\ consumer.targets = {} /\ consumer.closing = NoConn
    BY <1>4 DEF Start, Idle, Rests
  <2>2. ASSUME NEW i \in Conns
        PROVE  Chained(conns'[i], i \in consumer'.targets, consumer'.msg, consumer'.closing = i)
    <3>1. Chained(conns[i], i \in consumer.targets, consumer.msg, consumer.closing = i)
      BY DEF Tracked
    <3>2. (i \in consumer'.targets) = FALSE /\ (i \in consumer.targets) = FALSE
      BY <2>1
    <3>3. Chained(conns[i], FALSE, consumer.msg, consumer'.closing = i)
      BY <2>1, <3>1, <3>2
    <3>4. Chained(conns[i], FALSE, consumer'.msg, consumer'.closing = i)
      BY <3>3 DEF Chained, Pending
    <3>5. QED
      BY <1>1, <3>2, <3>4
  <2>3. QED
    BY <2>1, <2>2 DEF Tracked
<1>5. QED
  BY <1>2, <1>3, <1>4

LEMMA RestsStep ==
  ASSUME ConsumerOK, Rests, [Next]_realtimeVars
  PROVE  Rests'
<1>1. CASE UNCHANGED consumer
  BY <1>1 DEF Rests
<1>2. ASSUME NEW i \in Conns, CloseSocket(i) \/ Send(i)
      PROVE  Rests'
  BY <1>2 DEF CloseSocket, Send, Full, Rests, ConsumerOK
<1>3. CASE Receive \/ Ack \/ Rejoin
  BY <1>3 DEF Receive, Ack, Rejoin, Rests, ConsumerOK
<1>4. CASE Crash \/ Start
  BY <1>4 DEF Crash, Start, Rests, Idle
<1>5. QED
  BY <1>1, <1>2, <1>3, <1>4, ConsumerSteps

LEMMA TrackedStep ==
  ASSUME TypeOK, OpenHasConn, Rests, Tracked, [Next]_realtimeVars
  PROVE  Tracked'
<1>0. ConnsOK /\ ConsumerOK /\ ClientOK
  BY TypeParts
<1>1. ASSUME UNCHANGED <<consumer, conns>>
      PROVE  Tracked'
  BY <1>1 DEF Tracked
<1>2. CASE UNCHANGED realtimeVars
  BY <1>1, <1>2 DEF realtimeVars
<1>3. CASE Consume \/ Rejoin \/ Crash
  BY <1>0, <1>3, ReceiveTracked, CrashTracked, AckTracked, SendTracked DEF Consume
<1>4. ASSUME NEW i \in Conns, Run(i) \/ ReadFails(i) \/ CloseSocket(i) \/ Lost(i)
      PROVE  Tracked'
  <2>1. CASE Lost(i)
    BY <1>0, <2>1, HangTracked DEF Lost
  <2>2. QED
    BY <1>0, <1>4, <2>1, RunTracked, CloseSocketTracked
<1>5. ASSUME NEW c \in Clients, Hook(c) \/ Unmount(c) \/ Mount(c) \/ SessionChanges(c)
      PROVE  Tracked'
  <2>1. client[c].conn \in Conns \cup {NoConn}
    BY <1>0 DEF ClientOK
  <2>2. CASE OnOpen(c) \/ OnHandshakeFailed(c) \/ Reconnect(c) \/ Mount(c) \/ SessionChanges(c)
    BY <1>1, <2>2 DEF OnOpen, OnHandshakeFailed, Reconnect, Mount, SessionChanges
  <2>3. CASE OnClose(c) \/ Unmount(c)
    <3>1. conns' = Hang(client[c].conn) /\ UNCHANGED consumer
      BY <2>3 DEF OnClose, Unmount
    <3>2. QED
      BY <1>0, <2>1, <3>1, HangTracked
  <2>4. CASE OnMessage(c)
    BY <1>0, <2>4, OnMessageTracked
  <2>5. CASE \E i \in Conns : Serve(c, i)
    BY <1>0, <2>5, ServeTracked
  <2>6. QED
    BY <1>5, <2>2, <2>3, <2>4, <2>5 DEF Hook
<1>6. ASSUME NEW c \in Clients, NEW t \in Tenants, TenantCreated(c, t)
      PROVE  Tracked'
  BY <1>1, <1>6 DEF TenantCreated
<1>7. ASSUME MarkAllRead \/ \E n \in DOMAIN Log : MarkRead(n)
      PROVE  Tracked'
  BY <1>1, <1>7 DEF MarkAllRead, MarkRead
<1>8. QED
  BY <1>2, <1>3, <1>4, <1>5, <1>6, <1>7 DEF Next, Users

\* A connection that is open has skipped no message broadcast since it was
\* registered, and whatever becomes of it, what its client received is the beginning
\* of them: although its buffer may be full, its socket gone and the broadcast in
\* the midst of closing it (Register, Broadcast, Send, writeLoop, closeWithReason).
THEOREM NoMessageIsSkipped == Spec => []NothingSkipped
<1>1. Init => Rests /\ Tracked
  <2>1. ASSUME Init
        PROVE  Rests /\ Tracked
    <3>1. consumer = Idle /\ \A i \in Conns : conns[i] = Unused
      BY <2>1 DEF Init
    <3>2. Fresh(Unused) /\ ~Unused.sealed /\ Unused.phase = "unused"
      BY DEF Fresh, Unused
    <3>3. \A m, closing : Chained(Unused, FALSE, m, closing)
      BY <3>2, FreshChained
    <3>4. \A i \in Conns : (i \in consumer.targets) = FALSE
      BY <3>1 DEF Idle
    <3>5. consumer.up /\ consumer.targets = {}
      BY <3>1 DEF Idle
    <3>6. \A i \in Conns : Chained(conns[i], i \in consumer.targets, consumer.msg, consumer.closing = i)
      BY <3>1, <3>3, <3>4
    <3>7. QED
      BY <3>5, <3>6 DEF Rests, Tracked
  <2>2. QED
    BY <2>1
<1>2. TypeOK /\ AlsoTrue /\ Rests /\ Tracked /\ [Next]_realtimeVars => (Rests /\ Tracked)'
  BY RestsStep, TrackedStep, TypeParts DEF AlsoTrue
<1>3. Tracked => NothingSkipped
  <2>1. ASSUME Tracked, NEW i \in Conns
        PROVE  LET k == conns[i]
                   sent == k.got \o k.wire
                   pending == IF i \in consumer.targets THEN <<consumer.msg>> ELSE <<>>
               IN  /\ k.phase = "registered" /\ ~k.closed /\ k.peer => sent \o k.queue \o pending = k.owed
                   /\ Len(sent) <= Len(k.owed) /\ sent = SubSeq(k.owed, 1, Len(sent))
    <3>1. Chained(conns[i], i \in consumer.targets, consumer.msg, consumer.closing = i)
      BY <2>1 DEF Tracked
    <3>2. QED
      BY <3>1 DEF Chained, Sent, Pending, Begins
  <2>2. QED
    BY <2>1 DEF NothingSkipped
<1>4. QED
  BY <1>1, <1>2, <1>3, Invariant, PTL DEF Spec
=============================================================================
