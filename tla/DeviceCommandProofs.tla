------------------------ MODULE DeviceCommandProofs ------------------------
(***************************************************************************)
(* Theorems about DeviceCommand: what reaches the device, what is stored   *)
(* and what the history shows, for every number of workers, commands,      *)
(* retries, failures, crashes and rejoins.                                 *)
(***************************************************************************)
EXTENDS DeviceCommand, TLAPS, WellFoundedInduction

Steps == {"save", "send", "store"}

----------------------------------------------------------------------------
(* What the steps of the pool preserve, whatever the handler does meanwhile. *)

\* A log may grow under a well-formed pool.
LEMMA PoolTypeGrows ==
  ASSUME NEW last \in Nat, NEW longer \in Nat, last <= longer, NEW steps,
         PoolTypeOK(last, steps)
  PROVE  PoolTypeOK(longer, steps)
<1>1. 1 .. last \subseteq 1 .. longer
  OBVIOUS
<1>2. stale \in Seq(1 .. longer)
  BY <1>1 DEF PoolTypeOK
<1>3. pc \in [Workers -> steps \cup {"idle", "commit"}]
  BY DEF PoolTypeOK
<1>4. ev \in [Workers -> (1 .. longer) \cup {NoEvent}]
  BY <1>1 DEF PoolTypeOK
<1>5. \A w \in Workers : pc[w] # "idle" => ev[w] \in 1 .. longer
  BY <1>1 DEF PoolTypeOK
<1>6. next \in 1 .. longer + 1 /\ committed \in 1 .. longer + 1
  BY DEF PoolTypeOK
<1>7. acked \subseteq 1 .. longer /\ lost \subseteq 1 .. longer
  BY <1>1 DEF PoolTypeOK
<1>8. tries \in [Workers -> 0 .. MaxRetries] /\ restarts \in 0 .. MaxRestarts
      /\ rejoins \in 0 .. MaxRejoins
  BY DEF PoolTypeOK
<1>9. QED
  BY <1>2, <1>3, <1>4, <1>5, <1>6, <1>7, <1>8 DEF PoolTypeOK

\* An empty log, or one nobody has read of.
LEMMA PoolInitType ==
  ASSUME NEW last \in Nat, NEW steps, PoolInit
  PROVE  PoolTypeOK(last, steps)
BY PoolAssumption DEF PoolInit, PoolTypeOK, NoEvent

\* The next message comes from the log.
LEMMA StartType ==
  ASSUME NEW last \in Nat, NEW steps, NEW step \in steps, NEW w \in Workers,
         PoolTypeOK(last, steps), NextMessage <= last, Start(w, step)
  PROVE  /\ PoolTypeOK(last, steps)'
         /\ NextMessage \in 1 .. last
<1>1. NextMessage \in 1 .. last
  BY DEF PoolTypeOK, NextMessage
<1>2. /\ ev' = [ev EXCEPT ![w] = NextMessage]
      /\ pc' = [pc EXCEPT ![w] = step]
  BY DEF Start
<1>3. ev' \in [Workers -> (1 .. last) \cup {NoEvent}]
  BY <1>1, <1>2 DEF PoolTypeOK
<1>4. pc' \in [Workers -> steps \cup {"idle", "commit"}]
  BY <1>2 DEF PoolTypeOK
<1>5. \A v \in Workers : pc'[v] # "idle" => ev'[v] \in 1 .. last
  BY <1>1, <1>2 DEF PoolTypeOK
<1>6. next' \in 1 .. last + 1 /\ stale' \in Seq(1 .. last)
  <2>1. CASE stale # <<>>
    BY <2>1, SMTT(20) DEF Start, PoolTypeOK
  <2>2. CASE stale = <<>>
    BY <1>1, <2>2 DEF Start, PoolTypeOK, NextMessage
  <2>3. QED
    BY <2>1, <2>2
<1>7. QED
  BY <1>1, <1>3, <1>4, <1>5, <1>6
     DEF Start, PoolTypeOK, historyVars, boundVars

LEMMA GoToType ==
  ASSUME NEW last \in Nat, NEW steps, NEW step \in steps, NEW w \in Workers,
         PoolTypeOK(last, steps), pc[w] # "idle", GoTo(w, step)
  PROVE  PoolTypeOK(last, steps)'
BY DEF GoTo, PoolTypeOK, readerVars, historyVars, boundVars

LEMMA RetryType ==
  ASSUME NEW last \in Nat, NEW steps, NEW step \in steps, NEW w \in Workers,
         PoolTypeOK(last, steps), pc[w] # "idle", Retry(w, step)
  PROVE  PoolTypeOK(last, steps)'
<1> USE DEF readerVars, historyVars, boundVars
<1>0. ev[w] \in 1 .. last /\ tries[w] \in 0 .. MaxRetries
  BY DEF PoolTypeOK
<1>1. CASE /\ tries[w] < MaxRetries
           /\ pc'    = [pc EXCEPT ![w] = step]
           /\ tries' = [tries EXCEPT ![w] = tries[w] + 1]
           /\ UNCHANGED <<ev, readerVars, historyVars, boundVars>>
  <2>1. tries[w] + 1 \in 0 .. MaxRetries
    BY <1>0, <1>1, PoolAssumption
  <2>2. tries' \in [Workers -> 0 .. MaxRetries]
    BY <1>1, <2>1 DEF PoolTypeOK
  <2>3. QED
    BY <1>0, <1>1, <2>2 DEF PoolTypeOK
<1>2. CASE /\ Release(w)
           /\ lost' = lost \cup {ev[w]}
           /\ UNCHANGED <<acked, readerVars, boundVars>>
  <2>1. tries' \in [Workers -> 0 .. MaxRetries]
    BY <1>2, PoolAssumption DEF PoolTypeOK, Release
  <2>2. lost' \subseteq 1 .. last
    BY <1>0, <1>2 DEF PoolTypeOK
  <2>3. QED
    BY <1>2, <2>1, <2>2 DEF PoolTypeOK, Release, NoEvent
<1>3. QED
  BY <1>1, <1>2 DEF Retry

LEMMA AcknowledgeType ==
  ASSUME NEW last \in Nat, NEW steps, NEW w \in Workers,
         PoolTypeOK(last, steps), pc[w] # "idle", Acknowledge(w)
  PROVE  PoolTypeOK(last, steps)'
BY DEF Acknowledge, PoolTypeOK, readerVars, boundVars

LEMMA CommitType ==
  ASSUME NEW last \in Nat, NEW steps, NEW w \in Workers,
         PoolTypeOK(last, steps), Commit(w)
  PROVE  PoolTypeOK(last, steps)'
<1>1. ev[w] \in 1 .. last
  BY DEF PoolTypeOK, Commit
<1>2. committed' \in 1 .. last + 1
  BY <1>1 DEF PoolTypeOK, Commit
<1>3. tries' \in [Workers -> 0 .. MaxRetries]
  BY PoolAssumption DEF PoolTypeOK, Commit, Release
<1>4. QED
  BY <1>2, <1>3 DEF PoolTypeOK, Commit, Release, NoEvent, historyVars, boundVars

LEMMA RestartType ==
  ASSUME NEW last \in Nat, NEW steps, PoolTypeOK(last, steps), Restart
  PROVE  PoolTypeOK(last, steps)'
<1>1. lost' \subseteq 1 .. last
  BY DEF PoolTypeOK, Restart
<1>2. restarts' \in 0 .. MaxRestarts /\ tries' \in [Workers -> 0 .. MaxRetries]
  BY PoolAssumption DEF PoolTypeOK, Restart
<1>3. QED
  BY <1>1, <1>2 DEF PoolTypeOK, Restart, NoEvent

LEMMA RejoinType ==
  ASSUME NEW last \in Nat, NEW steps, PoolTypeOK(last, steps), Rejoin(last)
  PROVE  PoolTypeOK(last, steps)'
<1>1. next' \in 1 .. last + 1 /\ stale' \in Seq(1 .. last)
  <2>1. ASSUME NEW k \in 0 .. Prefetch - Len(stale), next + k - 1 <= last,
               stale' = stale \o [i \in 1 .. k |-> next + i - 1], next' = committed
        PROVE  next' \in 1 .. last + 1 /\ stale' \in Seq(1 .. last)
    <3>1. next \in 1 .. last + 1 /\ committed \in 1 .. last + 1 /\ stale \in Seq(1 .. last)
      BY DEF PoolTypeOK
    <3>2. k \in Nat
      BY <3>1, PoolAssumption
    <3>3. \A i \in 1 .. k : next + i - 1 \in 1 .. last
      BY <2>1, <3>1, <3>2
    <3>4. [i \in 1 .. k |-> next + i - 1] \in Seq(1 .. last)
      BY <3>2, <3>3
    <3>5. QED
      BY <2>1, <3>1, <3>4
  <2>2. QED
    BY <2>1 DEF Rejoin, PoolTypeOK
<1>2. rejoins' \in 0 .. MaxRejoins
  BY PoolAssumption DEF PoolTypeOK, Rejoin
<1>3. QED
  BY <1>1, <1>2 DEF PoolTypeOK, Rejoin, workerVars, historyVars

----------------------------------------------------------------------------
(* The commands. *)

Told == {"idle", "checked", "refused", "accepted", "failed"}

LEMMA RequestFields ==
  ASSUME NEW r \in Requests
  PROVE  /\ r.kind = "request" /\ r.command \in Commands /\ r.at \in 0 .. MaxTime
         /\ r = Request(r.command, r.at)
BY DEF Requests, Request

LEMMA ReplyFields ==
  ASSUME NEW a \in Replies
  PROVE  /\ a.kind = "reply" /\ a.command \in Commands \cup {NoCommand}
         /\ a.at \in 0 .. MaxTime /\ a.at \in Nat
         /\ a.id \in Ids /\ a.id \in Nat /\ a.success \in BOOLEAN
BY CommandAssumption DEF Replies, Reply, Ids

\* A worker past its idle step handles a message of the log.
LEMMA HeldMessage ==
  ASSUME TypeOK, NEW w \in Workers, pc[w] # "idle"
  PROVE  ev[w] \in DOMAIN log /\ Message(w) \in Requests \cup Replies
BY DEF TypeOK, PoolTypeOK, Message

\* A step leaves the log alone or appends a message to it.
LEMMA LogGrows ==
  ASSUME TypeOK, [Next]_vars
  PROVE  \/ log' = log
         \/ \E c \in Commands :
              /\ user[c] = "checked" /\ user'[c] \in {"accepted", "failed"}
              /\ log' = Append(log, Request(c, asked[c]))
              /\ UNCHANGED <<poolVars, now, asked, rows, deviceVars>>
         \/ \E c \in onTheWay, success \in BOOLEAN, id \in Ids :
              \E echo \in {c, NoCommand} :
                /\ log' = Append(log, Reply(echo, now, id, success))
                /\ success \in outcomes'[c]
                /\ UNCHANGED <<poolVars, now, user, asked, rows, sends>>
<1>1. CASE \E w \in Workers : Worker(w)
  BY <1>1 DEF Worker, Begin, Finish, Handle, SaveRequest, SaveFails, Send, SendFails,
              StoreReply, StoreFails, RejectReply
<1>2. CASE Disturb \/ Tick \/ UNCHANGED vars
  BY <1>2 DEF Disturb, Tick, vars
<1>3. ASSUME NEW c \in Commands, CheckTarget(c) \/ Expire(c)
      PROVE  log' = log
  BY <1>3 DEF CheckTarget, Expire
<1>4. ASSUME NEW c \in Commands, Publish(c) \/ PublishFails(c)
      PROVE  \/ log' = log
             \/ /\ user[c] = "checked" /\ user'[c] \in {"accepted", "failed"}
                /\ log' = Append(log, Request(c, asked[c]))
                /\ UNCHANGED <<poolVars, now, asked, rows, deviceVars>>
  BY <1>4 DEF Publish, PublishFails, Tell, TypeOK
<1>5. ASSUME NEW c \in Commands, Execute(c)
      PROVE  \/ log' = log
             \/ \E success \in BOOLEAN, id \in Ids, echo \in {c, NoCommand} :
                  /\ c \in onTheWay
                  /\ log' = Append(log, Reply(echo, now, id, success))
                  /\ success \in outcomes'[c]
                  /\ UNCHANGED <<poolVars, now, user, asked, rows, sends>>
  <2>1. PICK success \in BOOLEAN :
          /\ outcomes' = [outcomes EXCEPT ![c] = @ \cup {success}]
          /\ \/ \E id \in Ids \ UsedIds,
                   echo \in {c} \cup (IF c \in SetCommands THEN {NoCommand} ELSE {}) :
                  log' = Append(log, Reply(echo, now, id, success))
             \/ UNCHANGED log
    BY <1>5 DEF Execute
  <2>2. success \in outcomes'[c]
    BY <2>1 DEF TypeOK
  <2>3. c \in onTheWay /\ UNCHANGED <<poolVars, now, user, asked, rows, sends>>
    BY <1>5 DEF Execute
  <2>4. QED
    BY <2>1, <2>2, <2>3
<1>6. QED
  BY <1>1, <1>2, <1>3, <1>4, <1>5 DEF Next

-----------------------------------------------------------------------------
(* The first of a set of replies exists: there are finitely many times and  *)
(* event ids.                                                               *)

LEMMA Smallest ==
  ASSUME NEW T \in SUBSET Nat, T # {}
  PROVE  \E x \in T : \A y \in T : x <= y
<1> DEFINE Less == OpToRel(<, Nat)
<1>1. IsWellFoundedOn(Less, Nat)
  BY NatLessThanWellFounded
<1>2. PICK x \in T : \A y \in T : <<y, x>> \notin Less
  BY <1>1, WFMin
<1>3. \A y \in T : ~(y < x)
  BY <1>2 DEF OpToRel
<1>4. QED
  BY <1>3

LEMMA FirstOfExists ==
  ASSUME NEW answers \in SUBSET Replies, answers # {}
  PROVE  /\ FirstOf(answers) \in answers
         /\ \A b \in answers : Precedes(FirstOf(answers), b)
<1> DEFINE times == {MaxTime - a.at : a \in answers}
<1>1. \A a \in answers : /\ a.at \in 0 .. MaxTime /\ a.id \in 1 .. MaxReplies
  BY ReplyFields DEF Ids
<1>2. times \in SUBSET Nat /\ times # {}
  BY <1>1, CommandAssumption
<1>3. PICK t \in times : \A k \in times : t <= k
  BY <1>2, Smallest
<1>4. PICK late \in answers : t = MaxTime - late.at
  OBVIOUS
<1>5. \A b \in answers : b.at <= late.at
  <2> SUFFICES ASSUME NEW b \in answers
               PROVE  b.at <= late.at
    OBVIOUS
  <2>1. MaxTime - late.at <= MaxTime - b.at
    BY <1>3, <1>4
  <2>2. QED
    BY <2>1, <1>1, CommandAssumption
<1> DEFINE last == {a \in answers : a.at = late.at}
           ids  == {MaxReplies - a.id : a \in last}
<1>6. ids \in SUBSET Nat /\ ids # {}
  BY <1>1, CommandAssumption
<1>7. PICK i \in ids : \A k \in ids : i <= k
  BY <1>6, Smallest
<1>8. PICK a \in last : i = MaxReplies - a.id
  OBVIOUS
<1>9. \A b \in answers : Precedes(a, b)
  <2> SUFFICES ASSUME NEW b \in answers
               PROVE  a.at > b.at \/ (a.at = b.at /\ a.id >= b.id)
    BY DEF Precedes
  <2>1. a.at = late.at /\ a \in answers
    OBVIOUS
  <2>2. CASE b.at = late.at
    <3>1. MaxReplies - a.id <= MaxReplies - b.id
      BY <1>7, <1>8, <2>2
    <3>2. QED
      BY <1>1, <2>1, <2>2, <3>1, CommandAssumption
  <2>3. CASE b.at # late.at
    BY <1>1, <1>5, <2>1, <2>3
  <2>4. QED
    BY <2>2, <2>3
<1>10. QED
  BY <1>9 DEF FirstOf

-----------------------------------------------------------------------------
(* Workers and the messages they handle.                                    *)

\* What is in the log stays there.
LEMMA LogKept ==
  ASSUME TypeOK, [Next]_vars, NEW e \in DOMAIN log
  PROVE  e \in DOMAIN log' /\ log'[e] = log[e]
<1>1. log \in Seq(Requests \cup Replies)
  BY DEF TypeOK
<1>2. log' = log \/ \E m : log' = Append(log, m)
  BY LogGrows
<1>3. QED
  BY <1>1, <1>2

\* A worker at one of the steps was at one before, with the same message, or
\* has just been handed its message.
LEMMA Handling ==
  ASSUME TypeOK, [Next]_vars, NEW w \in Workers, pc'[w] \in Steps
  PROVE  \/ /\ ev'[w] = ev[w] /\ pc[w] \in Steps
            /\ pc'[w] = "store" <=> pc[w] = "store"
            /\ pc'[w] = "send" => \/ pc[w] = "send"
                                  \/ requests' = requests \cup {Message(w)}
         \/ ev'[w] \in DOMAIN log /\ pc'[w] = FirstStep(ev'[w])
<1>0. /\ pc \in [Workers -> Steps \cup {"idle", "commit"}]
      /\ ev \in [Workers -> (1 .. Len(log)) \cup {NoEvent}]
      /\ log \in Seq(Requests \cup Replies)
  BY DEF TypeOK, PoolTypeOK, Steps
<1> USE DEF Steps
<1>1. ASSUME NEW v \in Workers, Begin(v)
      PROVE  \/ ev'[w] = ev[w] /\ pc'[w] = pc[w]
             \/ ev'[w] \in DOMAIN log /\ pc'[w] = FirstStep(ev'[w])
  <2>1. /\ ev' = [ev EXCEPT ![v] = NextMessage]
        /\ pc' = [pc EXCEPT ![v] = FirstStep(NextMessage)]
    BY <1>1 DEF Begin, Start
  <2>2. CASE v = w
    <3>1. NextMessage \in 1 .. Len(log)
      <4>1. next \in 1 .. Len(log) + 1 /\ stale \in Seq(1 .. Len(log)) /\ NextMessage <= Len(log)
        BY <1>1 DEF Begin, TypeOK, PoolTypeOK
      <4>2. QED
        BY <1>0, <4>1 DEF NextMessage
    <3>2. QED
      BY <1>0, <2>1, <2>2, <3>1
  <2>3. CASE v # w
    BY <1>0, <2>1, <2>3
  <2>4. QED
    BY <2>2, <2>3
<1>2. ASSUME NEW v \in Workers, NEW step \in {"save", "store"}, Retry(v, step),
             pc[v] \in Steps, pc[v] = "store" <=> step = "store"
      PROVE  /\ ev'[w] = ev[w] /\ pc[w] \in Steps
             /\ pc'[w] = "store" <=> pc[w] = "store"
             /\ pc'[w] = "send" => pc[w] = "send"
  <2>1. CASE pc' = [pc EXCEPT ![v] = step] /\ ev' = ev
    BY <1>0, <1>2, <2>1
  <2>2. CASE pc' = [pc EXCEPT ![v] = "idle"] /\ ev' = [ev EXCEPT ![v] = NoEvent]
    BY <1>0, <2>2
  <2>3. QED
    BY <1>2, <2>1, <2>2 DEF Retry, Release
<1>3. CASE \E v \in Workers : SaveFails(v) \/ SendFails(v) \/ StoreFails(v)
  BY <1>2, <1>3 DEF SaveFails, SendFails, StoreFails
<1>4. CASE \E v \in Workers : SaveRequest(v)
  <2> PICK v \in Workers : SaveRequest(v)
    BY <1>4
  <2>1. /\ pc' = [pc EXCEPT ![v] = "send"] /\ ev' = ev /\ pc[v] = "save"
        /\ requests' = requests \cup {Message(v)}
    BY DEF SaveRequest, GoTo
  <2>2. QED
    BY <1>0, <2>1
<1>5. CASE \E v \in Workers : Send(v) \/ StoreReply(v) \/ RejectReply(v)
  <2> PICK v \in Workers : Acknowledge(v)
    BY <1>5 DEF Send, StoreReply, RejectReply
  <2>1. pc' = [pc EXCEPT ![v] = "commit"] /\ ev' = ev
    BY DEF Acknowledge
  <2>2. QED
    BY <1>0, <2>1
<1>6. CASE \E v \in Workers : Finish(v)
  <2> PICK v \in Workers : Finish(v)
    BY <1>6
  <2>1. pc' = [pc EXCEPT ![v] = "idle"] /\ ev' = [ev EXCEPT ![v] = NoEvent]
    BY DEF Finish, Commit, Release
  <2>2. QED
    BY <1>0, <2>1
<1>7. CASE Restart
  BY <1>7 DEF Restart
<1>8. CASE Rejoin(Len(log)) \/ Tick \/ UNCHANGED vars
  BY <1>0, <1>8 DEF Rejoin, Tick, vars, poolVars, workerVars
<1>9. CASE \E c \in Commands : CheckTarget(c) \/ Publish(c) \/ PublishFails(c)
                               \/ Execute(c) \/ Expire(c)
  BY <1>0, <1>9 DEF CheckTarget, Publish, PublishFails, Execute, Expire, poolVars, workerVars
<1>10. QED
  BY <1>0, <1>1, <1>3, <1>4, <1>5, <1>6, <1>7, <1>8, <1>9 DEF Next, Worker, Handle, Disturb

\* Requests are saved and sent, replies are stored.
Dispatched ==
  \A w \in Workers :
    /\ pc[w] \in {"save", "send"} => Message(w).kind = "request"
    /\ pc[w] = "store" => Message(w).kind = "reply"

LEMMA DispatchedStep ==
  ASSUME TypeOK, Dispatched, [Next]_vars
  PROVE  Dispatched'
<1> SUFFICES ASSUME NEW w \in Workers, pc'[w] \in Steps
             PROVE  /\ pc'[w] \in {"save", "send"} => log'[ev'[w]].kind = "request"
                    /\ pc'[w] = "store" => log'[ev'[w]].kind = "reply"
  BY DEF Dispatched, Message, Steps
<1>1. CASE /\ ev'[w] = ev[w] /\ pc[w] \in Steps
           /\ pc'[w] = "store" <=> pc[w] = "store"
  <2>1. log'[ev'[w]] = Message(w)
    BY <1>1, HeldMessage, LogKept DEF Steps, Message
  <2>2. QED
    BY <1>1, <2>1 DEF Dispatched, Steps
<1>2. CASE ev'[w] \in DOMAIN log /\ pc'[w] = FirstStep(ev'[w])
  <2>1. log'[ev'[w]] = log[ev'[w]] /\ log[ev'[w]] \in Requests \cup Replies
    BY <1>2, LogKept DEF TypeOK
  <2>2. log[ev'[w]].kind \in {"request", "reply"}
    BY <2>1, RequestFields, ReplyFields
  <2>3. QED
    BY <1>2, <2>1, <2>2 DEF FirstStep
<1>3. QED
  BY <1>1, <1>2, Handling

\* What a worker saves or sends is a request, what it stores is a reply.
LEMMA HandledKind ==
  ASSUME TypeOK, Dispatched, NEW w \in Workers
  PROVE  /\ pc[w] \in {"save", "send"} => Message(w) \in Requests
         /\ pc[w] = "store" => Message(w) \in Replies
BY HeldMessage, RequestFields, ReplyFields DEF Dispatched

-----------------------------------------------------------------------------
\* Every reachable state is well formed; that what is stored has the right kind
\* needs that messages are dispatched by their type.
THEOREM WellDispatched == Spec => [](TypeOK /\ Dispatched)
<1> USE CommandAssumption
<1>1. Init => TypeOK /\ Dispatched
  <2> SUFFICES ASSUME Init
               PROVE  TypeOK /\ Dispatched
    OBVIOUS
  <2>1. PoolTypeOK(0, Steps)
    BY PoolInitType DEF Init
  <2>2. Len(log) = 0 /\ log \in Seq(Requests \cup Replies)
    BY DEF Init
  <2>3. PoolTypeOK(Len(log), Steps)
    BY <2>1, <2>2
  <2>4. QED
    BY <2>2, <2>3 DEF Init, PoolInit, TypeOK, Steps, Dispatched
<1>2. TypeOK /\ Dispatched /\ [Next]_vars => TypeOK' /\ Dispatched'
  <2> SUFFICES ASSUME TypeOK, Dispatched, [Next]_vars
               PROVE  TypeOK'
    BY DispatchedStep
  <2> DEFINE DataOK == /\ now \in 0 .. MaxTime
                       /\ user \in [Commands -> Told]
                       /\ asked \in [Commands -> 0 .. MaxTime]
                       /\ requests \subseteq Requests
                       /\ replies \subseteq Replies
                       /\ onTheWay \subseteq Commands
                       /\ sends \in [Commands -> Nat]
                       /\ outcomes \in [Commands -> SUBSET BOOLEAN]
             LogOK  == log \in Seq(Requests \cup Replies)
  <2>0. PoolTypeOK(Len(log), Steps) /\ DataOK /\ LogOK /\ Len(log) \in Nat
    BY DEF TypeOK, Steps, Told
  <2> PICK k \in Nat : k = Len(log)
    BY <2>0
  <2>1. PoolTypeOK(k, Steps)
    BY <2>0
  <2>2. ASSUME PoolTypeOK(k, Steps)', DataOK', log' = log
        PROVE  TypeOK'
    <3>1. Len(log)' = k
      BY <2>2
    <3>2. PoolTypeOK(Len(log), Steps)'
      BY <2>2, <3>1
    <3>3. QED
      BY <2>0, <2>2, <3>2 DEF TypeOK, Steps, Told
  <2>3. ASSUME UNCHANGED poolVars, DataOK',
               NEW m \in Requests \cup Replies, log' = Append(log, m)
        PROVE  TypeOK'
    <3>1. Len(log') = k + 1 /\ LogOK'
      BY <2>0, <2>3
    <3>2. PoolTypeOK(k + 1, Steps)
      BY <2>1, PoolTypeGrows
    <3>3. PoolTypeOK(k + 1, Steps)'
      BY <2>3, <3>2 DEF PoolTypeOK, poolVars, readerVars, workerVars, historyVars, boundVars
    <3>4. PoolTypeOK(Len(log), Steps)'
      BY <3>1, <3>3
    <3>5. QED
      BY <2>3, <3>1, <3>4 DEF TypeOK, Steps, Told
  <2>4. ASSUME UNCHANGED poolVars
        PROVE  PoolTypeOK(k, Steps)'
    BY <2>1, <2>4 DEF PoolTypeOK, poolVars, readerVars, workerVars, historyVars, boundVars
  <2>5. ASSUME NEW c \in Commands, CheckTarget(c)
        PROVE  TypeOK'
    <3>0. /\ Tell(c, "refused") \/ Tell(c, "checked")
          /\ asked' = asked \/ asked' = [asked EXCEPT ![c] = now]
          /\ now' = now /\ requests' = requests /\ replies' = replies
          /\ onTheWay' = onTheWay /\ sends' = sends /\ outcomes' = outcomes
      BY <2>5 DEF CheckTarget, rows, deviceVars
    <3>1. DataOK'
      <4>1. user' \in [Commands -> Told]
        BY <2>0, <3>0 DEF Tell, Told
      <4>2. asked' \in [Commands -> 0 .. MaxTime]
        BY <2>0, <3>0
      <4>3. QED
        BY <2>0, <3>0, <4>1, <4>2
    <3>2. QED
      BY <2>2, <2>4, <2>5, <3>1 DEF CheckTarget
  <2>6. ASSUME NEW c \in Commands, Publish(c) \/ PublishFails(c)
        PROVE  TypeOK'
    <3>1. DataOK'
      BY <2>0, <2>6 DEF Publish, PublishFails, Tell, Told, rows, deviceVars
    <3>2. Request(c, asked[c]) \in Requests
      BY <2>0 DEF Requests
    <3>3. UNCHANGED poolVars /\ (log' = log \/ log' = Append(log, Request(c, asked[c])))
      BY <2>6 DEF Publish, PublishFails
    <3>4. QED
      BY <2>2, <2>3, <2>4, <3>1, <3>2, <3>3
  <2>7. ASSUME NEW c \in Commands, Execute(c)
        PROVE  TypeOK'
    <3>1. UNCHANGED <<poolVars, now, user, asked, rows, sends>> /\ onTheWay' \subseteq Commands
      BY <2>0, <2>7 DEF Execute
    <3>2. PICK success \in BOOLEAN :
            /\ outcomes' = [outcomes EXCEPT ![c] = @ \cup {success}]
            /\ \/ \E id \in Ids \ UsedIds,
                     echo \in {c} \cup (IF c \in SetCommands THEN {NoCommand} ELSE {}) :
                    log' = Append(log, Reply(echo, now, id, success))
               \/ UNCHANGED log
      BY <2>7 DEF Execute
    <3>3. DataOK'
      BY <2>0, <3>1, <3>2 DEF rows
    <3>4. CASE UNCHANGED log
      BY <2>2, <2>4, <3>1, <3>3, <3>4
    <3>5. ASSUME NEW id \in Ids, NEW echo \in {c, NoCommand},
                 log' = Append(log, Reply(echo, now, id, success))
          PROVE  TypeOK'
      <4>1. Reply(echo, now, id, success) \in Replies
        BY <2>0 DEF Replies
      <4>2. QED
        BY <2>3, <3>1, <3>3, <3>5, <4>1
    <3>6. QED
      BY <3>2, <3>4, <3>5
  <2>8. ASSUME NEW c \in Commands, Expire(c)
        PROVE  TypeOK'
    <3>1. DataOK'
      BY <2>0, <2>8 DEF Expire, rows
    <3>2. QED
      BY <2>2, <2>4, <2>8, <3>1 DEF Expire
  <2>9. CASE Tick
    <3>1. DataOK'
      BY <2>0, <2>9 DEF Tick, rows, deviceVars
    <3>2. QED
      BY <2>2, <2>4, <2>9, <3>1 DEF Tick
  <2>10. CASE Disturb
    <3>1. Restart \/ Rejoin(k)
      BY <2>10 DEF Disturb
    <3>2. PoolTypeOK(k, Steps)'
      BY <2>1, <3>1, RestartType, RejoinType
    <3>3. QED
      BY <2>0, <2>2, <2>10, <3>2 DEF Disturb, rows, deviceVars
  <2>11. CASE UNCHANGED vars
    BY <2>0, <2>2, <2>4, <2>11 DEF vars, rows, deviceVars
  <2>12. ASSUME NEW w \in Workers, Begin(w)
         PROVE  TypeOK'
    <3>1. NextMessage <= k /\ Start(w, FirstStep(NextMessage))
      BY <2>12 DEF Begin
    <3>2. Start(w, "save") \/ Start(w, "store")
      BY <3>1 DEF FirstStep
    <3>3. PoolTypeOK(k, Steps)'
      BY <2>1, <3>1, <3>2, StartType DEF Steps
    <3>4. QED
      BY <2>0, <2>2, <2>12, <3>3 DEF Begin, rows, deviceVars
  <2>13. ASSUME NEW w \in Workers, Finish(w)
         PROVE  TypeOK'
    <3>1. PoolTypeOK(k, Steps)'
      BY <2>1, <2>13, CommitType DEF Finish
    <3>2. QED
      BY <2>0, <2>2, <2>13, <3>1 DEF Finish, rows, deviceVars
  <2>14. ASSUME NEW w \in Workers, SaveRequest(w) \/ SaveFails(w)
         PROVE  TypeOK'
    <3>0. pc[w] = "save"
      BY <2>14 DEF SaveRequest, SaveFails
    <3>1. Message(w) \in Requests
      BY <3>0, HandledKind
    <3>2. PoolTypeOK(k, Steps)'
      BY <2>1, <2>14, <3>0, GoToType, RetryType DEF SaveRequest, SaveFails, Steps
    <3>3. DataOK'
      BY <2>0, <2>14, <3>1 DEF SaveRequest, SaveFails, deviceVars
    <3>4. QED
      BY <2>2, <2>14, <3>2, <3>3 DEF SaveRequest, SaveFails
  <2>15. ASSUME NEW w \in Workers, Send(w) \/ SendFails(w)
         PROVE  TypeOK'
    <3>0. pc[w] = "send"
      BY <2>15 DEF Send, SendFails
    <3>1. Message(w).command \in Commands
      BY <3>0, HandledKind, RequestFields
    <3>2. PoolTypeOK(k, Steps)'
      BY <2>1, <2>15, <3>0, AcknowledgeType, RetryType DEF Send, SendFails, Steps
    <3>3. CASE Enqueue(Message(w).command)
      <4>1. onTheWay' \subseteq Commands /\ sends' \in [Commands -> Nat] /\ outcomes' = outcomes
        BY <2>0, <3>1, <3>3 DEF Enqueue
      <4>2. QED
        BY <2>0, <2>2, <2>15, <3>2, <4>1 DEF Send, SendFails, rows
    <3>4. CASE UNCHANGED deviceVars
      BY <2>0, <2>2, <2>15, <3>2, <3>4 DEF Send, SendFails, deviceVars, rows
    <3>5. QED
      BY <2>15, <3>3, <3>4 DEF Send, SendFails
  <2>16. ASSUME NEW w \in Workers, StoreReply(w) \/ StoreFails(w) \/ RejectReply(w)
         PROVE  TypeOK'
    <3>0. pc[w] = "store"
      BY <2>16 DEF StoreReply, StoreFails, RejectReply
    <3>1. Message(w) \in Replies
      BY <3>0, HandledKind
    <3>2. PoolTypeOK(k, Steps)'
      BY <2>1, <2>16, <3>0, AcknowledgeType, RetryType DEF StoreReply, StoreFails, RejectReply, Steps
    <3>3. DataOK'
      BY <2>0, <2>16, <3>1 DEF StoreReply, StoreFails, RejectReply, deviceVars, rows
    <3>4. QED
      BY <2>2, <2>16, <3>2, <3>3 DEF StoreReply, StoreFails, RejectReply
  <2>17. QED
    BY <2>5, <2>6, <2>7, <2>8, <2>9, <2>10, <2>11, <2>12, <2>13, <2>14, <2>15, <2>16
       DEF Next, Worker, Handle
<1>3. QED
  BY <1>1, <1>2, PTL DEF Spec

\* Every reachable state is well formed.
THEOREM CommandTypeCorrect == Spec => []TypeOK
BY WellDispatched, PTL

-----------------------------------------------------------------------------
(* What a step may change. *)

\* Rows are added only, and only the message of a worker that stores it.
LEMMA RowsGrow ==
  ASSUME TypeOK, [Next]_vars
  PROVE  /\ requests \subseteq requests' /\ replies \subseteq replies'
         /\ \A r \in requests' : r \in requests \/ \E w \in Workers :
              pc[w] = "save" /\ r = Message(w) /\ requests' = requests \cup {r}
              /\ UNCHANGED <<now, user, asked, log, replies, deviceVars>>
         /\ \A a \in replies' : a \in replies \/ \E w \in Workers :
              pc[w] = "store" /\ a = Message(w) /\ replies' = replies \cup {a}
              /\ UNCHANGED <<now, user, asked, log, requests, deviceVars>>
<1> USE DEF rows
<1>1. CASE \E w \in Workers : Begin(w) \/ Finish(w) \/ Send(w) \/ SendFails(w) \/ RejectReply(w)
  BY <1>1 DEF Begin, Finish, Send, SendFails, RejectReply
<1>2. CASE \E w \in Workers : SaveRequest(w) \/ SaveFails(w)
  BY <1>2 DEF SaveRequest, SaveFails
<1>3. CASE \E w \in Workers : StoreReply(w) \/ StoreFails(w)
  BY <1>3 DEF StoreReply, StoreFails
<1>4. CASE \E c \in Commands : CheckTarget(c) \/ Publish(c) \/ PublishFails(c)
                               \/ Execute(c) \/ Expire(c)
  BY <1>4 DEF CheckTarget, Publish, PublishFails, Execute, Expire
<1>5. CASE Disturb \/ Tick \/ UNCHANGED vars
  BY <1>5 DEF Disturb, Tick, vars
<1>6. QED
  BY <1>1, <1>2, <1>3, <1>4, <1>5 DEF Next, Worker, Handle

\* A request that was asked for keeps its time, and its user has an answer.
LEMMA AnswerStays ==
  ASSUME TypeOK, [Next]_vars, NEW c \in Commands, user[c] \in {"accepted", "failed"}
  PROVE  user'[c] = user[c] /\ asked'[c] = asked[c]
<1>0. user \in [Commands -> Told] /\ asked \in [Commands -> 0 .. MaxTime]
  BY DEF TypeOK, Told
<1>1. CASE \E w \in Workers : Worker(w)
  BY <1>1 DEF Worker, Begin, Finish, Handle, SaveRequest, SaveFails, Send, SendFails,
              StoreReply, StoreFails, RejectReply
<1>2. CASE \E d \in Commands : CheckTarget(d) \/ Publish(d) \/ PublishFails(d)
  BY <1>0, <1>2 DEF CheckTarget, Publish, PublishFails, Tell
<1>3. CASE (\E d \in Commands : Execute(d) \/ Expire(d)) \/ Disturb \/ Tick \/ UNCHANGED vars
  BY <1>3 DEF Execute, Expire, Disturb, Tick, vars
<1>4. QED
  BY <1>1, <1>2, <1>3 DEF Next

\* A command has outcomes on the device only while the broker has it.
LEMMA OutcomesGrow ==
  ASSUME TypeOK, [Next]_vars, NEW c \in Commands
  PROVE  /\ outcomes[c] \subseteq outcomes'[c]
         /\ outcomes'[c] # outcomes[c] => c \in onTheWay
<1>0. outcomes \in [Commands -> SUBSET BOOLEAN]
  BY DEF TypeOK
<1> USE DEF deviceVars
<1>1. CASE \E w \in Workers : Begin(w) \/ Finish(w) \/ SaveRequest(w) \/ SaveFails(w)
                              \/ StoreReply(w) \/ StoreFails(w) \/ RejectReply(w)
  BY <1>1 DEF Begin, Finish, SaveRequest, SaveFails, StoreReply, StoreFails, RejectReply
<1>2. CASE \E w \in Workers : Send(w) \/ SendFails(w)
  BY <1>2 DEF Send, SendFails, Enqueue
<1>3. CASE \E d \in Commands : CheckTarget(d) \/ Publish(d) \/ PublishFails(d) \/ Expire(d)
  BY <1>3 DEF CheckTarget, Publish, PublishFails, Expire
<1>4. CASE \E d \in Commands : Execute(d)
  <2> PICK d \in Commands : Execute(d)
    BY <1>4
  <2>1. PICK success \in BOOLEAN : outcomes' = [outcomes EXCEPT ![d] = @ \cup {success}]
    BY DEF Execute
  <2>2. d \in onTheWay
    BY DEF Execute
  <2>3. QED
    BY <1>0, <2>1, <2>2
<1>5. CASE Disturb \/ Tick \/ UNCHANGED vars
  BY <1>5 DEF Disturb, Tick, vars
<1>6. QED
  BY <1>1, <1>2, <1>3, <1>4, <1>5 DEF Next, Worker, Handle

\* The broker gets a command from a worker that sends it.
LEMMA SendsGrow ==
  ASSUME TypeOK, Dispatched, [Next]_vars, NEW c \in Commands
  PROVE  /\ sends[c] > 0 => sends'[c] > 0
         /\ c \in onTheWay' /\ c \notin onTheWay => sends'[c] > 0
         /\ sends'[c] > 0 /\ ~(sends[c] > 0) =>
              \E w \in Workers : pc[w] = "send" /\ Message(w).command = c
<1>0. sends \in [Commands -> Nat]
  BY DEF TypeOK
<1> USE DEF deviceVars
<1>1. CASE \E w \in Workers : Begin(w) \/ Finish(w) \/ SaveRequest(w) \/ SaveFails(w)
                              \/ StoreReply(w) \/ StoreFails(w) \/ RejectReply(w)
  BY <1>1 DEF Begin, Finish, SaveRequest, SaveFails, StoreReply, StoreFails, RejectReply
<1>2. CASE \E w \in Workers : Send(w) \/ SendFails(w)
  <2> PICK w \in Workers : Send(w) \/ SendFails(w)
    BY <1>2
  <2>1. pc[w] = "send" /\ (Enqueue(Message(w).command) \/ UNCHANGED deviceVars)
    BY DEF Send, SendFails
  <2>2. Message(w).command \in Commands
    BY <2>1, HandledKind, RequestFields
  <2>3. QED
    BY <1>0, <2>1, <2>2 DEF Enqueue
<1>3. CASE \E d \in Commands : CheckTarget(d) \/ Publish(d) \/ PublishFails(d)
  BY <1>3 DEF CheckTarget, Publish, PublishFails
<1>4. CASE \E d \in Commands : Execute(d) \/ Expire(d)
  BY <1>4 DEF Execute, Expire
<1>5. CASE Disturb \/ Tick \/ UNCHANGED vars
  BY <1>5 DEF Disturb, Tick, vars
<1>6. QED
  BY <1>1, <1>2, <1>3, <1>4, <1>5 DEF Next, Worker, Handle

\* A reply is acknowledged because it is stored or because it is rejected.
LEMMA AckedGrows ==
  ASSUME TypeOK, [Next]_vars, NEW e \in acked'
  PROVE  \/ e \in acked
         \/ \E w \in Workers :
              /\ e = ev[w]
              /\ \/ pc[w] = "send"
                 \/ pc[w] = "store" /\ Message(w) \in replies'
                 \/ pc[w] = "store" /\ Message(w).command \notin SetCommands
<1>1. CASE \E w \in Workers : Begin(w) \/ Finish(w) \/ SaveRequest(w)
  BY <1>1 DEF Begin, Finish, SaveRequest, Start, Commit, GoTo, historyVars
<1>2. CASE \E w \in Workers : SaveFails(w) \/ SendFails(w) \/ StoreFails(w)
  BY <1>2 DEF SaveFails, SendFails, StoreFails, Retry, historyVars
<1>3. CASE \E w \in Workers : Send(w) \/ StoreReply(w) \/ RejectReply(w)
  BY <1>3 DEF Send, StoreReply, RejectReply, Acknowledge
<1>4. CASE \E c \in Commands : CheckTarget(c) \/ Publish(c) \/ PublishFails(c)
                               \/ Execute(c) \/ Expire(c)
  BY <1>4 DEF CheckTarget, Publish, PublishFails, Execute, Expire, poolVars, historyVars
<1>5. CASE Disturb \/ Tick \/ UNCHANGED vars
  BY <1>5 DEF Disturb, Restart, Rejoin, Tick, vars, poolVars, historyVars
<1>6. QED
  BY <1>1, <1>2, <1>3, <1>4, <1>5 DEF Next, Worker, Handle

-----------------------------------------------------------------------------
(* Every step preserves each part of Recorded. *)

\* A message of the log is a request or a reply about a command.
LEMMA LogMessage ==
  ASSUME TypeOK, NEW e \in DOMAIN log
  PROVE  /\ log[e] \in Requests \cup Replies
         /\ log[e].kind = "request" => log[e] \in Requests /\ log[e].command \in Commands
         /\ log[e].kind = "reply" => log[e] \in Replies
BY RequestFields, ReplyFields DEF TypeOK

LEMMA OneRequestStep ==
  ASSUME TypeOK, Dispatched, OneRequest, [Next]_vars
  PROVE  OneRequest'
<1>1. ASSUME NEW e \in DOMAIN log', log'[e].kind = "request"
      PROVE  /\ log'[e] = Request(log'[e].command, asked'[log'[e].command])
             /\ user'[log'[e].command] \in {"accepted", "failed"}
  <2>1. CASE e \in DOMAIN log
    <3>1. log'[e] = log[e] /\ log[e].command \in Commands
      BY <1>1, <2>1, LogKept, LogMessage
    <3>2. /\ log[e] = Request(log[e].command, asked[log[e].command])
          /\ user[log[e].command] \in {"accepted", "failed"}
      BY <1>1, <2>1, <3>1 DEF OneRequest
    <3>3. QED
      BY <3>1, <3>2, AnswerStays
  <2>2. CASE e \notin DOMAIN log
    <3>0. log \in Seq(Requests \cup Replies)
      BY DEF TypeOK
    <3>1. ASSUME NEW m, log' = Append(log, m)
          PROVE  log'[e] = m
      BY <2>2, <3>0, <3>1
    <3>2. CASE log' = log
      BY <2>2, <3>2
    <3>3. CASE \E c \in Commands :
              /\ user[c] = "checked" /\ user'[c] \in {"accepted", "failed"}
              /\ log' = Append(log, Request(c, asked[c]))
              /\ asked' = asked
      BY <3>1, <3>3 DEF Request
    <3>4. CASE \E c, success, id, echo : log' = Append(log, Reply(echo, now, id, success))
      BY <1>1, <3>1, <3>4 DEF Reply
    <3>5. QED
      BY <3>2, <3>3, <3>4, LogGrows
  <2>3. QED
    BY <2>1, <2>2
<1>2. ASSUME NEW r \in requests'
      PROVE  \E e \in DOMAIN log' : log'[e] = r
  <2>1. CASE r \in requests
    BY <2>1, LogKept DEF OneRequest
  <2>2. CASE \E w \in Workers : pc[w] = "save" /\ r = Message(w)
    BY <2>2, HeldMessage, LogKept DEF Message
  <2>3. QED
    BY <2>1, <2>2, RowsGrow
<1>3. QED
  BY <1>1, <1>2 DEF OneRequest

LEMMA SavedFirstStep ==
  ASSUME TypeOK, Dispatched, SavedFirst, [Next]_vars
  PROVE  SavedFirst'
<1>1. ASSUME NEW w \in Workers, pc'[w] = "send"
      PROVE  log'[ev'[w]] \in requests'
  <2>1. /\ ev'[w] = ev[w] /\ pc[w] \in Steps
        /\ pc[w] = "send" \/ requests' = requests \cup {Message(w)}
    BY <1>1, Handling DEF Steps, FirstStep
  <2>2. log'[ev'[w]] = Message(w)
    BY <2>1, HeldMessage, LogKept DEF Steps, Message
  <2>3. QED
    BY <2>1, <2>2, RowsGrow DEF SavedFirst
<1>2. ASSUME NEW c \in Commands, sends'[c] > 0
      PROVE  \E r \in requests' : r.command = c
  <2>1. CASE sends[c] > 0
    BY <2>1, RowsGrow DEF SavedFirst, RowsOf
  <2>2. CASE ~(sends[c] > 0)
    <3>1. PICK w \in Workers : pc[w] = "send" /\ Message(w).command = c
      BY <1>2, <2>2, SendsGrow
    <3>2. QED
      BY <3>1, RowsGrow DEF SavedFirst
  <2>3. QED
    BY <2>1, <2>2
<1>3. ASSUME NEW c \in Commands, c \in onTheWay' \/ outcomes'[c] # {}
      PROVE  sends'[c] > 0
  <2>1. CASE c \in onTheWay \/ outcomes[c] # {}
    BY <2>1, SendsGrow DEF SavedFirst
  <2>2. CASE ~(c \in onTheWay \/ outcomes[c] # {})
    BY <1>3, <2>2, SendsGrow, OutcomesGrow
  <2>3. QED
    BY <2>1, <2>2
<1>4. QED
  BY <1>1, <1>2, <1>3 DEF SavedFirst, Message, RowsOf

LEMMA RepliesTrueStep ==
  ASSUME TypeOK, Dispatched, RepliesTrue, [Next]_vars
  PROVE  RepliesTrue'
<1>1. ASSUME NEW e \in DOMAIN log', log'[e].kind = "reply", log'[e].command # NoCommand
      PROVE  log'[e].success \in outcomes'[log'[e].command]
  <2>1. CASE e \in DOMAIN log
    <3>1. log'[e] = log[e] /\ log[e] \in Replies
      BY <1>1, <2>1, LogKept, LogMessage
    <3>2. log[e].command \in Commands
      BY <1>1, <3>1, ReplyFields
    <3>3. QED
      BY <1>1, <2>1, <3>1, <3>2, OutcomesGrow DEF RepliesTrue
  <2>2. CASE e \notin DOMAIN log
    <3>0. log \in Seq(Requests \cup Replies)
      BY DEF TypeOK
    <3>1. ASSUME NEW m, log' = Append(log, m)
          PROVE  log'[e] = m
      BY <2>2, <3>0, <3>1
    <3>2. CASE log' = log
      BY <2>2, <3>2
    <3>3. CASE \E c, at : log' = Append(log, Request(c, at))
      BY <1>1, <3>1, <3>3 DEF Request
    <3>4. ASSUME NEW c \in onTheWay, NEW success, NEW id, NEW echo \in {c, NoCommand},
                 log' = Append(log, Reply(echo, now, id, success)), success \in outcomes'[c]
          PROVE  log'[e].success \in outcomes'[log'[e].command]
      <4>1. log'[e] = Reply(echo, now, id, success)
        BY <3>1, <3>4
      <4>2. log'[e].success = success /\ log'[e].command = echo
        BY <4>1 DEF Reply
      <4>3. QED
        BY <1>1, <3>4, <4>2
    <3>5. QED
      BY <3>2, <3>3, <3>4, LogGrows
  <2>3. QED
    BY <2>1, <2>2
<1>2. ASSUME NEW a \in replies'
      PROVE  \E e \in DOMAIN log' : log'[e] = a
  <2>1. CASE a \in replies
    BY <2>1, LogKept DEF RepliesTrue
  <2>2. CASE \E w \in Workers : pc[w] = "store" /\ a = Message(w)
    BY <2>2, HeldMessage, LogKept DEF Message
  <2>3. QED
    BY <2>1, <2>2, RowsGrow
<1>3. QED
  BY <1>1, <1>2 DEF RepliesTrue

LEMMA AckedStoredStep ==
  ASSUME TypeOK, Dispatched, AckedStored, [Next]_vars
  PROVE  AckedStored'
<1> SUFFICES ASSUME NEW e \in acked', log'[e].kind = "reply", log'[e].command \in SetCommands
             PROVE  log'[e] \in replies'
  BY DEF AckedStored
<1>1. CASE e \in acked
  <2>1. e \in DOMAIN log
    BY <1>1 DEF TypeOK, PoolTypeOK
  <2>2. QED
    BY <1>1, <2>1, LogKept, RowsGrow DEF AckedStored
<1>2. ASSUME NEW w \in Workers, e = ev[w], pc[w] # "idle"
      PROVE  log'[e] = Message(w)
  BY <1>2, HeldMessage, LogKept DEF Message
<1>3. ASSUME NEW w \in Workers, e = ev[w], pc[w] = "send"
      PROVE  FALSE
  BY <1>2, <1>3 DEF Dispatched
<1>4. QED
  BY <1>1, <1>2, <1>3, AckedGrows

\* What the properties rest on is always so.
THEOREM AlwaysRecorded == Spec => []Recorded
<1>1. Init => Recorded
  <2> SUFFICES ASSUME Init
               PROVE  Recorded
    OBVIOUS
  <2>1. DOMAIN log = {} /\ acked = {} /\ requests = {} /\ replies = {}
    BY DEF Init, PoolInit
  <2>2. \A c \in Commands : ~(sends[c] > 0) /\ c \notin onTheWay /\ outcomes[c] = {}
    BY DEF Init
  <2>3. \A w \in Workers : pc[w] # "send"
    BY DEF Init, PoolInit
  <2>4. QED
    BY <2>1, <2>2, <2>3 DEF Recorded, OneRequest, SavedFirst, RepliesTrue, AckedStored
<1>2. TypeOK /\ Dispatched /\ Recorded /\ [Next]_vars => Recorded'
  BY OneRequestStep, SavedFirstStep, RepliesTrueStep, AckedStoredStep DEF Recorded
<1>3. QED
  BY <1>1, <1>2, WellDispatched, PTL DEF Spec

-----------------------------------------------------------------------------
(* What is stored and shown. *)

LEMMA Unrecorded ==
  ASSUME TypeOK, Recorded
  PROVE  NothingUnrecorded
<1>1. \A c \in Commands : outcomes[c] # {} => RowsOf(c) # {}
  BY DEF Recorded, SavedFirst
<1>2. ASSUME NEW a \in replies, a.command # NoCommand
      PROVE  RowsOf(a.command) # {} /\ a.success \in outcomes[a.command]
  <2>1. PICK e \in DOMAIN log : log[e] = a
    BY <1>2 DEF Recorded, RepliesTrue
  <2>2. a.kind = "reply" /\ a.command \in Commands
    BY <1>2, ReplyFields DEF TypeOK
  <2>3. a.success \in outcomes[a.command]
    BY <1>2, <2>1, <2>2 DEF Recorded, RepliesTrue
  <2>4. QED
    BY <1>1, <2>2, <2>3
<1>3. QED
  BY <1>2 DEF NothingUnrecorded, Recorded, SavedFirst

\* Whatever fails and is redelivered, a command is recorded before it is sent
\* and a stored acknowledgement answers a recorded command truthfully.
THEOREM NothingIsUnrecorded == Spec => []NothingUnrecorded
BY CommandTypeCorrect, AlwaysRecorded, Unrecorded, PTL

LEMMA StatusCases ==
  ASSUME NEW c
  PROVE  /\ RowsOf(c) = {} => Status(c) = "unknown"
         /\ RowsOf(c) # {} /\ AnswersTo(c) # {} =>
              Status(c) = Life!Verdict(FirstOf(AnswersTo(c)).success)
         /\ RowsOf(c) # {} /\ AnswersTo(c) = {} =>
              Status(c) = IF \E r \in RowsOf(c) : now <= r.at + AckDeadline
                            THEN "pending" ELSE "failed"
BY DEF Status, Life!Verdict

\* Once all replies to a property set are handled the history shows what the
\* last one said.
THEOREM LastReplyIsShown == Spec => []LastReplyShown
<1>1. ASSUME TypeOK, Recorded
      PROVE  LastReplyShown
  <2> SUFFICES ASSUME NEW c \in SetCommands, RepliesOf(c) # {}, RepliesOf(c) \subseteq acked
               PROVE  \E e \in LastRepliesOf(c) : Status(c) = Life!Verdict(log[e].success)
    BY DEF LastReplyShown
  <2>1. \A e \in RepliesOf(c) : log[e] \in AnswersTo(c)
    BY <1>1 DEF RepliesOf, AnswersTo, Recorded, AckedStored
  <2>2. AnswersTo(c) \in SUBSET Replies /\ AnswersTo(c) # {}
    BY <1>1, <2>1 DEF AnswersTo, TypeOK
  <2> DEFINE a == FirstOf(AnswersTo(c))
  <2>3. a \in AnswersTo(c) /\ \A b \in AnswersTo(c) : Precedes(a, b)
    BY <2>2, FirstOfExists
  <2>4. PICK e \in DOMAIN log : log[e] = a
    BY <1>1, <2>3 DEF Recorded, RepliesTrue, AnswersTo
  <2>5. a.kind = "reply" /\ a.command = c /\ a.at \in Nat
    BY <2>2, <2>3, ReplyFields DEF AnswersTo
  <2>6. e \in RepliesOf(c)
    BY <2>4, <2>5 DEF RepliesOf
  <2>7. ASSUME NEW f \in RepliesOf(c)
        PROVE  log[f].at <= log[e].at
    <3>1. log[f] \in Replies /\ Precedes(a, log[f])
      BY <2>1, <2>2, <2>3
    <3>2. log[f].at \in Nat
      BY <3>1, ReplyFields
    <3>3. QED
      BY <2>4, <2>5, <3>1, <3>2 DEF Precedes
  <2>8. e \in LastRepliesOf(c)
    BY <2>6, <2>7 DEF LastRepliesOf
  <2>9. RowsOf(c) # {}
    <3>1. c # NoCommand
      BY CommandAssumption
    <3>2. QED
      BY <1>1, <2>3, <2>5, <3>1, Unrecorded DEF NothingUnrecorded, AnswersTo
  <2>10. QED
    BY <2>2, <2>4, <2>8, <2>9, StatusCases
<1>2. QED
  BY <1>1, CommandTypeCorrect, AlwaysRecorded, PTL

-----------------------------------------------------------------------------
(* The history keeps the promise of CommandLife. *)

Shown == [c \in Commands |-> Status(c)]
Sent  == {c \in Commands : sends[c] > 0}

\* The status of a command depends on the clock and the rows about it.
LEMMA ShownStays ==
  ASSUME UNCHANGED <<now, rows>>
  PROVE  UNCHANGED Shown
BY DEF Shown, Status, RowsOf, AnswersTo, rows

LEMMA ShownChanges ==
  ASSUME NEW c \in Commands, \A d \in Commands \ {c} : Status(d)' = Status(d)
  PROVE  Shown' = [Shown EXCEPT ![c] = Status(c)']
BY DEF Shown

\* A reply that is stored shows up as an outcome.
LEMMA StoreAnswers ==
  ASSUME TypeOK, Recorded, NEW a \in Replies, a \in {log[e] : e \in DOMAIN log},
         replies' = replies \cup {a}, UNCHANGED <<now, requests, sends, outcomes>>
  PROVE  Life!Next \/ UNCHANGED <<Shown, Sent, outcomes>>
<1> DEFINE c == a.command
<1>0. a.kind = "reply" /\ c \in Commands \cup {NoCommand}
  BY ReplyFields
<1>1. CASE c = NoCommand
  <2>1. \A d \in Commands : AnswersTo(d)' = AnswersTo(d)
    BY <1>1, CommandAssumption DEF AnswersTo
  <2>2. \A d \in Commands : Status(d)' = Status(d)
    BY <2>1 DEF Status, RowsOf
  <2>3. QED
    BY <2>2 DEF Shown, Sent
<1>2. CASE c # NoCommand
  <2>1. c \in Commands
    BY <1>0, <1>2
  <2>2. \A d \in Commands \ {c} : AnswersTo(d)' = AnswersTo(d)
    BY DEF AnswersTo
  <2>3. \A d \in Commands \ {c} : Status(d)' = Status(d)
    BY <2>2 DEF Status, RowsOf
  <2>4. a.success \in outcomes[c]
    BY <1>0, <1>2 DEF Recorded, RepliesTrue
  <2>5. RowsOf(c) # {} /\ RowsOf(c)' = RowsOf(c)
    BY <2>1, <2>4 DEF Recorded, SavedFirst, RowsOf
  <2>6. AnswersTo(c)' \in SUBSET Replies /\ AnswersTo(c)' # {}
    BY DEF AnswersTo, TypeOK
  <2> DEFINE first == FirstOf(AnswersTo(c)')
  <2>7. first \in AnswersTo(c)'
    BY <2>6, FirstOfExists
  <2>8. first.success \in outcomes[c]
    BY <1>2, <2>4, <2>7, Unrecorded DEF NothingUnrecorded, AnswersTo
  <2>9. Status(c)' = Life!Verdict(first.success)
    BY <2>5, <2>6 DEF Status, Life!Verdict
  <2>10. Status(c) # "unknown"
    BY <2>5, StatusCases DEF Life!Verdict
  <2>11. Life!Answer(c)
    BY <2>1, <2>3, <2>8, <2>9, <2>10, ShownChanges DEF Life!Answer, Shown, Sent
  <2>12. QED
    BY <2>1, <2>11 DEF Life!Next
<1>3. QED
  BY <1>1, <1>2

\* A request that is saved for the first time appears in the history.
LEMMA SaveRecords ==
  ASSUME TypeOK, Recorded, NEW r \in Requests, r \in {log[e] : e \in DOMAIN log},
         requests' = requests \cup {r}, UNCHANGED <<now, replies, sends, outcomes>>
  PROVE  Life!Next \/ UNCHANGED <<Shown, Sent, outcomes>>
<1> DEFINE c == r.command
<1>0. r.kind = "request" /\ c \in Commands
  BY RequestFields
<1>1. CASE r \in requests
  <2>1. UNCHANGED <<now, rows>>
    BY <1>1 DEF rows
  <2>2. QED
    BY <2>1, ShownStays DEF Sent
<1>2. CASE r \notin requests
  <2>1. \A d \in Commands \ {c} : RowsOf(d)' = RowsOf(d)
    BY DEF RowsOf
  <2>2. \A d \in Commands \ {c} : Status(d)' = Status(d)
    BY <2>1 DEF Status, AnswersTo
  <2>3. RowsOf(c) = {}
    <3> SUFFICES ASSUME NEW q \in requests, q.command = c
                 PROVE  FALSE
      BY DEF RowsOf
    <3>1. q \in {log[e] : e \in DOMAIN log} /\ q.kind = "request"
      BY RequestFields DEF Recorded, OneRequest, TypeOK
    <3>2. q = Request(c, asked[c]) /\ r = Request(c, asked[c])
      BY <1>0, <3>1 DEF Recorded, OneRequest
    <3>3. QED
      BY <1>2, <3>2
  <2>4. AnswersTo(c) = {}
    <3>1. c # NoCommand
      BY <1>0, CommandAssumption
    <3>2. QED
      BY <2>3, <3>1, Unrecorded DEF NothingUnrecorded, AnswersTo
  <2>5. RowsOf(c)' # {} /\ AnswersTo(c)' = {}
    BY <2>4 DEF RowsOf, AnswersTo
  <2>6. Status(c)' \in {"pending", "failed"}
    BY <2>5 DEF Status
  <2>7. Status(c) = "unknown"
    BY <2>3, StatusCases
  <2>8. Life!Record(c)
    BY <1>0, <2>2, <2>6, <2>7, ShownChanges DEF Life!Record, Shown, Sent
  <2>9. QED
    BY <1>0, <2>8 DEF Life!Next
<1>3. QED
  BY <1>1, <1>2

\* The clock turns pending commands into failed ones, and nothing else.
LEMMA TickExpires ==
  ASSUME TypeOK, Tick
  PROVE  Life!Next
<1>1. /\ now' = now + 1 /\ now \in Nat
      /\ UNCHANGED <<requests, replies, sends, outcomes>>
  BY CommandAssumption DEF Tick, TypeOK, rows, deviceVars
<1> DEFINE late == {c \in Commands : Status(c) = "pending" /\ Status(c)' = "failed"}
<1>2. ASSUME NEW c \in Commands
      PROVE  \/ Status(c)' = Status(c)
             \/ Status(c) = "pending" /\ Status(c)' = "failed"
  <2>1. RowsOf(c)' = RowsOf(c) /\ AnswersTo(c)' = AnswersTo(c)
    BY <1>1 DEF RowsOf, AnswersTo
  <2>2. CASE RowsOf(c) = {} \/ AnswersTo(c) # {}
    BY <2>1, <2>2 DEF Status
  <2>3. CASE RowsOf(c) # {} /\ AnswersTo(c) = {}
    <3>1. Status(c)' = IF \E r \in RowsOf(c) : now' <= r.at + AckDeadline
                         THEN "pending" ELSE "failed"
      BY <2>1, <2>3 DEF Status
    <3>2. Status(c) = IF \E r \in RowsOf(c) : now <= r.at + AckDeadline
                        THEN "pending" ELSE "failed"
      BY <2>3, StatusCases
    <3>3. ASSUME NEW r \in RowsOf(c), now' <= r.at + AckDeadline
          PROVE  now <= r.at + AckDeadline
      <4>1. r.at \in Nat
        BY RequestFields, CommandAssumption DEF RowsOf, TypeOK
      <4>2. QED
        BY <1>1, <3>3, <4>1, CommandAssumption
    <3>4. QED
      BY <3>1, <3>2, <3>3
  <2>4. QED
    BY <2>2, <2>3
<1>3. Shown' = [c \in Commands |-> IF c \in late THEN "failed" ELSE Shown[c]]
  BY <1>2 DEF Shown
<1>4. late \in SUBSET {c \in Commands : Shown[c] = "pending"}
  BY DEF Shown
<1>5. UNCHANGED <<Sent, outcomes>>
  BY <1>1 DEF Sent
<1>6. Life!Expire
  BY <1>3, <1>4, <1>5 DEF Life!Expire, Shown, Sent
<1>7. QED
  BY <1>6 DEF Life!Next

\* What Send puts into the device's queue belongs to a command the history knows.
LEMMA EnqueueSends ==
  ASSUME TypeOK, Recorded, UNCHANGED <<now, rows>>,
         \E m \in requests : m.command \in Commands /\ Enqueue(m.command)
  PROVE  Life!Next
<1>1. PICK m \in requests : m.command \in Commands /\ Enqueue(m.command)
  OBVIOUS
<1>2. PICK c \in Commands : c = m.command
  BY <1>1
<1>3. Enqueue(c) /\ RowsOf(c) # {}
  BY <1>1, <1>2 DEF RowsOf
<1>4. Sent' = Sent \cup {c} /\ outcomes' = outcomes
  BY <1>3 DEF Enqueue, Sent, TypeOK
<1>5. Status(c) # "unknown"
  BY <1>3, StatusCases DEF Life!Verdict
<1>6. Shown' = Shown
  BY ShownStays
<1>7. Life!Send(c)
  BY <1>2, <1>4, <1>5, <1>6 DEF Life!Send, Shown, Sent
<1>8. QED
  BY <1>7 DEF Life!Next

LEMMA LifeStep ==
  ASSUME TypeOK, Dispatched, Recorded, [Next]_vars
  PROVE  Life!Next \/ UNCHANGED <<Shown, Sent, outcomes>>
<1>1. ASSUME UNCHANGED <<now, rows, sends, outcomes>>
      PROVE  UNCHANGED <<Shown, Sent, outcomes>>
  BY <1>1, ShownStays DEF Sent
<1>2. CASE \E w \in Workers : Begin(w) \/ Finish(w) \/ RejectReply(w)
  BY <1>1, <1>2 DEF Begin, Finish, RejectReply, deviceVars
<1>3. CASE \E c \in Commands : CheckTarget(c) \/ Publish(c) \/ PublishFails(c) \/ Expire(c)
  BY <1>1, <1>3 DEF CheckTarget, Publish, PublishFails, Expire, deviceVars
<1>4. CASE Disturb \/ UNCHANGED vars
  BY <1>1, <1>4 DEF Disturb, vars, deviceVars
<1>5. CASE Tick
  BY <1>5, TickExpires
<1>6. ASSUME NEW w \in Workers, SaveRequest(w) \/ SaveFails(w)
      PROVE  Life!Next \/ UNCHANGED <<Shown, Sent, outcomes>>
  <2>1. pc[w] = "save" /\ UNCHANGED <<now, replies, sends, outcomes>>
    BY <1>6 DEF SaveRequest, SaveFails, deviceVars
  <2>2. Message(w) \in Requests /\ Message(w) \in {log[e] : e \in DOMAIN log}
    BY <2>1, HandledKind, HeldMessage DEF Message
  <2>3. requests' = requests \cup {Message(w)} \/ UNCHANGED requests
    BY <1>6 DEF SaveRequest, SaveFails
  <2>4. QED
    BY <1>1, <2>1, <2>2, <2>3, SaveRecords DEF rows
<1>7. ASSUME NEW w \in Workers, StoreReply(w) \/ StoreFails(w)
      PROVE  Life!Next \/ UNCHANGED <<Shown, Sent, outcomes>>
  <2>1. pc[w] = "store" /\ UNCHANGED <<now, requests, sends, outcomes>>
    BY <1>7 DEF StoreReply, StoreFails, deviceVars
  <2>2. Message(w) \in Replies /\ Message(w) \in {log[e] : e \in DOMAIN log}
    BY <2>1, HandledKind, HeldMessage DEF Message
  <2>3. replies' = replies \cup {Message(w)} \/ UNCHANGED replies
    BY <1>7 DEF StoreReply, StoreFails
  <2>4. QED
    BY <1>1, <2>1, <2>2, <2>3, StoreAnswers DEF rows
<1>8. ASSUME NEW w \in Workers, Send(w) \/ SendFails(w)
      PROVE  Life!Next \/ UNCHANGED <<Shown, Sent, outcomes>>
  <2> DEFINE c == Message(w).command
  <2>1. pc[w] = "send" /\ UNCHANGED <<now, rows>> /\ (Enqueue(c) \/ UNCHANGED deviceVars)
    BY <1>8 DEF Send, SendFails
  <2>2. c \in Commands /\ Message(w) \in requests
    BY <2>1, HandledKind, RequestFields DEF Recorded, SavedFirst
  <2>3. CASE UNCHANGED deviceVars
    BY <1>1, <2>1, <2>3 DEF deviceVars
  <2>4. CASE Enqueue(c)
    <3>1. \E m \in requests : m.command \in Commands /\ Enqueue(m.command)
      BY <2>2, <2>4
    <3>2. QED
      BY <3>1, <2>1, EnqueueSends
  <2>5. QED
    BY <2>1, <2>3, <2>4
<1>9. ASSUME NEW c \in Commands, Execute(c)
      PROVE  Life!Next \/ UNCHANGED <<Shown, Sent, outcomes>>
  <2>1. c \in Sent
    BY <1>9 DEF Execute, Recorded, SavedFirst, Sent
  <2>2. \E success \in BOOLEAN : outcomes' = [outcomes EXCEPT ![c] = @ \cup {success}]
    BY <1>9 DEF Execute
  <2>3. UNCHANGED <<Shown, Sent>>
    BY <1>9, ShownStays DEF Execute, Sent
  <2>4. Life!Execute(c)
    BY <2>1, <2>2, <2>3 DEF Life!Execute, Shown, Sent
  <2>5. QED
    BY <2>4 DEF Life!Next
<1>10. QED
  BY <1>2, <1>3, <1>4, <1>5, <1>6, <1>7, <1>8, <1>9 DEF Next, Worker, Handle

\* Through requests, replies, failures and redeliveries the history keeps the
\* promise of CommandLife.
THEOREM CommandKeepsPromise == Spec => KeepsPromise
<1>1. Init => Life!Init
  <2> SUFFICES ASSUME Init
               PROVE  Life!Init
    OBVIOUS
  <2>1. \A c \in Commands : Status(c) = "unknown"
    BY DEF Init, Status, RowsOf
  <2>2. \A c \in Commands : ~(sends[c] > 0)
    BY DEF Init
  <2>3. QED
    BY <2>1, <2>2 DEF Init, Life!Init
<1>2. TypeOK /\ Dispatched /\ Recorded /\ [Next]_vars => [Life!Next]_(Life!vars)
  BY LifeStep DEF Life!vars, Shown, Sent
<1>3. QED
  BY <1>1, <1>2, WellDispatched, AlwaysRecorded, PTL DEF Spec, KeepsPromise, Life!Spec
-----------------------------------------------------------------------------
(* How often a command is sent.                                             *)

Calm == restarts = 0 /\ rejoins = 0

\* A command has one message in the topic.
OnePublished ==
  \A d, e \in DOMAIN log :
    /\ log[d].kind = "request" /\ log[e].kind = "request"
    /\ log[d].command = log[e].command
    => d = e

\* Messages are handed out in order, each to one worker, which counts its
\* retries from zero.
HandedOnce ==
  /\ stale = <<>>
  /\ \A w \in Workers : IF pc[w] = "idle" THEN tries[w] = 0 ELSE ev[w] < next
  /\ \A v, w \in Workers : pc[v] # "idle" /\ pc[w] # "idle" /\ ev[v] = ev[w] => v = w

\* A command is sent only after its message was handed out, and by a worker
\* that has it to handle no more often than that worker has retried.
Counted ==
  \A c \in Commands :
    /\ sends[c] <= MaxRetries + 1
    /\ (\A e \in RequestsOf(c) : e >= next) => sends[c] = 0
    /\ \A w \in Workers :
         pc[w] \in {"save", "send"} /\ Message(w).command = c => sends[c] <= tries[w]

Limited == Calm => OnePublished /\ HandedOnce /\ Counted

LEMMA OnePublishedStep ==
  ASSUME TypeOK, OneRequest, OnePublished, [Next]_vars
  PROVE  OnePublished'
<1>0. log \in Seq(Requests \cup Replies)
  BY DEF TypeOK
<1>1. CASE log' = log
  BY <1>1 DEF OnePublished
<1>2. ASSUME NEW m, log' = Append(log, m),
             m.kind = "request" => \A e \in DOMAIN log : log[e].kind = "request" => log[e].command # m.command
      PROVE  OnePublished'
  <2>1. DOMAIN log' = DOMAIN log \cup {Len(log) + 1} /\ log'[Len(log) + 1] = m
    BY <1>0, <1>2
  <2>2. \A e \in DOMAIN log : log'[e] = log[e]
    BY <1>0, <1>2
  <2>3. QED
    BY <1>2, <2>1, <2>2 DEF OnePublished
<1>3. ASSUME NEW c \in Commands, user[c] = "checked", log' = Append(log, Request(c, asked[c]))
      PROVE  OnePublished'
  <2>1. \A e \in DOMAIN log : log[e].kind = "request" => log[e].command # c
    BY <1>3 DEF OneRequest
  <2>2. Request(c, asked[c]).command = c
    BY DEF Request
  <2>3. QED
    BY <1>2, <1>3, <2>1, <2>2
<1>4. ASSUME NEW c, NEW success, NEW id, NEW echo, log' = Append(log, Reply(echo, now, id, success))
      PROVE  OnePublished'
  <2>1. Reply(echo, now, id, success).kind # "request"
    BY DEF Reply
  <2>2. QED
    BY <1>2, <1>4, <2>1
<1>5. QED
  BY <1>1, <1>3, <1>4, LogGrows

\* What a step of a worker does to the pool.
Moves(w) ==
  /\ pc[w] # "idle" /\ next' = next /\ stale' = stale
  /\ \A v \in Workers \ {w} : pc'[v] = pc[v] /\ ev'[v] = ev[v] /\ tries'[v] = tries[v]
  /\ \/ pc[w] \in Steps /\ pc'[w] # "idle" /\ ev'[w] = ev[w] /\ tries'[w] >= tries[w]
     \/ pc'[w] = "idle" /\ tries'[w] = 0

Takes(w) ==
  /\ pc[w] = "idle" /\ next' = next + 1 /\ stale' = stale
  /\ \A v \in Workers \ {w} : pc'[v] = pc[v] /\ ev'[v] = ev[v] /\ tries'[v] = tries[v]
  /\ pc'[w] # "idle" /\ ev'[w] = next /\ tries'[w] = tries[w]

Rests == UNCHANGED <<pc, ev, tries, next, stale>>

LEMMA PoolMoves ==
  ASSUME TypeOK, NEW w \in Workers, NEW step \in Steps,
         \/ pc[w] \in Steps /\ (GoTo(w, step) \/ Acknowledge(w) \/ Retry(w, step))
         \/ Commit(w)
  PROVE  Moves(w)
<1>0. /\ pc \in [Workers -> Steps \cup {"idle", "commit"}]
      /\ ev \in [Workers -> (1 .. Len(log)) \cup {NoEvent}]
      /\ tries \in [Workers -> 0 .. MaxRetries]
  BY DEF TypeOK, PoolTypeOK, Steps
<1> USE DEF Moves, Steps
<1>1. CASE pc[w] \in Steps /\ (GoTo(w, step) \/ Acknowledge(w))
  BY <1>0, <1>1 DEF GoTo, Acknowledge, readerVars
<1>2. CASE pc[w] \in Steps /\ Retry(w, step)
  <2>1. CASE /\ pc' = [pc EXCEPT ![w] = step] /\ tries' = [tries EXCEPT ![w] = @ + 1]
             /\ UNCHANGED <<ev, readerVars>>
    BY <1>0, <1>2, <2>1 DEF readerVars
  <2>2. CASE Release(w) /\ UNCHANGED readerVars
    BY <1>0, <1>2, <2>2 DEF Release, readerVars
  <2>3. QED
    BY <1>2, <2>1, <2>2 DEF Retry
<1>3. CASE Commit(w)
  BY <1>0, <1>3 DEF Commit, Release
<1>4. QED
  BY <1>1, <1>2, <1>3

LEMMA CalmStep ==
  ASSUME TypeOK, [Next]_vars, Calm'
  PROVE  /\ Calm
         /\ stale = <<>> => \/ Rests
                            \/ \E w \in Workers : Takes(w) \/ Moves(w)
<1>0. /\ pc \in [Workers -> Steps \cup {"idle", "commit"}]
      /\ ev \in [Workers -> (1 .. Len(log)) \cup {NoEvent}]
      /\ restarts \in Nat /\ rejoins \in Nat
  BY PoolAssumption DEF TypeOK, PoolTypeOK, Steps
<1>1. ~Disturb
  BY <1>0 DEF Disturb, Restart, Rejoin, Calm
<1>2. ASSUME NEW w \in Workers, Begin(w)
      PROVE  Calm /\ (stale = <<>> => Takes(w))
  <2>1. FirstStep(NextMessage) # "idle"
    BY DEF FirstStep
  <2>2. QED
    BY <1>0, <1>2, <2>1 DEF Begin, Start, Takes, NextMessage, Calm, boundVars
<1>3. ASSUME NEW w \in Workers, Handle(w) \/ Finish(w)
      PROVE  Calm /\ Moves(w)
  <2>1. PICK step \in Steps :
          \/ pc[w] \in Steps /\ (GoTo(w, step) \/ Acknowledge(w) \/ Retry(w, step))
          \/ Commit(w)
    BY <1>3 DEF Handle, SaveRequest, SaveFails, Send, SendFails, StoreReply, StoreFails,
                RejectReply, Finish, Steps
  <2>2. UNCHANGED boundVars
    BY <2>1 DEF GoTo, Acknowledge, Retry, Commit
  <2>3. QED
    BY <2>1, <2>2, PoolMoves DEF Calm, boundVars
<1>4. CASE \E c \in Commands : CheckTarget(c) \/ Publish(c) \/ PublishFails(c)
                               \/ Execute(c) \/ Expire(c)
  BY <1>4 DEF CheckTarget, Publish, PublishFails, Execute, Expire, Rests, Calm,
              poolVars, readerVars, workerVars, boundVars
<1>5. CASE Tick \/ UNCHANGED vars
  BY <1>5 DEF Tick, vars, Rests, Calm, poolVars, readerVars, workerVars, boundVars
<1>6. QED
  BY <1>1, <1>2, <1>3, <1>4, <1>5 DEF Next, Worker

LEMMA HandedOnceStep ==
  ASSUME TypeOK, HandedOnce, [Next]_vars, Calm'
  PROVE  HandedOnce'
<1>0. next \in Nat /\ ev \in [Workers -> Nat] /\ stale = <<>>
  BY DEF TypeOK, PoolTypeOK, HandedOnce, NoEvent
<1>1. CASE Rests
  BY <1>1 DEF Rests, HandedOnce
<1>2. ASSUME NEW w \in Workers, Takes(w)
      PROVE  HandedOnce'
  BY <1>0, <1>2 DEF Takes, HandedOnce
<1>3. ASSUME NEW w \in Workers, Moves(w)
      PROVE  HandedOnce'
  BY <1>0, <1>3 DEF Moves, HandedOnce
<1>4. QED
  BY <1>0, <1>1, <1>2, <1>3, CalmStep

\* A command is sent by a worker that has its request, and then is done with
\* it or tries again.
LEMMA SendsCounted ==
  ASSUME TypeOK, Dispatched, [Next]_vars, NEW c \in Commands
  PROVE  \/ sends'[c] = sends[c]
         \/ /\ sends'[c] = sends[c] + 1
            /\ \E w \in Workers :
                 /\ pc[w] = "send" /\ Message(w).command = c
                 /\ Acknowledge(w) \/ Retry(w, "save")
<1>0. sends \in [Commands -> Nat]
  BY DEF TypeOK
<1> USE DEF deviceVars
<1>1. CASE \E w \in Workers : Begin(w) \/ Finish(w) \/ SaveRequest(w) \/ SaveFails(w)
                              \/ StoreReply(w) \/ StoreFails(w) \/ RejectReply(w)
  BY <1>1 DEF Begin, Finish, SaveRequest, SaveFails, StoreReply, StoreFails, RejectReply
<1>2. CASE \E w \in Workers : Send(w) \/ SendFails(w)
  <2> PICK w \in Workers : Send(w) \/ SendFails(w)
    BY <1>2
  <2>1. /\ pc[w] = "send" /\ (Enqueue(Message(w).command) \/ UNCHANGED deviceVars)
        /\ Acknowledge(w) \/ Retry(w, "save")
    BY DEF Send, SendFails
  <2>2. Message(w).command \in Commands
    BY <2>1, HandledKind, RequestFields
  <2>3. QED
    BY <1>0, <2>1, <2>2 DEF Enqueue
<1>3. CASE \E d \in Commands : CheckTarget(d) \/ Publish(d) \/ PublishFails(d)
  BY <1>3 DEF CheckTarget, Publish, PublishFails
<1>4. CASE \E d \in Commands : Execute(d) \/ Expire(d)
  BY <1>4 DEF Execute, Expire
<1>5. CASE Disturb \/ Tick \/ UNCHANGED vars
  BY <1>5 DEF Disturb, Tick, vars
<1>6. QED
  BY <1>1, <1>2, <1>3, <1>4, <1>5 DEF Next, Worker, Handle

\* A request stays one, and the one a worker handles is its command's.
LEMMA RequestsStay ==
  ASSUME TypeOK, [Next]_vars, NEW c \in Commands
  PROVE  RequestsOf(c) \subseteq RequestsOf(c)'
BY LogKept DEF RequestsOf

LEMMA HeldRequest ==
  ASSUME TypeOK, Dispatched, NEW w \in Workers, pc[w] \in {"save", "send"}
  PROVE  ev[w] \in RequestsOf(Message(w).command)
BY HeldMessage DEF Dispatched, RequestsOf, Message

LEMMA CountedStep ==
  ASSUME TypeOK, TypeOK', Dispatched, Dispatched', OnePublished', HandedOnce, Counted,
         [Next]_vars, Calm'
  PROVE  Counted'
<1> SUFFICES ASSUME NEW c \in Commands
             PROVE  /\ sends'[c] <= MaxRetries + 1
                    /\ (\A e \in RequestsOf(c)' : e >= next') => sends'[c] = 0
                    /\ \A w \in Workers :
                         pc'[w] \in {"save", "send"} /\ Message(w)'.command = c
                           => sends'[c] <= tries'[w]
  BY DEF Counted
<1>a. /\ next \in Nat /\ ev \in [Workers -> Nat] /\ sends[c] \in Nat
      /\ tries \in [Workers -> 0 .. MaxRetries] /\ MaxRetries \in Nat /\ stale = <<>>
  <2>1. ev \in [Workers -> (1 .. Len(log)) \cup {NoEvent}] /\ next \in 1 .. Len(log) + 1
    BY DEF TypeOK, PoolTypeOK
  <2>2. sends[c] \in Nat /\ tries \in [Workers -> 0 .. MaxRetries]
    BY DEF TypeOK, PoolTypeOK
  <2>3. MaxRetries \in Nat
    BY PoolAssumption
  <2>4. stale = <<>>
    BY DEF HandedOnce
  <2>5. ev \in [Workers -> Nat] /\ next \in Nat
    BY <2>1 DEF NoEvent
  <2>6. QED
    BY <2>2, <2>3, <2>4, <2>5
<1>b. sends'[c] \in Nat /\ tries' \in [Workers -> 0 .. MaxRetries]
  BY DEF TypeOK, PoolTypeOK
<1>0. /\ next \in Nat /\ ev \in [Workers -> Nat] /\ sends[c] \in Nat /\ sends'[c] \in Nat
      /\ tries \in [Workers -> 0 .. MaxRetries] /\ tries' \in [Workers -> 0 .. MaxRetries]
      /\ MaxRetries \in Nat /\ stale = <<>>
  BY <1>a, <1>b
<1>1. Rests \/ \E w \in Workers : Takes(w) \/ Moves(w)
  BY <1>0, CalmStep
<1>2. next' \in {next, next + 1}
  BY <1>1 DEF Rests, Takes, Moves
<1>3. ASSUME NEW w \in Workers, pc'[w] \in {"save", "send"}, Message(w)'.command = c
      PROVE  ev'[w] \in RequestsOf(c)'
  <2>1. ev'[w] \in DOMAIN log' /\ log'[ev'[w]].kind = "request" /\ log'[ev'[w]].command = c
    <3>1. pc'[w] # "idle"
      BY <1>3
    <3>2. ev'[w] \in DOMAIN log'
      <4>1. \A v \in Workers : pc'[v] # "idle" => ev'[v] \in 1 .. Len(log')
        BY DEF TypeOK, PoolTypeOK
      <4>2. log' \in Seq(Requests \cup Replies)
        BY DEF TypeOK
      <4>3. QED
        BY <3>1, <4>1, <4>2
    <3>3. QED
      BY <1>3, <3>2 DEF Dispatched, Message
  <2>2. QED
    BY <2>1 DEF RequestsOf
<1>4. \A d, e \in RequestsOf(c)' : d = e
  BY DEF OnePublished, RequestsOf
<1>5. CASE sends'[c] = sends[c]
  <2>1. sends'[c] <= MaxRetries + 1
    BY <1>5 DEF Counted
  <2>2. ASSUME \A e \in RequestsOf(c)' : e >= next'
        PROVE  sends'[c] = 0
    <3>1. RequestsOf(c) \subseteq RequestsOf(c)' /\ RequestsOf(c) \subseteq DOMAIN log
      BY <1>0, RequestsStay DEF RequestsOf
    <3>2. DOMAIN log \subseteq Nat /\ next \in Nat
      <4>1. log \in Seq(Requests \cup Replies)
        BY DEF TypeOK
      <4>2. DOMAIN log \subseteq Nat
        BY <4>1
      <4>3. PoolTypeOK(Len(log), Steps)
        BY DEF TypeOK, Steps
      <4>4. next \in Nat
        BY <4>3 DEF PoolTypeOK
      <4>5. QED
        BY <4>2, <4>4
    <3>3. \A e \in RequestsOf(c) : e \in Nat /\ e >= next
      BY <1>2, <2>2, <3>1, <3>2
    <3>4. QED
      BY <1>5, <3>3 DEF Counted
  <2>3. ASSUME NEW w \in Workers, pc'[w] \in {"save", "send"}, Message(w)'.command = c
        PROVE  sends'[c] <= tries'[w]
    <3>1. CASE pc[w] \in {"save", "send"} /\ ev'[w] = ev[w] /\ tries'[w] >= tries[w]
      <4>1. Message(w).command = c
        BY <2>3, <3>1, HeldMessage, LogKept DEF Message
      <4>2. sends[c] <= tries[w]
        BY <3>1, <4>1 DEF Counted
      <4>3. QED
        BY <1>0, <1>5, <3>1, <4>2
    <3>2. CASE ev'[w] = next
      <4>1. \A e \in RequestsOf(c) : e >= next
        BY <1>0, <1>3, <1>4, <2>3, <3>2, RequestsStay
      <4>2. QED
        BY <1>0, <1>5, <4>1 DEF Counted
    <3>3. \/ pc[w] \in Steps /\ ev'[w] = ev[w] /\ tries'[w] >= tries[w]
          \/ ev'[w] = next
      BY <1>0, <1>1, <2>3 DEF Rests, Takes, Moves, Steps
    <3>4. CASE pc[w] \in Steps /\ ev'[w] = ev[w] /\ tries'[w] >= tries[w]
      <4>1. log'[ev'[w]] = Message(w)
        BY <3>4, HeldMessage, LogKept DEF Message, Steps
      <4>2. log'[ev'[w]].kind = "request"
        BY <1>3, <2>3 DEF RequestsOf
      <4>3. pc[w] # "store"
        BY <4>1, <4>2 DEF Dispatched
      <4>4. QED
        BY <3>1, <3>4, <4>3 DEF Steps
    <3>5. QED
      BY <3>2, <3>3, <3>4
  <2>4. QED
    BY <2>1, <2>2, <2>3
<1>6. CASE /\ sends'[c] = sends[c] + 1
           /\ \E w \in Workers :
                /\ pc[w] = "send" /\ Message(w).command = c
                /\ Acknowledge(w) \/ Retry(w, "save")
  <2> PICK w \in Workers : /\ pc[w] = "send" /\ Message(w).command = c
                           /\ Acknowledge(w) \/ Retry(w, "save")
    BY <1>6
  <2>1. sends[c] <= tries[w]
    BY DEF Counted
  <2>2. Moves(w)
    BY PoolMoves DEF Steps
  <2>3. ev[w] \in RequestsOf(c)' /\ ev[w] < next /\ next' = next
    <3>1. ev[w] \in RequestsOf(c)
      BY HeldRequest
    <3>2. QED
      BY <2>2, <3>1, RequestsStay DEF HandedOnce, Moves
  <2>4. ASSUME NEW v \in Workers, pc'[v] \in {"save", "send"}, Message(v)'.command = c
        PROVE  sends'[c] <= tries'[v]
    <3>1. ev'[v] = ev[w]
      BY <1>3, <1>4, <2>3, <2>4
    <3>2. v = w
      BY <2>2, <2>4, <3>1 DEF Moves, HandedOnce
    <3>3. tries'[w] = tries[w] + 1
      <4>1. pc \in [Workers -> Steps \cup {"idle", "commit"}]
        BY DEF TypeOK, PoolTypeOK, Steps
      <4>2. QED
        BY <1>0, <2>4, <3>2, <4>1 DEF Acknowledge, Retry, Release
    <3>4. QED
      BY <1>0, <1>6, <2>1, <3>2, <3>3
  <2>5. QED
    BY <1>0, <1>6, <2>1, <2>3, <2>4
<1>7. QED
  BY <1>5, <1>6, SendsCounted

\* While the processor is not disturbed a command is handed to the broker at
\* most once for each call of its handler.
THEOREM SendsAreBounded == Spec => []SendsBounded
<1>1. Init => Limited
  <2> SUFFICES ASSUME Init
               PROVE  OnePublished /\ HandedOnce /\ Counted
    BY DEF Limited
  <2>1. OnePublished
    BY DEF Init, OnePublished
  <2>2. HandedOnce
    BY DEF Init, PoolInit, HandedOnce
  <2>3. Counted
    BY PoolAssumption DEF Init, PoolInit, Counted
  <2>4. QED
    BY <2>1, <2>2, <2>3
<1>2. ASSUME TypeOK, TypeOK', Dispatched, Dispatched', Recorded, Limited, [Next]_vars
      PROVE  Limited'
  <2> SUFFICES ASSUME Calm'
               PROVE  OnePublished' /\ HandedOnce' /\ Counted'
    BY DEF Limited
  <2>1. OnePublished /\ HandedOnce /\ Counted
    BY <1>2, CalmStep DEF Limited
  <2>2. OnePublished'
    BY <1>2, <2>1, OnePublishedStep DEF Recorded
  <2>3. HandedOnce'
    BY <1>2, <2>1, HandedOnceStep
  <2>4. Counted'
    BY <1>2, <2>1, <2>2, CountedStep
  <2>5. QED
    BY <2>2, <2>3, <2>4
<1>3. Limited => SendsBounded
  BY DEF Limited, SendsBounded, Calm, Counted
<1>4. QED
  BY <1>1, <1>2, <1>3, WellDispatched, AlwaysRecorded, PTL DEF Spec
=============================================================================
