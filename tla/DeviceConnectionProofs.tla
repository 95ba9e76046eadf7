----------------------- MODULE DeviceConnectionProofs -----------------------
(***************************************************************************)
(* Theorems about DeviceConnection: what its rows, keys and changes hold,  *)
(* for every number of workers, devices, messages, times and retries.      *)
(***************************************************************************)
EXTENDS DeviceConnection, TLAPS

Steps == {"update", "redis", "publish"}

----------------------------------------------------------------------------
(* What the steps of the pool preserve, whatever the handler does meanwhile. *)

\* An empty log, or one nobody has read of.
LEMMA PoolInitType ==
  ASSUME NEW last \in Nat, NEW steps, PoolInit
  PROVE  PoolTypeOK(last, steps)
BY PoolAssumption DEF PoolInit, PoolTypeOK, NoEvent

\* The next message comes from the log.
LEMMA StartType ==
  ASSUME NEW last \in Nat, NEW steps, NEW step \in steps, NEW w \in Workers,
         PoolTypeOK(last, steps), NextMessage <= last, Start(w, step)
  PROVE  /\ PoolTypeOK(last, steps)'
         /\ NextMessage \in 1 .. last
<1>1. NextMessage \in 1 .. last
  BY DEF PoolTypeOK, NextMessage
<1>2. /\ ev' = [ev EXCEPT ![w] = NextMessage]
      /\ pc' = [pc EXCEPT ![w] = step]
  BY DEF Start
<1>3. ev' \in [Workers -> (1 .. last) \cup {NoEvent}]
  BY <1>1, <1>2 DEF PoolTypeOK
<1>4. pc' \in [Workers -> steps \cup {"idle", "commit"}]
  BY <1>2 DEF PoolTypeOK
<1>5. \A v \in Workers : pc'[v] # "idle" => ev'[v] \in 1 .. last
  BY <1>1, <1>2 DEF PoolTypeOK
<1>6. next' \in 1 .. last + 1 /\ stale' \in Seq(1 .. last)
  <2>1. CASE stale # <<>>
    BY <2>1, SMTT(20) DEF Start, PoolTypeOK
  <2>2. CASE stale = <<>>
    BY <1>1, <2>2 DEF Start, PoolTypeOK, NextMessage
  <2>3. QED
    BY <2>1, <2>2
<1>7. QED
  BY <1>1, <1>3, <1>4, <1>5, <1>6
     DEF Start, PoolTypeOK, historyVars, boundVars

LEMMA GoToType ==
  ASSUME NEW last \in Nat, NEW steps, NEW step \in steps, NEW w \in Workers,
         PoolTypeOK(last, steps), pc[w] # "idle", GoTo(w, step)
  PROVE  PoolTypeOK(last, steps)'
BY DEF GoTo, PoolTypeOK, readerVars, historyVars, boundVars

LEMMA RetryType ==
  ASSUME NEW last \in Nat, NEW steps, NEW step \in steps, NEW w \in Workers,
         PoolTypeOK(last, steps), pc[w] # "idle", Retry(w, step)
  PROVE  PoolTypeOK(last, steps)'
<1> USE DEF readerVars, historyVars, boundVars
<1>0. ev[w] \in 1 .. last /\ tries[w] \in 0 .. MaxRetries
  BY DEF PoolTypeOK
<1>1. CASE /\ tries[w] < MaxRetries
           /\ pc'    = [pc EXCEPT ![w] = step]
           /\ tries' = [tries EXCEPT ![w] = tries[w] + 1]
           /\ UNCHANGED <<ev, readerVars, historyVars, boundVars>>
  <2>1. tries[w] + 1 \in 0 .. MaxRetries
    BY <1>0, <1>1, PoolAssumption
  <2>2. tries' \in [Workers -> 0 .. MaxRetries]
    BY <1>1, <2>1 DEF PoolTypeOK
  <2>3. QED
    BY <1>0, <1>1, <2>2 DEF PoolTypeOK
<1>2. CASE /\ Release(w)
           /\ lost' = lost \cup {ev[w]}
           /\ UNCHANGED <<acked, readerVars, boundVars>>
  <2>1. tries' \in [Workers -> 0 .. MaxRetries]
    BY <1>2, PoolAssumption DEF PoolTypeOK, Release
  <2>2. lost' \subseteq 1 .. last
    BY <1>0, <1>2 DEF PoolTypeOK
  <2>3. QED
    BY <1>2, <2>1, <2>2 DEF PoolTypeOK, Release, NoEvent
<1>3. QED
  BY <1>1, <1>2 DEF Retry

LEMMA AcknowledgeType ==
  ASSUME NEW last \in Nat, NEW steps, NEW w \in Workers,
         PoolTypeOK(last, steps), pc[w] # "idle", Acknowledge(w)
  PROVE  PoolTypeOK(last, steps)'
BY DEF Acknowledge, PoolTypeOK, readerVars, boundVars

LEMMA CommitType ==
  ASSUME NEW last \in Nat, NEW steps, NEW w \in Workers,
         PoolTypeOK(last, steps), Commit(w)
  PROVE  PoolTypeOK(last, steps)'
<1>1. ev[w] \in 1 .. last
  BY DEF PoolTypeOK, Commit
<1>2. committed' \in 1 .. last + 1
  BY <1>1 DEF PoolTypeOK, Commit
<1>3. tries' \in [Workers -> 0 .. MaxRetries]
  BY PoolAssumption DEF PoolTypeOK, Commit, Release
<1>4. QED
  BY <1>2, <1>3 DEF PoolTypeOK, Commit, Release, NoEvent, historyVars, boundVars

LEMMA RestartType ==
  ASSUME NEW last \in Nat, NEW steps, PoolTypeOK(last, steps), Restart
  PROVE  PoolTypeOK(last, steps)'
<1>1. lost' \subseteq 1 .. last
  BY DEF PoolTypeOK, Restart
<1>2. restarts' \in 0 .. MaxRestarts /\ tries' \in [Workers -> 0 .. MaxRetries]
  BY PoolAssumption DEF PoolTypeOK, Restart
<1>3. QED
  BY <1>1, <1>2 DEF PoolTypeOK, Restart, NoEvent

LEMMA RejoinType ==
  ASSUME NEW last \in Nat, NEW steps, PoolTypeOK(last, steps), Rejoin(last)
  PROVE  PoolTypeOK(last, steps)'
<1>1. next' \in 1 .. last + 1 /\ stale' \in Seq(1 .. last)
  <2>1. ASSUME NEW k \in 0 .. Prefetch - Len(stale), next + k - 1 <= last,
               stale' = stale \o [i \in 1 .. k |-> next + i - 1], next' = committed
        PROVE  next' \in 1 .. last + 1 /\ stale' \in Seq(1 .. last)
    <3>1. next \in 1 .. last + 1 /\ committed \in 1 .. last + 1 /\ stale \in Seq(1 .. last)
      BY DEF PoolTypeOK
    <3>2. k \in Nat
      BY <3>1, PoolAssumption
    <3>3. \A i \in 1 .. k : next + i - 1 \in 1 .. last
      BY <2>1, <3>1, <3>2
    <3>4. [i \in 1 .. k |-> next + i - 1] \in Seq(1 .. last)
      BY <3>2, <3>3
    <3>5. QED
      BY <2>1, <3>1, <3>4
  <2>2. QED
    BY <2>1 DEF Rejoin, PoolTypeOK
<1>2. rejoins' \in 0 .. MaxRejoins
  BY PoolAssumption DEF PoolTypeOK, Rejoin
<1>3. QED
  BY <1>1, <1>2 DEF PoolTypeOK, Rejoin, workerVars, historyVars

----------------------------------------------------------------------------
(* The connections. *)

\* What a message says is well typed, and the times are numbers.
LEMMA MessageTypes ==
  ASSUME TypeOK, NEW e \in Events
  PROVE  /\ Device(e) \in Devices /\ Status(e) \in Statuses
         /\ Time(e) \in Times /\ Time(e) \in Nat /\ Time(e) # NoTime
         /\ log[e] = [device |-> Device(e), status |-> Status(e), time |-> Time(e)]
BY ConnectionAssumption DEF TypeOK, Messages, Device, Status, Time

\* A worker past its idle step handles a message of the log.
LEMMA HeldEvent ==
  ASSUME TypeOK, NEW w \in Workers, pc[w] # "idle"
  PROVE  ev[w] \in Events
BY DEF TypeOK, PoolTypeOK, Events

\* Every reachable state is well formed.
THEOREM ConnectionTypeCorrect == Spec => []TypeOK
<1> USE ConnectionAssumption
<1>1. Init => TypeOK
  <2> SUFFICES ASSUME Init
               PROVE  TypeOK
    OBVIOUS
  <2>1. PoolTypeOK(LogEnd, Steps)
    BY PoolInitType DEF Init
  <2>2. QED
    BY <2>1 DEF Init, TypeOK, Steps, Statuses, Events
<1>2. TypeOK /\ [Next]_vars => TypeOK'
  <2> SUFFICES ASSUME TypeOK, [Next]_vars
               PROVE  TypeOK'
    OBVIOUS
  <2> DEFINE DataOK == /\ exists \in [Devices -> BOOLEAN]
                       /\ status \in [Devices -> Statuses]
                       /\ lastSeen \in [Devices -> Times \cup {NoTime}]
                       /\ key \in [Devices -> Times \cup {NoTime}]
                       /\ topic \subseteq Events
                       /\ dropped \subseteq Events
  <2>0. PoolTypeOK(LogEnd, Steps) /\ DataOK /\ log \in [Events -> Messages]
    BY DEF TypeOK, Steps
  <2>1. ASSUME PoolTypeOK(LogEnd, Steps)', DataOK', log' = log
        PROVE  TypeOK'
    BY <2>0, <2>1 DEF TypeOK, Steps
  <2>2. ASSUME NEW w \in Workers, pc[w] # "idle", WriteRow(w)
        PROVE  /\ exists' \in [Devices -> BOOLEAN]
               /\ status' \in [Devices -> Statuses]
               /\ lastSeen' \in [Devices -> Times \cup {NoTime}]
    <3>1. Device(ev[w]) \in Devices /\ Status(ev[w]) \in Statuses /\ Time(ev[w]) \in Times
      BY <2>2, HeldEvent, MessageTypes
    <3>2. QED
      BY <2>0, <2>2, <3>1 DEF WriteRow
  <2>3. ASSUME NEW w \in Workers, pc[w] # "idle", WriteKey(w)
        PROVE  key' \in [Devices -> Times \cup {NoTime}]
    <3>1. Device(ev[w]) \in Devices /\ Time(ev[w]) \in Times
      BY <2>3, HeldEvent, MessageTypes
    <3>2. QED
      BY <2>0, <2>3, <3>1 DEF WriteKey
  <2>4. ASSUME NEW w \in Workers, pc[w] # "idle", Send(w) \/ SendFails(w)
        PROVE  topic' \subseteq Events /\ dropped' \subseteq Events
    <3>1. ev[w] \in Events
      BY <2>4, HeldEvent
    <3>2. QED
      BY <2>0, <2>4, <3>1 DEF Send, SendFails
  <2>5. ASSUME NEW w \in Workers, Begin(w)
        PROVE  TypeOK'
    <3>1. PoolTypeOK(LogEnd, Steps)'
      BY <2>0, <2>5, StartType DEF Begin, Steps
    <3>2. QED
      BY <2>0, <2>1, <2>5, <3>1 DEF Begin, rowVars, topicVars
  <2>6. ASSUME NEW w \in Workers, Finish(w)
        PROVE  TypeOK'
    <3>1. PoolTypeOK(LogEnd, Steps)'
      BY <2>0, <2>6, CommitType DEF Finish
    <3>2. QED
      BY <2>0, <2>1, <2>6, <3>1 DEF Finish, rowVars, topicVars
  <2>7. ASSUME NEW w \in Workers, Update(w) \/ SetKey(w)
        PROVE  TypeOK'
    <3>1. PoolTypeOK(LogEnd, Steps)'
      BY <2>0, <2>7, GoToType DEF Update, SetKey, Steps
    <3>2. DataOK'
      BY <2>0, <2>2, <2>3, <2>7 DEF Update, SetKey, rowVars, topicVars
    <3>3. QED
      BY <2>1, <2>7, <3>1, <3>2 DEF Update, SetKey
  <2>8. ASSUME NEW w \in Workers, Ignore(w) \/ Publish(w)
        PROVE  TypeOK'
    <3>1. PoolTypeOK(LogEnd, Steps)'
      BY <2>0, <2>8, AcknowledgeType DEF Ignore, Publish
    <3>2. DataOK'
      BY <2>0, <2>4, <2>8 DEF Ignore, Publish, rowVars, topicVars
    <3>3. QED
      BY <2>1, <2>8, <3>1, <3>2 DEF Ignore, Publish
  <2>9. ASSUME NEW w \in Workers, UpdateFails(w) \/ SetKeyFails(w) \/ PublishFails(w)
        PROVE  TypeOK'
    <3>1. pc[w] # "idle" /\ Retry(w, "update") /\ log' = log
      BY <2>9 DEF UpdateFails, SetKeyFails, PublishFails
    <3>2. PoolTypeOK(LogEnd, Steps)'
      BY <2>0, <3>1, RetryType DEF Steps
    <3>3. CASE UpdateFails(w)
      BY <2>0, <2>1, <2>2, <3>1, <3>2, <3>3 DEF UpdateFails, rowVars, topicVars
    <3>4. CASE SetKeyFails(w)
      BY <2>0, <2>1, <2>3, <3>1, <3>2, <3>4 DEF SetKeyFails, rowVars, topicVars
    <3>5. CASE PublishFails(w)
      BY <2>0, <2>1, <2>4, <3>1, <3>2, <3>5 DEF PublishFails, rowVars, topicVars
    <3>6. QED
      BY <2>9, <3>3, <3>4, <3>5
  <2>10. ASSUME NEW d \in Devices, KeyExpires(d) \/ Delete(d)
         PROVE  TypeOK'
    <3>1. PoolTypeOK(LogEnd, Steps)'
      BY <2>0, <2>10 DEF KeyExpires, Delete, PoolTypeOK, poolVars, readerVars,
                         workerVars, historyVars, boundVars
    <3>2. DataOK'
      BY <2>0, <2>10 DEF KeyExpires, Delete, rowVars, topicVars
    <3>3. QED
      BY <2>1, <2>10, <3>1, <3>2 DEF KeyExpires, Delete
  <2>11. CASE Disturb
    <3>1. PoolTypeOK(LogEnd, Steps)'
      BY <2>0, <2>11, RestartType, RejoinType DEF Disturb
    <3>2. QED
      BY <2>0, <2>1, <2>11, <3>1 DEF Disturb, rowVars, topicVars
  <2>12. CASE UNCHANGED vars
    BY <2>12 DEF vars, TypeOK, PoolTypeOK, poolVars, readerVars, workerVars,
                 historyVars, boundVars, rowVars, topicVars
  <2>13. QED
    BY <2>5, <2>6, <2>7, <2>8, <2>9, <2>10, <2>11, <2>12 DEF Next, Worker, Handle
<1>3. QED
  BY <1>1, <1>2, PTL DEF Spec

-----------------------------------------------------------------------------
(* What a step may do to a row: forget it, or see a newer message.          *)

LEMMA SeenGrows ==
  ASSUME TypeOK, [Next]_vars
  PROVE  /\ log' = log
         /\ \A d \in Devices : lastSeen[d] <= lastSeen'[d]
         /\ \A d \in Devices : exists'[d] => exists[d]
<1> USE DEF rowVars, topicVars
<1>1. /\ lastSeen \in [Devices -> Nat]
      /\ exists \in [Devices -> BOOLEAN]
  <2>1. Times \cup {NoTime} \subseteq Nat
    BY ConnectionAssumption DEF NoTime
  <2>2. lastSeen \in [Devices -> Times \cup {NoTime}] /\ exists \in [Devices -> BOOLEAN]
    BY DEF TypeOK
  <2>3. QED
    BY <2>1, <2>2
<1>2. ASSUME UNCHANGED <<log, rowVars>>
      PROVE  /\ log' = log
             /\ \A d \in Devices : lastSeen[d] <= lastSeen'[d]
             /\ \A d \in Devices : exists'[d] => exists[d]
  BY <1>1, <1>2
<1>3. ASSUME NEW w \in Workers, Applies(w), WriteRow(w), log' = log
      PROVE  /\ log' = log
             /\ \A d \in Devices : lastSeen[d] <= lastSeen'[d]
             /\ \A d \in Devices : exists'[d] => exists[d]
  BY <1>1, <1>3 DEF Applies, WriteRow
<1>4. CASE \E w \in Workers : Begin(w) \/ Finish(w) \/ Ignore(w) \/ SetKey(w)
                              \/ SetKeyFails(w) \/ Publish(w) \/ PublishFails(w)
  BY <1>4, <1>2 DEF Begin, Finish, Ignore, SetKey, SetKeyFails, Publish, PublishFails
<1>5. CASE \E w \in Workers : Update(w) \/ UpdateFails(w)
  BY <1>5, <1>2, <1>3 DEF Update, UpdateFails
<1>6. ASSUME NEW d \in Devices, Delete(d)
      PROVE  /\ log' = log
             /\ \A c \in Devices : lastSeen[c] <= lastSeen'[c]
             /\ \A c \in Devices : exists'[c] => exists[c]
  BY <1>1, <1>6 DEF Delete
<1>7. CASE (\E d \in Devices : KeyExpires(d)) \/ Disturb \/ UNCHANGED vars
  BY <1>7, <1>2 DEF KeyExpires, Disturb, vars
<1>8. QED
  BY <1>4, <1>5, <1>6, <1>7 DEF Next, Worker, Handle

\* What a row has seen is a number.
LEMMA SeenTypes ==
  ASSUME TypeOK, NEW d \in Devices
  PROVE  lastSeen[d] \in Nat
<1>1. Times \cup {NoTime} \subseteq Nat
  BY ConnectionAssumption DEF NoTime
<1>2. QED
  BY <1>1 DEF TypeOK

\* What was sent stays sent, and the change of a worker about to publish
\* joins it.
LEMMA SentGrows ==
  ASSUME TypeOK, [Next]_vars
  PROVE  \/ Sent' = Sent
         \/ \E w \in Workers : /\ pc[w] = "publish"
                               /\ Sent' = Sent \cup {ev[w]}
<1> USE DEF rowVars, topicVars, Sent
<1>1. CASE \E w \in Workers : Begin(w) \/ Finish(w) \/ Update(w) \/ Ignore(w)
                              \/ UpdateFails(w) \/ SetKey(w) \/ SetKeyFails(w)
  BY <1>1 DEF Begin, Finish, Update, Ignore, UpdateFails, SetKey, SetKeyFails
<1>2. ASSUME NEW w \in Workers, Publish(w) \/ PublishFails(w)
      PROVE  pc[w] = "publish" /\ (Sent' = Sent \/ Sent' = Sent \cup {ev[w]})
  BY <1>2 DEF Publish, PublishFails, Send, SendFails
<1>3. CASE \E d \in Devices : KeyExpires(d) \/ Delete(d)
  BY <1>3 DEF KeyExpires, Delete
<1>4. CASE Disturb \/ UNCHANGED vars
  BY <1>4 DEF Disturb, vars
<1>5. QED
  BY <1>1, <1>2, <1>3, <1>4 DEF Next, Worker, Handle

\* How keys change: to nothing, or to the time of a worker's message.
LEMMA KeyChanges ==
  ASSUME TypeOK, [Next]_vars, NEW d \in Devices
  PROVE  \/ key'[d] = key[d]
         \/ key'[d] = NoTime
         \/ \E w \in Workers : /\ pc[w] = "redis"
                               /\ Device(ev[w]) = d
                               /\ key'[d] = Time(ev[w])
<1> USE DEF rowVars, topicVars
<1>0. key \in [Devices -> Times \cup {NoTime}]
  BY DEF TypeOK
<1>1. CASE \E w \in Workers : Begin(w) \/ Finish(w) \/ Update(w) \/ Ignore(w)
                              \/ UpdateFails(w) \/ Publish(w) \/ PublishFails(w)
  BY <1>1 DEF Begin, Finish, Update, Ignore, UpdateFails, Publish, PublishFails
<1>2. ASSUME NEW w \in Workers, SetKey(w) \/ SetKeyFails(w)
      PROVE  \/ key'[d] = key[d]
             \/ key'[d] = NoTime
             \/ pc[w] = "redis" /\ Device(ev[w]) = d /\ key'[d] = Time(ev[w])
  BY <1>0, <1>2 DEF SetKey, SetKeyFails, WriteKey
<1>3. CASE \E c \in Devices : KeyExpires(c) \/ Delete(c)
  BY <1>0, <1>3 DEF KeyExpires, Delete
<1>4. CASE Disturb \/ UNCHANGED vars
  BY <1>4 DEF Disturb, vars
<1>5. QED
  BY <1>1, <1>2, <1>3, <1>4 DEF Next, Worker, Handle

-----------------------------------------------------------------------------
(* The other things a step may change. *)

\* A row changes by the message of a worker at the UPDATE.
LEMMA RowChanges ==
  ASSUME TypeOK, [Next]_vars, NEW d \in Devices
  PROVE  \/ status'[d] = status[d] /\ lastSeen'[d] = lastSeen[d]
         \/ \E w \in Workers : /\ pc[w] = "update"
                               /\ Device(ev[w]) = d
                               /\ status'[d] = Status(ev[w])
                               /\ lastSeen'[d] = Time(ev[w])
<1> USE DEF rowVars, topicVars
<1>0. /\ status \in [Devices -> Statuses]
      /\ lastSeen \in [Devices -> Times \cup {NoTime}]
  BY DEF TypeOK
<1>1. CASE \E w \in Workers : Begin(w) \/ Finish(w) \/ Ignore(w) \/ SetKey(w)
                              \/ SetKeyFails(w) \/ Publish(w) \/ PublishFails(w)
  BY <1>1 DEF Begin, Finish, Ignore, SetKey, SetKeyFails, Publish, PublishFails
<1>2. ASSUME NEW w \in Workers, Update(w) \/ UpdateFails(w)
      PROVE  \/ status'[d] = status[d] /\ lastSeen'[d] = lastSeen[d]
             \/ /\ pc[w] = "update"
                /\ Device(ev[w]) = d
                /\ status'[d] = Status(ev[w])
                /\ lastSeen'[d] = Time(ev[w])
  BY <1>0, <1>2 DEF Update, UpdateFails, WriteRow
<1>3. CASE \E c \in Devices : KeyExpires(c) \/ Delete(c)
  BY <1>3 DEF KeyExpires, Delete
<1>4. CASE Disturb \/ UNCHANGED vars
  BY <1>4 DEF Disturb, vars
<1>5. QED
  BY <1>1, <1>2, <1>3, <1>4 DEF Next, Worker, Handle

\* A message is acknowledged because the UPDATE ignores it or because its
\* change has been sent.
LEMMA AckedGrows ==
  ASSUME TypeOK, [Next]_vars
  PROVE  \/ acked' = acked
         \/ \E w \in Workers : /\ pc[w] = "update" /\ ~Applies(w)
                               /\ acked' = acked \cup {ev[w]}
                               /\ UNCHANGED rowVars
         \/ \E w \in Workers : /\ pc[w] = "publish"
                               /\ acked' = acked \cup {ev[w]}
                               /\ Sent' = Sent \cup {ev[w]}
<1> USE DEF rowVars, topicVars
<1>1. CASE \E w \in Workers : Begin(w) \/ Finish(w) \/ Update(w) \/ SetKey(w)
  BY <1>1 DEF Begin, Finish, Update, SetKey, Start, Commit, GoTo, historyVars
<1>2. CASE \E w \in Workers : UpdateFails(w) \/ SetKeyFails(w) \/ PublishFails(w)
  BY <1>2 DEF UpdateFails, SetKeyFails, PublishFails, Retry, historyVars
<1>3. CASE \E w \in Workers : Ignore(w)
  BY <1>3 DEF Ignore, Acknowledge
<1>4. CASE \E w \in Workers : Publish(w)
  BY <1>4 DEF Publish, Send, Sent, Acknowledge
<1>5. CASE \E d \in Devices : KeyExpires(d) \/ Delete(d)
  BY <1>5 DEF KeyExpires, Delete, poolVars, historyVars
<1>6. CASE Disturb \/ UNCHANGED vars
  BY <1>6 DEF Disturb, Restart, Rejoin, vars, poolVars, historyVars
<1>7. QED
  BY <1>1, <1>2, <1>3, <1>4, <1>5, <1>6 DEF Next, Worker, Handle

\* A worker is past the UPDATE because it was before, or because it has just
\* written what its message says.
LEMMA PassesUpdate ==
  ASSUME TypeOK, [Next]_vars, NEW w \in Workers, pc'[w] \in {"redis", "publish"}
  PROVE  /\ ev'[w] = ev[w]
         /\ pc[w] # "idle"
         /\ \/ pc[w] \in {"redis", "publish"}
            \/ lastSeen'[Device(ev[w])] = Time(ev[w])
<1> USE DEF rowVars, topicVars
<1>0. /\ pc \in [Workers -> Steps \cup {"idle", "commit"}]
      /\ ev \in [Workers -> Events \cup {NoEvent}]
      /\ lastSeen \in [Devices -> Times \cup {NoTime}]
  BY DEF TypeOK, PoolTypeOK, Steps, Events
<1>1. ASSUME NEW v \in Workers, Begin(v)
      PROVE  w # v /\ pc'[w] = pc[w] /\ ev'[w] = ev[w]
  <2>1. pc' = [pc EXCEPT ![v] = "update"] /\ ev' = [ev EXCEPT ![v] = NextMessage]
    BY <1>1 DEF Begin, Start
  <2>2. v # w
    BY <1>0, <2>1
  <2>3. QED
    BY <1>0, <2>1, <2>2
<1>2. ASSUME NEW v \in Workers, Finish(v)
      PROVE  pc'[w] = pc[w] /\ ev'[w] = ev[w]
  <2>1. pc' = [pc EXCEPT ![v] = "idle"] /\ ev' = [ev EXCEPT ![v] = NoEvent]
    BY <1>2 DEF Finish, Commit, Release
  <2>2. QED
    BY <1>0, <2>1
<1>3. ASSUME NEW v \in Workers, Retry(v, "update")
      PROVE  pc'[w] = pc[w] /\ ev'[w] = ev[w]
  <2>1. CASE pc' = [pc EXCEPT ![v] = "update"] /\ ev' = ev
    BY <1>0, <2>1
  <2>2. CASE pc' = [pc EXCEPT ![v] = "idle"] /\ ev' = [ev EXCEPT ![v] = NoEvent]
    BY <1>0, <2>2
  <2>3. QED
    BY <1>3, <2>1, <2>2 DEF Retry, Release
<1>4. CASE \E v \in Workers : UpdateFails(v) \/ SetKeyFails(v) \/ PublishFails(v)
  BY <1>3, <1>4 DEF UpdateFails, SetKeyFails, PublishFails
<1>5. CASE \E v \in Workers : Update(v)
  <2> PICK v \in Workers : Update(v)
    BY <1>5
  <2>1. pc' = [pc EXCEPT ![v] = "redis"] /\ ev' = ev /\ pc[v] = "update"
    BY DEF Update, GoTo
  <2>2. CASE v = w
    <3>1. ev[w] \in Events
      BY <2>1, <2>2, HeldEvent
    <3>2. Device(ev[w]) \in Devices
      BY <3>1, MessageTypes
    <3>3. lastSeen' = [lastSeen EXCEPT ![Device(ev[w])] = Time(ev[w])]
      BY <2>2 DEF Update, WriteRow
    <3>4. lastSeen'[Device(ev[w])] = Time(ev[w])
      BY <1>0, <3>2, <3>3
    <3>5. QED
      BY <2>1, <2>2, <3>4
  <2>3. CASE v # w
    BY <1>0, <2>1, <2>3
  <2>4. QED
    BY <2>2, <2>3
<1>6. CASE \E v \in Workers : SetKey(v)
  <2> PICK v \in Workers : SetKey(v)
    BY <1>6
  <2>1. pc' = [pc EXCEPT ![v] = "publish"] /\ ev' = ev /\ pc[v] = "redis"
    BY DEF SetKey, GoTo
  <2>2. QED
    BY <1>0, <2>1
<1>7. CASE \E v \in Workers : Ignore(v) \/ Publish(v)
  <2> PICK v \in Workers : Acknowledge(v)
    BY <1>7 DEF Ignore, Publish
  <2>1. pc' = [pc EXCEPT ![v] = "commit"] /\ ev' = ev
    BY DEF Acknowledge
  <2>2. QED
    BY <1>0, <2>1
<1>8. CASE Restart
  BY <1>8 DEF Restart
<1>9. CASE Rejoin(LogEnd) \/ UNCHANGED vars \/ \E d \in Devices : KeyExpires(d) \/ Delete(d)
  BY <1>9 DEF Rejoin, vars, poolVars, workerVars, KeyExpires, Delete
<1>10. QED
  BY <1>1, <1>2, <1>4, <1>5, <1>6, <1>7, <1>8, <1>9 DEF Next, Worker, Handle, Disturb

-----------------------------------------------------------------------------
(* Every step preserves each part of Consistent. *)

LEMMA HandledSeenStep ==
  ASSUME TypeOK, TypeOK', HandledSeen, [Next]_vars
  PROVE  HandledSeen'
<1> SUFFICES ASSUME NEW w \in Workers, pc'[w] \in {"redis", "publish"}
             PROVE  log'[ev'[w]].time <= lastSeen'[log'[ev'[w]].device]
  BY DEF HandledSeen, Time, Device
<1> DEFINE e == ev[w]
           d == Device(e)
<1>1. /\ ev'[w] = e
      /\ pc[w] # "idle"
      /\ pc[w] \in {"redis", "publish"} \/ lastSeen'[d] = Time(e)
  BY PassesUpdate
<1>2. e \in Events
  BY <1>1, HeldEvent
<1>3. d \in Devices /\ Time(e) \in Nat
  BY <1>2, MessageTypes
<1>4. lastSeen[d] <= lastSeen'[d] /\ log' = log
  BY <1>3, SeenGrows
<1>5. lastSeen[d] \in Nat /\ lastSeen'[d] \in Nat
  <2>1. \A c \in Devices : lastSeen[c] \in Nat
    BY SeenTypes
  <2>2. Times \cup {NoTime} \subseteq Nat /\ lastSeen' \in [Devices -> Times \cup {NoTime}]
    BY ConnectionAssumption DEF TypeOK, NoTime
  <2>3. QED
    BY <1>3, <2>1, <2>2
<1>6. log'[ev'[w]].time = Time(e) /\ log'[ev'[w]].device = d
  BY <1>1, <1>4 DEF Time, Device
<1>7. Time(e) <= lastSeen'[d]
  <2>1. CASE lastSeen'[d] = Time(e)
    BY <1>3, <2>1
  <2>2. CASE pc[w] \in {"redis", "publish"}
    <3>1. Time(e) <= lastSeen[d]
      BY <2>2 DEF HandledSeen
    <3>2. QED
      BY <1>3, <1>4, <1>5, <3>1
  <2>3. QED
    BY <1>1, <2>1, <2>2
<1>8. QED
  BY <1>6, <1>7

LEMMA RowFromLogStep ==
  ASSUME TypeOK, RowFromLog, [Next]_vars
  PROVE  RowFromLog'
<1> SUFFICES ASSUME NEW d \in Devices, exists'[d], lastSeen'[d] # NoTime
             PROVE  \E e \in Events :
                      log'[e] = [device |-> d, status |-> status'[d],
                                 time |-> lastSeen'[d]]
  BY DEF RowFromLog
<1>1. exists[d] /\ log' = log
  BY SeenGrows
<1>2. CASE status'[d] = status[d] /\ lastSeen'[d] = lastSeen[d]
  BY <1>1, <1>2 DEF RowFromLog
<1>3. CASE \E w \in Workers : /\ pc[w] = "update"
                              /\ Device(ev[w]) = d
                              /\ status'[d] = Status(ev[w])
                              /\ lastSeen'[d] = Time(ev[w])
  <2> PICK w \in Workers : /\ pc[w] = "update"
                           /\ Device(ev[w]) = d
                           /\ status'[d] = Status(ev[w])
                           /\ lastSeen'[d] = Time(ev[w])
    BY <1>3
  <2>1. ev[w] \in Events
    BY HeldEvent
  <2>2. log[ev[w]] = [device |-> d, status |-> status'[d], time |-> lastSeen'[d]]
    BY <2>1, MessageTypes
  <2>3. QED
    BY <1>1, <2>1, <2>2
<1>4. QED
  BY <1>2, <1>3, RowChanges

LEMMA SentStep ==
  ASSUME TypeOK, TypeOK', HandledSeen, SentWasApplied, [Next]_vars
  PROVE  SentWasApplied'
<1> SUFFICES ASSUME NEW e \in Sent'
             PROVE  log'[e].time <= lastSeen'[log'[e].device]
  BY DEF SentWasApplied, Time, Device
<1> DEFINE d == Device(e)
<1>0. Sent \subseteq Events /\ Sent' \subseteq Events
  BY DEF TypeOK, Events, Sent
<1>1. e \in Events
  BY <1>0
<1>2. d \in Devices /\ Time(e) \in Nat
  BY <1>1, MessageTypes
<1>3. lastSeen[d] <= lastSeen'[d] /\ log' = log
  BY <1>2, SeenGrows
<1>4. lastSeen[d] \in Nat /\ lastSeen'[d] \in Nat
  <2>1. \A c \in Devices : lastSeen[c] \in Nat
    BY SeenTypes
  <2>2. Times \cup {NoTime} \subseteq Nat /\ lastSeen' \in [Devices -> Times \cup {NoTime}]
    BY ConnectionAssumption DEF TypeOK, NoTime
  <2>3. QED
    BY <1>2, <2>1, <2>2
<1>5. log'[e].time = Time(e) /\ log'[e].device = d
  BY <1>3 DEF Time, Device
<1>6. Time(e) <= lastSeen[d]
  <2>1. CASE e \in Sent
    BY <2>1 DEF SentWasApplied
  <2>2. CASE \E w \in Workers : pc[w] = "publish" /\ e = ev[w]
    BY <2>2 DEF HandledSeen
  <2>3. CASE Sent' = Sent
    BY <2>1, <2>3
  <2>4. ASSUME NEW w \in Workers, pc[w] = "publish", Sent' = Sent \cup {ev[w]}
        PROVE  Time(e) <= lastSeen[d]
    <3>1. e \in Sent \/ e = ev[w]
      BY <2>4
    <3>2. QED
      BY <2>1, <2>2, <2>4, <3>1
  <2>5. QED
    BY <2>3, <2>4, SentGrows
<1>7. QED
  BY <1>2, <1>3, <1>4, <1>5, <1>6

LEMMA KeyStep ==
  ASSUME TypeOK, TypeOK', HandledSeen, KeyNotAhead, [Next]_vars
  PROVE  KeyNotAhead'
<1> SUFFICES ASSUME NEW d \in Devices
             PROVE  key'[d] <= lastSeen'[d]
  BY DEF KeyNotAhead
<1>1. Times \cup {NoTime} \subseteq Nat
  BY ConnectionAssumption DEF NoTime
<1>2. key[d] \in Nat /\ key'[d] \in Nat /\ lastSeen[d] \in Nat /\ lastSeen'[d] \in Nat
  BY <1>1 DEF TypeOK
<1>3. lastSeen[d] <= lastSeen'[d] /\ key[d] <= lastSeen[d]
  BY SeenGrows DEF KeyNotAhead
<1>4. CASE key'[d] = key[d]
  BY <1>2, <1>3, <1>4
<1>5. CASE key'[d] = NoTime
  BY <1>2, <1>5 DEF NoTime
<1>6. CASE \E w \in Workers : /\ pc[w] = "redis"
                              /\ Device(ev[w]) = d
                              /\ key'[d] = Time(ev[w])
  <2>1. key'[d] <= lastSeen[d]
    BY <1>6 DEF HandledSeen
  <2>2. QED
    BY <1>2, <1>3, <2>1
<1>7. QED
  BY <1>4, <1>5, <1>6, KeyChanges

LEMMA AckedStep ==
  ASSUME TypeOK, TypeOK', AckedPublished, [Next]_vars
  PROVE  AckedPublished'
<1>0. /\ Sent \subseteq Events /\ Sent' \subseteq Events
      /\ acked \subseteq Events /\ acked' \subseteq Events
  BY DEF TypeOK, PoolTypeOK, Events, Sent
<1> SUFFICES ASSUME NEW e \in acked', exists'[Device(e)']
             PROVE  \/ lastSeen'[Device(e)'] > Time(e)'
                    \/ e \in Sent'
  BY DEF AckedPublished, Device, Time
<1> DEFINE d == Device(e)
<1>1. d \in Devices /\ Time(e) \in Nat
  BY <1>0, MessageTypes
<1>2. /\ log' = log
      /\ lastSeen[d] <= lastSeen'[d]
      /\ exists'[d] => exists[d]
  BY <1>1, SeenGrows
<1>3. lastSeen[d] \in Nat /\ lastSeen'[d] \in Nat
  <2>1. \A c \in Devices : lastSeen[c] \in Nat
    BY SeenTypes
  <2>2. Times \cup {NoTime} \subseteq Nat /\ lastSeen' \in [Devices -> Times \cup {NoTime}]
    BY ConnectionAssumption DEF TypeOK, NoTime
  <2>3. QED
    BY <1>1, <2>1, <2>2
<1>4. Time(e)' = Time(e) /\ Device(e)' = d
  BY <1>2 DEF Time, Device
<1>5. exists[d]
  BY <1>2, <1>4
<1>6. Sent \subseteq Sent'
  BY SentGrows
<1>7. CASE e \in acked
  <2>1. CASE lastSeen[d] > Time(e)
    BY <1>1, <1>2, <1>3, <1>4, <2>1
  <2>2. CASE e \in Sent
    BY <1>6, <2>2
  <2>3. QED
    BY <1>5, <1>7, <2>1, <2>2 DEF AckedPublished
<1>8. ASSUME NEW w \in Workers, pc[w] = "update", ~Applies(w), e = ev[w], UNCHANGED rowVars
      PROVE  lastSeen'[Device(e)'] > Time(e)'
  <2>1. ~(lastSeen[d] <= Time(e))
    BY <1>5, <1>8 DEF Applies
  <2>2. QED
    BY <1>1, <1>2, <1>3, <1>4, <2>1
<1>9. ASSUME NEW w \in Workers, e = ev[w], Sent' = Sent \cup {ev[w]}
      PROVE  e \in Sent'
  BY <1>9
<1>10. QED
  BY <1>7, <1>8, <1>9, AckedGrows

-----------------------------------------------------------------------------
(* The theorems. *)

\* The row, the key, the changes and the acknowledgements stay consistent, in
\* whatever order workers handle, retry and redo the three writes of a handler.
THEOREM AlwaysConsistent == Spec => []Consistent
<1>1. Init => Consistent
  <2> SUFFICES ASSUME Init
               PROVE  Consistent
    OBVIOUS
  <2>1. HandledSeen /\ RowFromLog /\ AckedPublished
    BY DEF Init, PoolInit, HandledSeen, RowFromLog, AckedPublished
  <2>2. SentWasApplied
    BY DEF Init, Sent, SentWasApplied
  <2>3. KeyNotAhead
    BY DEF Init, KeyNotAhead, NoTime
  <2>4. QED
    BY <2>1, <2>2, <2>3 DEF Consistent
<1>2. TypeOK /\ TypeOK' /\ Consistent /\ [Next]_vars => Consistent'
  BY HandledSeenStep, RowFromLogStep, SentStep, KeyStep, AckedStep
     DEF Consistent
<1>3. QED
  BY <1>1, <1>2, ConnectionTypeCorrect, PTL DEF Spec

\* The row of a device holds what one message said, and no acknowledged
\* message is newer (device_connection_store.go, the guarded UPDATE).
THEOREM NewestMessageWins == Spec => []NewestWins
<1>1. TypeOK /\ Consistent => NewestWins
  <2> SUFFICES ASSUME TypeOK, Consistent, NEW d \in Devices, exists[d]
               PROVE  /\ lastSeen[d] # NoTime =>
                           \E e \in Events : log[e] = [device |-> d, status |-> status[d],
                                                       time |-> lastSeen[d]]
                      /\ \A e \in acked : Device(e) = d => Time(e) <= lastSeen[d]
    BY DEF NewestWins
  <2>1. lastSeen[d] # NoTime =>
          \E e \in Events : log[e] = [device |-> d, status |-> status[d],
                                      time |-> lastSeen[d]]
    BY DEF Consistent, RowFromLog
  <2>2. ASSUME NEW e \in acked, Device(e) = d
        PROVE  Time(e) <= lastSeen[d]
    <3>1. e \in Events /\ lastSeen[d] \in Nat
      BY SeenTypes DEF TypeOK, PoolTypeOK, Events
    <3>2. Time(e) \in Nat
      BY <3>1, MessageTypes
    <3>3. CASE lastSeen[d] > Time(e)
      BY <3>1, <3>2, <3>3
    <3>4. CASE e \in Sent
      BY <2>2, <3>4 DEF Consistent, SentWasApplied
    <3>5. QED
      BY <2>2, <3>3, <3>4 DEF Consistent, AckedPublished
  <2>3. QED
    BY <2>1, <2>2
<1>2. QED
  BY <1>1, AlwaysConsistent, ConnectionTypeCorrect, PTL

\* The change of the newest acknowledged message was sent, however often its
\* handler failed between the UPDATE and the publish: if the topic lacks it, the
\* sink had reported the lost write as a success.
THEOREM NewestIsPublished == Spec => []NewestPublished
<1>1. TypeOK /\ Consistent => NewestPublished
  <2> SUFFICES ASSUME TypeOK, Consistent,
                      NEW e \in acked, exists[Device(e)], lastSeen[Device(e)] = Time(e)
               PROVE  e \in Sent
    BY DEF NewestPublished
  <2>1. e \in Events
    BY DEF TypeOK, PoolTypeOK, Events
  <2>2. Time(e) \in Nat
    BY <2>1, MessageTypes
  <2>3. ~(lastSeen[Device(e)] > Time(e))
    BY <2>2
  <2>4. QED
    BY <2>3 DEF Consistent, AckedPublished
<1>2. QED
  BY <1>1, AlwaysConsistent, ConnectionTypeCorrect, PTL

\* Nothing is published that the row has not seen (the handler publishes last).
THEOREM PublishedIsApplied == Spec => []PublishedWasApplied
<1>1. Consistent => PublishedWasApplied
  BY DEF Consistent, SentWasApplied, PublishedWasApplied, Sent
<1>2. QED
  BY <1>1, AlwaysConsistent, PTL

\* The key in Redis is never newer than the row.
THEOREM KeyFollowsRow == Spec => []KeyNotAhead
BY AlwaysConsistent, PTL DEF Consistent

=============================================================================
