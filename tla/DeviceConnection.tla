-------------------------- MODULE DeviceConnection --------------------------
(***************************************************************************)
(* The connection state of devices, as device-event-processor keeps it:    *)
(* handler/device_connection_handler.go over                               *)
(* store/device_connection_store.go and publisher/publisher.go.            *)
(*                                                                         *)
(* A message says that a device connected or disconnected at some time.  A *)
(* worker of the runner updates the device's row in PostgreSQL, then the   *)
(* device's key in Redis, then publishes the change; a failure anywhere    *)
(* restarts the whole handler.  Messages need not be in the order of their *)
(* times, and workers overtake each other.                                 *)
(*                                                                         *)
(* The runner is HandlerPool: it hands the messages out, calls the handler *)
(* again, and redelivers after a crash or a rejoin.  A message that fails  *)
(* to decode is dropped and changes nothing, as one of a device without a  *)
(* row.                                                                    *)
(***************************************************************************)
EXTENDS HandlerPool

CONSTANTS
  Devices,      \* device ids
  Times,        \* what occurred_at may be
  LogEnd        \* number of messages in the log

NoTime == 0     \* last_seen_at IS NULL, or no key in Redis

ASSUME ConnectionAssumption ==
  /\ Times \subseteq Nat \ {NoTime}
  /\ LogEnd \in Nat

VARIABLES
  log,        \* the messages: which device, which status, since when
  exists,     \* per device: does it have a row?
  status,     \* per device: connection_status of its row
  lastSeen,   \* per device: last_seen_at of its row
  key,        \* per device: the time in device:online:<tenant>:<device>
  topic,      \* the messages whose change the topic holds, in whatever order
  dropped     \* those whose change was once reported as sent, but lost

rowVars   == <<exists, status, lastSeen>>
topicVars == <<topic, dropped>>
vars      == <<poolVars, log, rowVars, key, topicVars>>

Events   == 1 .. LogEnd
Statuses == {"online", "offline"}
Messages == [device : Devices, status : Statuses, time : Times]

Device(e) == log[e].device
Status(e) == log[e].status
Time(e)   == log[e].time

-----------------------------------------------------------------------------
Init ==
  /\ PoolInit
  /\ log \in [Events -> Messages]
  /\ exists   = [d \in Devices |-> TRUE]
  /\ status   = [d \in Devices |-> "offline"]
  /\ lastSeen = [d \in Devices |-> NoTime]
  /\ key      = [d \in Devices |-> NoTime]
  /\ topic    = {}
  /\ dropped  = {}

-----------------------------------------------------------------------------
(* The three steps of the handler. *)

\* Mutant: last_seen_at < $2.
AppliesIfNewer(w) ==
  LET e == ev[w] IN exists[Device(e)] /\ lastSeen[Device(e)] < Time(e)

\* Mutant: the WHERE clause does not look at last_seen_at.
AppliesAlways(w) == exists[Device(ev[w])]

\* The WHERE clause of the UPDATE: the row is there and has seen nothing newer.
Applies(w) ==
  LET e == ev[w] IN exists[Device(e)] /\ lastSeen[Device(e)] <= Time(e)

\* SET connection_status, last_seen_at.
WriteRow(w) ==
  /\ status'   = [status EXCEPT ![Device(ev[w])] = Status(ev[w])]
  /\ lastSeen' = [lastSeen EXCEPT ![Device(ev[w])] = Time(ev[w])]
  /\ UNCHANGED exists

\* updateConnectionStatus changed the row.
Update(w) ==
  /\ pc[w] = "update"
  /\ Applies(w)
  /\ WriteRow(w)
  /\ GoTo(w, "redis")
  /\ UNCHANGED <<log, key, topicVars>>

\* updateConnectionStatus changed no row: nothing else is done.
Ignore(w) ==
  /\ pc[w] = "update"
  /\ ~Applies(w)
  /\ Acknowledge(w)
  /\ UNCHANGED <<log, rowVars, key, topicVars>>

\* Mutant: an error of the transaction is only logged.
UpdateErrorIgnored(w) ==
  /\ pc[w] = "update"
  /\ (Applies(w) /\ WriteRow(w)) \/ UNCHANGED rowVars
  /\ GoTo(w, "redis")
  /\ UNCHANGED <<log, key, topicVars>>

\* The transaction fails; an error of its commit may hide that it took effect.
UpdateFails(w) ==
  /\ pc[w] = "update"
  /\ (Applies(w) /\ WriteRow(w)) \/ UNCHANGED rowVars
  /\ Retry(w, "update")
  /\ UNCHANGED <<log, key, topicVars>>

\* SET of the time with a TTL, or DEL.
WriteKey(w) ==
  key' = [key EXCEPT ![Device(ev[w])] =
            IF Status(ev[w]) = "online" THEN Time(ev[w]) ELSE NoTime]

SetKey(w) ==
  /\ pc[w] = "redis"
  /\ WriteKey(w)
  /\ GoTo(w, "publish")
  /\ UNCHANGED <<log, rowVars, topicVars>>

\* The call to Redis fails, whether or not the command was executed.
SetKeyFails(w) ==
  /\ pc[w] = "redis"
  /\ WriteKey(w) \/ UNCHANGED key
  /\ Retry(w, "update")
  /\ UNCHANGED <<log, rowVars, topicVars>>

\* Sink.Send of the worker's change. Its writer asks the brokers for no
\* acknowledgement, so a success does not say that the topic has the change.
Send(w) ==
  \/ topic' = topic \cup {ev[w]} /\ UNCHANGED dropped
  \/ dropped' = dropped \cup {ev[w]} /\ UNCHANGED topic

\* Sink.Send reports an error, whether or not the change was sent.
SendFails(w) ==
  /\ topic' = topic \cup {ev[w]} \/ UNCHANGED topic
  /\ UNCHANGED dropped

\* EventPublisher.Publish sends device.connection.changed, with a new event id
\* and the time of the message; again, if it was sent before.
Publish(w) ==
  /\ pc[w] = "publish"
  /\ Send(w)
  /\ Acknowledge(w)
  /\ UNCHANGED <<log, rowVars, key>>

PublishFails(w) ==
  /\ pc[w] = "publish"
  /\ SendFails(w)
  /\ Retry(w, "update")
  /\ UNCHANGED <<log, rowVars, key>>

-----------------------------------------------------------------------------
(* Redis, the backend, and the runner. *)

\* Mutant: SET without a TTL.
KeyStays(d) == d \notin Devices

\* The TTL of the key runs out; no later message renews it.
KeyExpires(d) ==
  /\ key[d] # NoTime
  /\ key' = [key EXCEPT ![d] = NoTime]
  /\ UNCHANGED <<poolVars, log, rowVars, topicVars>>

\* The backend deletes the device.
Delete(d) ==
  /\ exists[d]
  /\ exists' = [exists EXCEPT ![d] = FALSE]
  /\ UNCHANGED <<poolVars, log, status, lastSeen, key, topicVars>>

Handle(w) ==
  \/ Update(w)
  \/ Ignore(w)
  \/ UpdateFails(w)
  \/ SetKey(w)
  \/ SetKeyFails(w)
  \/ Publish(w)
  \/ PublishFails(w)

\* The handler is called, and its decision is committed.
Begin(w)  == NextMessage <= LogEnd /\ Start(w, "update") /\ UNCHANGED <<log, rowVars, key, topicVars>>
Finish(w) == Commit(w) /\ UNCHANGED <<log, rowVars, key, topicVars>>

Worker(w) == Begin(w) \/ Handle(w) \/ Finish(w)

\* The process crashes, or its reader rejoins the group.
Disturb == (Restart \/ Rejoin(LogEnd)) /\ UNCHANGED <<log, rowVars, key, topicVars>>

Next ==
  \/ \E w \in Workers : Worker(w)
  \/ \E d \in Devices : KeyExpires(d) \/ Delete(d)
  \/ Disturb

Spec == Init /\ [][Next]_vars

\* Every worker that can take a step takes one, and Redis expires keys.
Fairness ==
  /\ \A w \in Workers : WF_vars(Worker(w))
  /\ \A d \in Devices : WF_vars(KeyExpires(d))

LiveSpec == Spec /\ Fairness

-----------------------------------------------------------------------------
(* Properties. *)

TypeOK ==
  /\ PoolTypeOK(LogEnd, {"update", "redis", "publish"})
  /\ log \in [Events -> Messages]
  /\ exists \in [Devices -> BOOLEAN]
  /\ status \in [Devices -> Statuses]
  /\ lastSeen \in [Devices -> Times \cup {NoTime}]
  /\ key \in [Devices -> Times \cup {NoTime}]
  /\ topic \subseteq Events
  /\ dropped \subseteq Events

\* Whatever order messages arrive, overtake each other, are retried and are
\* redelivered in: the row of a device holds what one message said, and no
\* acknowledged message of the device is newer than that one.
NewestWins ==
  \A d \in Devices : exists[d] =>
    /\ lastSeen[d] # NoTime =>
         \E e \in Events : log[e] = [device |-> d, status |-> status[d],
                                     time |-> lastSeen[d]]
    /\ \A e \in acked : Device(e) = d => Time(e) <= lastSeen[d]

\* contracts/event/device_state.go: a change is published after the message
\* "has been applied to the authoritative state": what the topic says of a
\* device, its row had seen before.
PublishedWasApplied ==
  \A e \in topic : Time(e) <= lastSeen[Device(e)]

\* The changes that were sent: the topic has them, or it lost them unnoticed.
Sent == topic \cup dropped

\* Once the newest message is acknowledged its change has been sent, even if an
\* earlier call of the handler updated the row and then failed: the topic lacks
\* it only if a write was lost that the sink had reported as a success.
NewestPublished ==
  \A e \in acked :
    exists[Device(e)] /\ lastSeen[Device(e)] = Time(e)
      => e \in Sent

\* Redis never knows of a connection that the row has not seen.
KeyNotAhead == \A d \in Devices : key[d] <= lastSeen[d]

\* The strengthening that every step preserves: past the UPDATE the row has seen
\* the worker's message, and so it has seen all that was sent; the change of an
\* acknowledged message was sent unless the row had seen a newer message.
HandledSeen ==
  \A w \in Workers : pc[w] \in {"redis", "publish"} =>
    Time(ev[w]) <= lastSeen[Device(ev[w])]

RowFromLog ==
  \A d \in Devices : exists[d] /\ lastSeen[d] # NoTime =>
    \E e \in Events : log[e] = [device |-> d, status |-> status[d],
                                time |-> lastSeen[d]]

AckedPublished ==
  \A e \in acked : exists[Device(e)] =>
    \/ lastSeen[Device(e)] > Time(e)
    \/ e \in Sent

SentWasApplied ==
  \A e \in Sent : Time(e) <= lastSeen[Device(e)]

Consistent ==
  /\ HandledSeen
  /\ RowFromLog
  /\ AckedPublished
  /\ SentWasApplied
  /\ KeyNotAhead

\* The messages of a device that nothing in the log is newer than.
Newest(d) ==
  {e \in Events : /\ Device(e) = d
                  /\ \A f \in Events : Device(f) = d => Time(f) <= Time(e)}

\* The row of a device ends up saying what the newest message about it said,
\* and the change is sent, unless that message was given up or lost.
Settled(d) ==
  \A e \in Newest(d) : exists[d] /\ e \notin lost =>
    /\ lastSeen[d] = Time(e)
    /\ \E f \in Newest(d) : Status(f) = status[d]
    /\ e \in Sent

Converges == \A d \in Devices : <>[]Settled(d)

\* The key of a device that stays offline disappears from Redis, even if a
\* slow worker wrote it after the device's disconnection was handled.
OfflineKeyFades ==
  \A d \in Devices : <>[](status[d] = "offline") => <>[](key[d] = NoTime)
=============================================================================
