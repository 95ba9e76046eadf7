--------------------------- MODULE DeviceCommand ---------------------------
(***************************************************************************)
(* Property sets and service calls, from the request of a user to the      *)
(* history the user reads: device_service.go and eventbus of the backend,  *)
(* the four command handlers of device-event-processor with their stores   *)
(* and mqtt/publisher.go, and the history queries of device_store.go.      *)
(*                                                                         *)
(* The backend checks that the device is online and appends a request to   *)
(* the events topic.  A worker of the processor saves the request and then *)
(* sends the command through the API of EMQX.  The device carries it out,  *)
(* perhaps more than once, and its reply comes back through the topic to   *)
(* be stored.  Nobody waits for anybody: the status of a command is        *)
(* computed from the stored rows and the clock when the history is read.   *)
(***************************************************************************)
EXTENDS HandlerPool

CONSTANTS
  Commands,     \* command ids: the backend draws a new one for each request
  SetCommands,  \* those that are property sets; the others are service calls
  AckDeadline,  \* ticks a device has to reply
  MaxTime,      \* bound: the last tick of the clock
  MaxReplies    \* bound: how many replies reach the topic

NoCommand == "none"   \* the reply of a device that does not echo command_id

ASSUME CommandAssumption ==
  /\ SetCommands \subseteq Commands
  /\ NoCommand \notin Commands
  /\ AckDeadline \in Nat
  /\ MaxTime \in Nat
  /\ MaxReplies \in Nat

VARIABLES
  now,       \* the clock
  user,      \* per command: what its user has done and been told
  asked,     \* per command: the time its request carries
  log,       \* the events topic: requests and replies
  requests,  \* rows of device_property_set_events, device_service_call_events
  replies,   \* rows of the two tables of acknowledgements
  onTheWay,  \* commands the broker holds for the device, one copy or more
  sends,     \* history, per command: how often it was handed to the broker
  outcomes   \* history, per command: the outcomes it has had on the device

rows        == <<requests, replies>>
deviceVars  == <<onTheWay, sends, outcomes>>
vars        == <<poolVars, now, user, asked, log, rows, deviceVars>>

Ids == 1 .. MaxReplies

Request(c, at) == [kind |-> "request", command |-> c, at |-> at]
Reply(c, at, id, success) ==
  [kind |-> "reply", command |-> c, at |-> at, id |-> id, success |-> success]

Requests == {Request(c, at) : c \in Commands, at \in 0 .. MaxTime}
Replies  == {Reply(c, at, id, success) : c \in Commands \cup {NoCommand},
               at \in 0 .. MaxTime, id \in Ids, success \in BOOLEAN}

Message(w) == log[ev[w]]

-----------------------------------------------------------------------------
Init ==
  /\ PoolInit
  /\ now  = 0
  /\ user = [c \in Commands |-> "idle"]
  /\ asked = [c \in Commands |-> 0]
  /\ log  = <<>>
  /\ requests = {}
  /\ replies  = {}
  /\ onTheWay = {}
  /\ sends    = [c \in Commands |-> 0]
  /\ outcomes = [c \in Commands |-> {}]

-----------------------------------------------------------------------------
(* The backend: SetProperties and CallService. *)

Tell(c, what) == user' = [user EXCEPT ![c] = what]

\* The target of the command is looked up: only an active device whose row
\* says online is good enough, and only values its thing model accepts.
CheckTarget(c) ==
  /\ user[c] = "idle"
  /\ now + AckDeadline < MaxTime   \* bound: the clock can pass its deadline
  /\ \/ Tell(c, "refused") /\ UNCHANGED asked
     \/ Tell(c, "checked") /\ asked' = [asked EXCEPT ![c] = now]
  /\ UNCHANGED <<poolVars, now, log, rows, deviceVars>>

\* The sink reports that the request was sent; its writer asks the brokers for
\* no acknowledgement, so the topic need not have it.  The device may have gone
\* offline by now, and the deadline, which counts from the request's time, may
\* be over.
Publish(c) ==
  /\ user[c] = "checked"
  /\ log' = Append(log, Request(c, asked[c])) \/ UNCHANGED log
  /\ Tell(c, "accepted")
  /\ UNCHANGED <<poolVars, now, asked, rows, deviceVars>>

\* The producer reports an error, whether or not the request was appended.
PublishFails(c) ==
  /\ user[c] = "checked"
  /\ log' = Append(log, Request(c, asked[c])) \/ UNCHANGED log
  /\ Tell(c, "failed")
  /\ UNCHANGED <<poolVars, now, asked, rows, deviceVars>>

-----------------------------------------------------------------------------
(* The processor: a message is dispatched by its type. *)

FirstStep(e) == IF log[e].kind = "request" THEN "save" ELSE "store"

Begin(w) ==
  /\ NextMessage <= Len(log)
  /\ Start(w, FirstStep(NextMessage))
  /\ UNCHANGED <<now, user, asked, log, rows, deviceVars>>

\* INSERT ... ON CONFLICT (command_id, occurred_at) DO NOTHING.
SaveRequest(w) ==
  /\ pc[w] = "save"
  /\ requests' = requests \cup {Message(w)}
  /\ GoTo(w, "send")
  /\ UNCHANGED <<now, user, asked, log, replies, deviceVars>>

\* Mutant: an error of the INSERT is only logged.
SaveErrorIgnored(w) ==
  /\ pc[w] = "save"
  /\ requests' = requests \cup {Message(w)} \/ UNCHANGED requests
  /\ GoTo(w, "send")
  /\ UNCHANGED <<now, user, asked, log, replies, deviceVars>>

\* Mutant: a request that cannot be saved is dropped.
SaveErrorDrops(w) ==
  /\ pc[w] = "save"
  /\ requests' = requests \cup {Message(w)} \/ UNCHANGED requests
  /\ Acknowledge(w)
  /\ UNCHANGED <<now, user, asked, log, replies, deviceVars>>

SaveFails(w) ==
  /\ pc[w] = "save"
  /\ requests' = requests \cup {Message(w)} \/ UNCHANGED requests
  /\ Retry(w, "save")
  /\ UNCHANGED <<now, user, asked, log, replies, deviceVars>>

\* The broker takes the command for the device.
Enqueue(c) ==
  /\ onTheWay' = onTheWay \cup {c}
  /\ sends'    = [sends EXCEPT ![c] = @ + 1]
  /\ UNCHANGED outcomes

\* EMQX answers 2xx: it has the command, or nobody subscribes to its topic.
Send(w) ==
  /\ pc[w] = "send"
  /\ Enqueue(Message(w).command) \/ UNCHANGED deviceVars
  /\ Acknowledge(w)
  /\ UNCHANGED <<now, user, asked, log, rows>>

\* The call times out or is refused, whether or not EMQX has the command.
SendFails(w) ==
  /\ pc[w] = "send"
  /\ Enqueue(Message(w).command) \/ UNCHANGED deviceVars
  /\ Retry(w, "save")
  /\ UNCHANGED <<now, user, asked, log, rows>>

\* INSERT ... ON CONFLICT (event_id, occurred_at) DO NOTHING.
StoreReply(w) ==
  /\ pc[w] = "store"
  /\ replies' = replies \cup {Message(w)}
  /\ Acknowledge(w)
  /\ UNCHANGED <<now, user, asked, log, requests, deviceVars>>

StoreFails(w) ==
  /\ pc[w] = "store"
  /\ replies' = replies \cup {Message(w)} \/ UNCHANGED replies
  /\ Retry(w, "store")
  /\ UNCHANGED <<now, user, asked, log, requests, deviceVars>>

\* The thing model does not know the service, or not this output: dropped.
\* Replies to property sets are stored as they are.
RejectReply(w) ==
  /\ pc[w] = "store"
  /\ Message(w).command \notin SetCommands \cup {NoCommand}
  /\ Acknowledge(w)
  /\ UNCHANGED <<now, user, asked, log, rows, deviceVars>>

Finish(w) == Commit(w) /\ UNCHANGED <<now, user, asked, log, rows, deviceVars>>

Disturb ==
  /\ Restart \/ Rejoin(Len(log))
  /\ UNCHANGED <<now, user, asked, log, rows, deviceVars>>

-----------------------------------------------------------------------------
(* The device and the broker's rule engine. *)

UsedIds == {log[i].id : i \in {j \in DOMAIN log : log[j].kind = "reply"}}

\* The device carries the command out, now or again (MQTT QoS 1), and its
\* reply gets a random event id and the broker's time on its way to the topic,
\* or is lost.  A reply to a property set need not name the command.
Execute(c) ==
  /\ c \in onTheWay
  /\ onTheWay' = onTheWay \ {c} \/ UNCHANGED onTheWay
  /\ \E success \in BOOLEAN :
       /\ outcomes' = [outcomes EXCEPT ![c] = @ \cup {success}]
       /\ \/ \E id \in Ids \ UsedIds, echo \in {c} \cup (IF c \in SetCommands THEN {NoCommand} ELSE {}) :
               log' = Append(log, Reply(echo, now, id, success))
          \/ UNCHANGED log
  /\ UNCHANGED <<poolVars, now, user, asked, rows, sends>>

\* The device stays away until its session and what is queued for it expire.
Expire(c) ==
  /\ c \in onTheWay
  /\ onTheWay' = onTheWay \ {c}
  /\ UNCHANGED <<poolVars, now, user, asked, log, rows, sends, outcomes>>

Tick ==
  /\ now < MaxTime
  /\ now' = now + 1
  /\ UNCHANGED <<poolVars, user, asked, log, rows, deviceVars>>

-----------------------------------------------------------------------------
(* The history, as ListDevicePropertySetHistory computes it. *)

RowsOf(c)    == {r \in requests : r.command = c}
AnswersTo(c) == {a \in replies : a.command = c}

\* Mutant: ORDER BY occurred_at, the oldest first.
OldestFirst(a, b) == a.at < b.at \/ (a.at = b.at /\ a.id >= b.id)

\* ORDER BY occurred_at DESC, event_id DESC.
Precedes(a, b) == a.at > b.at \/ (a.at = b.at /\ a.id >= b.id)

FirstOf(answers) == CHOOSE a \in answers : \A b \in answers : Precedes(a, b)

\* Mutant: the deadline does not look at the acknowledgement.
DeadlineWins(c) ==
  CASE RowsOf(c) = {}                                        -> "unknown"
    [] RowsOf(c) # {} /\ \E r \in RowsOf(c) : now > r.at + AckDeadline -> "failed"
    [] OTHER -> IF AnswersTo(c) = {} THEN "pending"
                ELSE IF FirstOf(AnswersTo(c)).success THEN "success" ELSE "failed"

Status(c) ==
  CASE RowsOf(c) = {}      -> "unknown"
    [] RowsOf(c) # {} /\ AnswersTo(c) # {} ->
         IF FirstOf(AnswersTo(c)).success THEN "success" ELSE "failed"
    [] OTHER ->
         IF \E r \in RowsOf(c) : now <= r.at + AckDeadline THEN "pending" ELSE "failed"

-----------------------------------------------------------------------------
Handle(w) ==
  \/ SaveRequest(w)
  \/ SaveFails(w)
  \/ Send(w)
  \/ SendFails(w)
  \/ StoreReply(w)
  \/ StoreFails(w)
  \/ RejectReply(w)

Worker(w) == Begin(w) \/ Handle(w) \/ Finish(w)

Next ==
  \/ \E c \in Commands : CheckTarget(c) \/ Publish(c) \/ PublishFails(c)
  \/ \E w \in Workers : Worker(w)
  \/ \E c \in Commands : Execute(c) \/ Expire(c)
  \/ Disturb
  \/ Tick

Spec == Init /\ [][Next]_vars

\* Every worker that can take a step takes one, and time passes.
Fairness ==
  /\ \A w \in Workers : WF_vars(Worker(w))
  /\ WF_vars(Tick)

LiveSpec == Spec /\ Fairness

-----------------------------------------------------------------------------
(* Properties. *)

TypeOK ==
  /\ PoolTypeOK(Len(log), {"save", "send", "store"})
  /\ now \in 0 .. MaxTime
  /\ user \in [Commands -> {"idle", "checked", "refused", "accepted", "failed"}]
  /\ asked \in [Commands -> 0 .. MaxTime]
  /\ log \in Seq(Requests \cup Replies)
  /\ requests \subseteq Requests
  /\ replies \subseteq Replies
  /\ onTheWay \subseteq Commands
  /\ sends \in [Commands -> Nat]
  /\ outcomes \in [Commands -> SUBSET BOOLEAN]

\* Whatever fails, is retried, is redelivered or overtakes: a command is in
\* the history before the broker has it, and an acknowledgement that is stored
\* for a command answers one that is recorded and tells what the device did.
NothingUnrecorded ==
  /\ \A c \in Commands : sends[c] > 0 => RowsOf(c) # {}
  /\ \A a \in replies : a.command # NoCommand =>
       RowsOf(a.command) # {} /\ a.success \in outcomes[a.command]

\* A command is handed to the broker at most once for each call of its handler:
\* while the processor is not disturbed, no more than MaxRetries + 1 times.
SendsBounded ==
  restarts = 0 /\ rejoins = 0 => \A c \in Commands : sends[c] <= MaxRetries + 1

\* The promise of CommandLife, kept through all the tables: a command enters the
\* history before it is sent, leaves "pending" once, and shows only outcomes.
Life == INSTANCE CommandLife WITH
  shown <- [c \in Commands |-> Status(c)],
  sent  <- {c \in Commands : sends[c] > 0}

KeepsPromise == Life!Spec

\* The messages of the topic about a command.
RequestsOf(c) == {e \in DOMAIN log : log[e].kind = "request" /\ log[e].command = c}
RepliesOf(c)  == {e \in DOMAIN log : log[e].kind = "reply" /\ log[e].command = c}

\* Once every reply to a property set is acknowledged, the history shows what
\* the last one said, in whatever order the workers stored them and however
\* often; of several replies in one millisecond, what one of them said.
LastRepliesOf(c) ==
  {e \in RepliesOf(c) : \A f \in RepliesOf(c) : log[f].at <= log[e].at}

LastReplyShown ==
  \A c \in SetCommands :
    RepliesOf(c) # {} /\ RepliesOf(c) \subseteq acked
      => \E e \in LastRepliesOf(c) : Status(c) = Life!Verdict(log[e].success)

\* The strengthening of these that every step preserves.  A command has one
\* request, the one its user asked for, and only what is in the topic is stored.
OneRequest ==
  /\ \A e \in DOMAIN log : log[e].kind = "request" =>
       /\ log[e] = Request(log[e].command, asked[log[e].command])
       /\ user[log[e].command] \in {"accepted", "failed"}
  /\ requests \subseteq {log[e] : e \in DOMAIN log}

\* A request is saved before it is sent, and what reaches the device was sent.
SavedFirst ==
  /\ \A w \in Workers : pc[w] = "send" => Message(w) \in requests
  /\ \A c \in Commands :
       /\ sends[c] > 0 => RowsOf(c) # {}
       /\ c \in onTheWay \/ outcomes[c] # {} => sends[c] > 0

\* A reply tells what the device did.
RepliesTrue ==
  /\ \A e \in DOMAIN log : log[e].kind = "reply" /\ log[e].command # NoCommand =>
       log[e].success \in outcomes[log[e].command]
  /\ replies \subseteq {log[e] : e \in DOMAIN log}

\* A reply to a property set is stored before it is acknowledged.
AckedStored ==
  \A e \in acked : log[e].kind = "reply" /\ log[e].command \in SetCommands =>
    log[e] \in replies

Recorded == OneRequest /\ SavedFirst /\ RepliesTrue /\ AckedStored

\* The user was told that the command is accepted, but the topic never had its
\* request: the sink reported a success for a write that was lost.
Vanished(c) == user[c] = "accepted" /\ RequestsOf(c) = {}

\* A command the user was told is accepted ends up in the history with a final
\* status, unless its request vanished on the way to the topic, the processor
\* gave it up, or a crash lost it.
AcceptedIsSettled ==
  \A c \in Commands :
    user[c] = "accepted" ~> \/ Status(c) \in {"success", "failed"}
                            \/ \E e \in RequestsOf(c) : e \in lost
                            \/ Vanished(c)

\* contracts/CONVENTIONS.md: "Consumers MUST treat duplicate `event_id` values
\* as no-ops."  A step of a worker with a request acknowledged before.
DuplicateRequestsAreNoOps ==
  [][\A w \in Workers : pc[w] = "send" /\ pc'[w] # pc[w] /\ ev[w] \in acked
       => UNCHANGED sends]_vars
=============================================================================
