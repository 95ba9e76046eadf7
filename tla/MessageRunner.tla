--------------------------- MODULE MessageRunner ---------------------------
(***************************************************************************)
(* The consumer runtime of pkg/public/messaging: Runner.Run, its receive   *)
(* loop and its worker pool (runner.go), over the Kafka source and its     *)
(* deliveries (kafka/source.go).  One topic partition is a log of LogEnd   *)
(* messages 0 .. LogEnd-1, the group keeps one committed offset, and the   *)
(* process may crash and be started again by its supervisor.               *)
(*                                                                         *)
(* A handler is anything that answers with a decision: what a particular   *)
(* handler does with a message is the subject of other modules.            *)
(***************************************************************************)
EXTENDS Integers, Sequences, FiniteSets

CONSTANTS
  Workers,      \* the goroutines of the pool (Options.Workers of them)
  Buffer,       \* capacity of the deliveries channel
  MaxRetries,   \* handler calls after the first one
  LogEnd,       \* number of messages in the partition
  MaxRestarts,  \* bound: how many times the process is started again
  MaxRejoins    \* bound: how many times the reader rejoins its group

\* NewRunner replaces non-positive sizes and MaxRetries = 0 by its defaults.
ASSUME RunnerAssumption ==
  /\ IsFiniteSet(Workers) /\ Workers # {}
  /\ Buffer \in Nat \ {0}
  /\ MaxRetries \in Nat \ {0}
  /\ LogEnd \in Nat
  /\ MaxRestarts \in Nat
  /\ MaxRejoins \in Nat

VARIABLES
  committed,   \* broker: the group's committed offset
  fetchPos,    \* reader: the offset FetchMessage hands out next
  receiver,    \* receive loop: "fetching", "sending" or "returned"
  inHand,      \* the delivery the receive loop is sending
  receiveErr,  \* what receive returned
  deliveries,  \* the buffered channel of deliveries
  open,        \* FALSE once close(deliveries) was called
  ctxDone,     \* the run's context is cancelled
  pc,          \* per worker: where it is
  msg,         \* per worker: the delivery it has taken
  attempt,     \* per worker: retries requested for that delivery
  decision,    \* per worker: the decision it completes the delivery with
  workerErr,   \* the workerErrs channel (capacity 1)
  run,         \* "running" or "returned" (Run has returned)
  result,      \* the errors joined in Run's result
  restarts,    \* number of restarts so far
  rejoins,     \* number of rejoins so far
  processed,   \* history: messages whose handler decided ack or drop
  abandoned,   \* history: messages given up with Delivery.Retry
  outdated,    \* history: how many of the messages on their way to a worker
               \*          were fetched before the last rejoin
  skipped      \* history: committed over by a run that ended before
               \*          the message was either of these

readerVars  == <<fetchPos, receiver, inHand, receiveErr>>
channelVars == <<deliveries, open, outdated>>
workerVars  == <<pc, msg, attempt, decision>>
endVars     == <<workerErr, run, result>>
boundVars   == <<restarts, rejoins>>
historyVars == <<processed, abandoned, skipped>>
vars == <<committed, readerVars, channelVars, ctxDone, workerVars, endVars,
          boundVars, historyVars>>

Offsets   == 0 .. LogEnd - 1
NoMsg     == -1
Outcomes  == {"ack", "drop", "retry", "unknown", "panic"}
Decisions == {"none", "ack", "drop", "retry", "unknown"}
Stopped   == {"exited", "failed"}

\* A worker in one of these places is responsible for the delivery msg[w].
\* A failed worker died with its delivery unfinished.
Holding == {"handling", "backoff", "completing", "failed"}
Held    == {msg[w] : w \in {v \in Workers : pc[v] \in Holding}}

\* How many messages are fetched and on their way to a worker, and the message
\* a worker would take i-th; after those on their way it is the next one fetched.
OnTheirWay == Len(deliveries) + (IF inHand = NoMsg THEN 0 ELSE 1)

Coming(i) ==
  IF i <= Len(deliveries) THEN deliveries[i]
  ELSE IF i <= OnTheirWay THEN inHand ELSE fetchPos

\* The messages somebody finished, gave up, lost in a crash, or still holds.
Accounted == processed \cup abandoned \cup skipped \cup Held

-----------------------------------------------------------------------------
\* The state a run starts from: channels made, workers started, the reader
\* positioned on the group's committed offset.
FreshRun ==
  /\ receiver'   = "fetching"
  /\ inHand'     = NoMsg
  /\ receiveErr' = "none"
  /\ deliveries' = <<>>
  /\ open'       = TRUE
  /\ outdated'   = 0
  /\ ctxDone'    = FALSE
  /\ pc'         = [w \in Workers |-> "idle"]
  /\ msg'        = [w \in Workers |-> NoMsg]
  /\ attempt'    = [w \in Workers |-> 0]
  /\ decision'   = [w \in Workers |-> "none"]
  /\ workerErr'  = "none"
  /\ run'        = "running"
  /\ result'     = {}

Init ==
  /\ committed  = 0
  /\ fetchPos   = 0
  /\ receiver   = "fetching"
  /\ inHand     = NoMsg
  /\ receiveErr = "none"
  /\ deliveries = <<>>
  /\ open       = TRUE
  /\ outdated   = 0
  /\ ctxDone    = FALSE
  /\ pc         = [w \in Workers |-> "idle"]
  /\ msg        = [w \in Workers |-> NoMsg]
  /\ attempt    = [w \in Workers |-> 0]
  /\ decision   = [w \in Workers |-> "none"]
  /\ workerErr  = "none"
  /\ run        = "running"
  /\ result     = {}
  /\ restarts   = 0
  /\ rejoins    = 0
  /\ processed  = {}
  /\ abandoned  = {}
  /\ skipped    = {}

-----------------------------------------------------------------------------
(* The receive loop. *)

\* Mutant: the reader commits what it hands out (ReadMessage for FetchMessage).
ReceiveCommits ==
  /\ receiver = "fetching"
  /\ fetchPos < LogEnd
  /\ receiver'  = "sending"
  /\ inHand'    = fetchPos
  /\ fetchPos'  = fetchPos + 1
  /\ committed' = fetchPos + 1
  /\ UNCHANGED <<receiveErr, channelVars, ctxDone, workerVars, endVars,
                 boundVars, historyVars>>

\* Source.Receive: FetchMessage hands out the next message of the log.
Receive ==
  /\ receiver = "fetching"
  /\ fetchPos < LogEnd
  /\ receiver' = "sending"
  /\ inHand'   = fetchPos
  /\ fetchPos' = fetchPos + 1
  /\ UNCHANGED <<committed, receiveErr, channelVars, ctxDone, workerVars,
                 endVars, boundVars, historyVars>>

\* deliveries <- delivery, which waits for room in the buffer.
Send ==
  /\ receiver = "sending"
  /\ Len(deliveries) < Buffer
  /\ deliveries' = Append(deliveries, inHand)
  /\ receiver'   = "fetching"
  /\ inHand'     = NoMsg
  /\ UNCHANGED <<committed, fetchPos, receiveErr, open, outdated, ctxDone,
                 workerVars, endVars, boundVars, historyVars>>

\* receive returns err and Run closes the channel behind it.  The context is
\* NOT cancelled by this: the workers go on with what the buffer holds.
ReceiveReturns(err) ==
  /\ receiver'   = "returned"
  /\ receiveErr' = err
  /\ open'       = FALSE
  /\ UNCHANGED <<committed, fetchPos, inHand, deliveries, outdated, ctxDone,
                 workerVars, endVars, boundVars, historyVars>>

\* FetchMessage fails; when the context is done its error is the context's.
ReceiveFails ==
  /\ receiver = "fetching"
  /\ ReceiveReturns(IF ctxDone THEN "ctx" ELSE "receive")

\* The select takes ctx.Done: the delivery in hand is left behind.
SendCancelled ==
  /\ receiver = "sending"
  /\ ctxDone
  /\ ReceiveReturns("ctx")

-----------------------------------------------------------------------------
(* The worker pool. *)

\* The select takes a delivery, though the context may be done as well.
Take(w) ==
  /\ pc[w] = "idle"
  /\ deliveries # <<>>
  /\ deliveries' = Tail(deliveries)
  /\ outdated'   = IF outdated = 0 THEN 0 ELSE outdated - 1
  /\ pc'  = [pc EXCEPT ![w] = "handling"]
  /\ msg' = [msg EXCEPT ![w] = Head(deliveries)]
  /\ UNCHANGED <<committed, readerVars, open, ctxDone, attempt, decision,
                 endVars, boundVars, historyVars>>

\* The select takes ctx.Done, or the closed channel has been emptied.
WorkerExits(w) ==
  /\ pc[w] = "idle"
  /\ ctxDone \/ (~open /\ deliveries = <<>>)
  /\ pc' = [pc EXCEPT ![w] = "exited"]
  /\ UNCHANGED <<committed, readerVars, channelVars, ctxDone, msg, attempt,
                 decision, endVars, boundVars, historyVars>>

\* handleWithRecover turns a panic of the handler into a retry decision.
Recovered(outcome) == IF outcome = "panic" THEN "retry" ELSE outcome

\* Mutant: attempt <= maxRetries in the retry loop.
RequestOneTooMany(w) ==
  /\ pc[w] = "handling"
  /\ attempt[w] <= MaxRetries
  /\ attempt' = [attempt EXCEPT ![w] = @ + 1]
  /\ pc'      = [pc EXCEPT ![w] = "backoff"]
  /\ UNCHANGED <<committed, readerVars, channelVars, ctxDone, msg, decision,
                 endVars, boundVars, historyVars>>

\* The handler asks for a retry and there is one left: the worker backs off.
RequestRetry(w) ==
  /\ pc[w] = "handling"
  /\ attempt[w] < MaxRetries
  /\ \E outcome \in Outcomes : Recovered(outcome) = "retry"
  /\ attempt' = [attempt EXCEPT ![w] = @ + 1]
  /\ pc'      = [pc EXCEPT ![w] = "backoff"]
  /\ UNCHANGED <<committed, readerVars, channelVars, ctxDone, msg, decision,
                 endVars, boundVars, historyVars>>

\* The handler's decision stands: no retry, or no retry left.
Decide(w) ==
  /\ pc[w] = "handling"
  /\ \E outcome \in Outcomes :
       /\ Recovered(outcome) = "retry" => attempt[w] >= MaxRetries
       /\ decision'  = [decision EXCEPT ![w] = Recovered(outcome)]
       /\ processed' = IF outcome \in {"ack", "drop"}
                       THEN processed \cup {msg[w]} ELSE processed
  /\ pc' = [pc EXCEPT ![w] = "completing"]
  /\ UNCHANGED <<committed, readerVars, channelVars, ctxDone, msg, attempt,
                 endVars, boundVars, abandoned, skipped>>

\* sleep returns because its timer fired: the handler is called again.
BackoffElapses(w) ==
  /\ pc[w] = "backoff"
  /\ pc' = [pc EXCEPT ![w] = "handling"]
  /\ UNCHANGED <<committed, readerVars, channelVars, ctxDone, msg, attempt,
                 decision, endVars, boundVars, historyVars>>

\* Mutant: the failing worker does not cancel the run's context.
FailQuietly(w, err) ==
  /\ pc' = [pc EXCEPT ![w] = "failed"]
  /\ workerErr' = IF workerErr = "none" THEN err ELSE workerErr
  /\ UNCHANGED <<readerVars, channelVars, ctxDone, msg, attempt, decision, run,
                 result, boundVars, historyVars>>

\* handle returned an error: the first worker to fail fills the workerErrs
\* slot and cancels the run's context; every failing worker leaves the pool.
Fail(w, err) ==
  /\ pc' = [pc EXCEPT ![w] = "failed"]
  /\ IF workerErr = "none"
     THEN workerErr' = err /\ ctxDone' = TRUE
     ELSE UNCHANGED <<workerErr, ctxDone>>
  /\ UNCHANGED <<readerVars, channelVars, msg, attempt, decision, run, result,
                 boundVars, historyVars>>

\* sleep returns because the context is done: the delivery is not completed.
BackoffCancelled(w) ==
  /\ pc[w] = "backoff"
  /\ ctxDone
  /\ Fail(w, "ctx")
  /\ UNCHANGED committed

\* Mutant: the worker leaves its loop after one delivery.
CompletedLeaves(w) ==
  /\ pc'       = [pc EXCEPT ![w] = "exited"]
  /\ msg'      = [msg EXCEPT ![w] = NoMsg]
  /\ attempt'  = [attempt EXCEPT ![w] = 0]
  /\ decision' = [decision EXCEPT ![w] = "none"]
  /\ UNCHANGED <<readerVars, channelVars, ctxDone, endVars, boundVars,
                 processed, skipped>>

\* The completion succeeded: the worker goes back to its select and forgets
\* the delivery.
Completed(w) ==
  /\ pc'       = [pc EXCEPT ![w] = "idle"]
  /\ msg'      = [msg EXCEPT ![w] = NoMsg]
  /\ attempt'  = [attempt EXCEPT ![w] = 0]
  /\ decision' = [decision EXCEPT ![w] = "none"]
  /\ UNCHANGED <<readerVars, channelVars, ctxDone, endVars, boundVars,
                 processed, skipped>>

\* Mutant: the offset committed is one too far.
CommitTooFar(w) == committed' = msg[w] + 2

\* CommitMessages of one message makes the offset after it the group's
\* committed offset, whatever the committed offset was.
CommitOffset(w) == committed' = msg[w] + 1

\* Delivery.Ack and Delivery.Drop both commit.
Commit(w) ==
  /\ pc[w] = "completing"
  /\ decision[w] \in {"ack", "drop"}
  /\ CommitOffset(w)
  /\ Completed(w)
  /\ UNCHANGED abandoned

\* The commit call fails; the broker may have taken the offset all the same.
CommitFails(w) ==
  /\ pc[w] = "completing"
  /\ decision[w] \in {"ack", "drop"}
  /\ CommitOffset(w) \/ UNCHANGED committed
  /\ Fail(w, "commit")

\* Delivery.Retry commits nothing and, unless the context is done, the worker
\* just moves on to its next delivery.
GiveUp(w) ==
  /\ pc[w] = "completing"
  /\ decision[w] = "retry"
  /\ ~ctxDone
  /\ abandoned' = abandoned \cup {msg[w]}
  /\ Completed(w)
  /\ UNCHANGED committed

\* Delivery.Retry returns the context's error, or the decision is unknown.
CompletionFails(w) ==
  /\ pc[w] = "completing"
  /\ \/ decision[w] = "retry" /\ ctxDone /\ Fail(w, "ctx")
     \/ decision[w] = "unknown" /\ Fail(w, "decision")
  /\ UNCHANGED committed

-----------------------------------------------------------------------------
(* Run as a whole, its caller, and the process it lives in. *)

\* The caller cancels the context (SIGTERM in main).
Cancel ==
  /\ run = "running"
  /\ ~ctxDone
  /\ ctxDone' = TRUE
  /\ UNCHANGED <<committed, readerVars, channelVars, workerVars, endVars,
                 boundVars, historyVars>>

\* Mutant: what the receive loop returned decides.
ReceiveErrWins == IF receiveErr # "none" THEN receiveErr ELSE workerErr

\* A worker's error is preferred to what the receive loop returned.
RunErr == IF workerErr # "none" THEN workerErr ELSE receiveErr

\* Mutant: the workers are not waited for.
ReturnAtOnce ==
  /\ run = "running"
  /\ receiver = "returned"
  /\ run'    = "returned"
  /\ result' = {RunErr}
  /\ UNCHANGED <<committed, readerVars, channelVars, ctxDone, workerVars,
                 workerErr, boundVars, historyVars>>

\* wg.Wait is over: the source is closed, and an error of Close is joined to
\* the run's error.
Return ==
  /\ run = "running"
  /\ receiver = "returned"
  /\ \A w \in Workers : pc[w] \in Stopped
  /\ run' = "returned"
  /\ \E closeErr \in {{}, {"close"}} : result' = {RunErr} \cup closeErr
  /\ UNCHANGED <<committed, readerVars, channelVars, ctxDone, workerVars,
                 workerErr, boundVars, historyVars>>

\* Run has returned or the process dies at any point of it, and the supervisor
\* starts it again.  Whatever lies below the committed offset is not delivered
\* again unless a late commit moves the offset back.
Restart ==
  /\ restarts < MaxRestarts
  /\ restarts' = restarts + 1
  /\ skipped'  = skipped \cup ((0 .. committed - 1) \ (processed \cup abandoned))
  /\ fetchPos' = committed
  /\ FreshRun
  /\ UNCHANGED <<committed, rejoins, processed, abandoned>>

\* The reader loses its group generation and joins the next one: it fetches
\* from the committed offset again while older deliveries are under way.
Rejoin ==
  /\ run = "running"
  /\ rejoins < MaxRejoins
  /\ rejoins'  = rejoins + 1
  /\ fetchPos' = committed
  /\ outdated' = OnTheirWay
  /\ UNCHANGED <<committed, receiver, inHand, receiveErr, deliveries, open,
                 ctxDone, workerVars, endVars, restarts, historyVars>>

ReceiveLoop == Receive \/ Send \/ ReceiveFails \/ SendCancelled

Worker(w) ==
  \/ Take(w)
  \/ WorkerExits(w)
  \/ RequestRetry(w)
  \/ Decide(w)
  \/ BackoffElapses(w)
  \/ BackoffCancelled(w)
  \/ Commit(w)
  \/ CommitFails(w)
  \/ GiveUp(w)
  \/ CompletionFails(w)

Next ==
  \/ ReceiveLoop
  \/ \E w \in Workers : Worker(w)
  \/ Cancel
  \/ Return
  \/ Restart
  \/ Rejoin

Spec == Init /\ [][Next]_vars

\* The Go scheduler runs every goroutine that can run, timers fire, handlers
\* and commit calls return, FetchMessage returns a message that is there, and
\* returns at all once the context is done.  Nobody has to cancel, fail,
\* crash, rejoin or restart.
Fairness ==
  /\ WF_vars(Receive \/ Send \/ SendCancelled \/ (ctxDone /\ ReceiveFails))
  /\ \A w \in Workers : WF_vars(Worker(w))
  /\ WF_vars(Return)

LiveSpec == Spec /\ Fairness

-----------------------------------------------------------------------------
(* Properties. *)

\* The state is well formed: no more than Buffer deliveries wait in the
\* channel and no delivery is retried more than MaxRetries times.
TypeOK ==
  /\ committed \in 0 .. LogEnd
  /\ fetchPos \in 0 .. LogEnd
  /\ receiver \in {"fetching", "sending", "returned"}
  /\ inHand \in Offsets \cup {NoMsg}
  /\ receiver = "sending" => inHand # NoMsg
  /\ receiver = "fetching" => inHand = NoMsg
  /\ receiveErr \in {"none", "ctx", "receive"}
  /\ receiver = "returned" <=> receiveErr # "none"
  /\ deliveries \in Seq(Offsets) /\ Len(deliveries) <= Buffer
  /\ open \in BOOLEAN
  /\ outdated \in Nat
  /\ ctxDone \in BOOLEAN
  /\ pc \in [Workers -> Holding \cup {"idle", "exited"}]
  /\ msg \in [Workers -> Offsets \cup {NoMsg}]
  /\ \A w \in Workers : pc[w] \in Holding => msg[w] \in Offsets
  /\ attempt \in [Workers -> 0 .. MaxRetries]
  /\ decision \in [Workers -> Decisions]
  /\ workerErr \in {"none", "ctx", "commit", "decision"}
  /\ run \in {"running", "returned"}
  /\ result \subseteq {"ctx", "commit", "decision", "receive", "close"}
  /\ restarts \in 0 .. MaxRestarts
  /\ rejoins \in 0 .. MaxRejoins
  /\ processed \subseteq Offsets
  /\ abandoned \subseteq Offsets
  /\ skipped \subseteq Offsets

\* What the group's committed offset promises although workers commit out of
\* order, commits fail half-way, the reader rejoins and the process crashes:
\* a message below it was processed, was given up after its last retry, was in
\* a worker's hands when an earlier run ended, or is in a worker's hands now.
CommitCovered == \A o \in 0 .. committed - 1 : o \in Accounted

\* The strengthening of CommitCovered that every step preserves: deliveries
\* reach the workers in the order of the log, without holes.
InBuffer == {deliveries[i] : i \in 1 .. Len(deliveries)}

FetchCovered ==
  receiver # "returned" =>
    \A p \in 0 .. fetchPos - 1 : p \in Accounted \cup InBuffer \cup {inHand}

HandCovered ==
  receiver = "sending" => \A p \in 0 .. inHand - 1 : p \in Accounted \cup InBuffer

BufferCovered ==
  \A i \in 1 .. Len(deliveries) : \A p \in 0 .. deliveries[i] - 1 :
    p \in Accounted \/ \E j \in 1 .. i - 1 : deliveries[j] = p

HeldCovered ==
  \A w \in Workers : pc[w] \in Holding => \A p \in 0 .. msg[w] - 1 : p \in Accounted

DecidedProcessed ==
  \A w \in Workers :
    pc[w] = "completing" /\ decision[w] \in {"ack", "drop"} => msg[w] \in processed

Covered ==
  /\ CommitCovered
  /\ FetchCovered
  /\ HandCovered
  /\ BufferCovered
  /\ HeldCovered
  /\ DecidedProcessed

\* The messages a crash would lose here and now.
AtRisk == (0 .. committed - 1) \ (processed \cup abandoned \cup skipped)

\* A crash loses fewer messages than there are workers: whoever moved the
\* offset past a message in flight is itself not holding one below it.
LossWindow == Cardinality(AtRisk) < Cardinality(Workers)

\* The strengthening of LossWindow that every step preserves: one worker can
\* be spared, the others hold all that is at risk.
OneSpared ==
  \E v \in Workers : \A o \in AtRisk :
    \E w \in Workers \ {v} : pc[w] \in Holding /\ msg[w] = o

\* Run returns only when every worker has left, always with an error, and
\* with a worker's error exactly when a worker has failed.
ReturnReports ==
  run = "returned" =>
    /\ \A w \in Workers : pc[w] \in Stopped
    /\ result \ {"close", "none"} # {}
    /\ (\E w \in Workers : pc[w] = "failed") <=> workerErr \in result

\* The strengthening of ReturnReports that every step preserves.
ErrorKept == workerErr = "none" <=> \A w \in Workers : pc[w] # "failed"

Ended ==
  run = "returned" =>
    /\ receiver = "returned"
    /\ \A w \in Workers : pc[w] \in Stopped
    /\ RunErr \in result
    /\ result \subseteq {workerErr, receiveErr, "close"} \ {"none"}
    /\ workerErr = "none" => workerErr \notin result

\* Nothing is committed once Run has closed the source.
NoCommitAfterClose == [][run = "returned" => committed' = committed]_vars

\* Nobody has asked this run to stop and nothing has made it stop.
Healthy ==
  /\ run = "running" /\ ~ctxDone /\ open
  /\ \A w \in Workers : pc[w] # "failed"

\* A run that is cancelled, cannot receive any more or has lost a worker comes
\* to an end, unless the process is replaced before: no goroutine waits for
\* ever on the channel or on the others.
ShutdownCompletes ==
  (ctxDone \/ ~open \/ \E w \in Workers : pc[w] = "failed")
    ~> (run = "returned" \/ Healthy)

\* A run that is never disturbed finishes every message of the log.
UndisturbedRunFinishes ==
  <>[]Healthy => \A o \in Offsets : <>(o \in processed \cup abandoned \cup skipped)

\* kafka/source.go on Delivery.Retry: "Retry leaves the Kafka message
\* uncommitted for later redelivery."
RetryLeavesUncommitted ==
  \A o \in abandoned : o \in processed \/ committed <= o

-----------------------------------------------------------------------------
(* The runner keeps the contract of DeliveryContract, one message at risk   *)
(* less than it has workers.                                                *)
Contract == INSTANCE DeliveryContract WITH Slack <- Cardinality(Workers) - 1
KeepsContract == Contract!Spec

-----------------------------------------------------------------------------
(* Handlers may rely on HandlerPool: the runner implements it.  The         *)
(* pool numbers messages from 1; those fetched before a rejoin are stale,   *)
(* and a worker that failed with a decision in hand is done.                *)
Decided(w) == decision[w] \in {"ack", "drop"}

PoolPlace(w) ==
  CASE pc[w] = "completing" /\ Decided(w) -> "commit"
    [] pc[w] \in Stopped /\ Decided(w)    -> "idle"
    [] pc[w] \in Holding /\ ~Decided(w)   -> "work"
    [] OTHER                              -> "idle"

Outdated   == [i \in 1 .. outdated |-> Coming(i) + 1]
HandedNext == Coming(outdated + 1) + 1

PoolPc    == [w \in Workers |-> PoolPlace(w)]
PoolEv    == [w \in Workers |-> IF PoolPlace(w) = "idle" THEN 0 ELSE msg[w] + 1]
PoolTries == [w \in Workers |-> IF PoolPlace(w) = "idle" THEN 0 ELSE attempt[w]]

PoolAcked == {o + 1 : o \in processed}
PoolLost  == {o + 1 : o \in abandoned \cup skipped}

Pool == INSTANCE HandlerPool WITH
  Prefetch  <- Buffer + 1,
  next      <- HandedNext,
  stale     <- Outdated,
  committed <- committed + 1,
  pc        <- PoolPc,
  ev        <- PoolEv,
  tries     <- PoolTries,
  acked     <- PoolAcked,
  lost      <- PoolLost

ServesHandlers == Pool!PoolSpec
=============================================================================
