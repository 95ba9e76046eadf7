------------------------ MODULE MessageRunnerProofs ------------------------
(***************************************************************************)
(* Proofs about MessageRunner, for every number of workers, every buffer,  *)
(* every log and any number of restarts and rejoins.                       *)
(***************************************************************************)
EXTENDS MessageRunner, FiniteSetTheorems, SequenceTheorems, TLAPS

(***************************************************************************)
(* Type correctness: the channel never holds more than Buffer deliveries   *)
(* and no delivery is retried more often than MaxRetries.                  *)
(***************************************************************************)
LEMMA InitTypeOK == Init => TypeOK
<1> SUFFICES ASSUME Init
             PROVE  TypeOK
  OBVIOUS
<1>1. 0 \in 0 .. LogEnd /\ 0 \in 0 .. MaxRetries /\ 0 \in 0 .. MaxRestarts
      /\ 0 \in 0 .. MaxRejoins
  BY RunnerAssumption
<1>2. deliveries \in Seq(Offsets) /\ Len(deliveries) <= Buffer
  BY RunnerAssumption DEF Init
<1>3. open \in BOOLEAN /\ ctxDone \in BOOLEAN
  BY DEF Init
<1>4. QED
  BY <1>1, <1>2, <1>3 DEF Init, TypeOK, NoMsg, Holding, Decisions

THEOREM TypeCorrect == Spec => []TypeOK
<1>1. Init => TypeOK
  BY InitTypeOK
<1>2. TypeOK /\ [Next]_vars => TypeOK'
  <2> SUFFICES ASSUME TypeOK, [Next]_vars
               PROVE  TypeOK'
    OBVIOUS
  <2> USE RunnerAssumption DEF TypeOK, Offsets, NoMsg, Holding, readerVars,
          channelVars, workerVars, endVars, boundVars, historyVars
  <2>1. CASE Receive
    BY <2>1 DEF Receive
  <2>2. CASE Send
    BY <2>2 DEF Send
  <2>3. CASE ReceiveFails
    BY <2>3 DEF ReceiveFails, ReceiveReturns
  <2>4. CASE SendCancelled
    BY <2>4 DEF SendCancelled, ReceiveReturns
  <2>5. ASSUME NEW w \in Workers, Take(w)
        PROVE  TypeOK'
    <3>1. /\ Tail(deliveries) \in Seq(Offsets) /\ Head(deliveries) \in Offsets
          /\ Len(Tail(deliveries)) <= Buffer
      BY <2>5, HeadTailProperties, RunnerAssumption DEF Take
    <3>2. outdated' \in Nat
      BY <2>5 DEF Take
    <3>3. QED
      BY <2>5, <3>1, <3>2 DEF Take, Holding
  <2>6. ASSUME NEW w \in Workers, WorkerExits(w)
        PROVE  TypeOK'
    BY <2>6 DEF WorkerExits
  <2>7. ASSUME NEW w \in Workers, RequestRetry(w)
        PROVE  TypeOK'
    BY <2>7 DEF RequestRetry
  <2>8. ASSUME NEW w \in Workers, Decide(w)
        PROVE  TypeOK'
    <3>1. PICK outcome \in Outcomes :
            /\ decision' = [decision EXCEPT ![w] = Recovered(outcome)]
            /\ processed' = IF outcome \in {"ack", "drop"}
                            THEN processed \cup {msg[w]} ELSE processed
      BY <2>8 DEF Decide
    <3>2. Recovered(outcome) \in Decisions
      BY DEF Recovered, Outcomes, Decisions
    <3>3. decision' \in [Workers -> Decisions]
      BY <3>1, <3>2
    <3>4. msg[w] \in Offsets
      BY <2>8 DEF Decide, Holding
    <3>5. processed' \subseteq Offsets
      BY <3>1, <3>4
    <3>6. QED
      BY <2>8, <3>3, <3>5 DEF Decide, Holding
  <2>9. ASSUME NEW w \in Workers, BackoffElapses(w)
        PROVE  TypeOK'
    BY <2>9 DEF BackoffElapses
  <2>10. ASSUME NEW w \in Workers, BackoffCancelled(w)
         PROVE  TypeOK'
    BY <2>10 DEF BackoffCancelled, Fail
  <2>11. ASSUME NEW w \in Workers, Commit(w)
         PROVE  TypeOK'
    <3>1. committed' \in 0 .. LogEnd
      BY <2>11, RunnerAssumption DEF Commit, CommitOffset, Offsets, Holding
    <3>2. Completed(w) /\ abandoned' = abandoned
      BY <2>11 DEF Commit
    <3>3. QED
      BY <3>1, <3>2 DEF Completed, Decisions
  <2>12. ASSUME NEW w \in Workers, CommitFails(w)
         PROVE  TypeOK'
    <3>1. committed' \in 0 .. LogEnd
      BY <2>12 DEF CommitFails, CommitOffset
    <3>2. msg[w] \in Offsets /\ Fail(w, "commit")
      BY <2>12 DEF CommitFails
    <3>3. QED
      BY <3>1, <3>2 DEF Fail
  <2>13. ASSUME NEW w \in Workers, GiveUp(w)
         PROVE  TypeOK'
    <3>1. abandoned' \subseteq Offsets /\ Completed(w) /\ committed' = committed
      BY <2>13 DEF GiveUp
    <3>2. QED
      BY <3>1 DEF Completed, Decisions
  <2>14. ASSUME NEW w \in Workers, CompletionFails(w)
         PROVE  TypeOK'
    <3>1. \E err \in {"ctx", "decision"} : Fail(w, err)
      BY <2>14 DEF CompletionFails
    <3>2. /\ pc[w] \in Holding /\ committed' = committed
          /\ decision[w] # "none"
      BY <2>14 DEF CompletionFails, Holding
    <3>3. QED
      BY <3>1, <3>2 DEF Fail, Holding
  <2>15. CASE Cancel
    BY <2>15 DEF Cancel
  <2>16. CASE Return
    BY <2>16 DEF Return, RunErr
  <2>17. CASE Restart
    <3>1. skipped' \subseteq Offsets
      BY <2>17 DEF Restart
    <3>2. deliveries' \in Seq(Offsets) /\ Len(deliveries') <= Buffer
      BY <2>17 DEF Restart, FreshRun
    <3>3. restarts' \in 0 .. MaxRestarts
      BY <2>17 DEF Restart
    <3>4. /\ pc' \in [Workers -> Holding \cup {"idle", "exited"}]
          /\ msg' \in [Workers -> Offsets \cup {NoMsg}]
          /\ \A w \in Workers : pc'[w] \notin Holding
          /\ attempt' \in [Workers -> 0 .. MaxRetries]
          /\ decision' \in [Workers -> Decisions]
      BY <2>17 DEF Restart, FreshRun, Decisions
    <3>5. QED
      BY <2>17, <3>1, <3>2, <3>3, <3>4 DEF Restart, FreshRun
  <2>18. CASE Rejoin
    BY <2>18 DEF Rejoin, OnTheirWay
  <2>19. CASE UNCHANGED vars
    BY <2>19 DEF vars
  <2>20. QED
    BY <2>1, <2>2, <2>3, <2>4, <2>5, <2>6, <2>7, <2>8, <2>9, <2>10, <2>11,
       <2>12, <2>13, <2>14, <2>15, <2>16, <2>17, <2>18, <2>19
       DEF Next, ReceiveLoop, Worker
<1>3. QED
  BY <1>1, <1>2, PTL DEF Spec
-----------------------------------------------------------------------------
(***************************************************************************)
(* Only a restart forgets what a worker held: in every other step a        *)
(* message that was accounted for stays so.                                *)
(***************************************************************************)
LEMMA AccountedGrows ==
  ASSUME TypeOK, DecidedProcessed, [Next]_vars, ~Restart
  PROVE  Accounted \subseteq Accounted'
<1> USE DEF TypeOK, Accounted, Held, Holding, readerVars, channelVars,
        workerVars, endVars, boundVars, historyVars
<1>1. CASE Receive \/ Send \/ ReceiveFails \/ SendCancelled
  BY <1>1 DEF Receive, Send, ReceiveFails, SendCancelled, ReceiveReturns
<1>2. ASSUME NEW w \in Workers, Take(w)
      PROVE  Accounted \subseteq Accounted'
  BY <1>2 DEF Take
<1>3. ASSUME NEW w \in Workers, WorkerExits(w)
      PROVE  Accounted \subseteq Accounted'
  BY <1>3 DEF WorkerExits
<1>4. ASSUME NEW w \in Workers, RequestRetry(w)
      PROVE  Accounted \subseteq Accounted'
  BY <1>4 DEF RequestRetry
<1>5. ASSUME NEW w \in Workers, Decide(w)
      PROVE  Accounted \subseteq Accounted'
  BY <1>5 DEF Decide
<1>6. ASSUME NEW w \in Workers, BackoffElapses(w)
      PROVE  Accounted \subseteq Accounted'
  BY <1>6 DEF BackoffElapses
<1>7. ASSUME NEW w \in Workers, NEW err, Fail(w, err), pc[w] \in Holding
      PROVE  Accounted \subseteq Accounted'
  BY <1>7 DEF Fail
<1>8. ASSUME NEW w \in Workers, Commit(w)
      PROVE  Accounted \subseteq Accounted'
  <2>1. msg[w] \in processed
    BY <1>8 DEF Commit, DecidedProcessed
  <2>2. \A o \in Held : o = msg[w] \/ o \in Held'
    BY <1>8 DEF Commit, Completed
  <2>3. QED
    BY <1>8, <2>1, <2>2 DEF Commit, Completed
<1>9. ASSUME NEW w \in Workers, GiveUp(w)
      PROVE  Accounted \subseteq Accounted'
  <2>1. \A o \in Held : o = msg[w] \/ o \in Held'
    BY <1>9 DEF GiveUp, Completed
  <2>2. QED
    BY <1>9, <2>1 DEF GiveUp, Completed
<1>10. CASE Cancel \/ Return \/ Rejoin \/ UNCHANGED vars
  BY <1>10 DEF Cancel, Return, Rejoin, vars
<1>11. QED
  BY <1>1, <1>2, <1>3, <1>4, <1>5, <1>6, <1>7, <1>8, <1>9, <1>10
     DEF Next, ReceiveLoop, Worker, BackoffCancelled, CommitFails,
         CompletionFails

(***************************************************************************)
(* The committed offset only ever moves to the offset after a message that *)
(* was processed, and whose predecessors are all accounted for.            *)
(***************************************************************************)
LEMMA CommitCoveredStep ==
  ASSUME TypeOK, Covered, [Next]_vars
  PROVE  CommitCovered'
<1> USE DEF Covered, CommitCovered
<1>1. CASE Restart
  BY <1>1 DEF Restart, Accounted
<1>2. CASE ~Restart /\ committed' = committed
  BY <1>2, AccountedGrows
<1>3. ASSUME NEW w \in Workers, pc[w] = "completing",
             decision[w] \in {"ack", "drop"}, CommitOffset(w), ~Restart
      PROVE  CommitCovered'
  <2>1. msg[w] \in Offsets
    BY <1>3 DEF TypeOK, Holding
  <2>2. \A o \in 0 .. msg[w] - 1 : o \in Accounted
    BY <1>3 DEF HeldCovered, Holding
  <2>3. msg[w] \in Accounted
    BY <1>3 DEF DecidedProcessed, Accounted
  <2>4. \A o \in 0 .. committed' - 1 : o \in Accounted
    BY <1>3, <2>1, <2>2, <2>3 DEF CommitOffset, Offsets
  <2>5. QED
    BY <1>3, <2>4, AccountedGrows
<1>4. committed' = committed
      \/ Restart
      \/ \E w \in Workers : /\ pc[w] = "completing"
                            /\ decision[w] \in {"ack", "drop"}
                            /\ CommitOffset(w)
  BY DEF Next, ReceiveLoop, Worker, Receive, Send, ReceiveFails, SendCancelled,
         ReceiveReturns, Take, WorkerExits, RequestRetry, Decide,
         BackoffElapses, BackoffCancelled, Commit, CommitFails, GiveUp,
         CompletionFails, Cancel, Return, Rejoin, vars
<1>5. QED
  BY <1>1, <1>2, <1>3, <1>4

(***************************************************************************)
(* What sending to and receiving from the channel does to its contents.    *)
(***************************************************************************)
LEMMA SendBuffers ==
  ASSUME TypeOK, Send
  PROVE  /\ InBuffer' = InBuffer \cup {inHand}
         /\ Len(deliveries') = Len(deliveries) + 1
         /\ deliveries'[Len(deliveries) + 1] = inHand
         /\ \A i \in 1 .. Len(deliveries) : deliveries'[i] = deliveries[i]
<1>1. /\ Len(deliveries) \in Nat
      /\ Len(deliveries') = Len(deliveries) + 1
      /\ deliveries'[Len(deliveries) + 1] = inHand
      /\ \A i \in 1 .. Len(deliveries) : deliveries'[i] = deliveries[i]
  BY DEF Send, TypeOK
<1>2. InBuffer' \subseteq InBuffer \cup {inHand}
  <2>1. ASSUME NEW i \in 1 .. Len(deliveries')
        PROVE  deliveries'[i] \in InBuffer \cup {inHand}
    <3>1. i = Len(deliveries) + 1 \/ i \in 1 .. Len(deliveries)
      BY <1>1
    <3>2. QED
      BY <1>1, <3>1 DEF InBuffer
  <2>2. QED
    BY <2>1 DEF InBuffer
<1>3. InBuffer \cup {inHand} \subseteq InBuffer'
  <2>1. ASSUME NEW i \in 1 .. Len(deliveries)
        PROVE  i \in 1 .. Len(deliveries') /\ deliveries'[i] = deliveries[i]
    BY <1>1
  <2>2. Len(deliveries) + 1 \in 1 .. Len(deliveries')
    BY <1>1
  <2>3. QED
    BY <1>1, <2>1, <2>2 DEF InBuffer
<1>4. QED
  BY <1>1, <1>2, <1>3

LEMMA TakeUnbuffers ==
  ASSUME TypeOK, NEW w \in Workers, Take(w)
  PROVE  /\ Len(deliveries) >= 1
         /\ msg'[w] = deliveries[1]
         /\ pc'[w] = "handling"
         /\ Len(deliveries') = Len(deliveries) - 1
         /\ \A i \in 1 .. Len(deliveries') : deliveries'[i] = deliveries[i + 1]
         /\ InBuffer = InBuffer' \cup {msg'[w]}
<1>1. /\ Len(deliveries) \in Nat
      /\ Len(deliveries) >= 1
      /\ msg'[w] = deliveries[1]
      /\ pc'[w] = "handling"
      /\ Len(deliveries') = Len(deliveries) - 1
      /\ \A i \in 1 .. Len(deliveries') : deliveries'[i] = deliveries[i + 1]
  BY DEF Take, TypeOK
<1>2. InBuffer' \cup {msg'[w]} \subseteq InBuffer
  BY <1>1 DEF InBuffer
<1>3. ASSUME NEW i \in 1 .. Len(deliveries)
      PROVE  deliveries[i] \in InBuffer' \cup {msg'[w]}
  <2>1. CASE i = 1
    BY <2>1, <1>1
  <2>2. CASE i # 1
    <3>1. i - 1 \in 1 .. Len(deliveries') /\ deliveries'[i - 1] = deliveries[i]
      BY <2>2, <1>1
    <3>2. QED
      BY <3>1 DEF InBuffer
  <2>3. QED
    BY <2>1, <2>2
<1>4. InBuffer \subseteq InBuffer' \cup {msg'[w]}
  BY <1>3 DEF InBuffer
<1>5. QED
  BY <1>1, <1>2, <1>4

(***************************************************************************)
(* A message in the channel or accounted for stays one of the two.         *)
(***************************************************************************)
LEMMA PendingGrows ==
  ASSUME TypeOK, DecidedProcessed, [Next]_vars, ~Restart
  PROVE  Accounted \cup InBuffer \subseteq (Accounted \cup InBuffer)'
<1>1. CASE Send
  BY <1>1, SendBuffers, AccountedGrows
<1>2. ASSUME NEW w \in Workers, Take(w)
      PROVE  Accounted \cup InBuffer \subseteq (Accounted \cup InBuffer)'
  <2>1. msg'[w] \in Held'
    BY <1>2, TakeUnbuffers DEF Held, Holding
  <2>2. QED
    BY <1>2, <2>1, TakeUnbuffers, AccountedGrows DEF Accounted
<1>3. CASE deliveries' = deliveries
  BY <1>3, AccountedGrows DEF InBuffer
<1>4. Send \/ deliveries' = deliveries \/ \E w \in Workers : Take(w)
  BY DEF Next, ReceiveLoop, Worker, Receive, ReceiveFails, SendCancelled,
         ReceiveReturns, WorkerExits, RequestRetry, Decide, BackoffElapses,
         BackoffCancelled, Commit, CommitFails, GiveUp, CompletionFails, Fail,
         Completed, Cancel, Return, Rejoin, vars, channelVars
<1>5. QED
  BY <1>1, <1>2, <1>3, <1>4

(***************************************************************************)
(* No hole between the committed offset and the reader's position, unless  *)
(* the receive loop has stopped.                                           *)
(***************************************************************************)
LEMMA FetchCoveredStep ==
  ASSUME TypeOK, Covered, [Next]_vars
  PROVE  FetchCovered'
<1> USE DEF Covered, FetchCovered
<1>1. CASE Restart
  <2>1. fetchPos' = committed /\ committed' = committed
    BY <1>1 DEF Restart
  <2>2. CommitCovered'
    BY CommitCoveredStep
  <2>3. QED
    BY <2>1, <2>2 DEF CommitCovered
<1>2. CASE Rejoin
  <2>1. fetchPos' = committed /\ committed' = committed
    BY <1>2 DEF Rejoin
  <2>2. CommitCovered'
    BY CommitCoveredStep
  <2>3. QED
    BY <2>1, <2>2 DEF CommitCovered
<1>3. CASE Receive
  <2>1. ~Restart
    BY <1>3 DEF Receive, Restart, FreshRun
  <2>2. fetchPos' = fetchPos + 1 /\ inHand' = fetchPos /\ inHand = NoMsg
        /\ receiver # "returned"
    BY <1>3 DEF Receive, TypeOK
  <2>3. \A p \in 0 .. fetchPos - 1 : p \in Accounted \cup InBuffer
    BY <2>2 DEF NoMsg, TypeOK
  <2>4. QED
    BY <2>1, <2>2, <2>3, PendingGrows DEF TypeOK
<1>4. CASE Send
  <2>1. ~Restart
    BY <1>4 DEF Send, Restart, boundVars, TypeOK
  <2>2. fetchPos' = fetchPos /\ receiver # "returned" /\ inHand \in InBuffer'
    BY <1>4, SendBuffers DEF Send
  <2>3. QED
    BY <2>1, <2>2, PendingGrows
<1>5. CASE /\ ~Restart
           /\ fetchPos' = fetchPos /\ receiver' = receiver /\ inHand' = inHand
  BY <1>5, PendingGrows
<1>6. CASE receiver' = "returned"
  BY <1>6
<1>7. \/ Receive \/ Send \/ Rejoin \/ Restart \/ receiver' = "returned"
      \/ fetchPos' = fetchPos /\ receiver' = receiver /\ inHand' = inHand
  BY DEF Next, ReceiveLoop, Worker, ReceiveFails, SendCancelled,
         ReceiveReturns, Take, WorkerExits, RequestRetry, Decide,
         BackoffElapses, BackoffCancelled, Commit, CommitFails, GiveUp,
         CompletionFails, Fail, Completed, Cancel, Return, vars, readerVars
<1>8. QED
  BY <1>1, <1>2, <1>3, <1>4, <1>5, <1>6, <1>7

LEMMA HandCoveredStep ==
  ASSUME TypeOK, Covered, [Next]_vars
  PROVE  HandCovered'
<1> USE DEF Covered, HandCovered
<1>1. CASE Receive
  <2>1. ~Restart
    BY <1>1 DEF Receive, Restart, FreshRun
  <2>2. inHand' = fetchPos /\ inHand = NoMsg /\ receiver # "returned"
    BY <1>1 DEF Receive, TypeOK
  <2>3. \A p \in 0 .. fetchPos - 1 : p \in Accounted \cup InBuffer
    BY <2>2 DEF FetchCovered, NoMsg, TypeOK
  <2>4. QED
    BY <2>1, <2>2, <2>3, PendingGrows
<1>2. CASE ~Restart /\ receiver' = receiver /\ inHand' = inHand
  BY <1>2, PendingGrows
<1>3. CASE receiver' # "sending"
  BY <1>3
<1>4. CASE Restart
  BY <1>4 DEF Restart, FreshRun
<1>5. Send \/ ReceiveFails \/ SendCancelled => receiver' # "sending"
  BY DEF Send, ReceiveFails, SendCancelled, ReceiveReturns
<1>6. \/ ReceiveLoop \/ Restart
      \/ receiver' = receiver /\ inHand' = inHand
  BY DEF Next, Worker, Take, WorkerExits, RequestRetry, Decide,
         BackoffElapses, BackoffCancelled, Commit, CommitFails, GiveUp,
         CompletionFails, Fail, Completed, Cancel, Return, Rejoin, vars,
         readerVars
<1>7. QED
  BY <1>1, <1>2, <1>3, <1>4, <1>5, <1>6 DEF ReceiveLoop

(***************************************************************************)
(* The channel keeps the order of the log: what precedes a buffered        *)
(* message is accounted for or stands before it in the channel.            *)
(***************************************************************************)
LEMMA BufferCoveredStep ==
  ASSUME TypeOK, Covered, [Next]_vars
  PROVE  BufferCovered'
<1> USE DEF Covered, BufferCovered
<1>1. CASE Restart
  BY <1>1 DEF Restart, FreshRun
<1>2. CASE Send
  <2>1. ~Restart
    BY <1>2 DEF Send, Restart, boundVars, TypeOK
  <2>2. SUFFICES ASSUME NEW i \in 1 .. Len(deliveries) + 1,
                        NEW p \in 0 .. deliveries'[i] - 1
                 PROVE  p \in Accounted'
                        \/ \E j \in 1 .. i - 1 : deliveries'[j] = p
    BY <1>2, SendBuffers
  <2>3. CASE i = Len(deliveries) + 1
    <3>1. p \in Accounted \cup InBuffer
      BY <1>2, <2>3, SendBuffers DEF HandCovered, Send
    <3>2. CASE p \in Accounted
      BY <1>2, <2>1, <3>2, AccountedGrows
    <3>3. CASE p \in InBuffer
      <4>1. PICK j \in 1 .. Len(deliveries) : deliveries[j] = p
        BY <3>3 DEF InBuffer
      <4>2. deliveries'[j] = p
        BY <1>2, <4>1, SendBuffers
      <4>3. j \in 1 .. i - 1
        BY <2>3, <4>1 DEF TypeOK
      <4>4. QED
        BY <4>2, <4>3
    <3>4. QED
      BY <3>1, <3>2, <3>3
         DEF InBuffer, TypeOK
  <2>4. CASE i \in 1 .. Len(deliveries)
    <3>1. p \in 0 .. deliveries[i] - 1
      BY <1>2, <2>4, SendBuffers
    <3>2. p \in Accounted \/ \E j \in 1 .. i - 1 : deliveries[j] = p
      BY <2>4, <3>1
    <3>3. ASSUME NEW j \in 1 .. i - 1, deliveries[j] = p
          PROVE  deliveries'[j] = p
      <4>1. j \in 1 .. Len(deliveries)
        BY <2>4 DEF TypeOK
      <4>2. QED
        BY <1>2, <3>3, <4>1, SendBuffers
    <3>4. QED
      BY <2>1, <3>2, <3>3, AccountedGrows
  <2>5. QED
    BY <2>2, <2>3, <2>4 DEF TypeOK
<1>3. ASSUME NEW w \in Workers, Take(w)
      PROVE  BufferCovered'
  <2>1. ~Restart
    BY <1>3 DEF Take, Restart, boundVars, TypeOK
  <2>2. msg'[w] \in Held'
    BY <1>3, TakeUnbuffers DEF Held, Holding
  <2>3. SUFFICES ASSUME NEW i \in 1 .. Len(deliveries'),
                        NEW p \in 0 .. deliveries'[i] - 1
                 PROVE  p \in Accounted'
                        \/ \E j \in 1 .. i - 1 : deliveries'[j] = p
    OBVIOUS
  <2>4. Len(deliveries) \in Nat
    BY DEF TypeOK
  <2>5. i + 1 \in 1 .. Len(deliveries) /\ p \in 0 .. deliveries[i + 1] - 1
    BY <1>3, <2>4, TakeUnbuffers
  <2>6. CASE p \in Accounted
    BY <2>1, <2>6, AccountedGrows
  <2>7. ASSUME NEW j \in 1 .. (i + 1) - 1, deliveries[j] = p
        PROVE  p \in Accounted' \/ \E k \in 1 .. i - 1 : deliveries'[k] = p
    <3>1. CASE j = 1
      BY <1>3, <2>2, <2>7, <3>1, TakeUnbuffers DEF Accounted
    <3>2. CASE j # 1
      <4>1. j - 1 \in 1 .. i - 1 /\ j - 1 \in 1 .. Len(deliveries')
            /\ (j - 1) + 1 = j
        BY <2>4, <3>2
      <4>2. deliveries'[j - 1] = p
        BY <1>3, <2>7, <4>1, TakeUnbuffers
      <4>3. QED
        BY <4>1, <4>2
    <3>3. QED
      BY <3>1, <3>2
  <2>8. QED
    BY <2>5, <2>6, <2>7
<1>4. CASE ~Restart /\ deliveries' = deliveries
  BY <1>4, AccountedGrows
<1>5. Restart \/ Send \/ deliveries' = deliveries \/ \E w \in Workers : Take(w)
  BY DEF Next, ReceiveLoop, Worker, Receive, ReceiveFails, SendCancelled,
         ReceiveReturns, WorkerExits, RequestRetry, Decide, BackoffElapses,
         BackoffCancelled, Commit, CommitFails, GiveUp, CompletionFails, Fail,
         Completed, Cancel, Return, Rejoin, vars, channelVars
<1>6. QED
  BY <1>1, <1>2, <1>3, <1>4, <1>5

(***************************************************************************)
(* When a worker takes the head of the channel, nothing that precedes it   *)
(* is in the channel any more.                                             *)
(***************************************************************************)
LEMMA HeldCoveredStep ==
  ASSUME TypeOK, Covered, [Next]_vars
  PROVE  HeldCovered'
<1> USE DEF Covered, HeldCovered
<1>1. CASE Restart
  BY <1>1 DEF Restart, FreshRun, Holding
<1>2. ASSUME NEW v \in Workers, Take(v)
      PROVE  HeldCovered'
  <2>1. ~Restart
    BY <1>2 DEF Take, Restart, boundVars, TypeOK
  <2>2. \A p \in 0 .. msg'[v] - 1 : p \in Accounted
    BY <1>2, TakeUnbuffers DEF BufferCovered, TypeOK
  <2>3. \A w \in Workers \ {v} : pc'[w] = pc[w] /\ msg'[w] = msg[w]
    BY <1>2 DEF Take, TypeOK
  <2>4. QED
    BY <2>1, <2>2, <2>3, AccountedGrows
<1>3. CASE /\ ~Restart
           /\ \A w \in Workers :
                pc'[w] \in Holding => pc[w] \in Holding /\ msg'[w] = msg[w]
  BY <1>3, AccountedGrows
<1>4. \/ Restart \/ \E v \in Workers : Take(v)
      \/ \A w \in Workers :
           pc'[w] \in Holding => pc[w] \in Holding /\ msg'[w] = msg[w]
  BY DEF Next, ReceiveLoop, Worker, Receive, Send, ReceiveFails, SendCancelled,
         ReceiveReturns, WorkerExits, RequestRetry, Decide, BackoffElapses,
         BackoffCancelled, Commit, CommitFails, GiveUp, CompletionFails, Fail,
         Completed, Cancel, Return, Rejoin, vars, workerVars, Holding, TypeOK
<1>5. QED
  BY <1>1, <1>2, <1>3, <1>4

LEMMA DecidedProcessedStep ==
  ASSUME TypeOK, Covered, [Next]_vars
  PROVE  DecidedProcessed'
<1> USE DEF Covered, DecidedProcessed
<1>1. CASE Restart
  BY <1>1 DEF Restart, FreshRun
<1>2. ASSUME NEW v \in Workers, Decide(v)
      PROVE  DecidedProcessed'
  BY <1>2 DEF Decide, Recovered, TypeOK
<1>3. CASE /\ processed' = processed
           /\ \A w \in Workers :
                pc'[w] = "completing" =>
                  /\ pc[w] = "completing" /\ msg'[w] = msg[w]
                  /\ decision'[w] = decision[w]
  BY <1>3
<1>4. \/ Restart \/ \E v \in Workers : Decide(v)
      \/ /\ processed' = processed
         /\ \A w \in Workers :
              pc'[w] = "completing" =>
                /\ pc[w] = "completing" /\ msg'[w] = msg[w]
                /\ decision'[w] = decision[w]
  BY DEF Next, ReceiveLoop, Worker, Receive, Send, ReceiveFails, SendCancelled,
         ReceiveReturns, Take, WorkerExits, RequestRetry, BackoffElapses,
         BackoffCancelled, Commit, CommitFails, GiveUp, CompletionFails, Fail,
         Completed, Cancel, Return, Rejoin, vars, workerVars, historyVars,
         TypeOK
<1>5. QED
  BY <1>1, <1>2, <1>3, <1>4

LEMMA AlwaysCovered == Spec => []Covered
<1>1. Init => Covered
  BY RunnerAssumption
     DEF Init, Covered, CommitCovered, FetchCovered, HandCovered,
         BufferCovered, HeldCovered, DecidedProcessed, Holding
<1>2. TypeOK /\ Covered /\ [Next]_vars => Covered'
  BY CommitCoveredStep, FetchCoveredStep, HandCoveredStep, BufferCoveredStep,
     HeldCoveredStep, DecidedProcessedStep DEF Covered
<1>3. QED
  BY <1>1, <1>2, TypeCorrect, PTL DEF Spec

(***************************************************************************)
(* At-least-once, as far as this runner goes: whatever lies below the      *)
(* committed offset was processed, was given up after its last retry, was  *)
(* held by a worker when a run ended, or is held by a worker now.          *)
(***************************************************************************)
THEOREM CommittedIsCovered == Spec => []CommitCovered
<1>1. Covered => CommitCovered
  BY DEF Covered
<1>2. QED
  BY <1>1, AlwaysCovered, PTL

-----------------------------------------------------------------------------
(***************************************************************************)
(* A filled workerErrs slot means a failed worker, and once Run has        *)
(* returned nothing of the run moves any more.                             *)
(***************************************************************************)
LEMMA EndedStep ==
  ASSUME TypeOK, ErrorKept, Ended, [Next]_vars
  PROVE  ErrorKept' /\ Ended'
<1> USE DEF TypeOK, ErrorKept, Ended, RunErr, Stopped, readerVars, channelVars,
        workerVars, endVars, boundVars, historyVars
<1>1. CASE Receive \/ Send \/ ReceiveFails \/ SendCancelled
  BY <1>1 DEF Receive, Send, ReceiveFails, SendCancelled, ReceiveReturns
<1>2. ASSUME NEW w \in Workers, Take(w)
      PROVE  ErrorKept' /\ Ended'
  BY <1>2 DEF Take
<1>3. ASSUME NEW w \in Workers, WorkerExits(w)
      PROVE  ErrorKept' /\ Ended'
  BY <1>3 DEF WorkerExits
<1>4. ASSUME NEW w \in Workers, RequestRetry(w)
      PROVE  ErrorKept' /\ Ended'
  BY <1>4 DEF RequestRetry
<1>5. ASSUME NEW w \in Workers, Decide(w)
      PROVE  ErrorKept' /\ Ended'
  BY <1>5 DEF Decide
<1>6. ASSUME NEW w \in Workers, BackoffElapses(w)
      PROVE  ErrorKept' /\ Ended'
  BY <1>6 DEF BackoffElapses
<1>7. ASSUME NEW w \in Workers, NEW err \in {"ctx", "commit", "decision"},
             Fail(w, err), pc[w] \in {"backoff", "completing"}
      PROVE  ErrorKept' /\ Ended'
  <2>1. run = "running" /\ run' = run
    BY <1>7 DEF Fail
  <2>2. ErrorKept'
    BY <1>7 DEF Fail
  <2>3. QED
    BY <2>1, <2>2
<1>8. ASSUME NEW w \in Workers, Completed(w), pc[w] = "completing"
      PROVE  ErrorKept' /\ Ended'
  BY <1>8 DEF Completed
<1>9. CASE Cancel
  BY <1>9 DEF Cancel
<1>10. CASE Return
  <2>1. ErrorKept'
    BY <1>10 DEF Return
  <2>2. receiver' = "returned" /\ \A w \in Workers : pc'[w] \in Stopped
    BY <1>10 DEF Return
  <2>3. PICK closeErr \in {{}, {"close"}} :
          result' = {IF workerErr # "none" THEN workerErr ELSE receiveErr}
                      \cup closeErr
    BY <1>10 DEF Return
  <2>4. receiveErr # "none" /\ workerErr' = workerErr /\ receiveErr' = receiveErr
    BY <1>10 DEF Return
  <2>5. QED
    BY <2>1, <2>2, <2>3, <2>4
<1>11. CASE Restart
  BY <1>11 DEF Restart, FreshRun
<1>12. CASE Rejoin
  BY <1>12 DEF Rejoin
<1>13. CASE UNCHANGED vars
  BY <1>13 DEF vars
<1>14. QED
  BY <1>1, <1>2, <1>3, <1>4, <1>5, <1>6, <1>7, <1>8, <1>9, <1>10, <1>11,
     <1>12, <1>13
     DEF Next, ReceiveLoop, Worker, BackoffCancelled, Commit, CommitFails,
         GiveUp, CompletionFails

LEMMA AlwaysEnded == Spec => [](ErrorKept /\ Ended)
<1>1. Init => ErrorKept /\ Ended
  BY DEF Init, ErrorKept, Ended
<1>2. QED
  BY <1>1, EndedStep, TypeCorrect, PTL DEF Spec

(***************************************************************************)
(* Run returns only after its last worker, never without an error, and     *)
(* never hides the error of a failed worker behind the receive loop's.     *)
(***************************************************************************)
THEOREM ReturnIsReported == Spec => []ReturnReports
<1>1. TypeOK /\ ErrorKept /\ Ended => ReturnReports
  BY DEF RunErr, TypeOK, ErrorKept, Ended, ReturnReports
<1>2. QED
  BY <1>1, TypeCorrect, AlwaysEnded, PTL

(***************************************************************************)
(* No worker commits through a reader that Run has closed.                 *)
(***************************************************************************)
THEOREM CommitsPrecedeClose == Spec => NoCommitAfterClose
<1>1. ASSUME TypeOK, Ended, [Next]_vars, run = "returned"
      PROVE  committed' = committed
  <2>1. \A w \in Workers : pc[w] # "completing"
    BY <1>1 DEF RunErr, Ended, Stopped
  <2>2. QED
    BY <1>1, <2>1
       DEF Next, ReceiveLoop, Worker, Receive, Send, ReceiveFails,
           SendCancelled, ReceiveReturns, Take, WorkerExits, RequestRetry,
           Decide, BackoffElapses, BackoffCancelled, Commit, CommitFails,
           GiveUp, CompletionFails, Cancel, Return, Restart, Rejoin, vars
<1>2. TypeOK /\ Ended /\ [Next]_vars
        => [run = "returned" => committed' = committed]_vars
  BY <1>1
<1>3. QED
  BY <1>2, TypeCorrect, AlwaysEnded, PTL DEF Spec, NoCommitAfterClose

-----------------------------------------------------------------------------
(***************************************************************************)
(* The messages a crash would lose are held by all workers but one.        *)
(***************************************************************************)
LEMMA OneSparedStep ==
  ASSUME TypeOK, Covered, OneSpared, [Next]_vars
  PROVE  OneSpared'
<1> USE DEF OneSpared, AtRisk
<1>1. PICK v \in Workers : \A o \in AtRisk :
        \E w \in Workers \ {v} : pc[w] \in Holding /\ msg[w] = o
  OBVIOUS
<1>2. CASE Restart
  <2>1. AtRisk' = {}
    BY <1>2 DEF Restart
  <2>2. QED
    BY <1>1, <2>1
<1>3. ASSUME NEW u \in Workers, pc[u] = "completing",
             decision[u] \in {"ack", "drop"}, CommitOffset(u),
             UNCHANGED historyVars, msg[u] \in processed,
             \A w \in Workers \ {u} : pc'[w] = pc[w] /\ msg'[w] = msg[w]
      PROVE  OneSpared'
  <2>1. msg[u] \in Offsets
    BY <1>3 DEF TypeOK, Holding
  <2>2. SUFFICES ASSUME NEW o \in AtRisk'
                 PROVE  \E w \in Workers \ {u} : pc'[w] \in Holding /\ msg'[w] = o
    OBVIOUS
  <2>3. o \in 0 .. msg[u] - 1
    BY <1>3, <2>1 DEF CommitOffset, historyVars, Offsets
  <2>4. o \in Held
    BY <1>3, <2>3 DEF Covered, HeldCovered, Holding, Accounted, historyVars
  <2>5. PICK w \in Workers : pc[w] \in Holding /\ msg[w] = o
    BY <2>4 DEF Held
  <2>6. w # u
    BY <1>3, <2>5 DEF historyVars
  <2>7. QED
    BY <1>3, <2>5, <2>6
<1>4. ASSUME NEW u \in Workers, Decide(u)
      PROVE  OneSpared'
  <2>1. AtRisk' \subseteq AtRisk
    BY <1>4 DEF Decide
  <2>2. \A w \in Workers : pc[w] \in Holding => pc'[w] \in Holding /\ msg'[w] = msg[w]
    BY <1>4 DEF Decide, Holding, TypeOK
  <2>3. QED
    BY <1>1, <2>1, <2>2
<1>5. ASSUME NEW u \in Workers, GiveUp(u)
      PROVE  OneSpared'
  <2>1. AtRisk' \subseteq AtRisk \ {msg[u]}
    BY <1>5 DEF GiveUp, Completed
  <2>2. \A w \in Workers \ {u} : pc'[w] = pc[w] /\ msg'[w] = msg[w]
    BY <1>5 DEF GiveUp, Completed, TypeOK
  <2>3. QED
    BY <1>1, <2>1, <2>2
<1>6. CASE /\ UNCHANGED <<committed, historyVars>>
           /\ \A w \in Workers :
                pc[w] \in Holding => pc'[w] \in Holding /\ msg'[w] = msg[w]
  BY <1>1, <1>6 DEF historyVars
<1>7. \/ Restart \/ \E u \in Workers : Decide(u) \/ GiveUp(u)
      \/ \E u \in Workers :
           /\ pc[u] = "completing" /\ decision[u] \in {"ack", "drop"}
           /\ CommitOffset(u) /\ UNCHANGED historyVars
           /\ \A w \in Workers \ {u} : pc'[w] = pc[w] /\ msg'[w] = msg[w]
      \/ /\ UNCHANGED <<committed, historyVars>>
         /\ \A w \in Workers :
              pc[w] \in Holding => pc'[w] \in Holding /\ msg'[w] = msg[w]
  <2> USE DEF workerVars, historyVars, Holding, TypeOK
  <2>1. ASSUME NEW w \in Workers, Commit(w) \/ CommitFails(w)
        PROVE  \/ /\ pc[w] = "completing" /\ decision[w] \in {"ack", "drop"}
                  /\ CommitOffset(w) /\ UNCHANGED historyVars
                  /\ \A u \in Workers \ {w} : pc'[u] = pc[u] /\ msg'[u] = msg[u]
               \/ /\ UNCHANGED <<committed, historyVars>>
                  /\ \A u \in Workers :
                       pc[u] \in Holding => pc'[u] \in Holding /\ msg'[u] = msg[u]
    BY <2>1 DEF Commit, Completed, CommitFails, Fail
  <2>2. ASSUME NEW w \in Workers,
               Take(w) \/ WorkerExits(w) \/ RequestRetry(w) \/ BackoffElapses(w)
                 \/ BackoffCancelled(w) \/ CompletionFails(w)
        PROVE  /\ UNCHANGED <<committed, historyVars>>
               /\ \A u \in Workers :
                    pc[u] \in Holding => pc'[u] \in Holding /\ msg'[u] = msg[u]
    BY <2>2 DEF Take, WorkerExits, RequestRetry, BackoffElapses,
                BackoffCancelled, CompletionFails, Fail
  <2>3. CASE ReceiveLoop \/ Cancel \/ Return \/ Rejoin \/ UNCHANGED vars
    BY <2>3 DEF ReceiveLoop, Receive, Send, ReceiveFails, SendCancelled,
                ReceiveReturns, Cancel, Return, Rejoin, vars
  <2>4. QED
    BY <2>1, <2>2, <2>3 DEF Next, Worker
<1>8. \A u \in Workers : pc[u] = "completing" /\ decision[u] \in {"ack", "drop"}
        => msg[u] \in processed
  BY DEF Covered, DecidedProcessed
<1>9. QED
  BY <1>2, <1>3, <1>4, <1>5, <1>6, <1>7, <1>8

LEMMA AlwaysOneSpared == Spec => []OneSpared
<1>1. Init => OneSpared
  BY RunnerAssumption DEF Init, OneSpared, AtRisk
<1>2. QED
  BY <1>1, OneSparedStep, TypeCorrect, AlwaysCovered, PTL DEF Spec

LEMMA SparedBound ==
  ASSUME OneSpared
  PROVE  LossWindow
<1>1. PICK v \in Workers : \A o \in AtRisk :
        \E w \in Workers \ {v} : pc[w] \in Holding /\ msg[w] = o
  BY DEF OneSpared
<1> DEFINE others == Workers \ {v}
           f == [w \in others |-> msg[w]]
           T == {msg[w] : w \in others}
<1>2. IsFiniteSet(others) /\ Cardinality(others) = Cardinality(Workers) - 1
  BY RunnerAssumption, FS_RemoveElement
<1>3. f \in Surjection(others, T)
  BY DEF Surjection
<1>4. IsFiniteSet(T) /\ Cardinality(T) <= Cardinality(others)
  BY <1>2, <1>3, FS_Surjection
<1>5. AtRisk \in SUBSET T
  BY <1>1
<1>6. Cardinality(AtRisk) <= Cardinality(T) /\ IsFiniteSet(AtRisk)
  BY <1>4, <1>5, FS_Subset
<1>7. /\ Cardinality(AtRisk) \in Nat /\ Cardinality(T) \in Nat
      /\ Cardinality(Workers) \in Nat
  BY <1>4, <1>6, RunnerAssumption, FS_CardinalityType
<1>8. QED
  BY <1>2, <1>4, <1>6, <1>7 DEF LossWindow

(***************************************************************************)
(* However workers commit past each other, a crash loses at most one       *)
(* message less than there are workers; with one worker it loses none.     *)
(***************************************************************************)
THEOREM CrashLossBounded == Spec => []LossWindow
<1>1. OneSpared => LossWindow
  BY SparedBound
<1>2. QED
  BY <1>1, AlwaysOneSpared, PTL

(***************************************************************************)
(* The runner implements the contract: each of its steps is a step of      *)
(* DeliveryContract or leaves the contract's variables alone.              *)
(***************************************************************************)
LEMMA ContractStep ==
  ASSUME TypeOK, Covered, LossWindow', [Next]_vars
  PROVE  [Contract!Next]_(Contract!contractVars)
<1> USE DEF Contract!contractVars, historyVars
<1>1. ASSUME NEW w \in Workers, Decide(w)
      PROVE  Contract!Process \/ UNCHANGED Contract!contractVars
  <2>1. msg[w] \in 0 .. LogEnd - 1
    BY <1>1 DEF Decide, TypeOK, Holding, Offsets
  <2>2. QED
    BY <1>1, <2>1 DEF Decide, Contract!Process
<1>2. ASSUME NEW w \in Workers, GiveUp(w)
      PROVE  Contract!Abandon
  <2>1. msg[w] \in 0 .. LogEnd - 1
    BY <1>2 DEF GiveUp, TypeOK, Holding, Offsets
  <2>2. QED
    BY <1>2, <2>1 DEF GiveUp, Completed, Contract!Abandon
<1>3. ASSUME NEW w \in Workers, pc[w] = "completing",
             decision[w] \in {"ack", "drop"}, CommitOffset(w),
             UNCHANGED historyVars
      PROVE  Contract!Commit
  <2>1. msg[w] \in processed /\ msg[w] \in Int
    BY <1>3 DEF Covered, DecidedProcessed, TypeOK, Holding, Offsets
  <2>2. AtRisk' = Contract!Unfinished(msg[w] + 1)
    BY <1>3, <2>1 DEF AtRisk, Contract!Unfinished, CommitOffset
  <2>3. AtRisk' \in SUBSET (0 .. committed' - 1) /\ committed' - 1 \in Int
    BY <1>3, <2>1 DEF AtRisk, CommitOffset
  <2>4. IsFiniteSet(0 .. committed' - 1)
    BY <2>3, FS_Interval
  <2>5. Cardinality(AtRisk') \in Nat /\ Cardinality(Workers) \in Nat
    BY <2>3, <2>4, FS_Subset, FS_CardinalityType, RunnerAssumption
  <2>6. Cardinality(AtRisk') <= Cardinality(Workers) - 1
    BY <2>5 DEF LossWindow
  <2>7. Cardinality(Contract!Unfinished(msg[w] + 1)) <= Cardinality(Workers) - 1
    BY <2>2, <2>6
  <2>8. committed' = msg[w] + 1 /\ UNCHANGED <<processed, abandoned, skipped>>
    BY <1>3 DEF CommitOffset
  <2>9. QED
    BY <2>1, <2>7, <2>8 DEF Contract!Commit, Contract!Cardinality, Cardinality
<1>4. ASSUME Restart
      PROVE  Contract!Restart
  <2>1. skipped' = skipped \cup ((0 .. committed - 1) \ (processed \cup abandoned))
    BY <1>4 DEF Restart
  <2>2. skipped' = skipped \cup Contract!Unfinished(committed)
    BY <2>1 DEF Contract!Unfinished
  <2>3. UNCHANGED <<committed, processed, abandoned>>
    BY <1>4 DEF Restart
  <2>4. QED
    BY <2>2, <2>3 DEF Contract!Restart
<1>5. ASSUME NEW w \in Workers, Commit(w) \/ CommitFails(w)
      PROVE  Contract!Commit \/ UNCHANGED Contract!contractVars
  BY <1>3, <1>5 DEF Commit, CommitFails, Completed, Fail
<1>6. CASE \/ ReceiveLoop \/ Cancel \/ Return \/ Rejoin \/ UNCHANGED vars
           \/ \E w \in Workers :
                Take(w) \/ WorkerExits(w) \/ RequestRetry(w)
                  \/ BackoffElapses(w) \/ BackoffCancelled(w)
                  \/ CompletionFails(w)
  BY <1>6 DEF ReceiveLoop, Receive, Send, ReceiveFails, SendCancelled,
              ReceiveReturns, Cancel, Return, Rejoin, Take, WorkerExits,
              RequestRetry, BackoffElapses, BackoffCancelled, CompletionFails,
              Fail, vars
<1>7. QED
  BY <1>1, <1>2, <1>4, <1>5, <1>6 DEF Next, Worker, Contract!Next

THEOREM RunnerKeepsContract == Spec => KeepsContract
<1>1. Init => Contract!Init
  BY DEF Init, Contract!Init
<1>2. QED
  BY <1>1, ContractStep, TypeCorrect, AlwaysCovered, CrashLossBounded, PTL
     DEF Spec, KeepsContract, Contract!Spec

(***************************************************************************)
(* The runner implements HandlerPool.                                      *)
(***************************************************************************)

\* What is on its way since the last rejoin was fetched in the order of the
\* log, up to the message fetched next.
InOrder ==
  /\ outdated <= OnTheirWay
  /\ \A i \in outdated + 1 .. OnTheirWay : Coming(i) = fetchPos - (OnTheirWay + 1 - i)

\* A worker has no decision before it completes a delivery, and counts its
\* retries anew for each.
Attempts ==
  \A w \in Workers :
    /\ pc[w] \in {"idle", "exited"} => attempt[w] = 0
    /\ pc[w] \in {"idle", "exited", "handling", "backoff"} => decision[w] = "none"
    /\ pc[w] = "completing" /\ decision[w] = "retry" => attempt[w] = MaxRetries

LEMMA ReaderTypes ==
  ASSUME TypeOK
  PROVE  /\ OnTheirWay \in Nat /\ Len(deliveries) \in Nat
         /\ fetchPos \in Int /\ outdated \in Nat
         /\ \A i \in 1 .. OnTheirWay + 1 : Coming(i) \in Nat
<1>1. ASSUME NEW i \in 1 .. Len(deliveries)
      PROVE  deliveries[i] \in Nat
  <2>1. deliveries[i] \in Offsets
    BY ElementOfSeq DEF TypeOK
  <2>2. QED
    BY <2>1, RunnerAssumption DEF Offsets
<1>2. Len(deliveries) \in Nat /\ fetchPos \in Nat /\ outdated \in Nat
  BY RunnerAssumption DEF TypeOK
<1>3. inHand # NoMsg => inHand \in Nat
  BY DEF TypeOK, Offsets, NoMsg
<1>4. QED
  BY <1>1, <1>2, <1>3 DEF OnTheirWay, Coming

LEMMA SendKeepsComing ==
  ASSUME TypeOK, Send
  PROVE  /\ OnTheirWay' = OnTheirWay
         /\ \A i \in 1 .. OnTheirWay + 1 : Coming(i)' = Coming(i)
<1>1. /\ Len(deliveries') = Len(deliveries) + 1
      /\ \A i \in 1 .. Len(deliveries) : deliveries'[i] = deliveries[i]
      /\ deliveries'[Len(deliveries) + 1] = inHand
  BY DEF TypeOK, Send
<1>2. inHand # NoMsg /\ inHand' = NoMsg /\ fetchPos' = fetchPos
  BY DEF TypeOK, Send
<1>3. QED
  BY <1>1, <1>2, ReaderTypes DEF OnTheirWay, Coming

LEMMA ReceiveExtends ==
  ASSUME TypeOK, Receive
  PROVE  /\ OnTheirWay' = OnTheirWay + 1
         /\ \A i \in 1 .. OnTheirWay + 1 : Coming(i)' = Coming(i)
         /\ Coming(OnTheirWay + 1) = fetchPos
<1>1. inHand = NoMsg /\ inHand' = fetchPos /\ fetchPos \in Nat
      /\ deliveries' = deliveries
  BY RunnerAssumption DEF TypeOK, Receive, channelVars
<1>2. QED
  BY <1>1, ReaderTypes DEF OnTheirWay, Coming, NoMsg

LEMMA TakeShifts ==
  ASSUME TypeOK, NEW w \in Workers, Take(w)
  PROVE  /\ OnTheirWay' = OnTheirWay - 1
         /\ \A i \in 1 .. OnTheirWay : Coming(i)' = Coming(i + 1)
         /\ Coming(1) = msg'[w]
         /\ OnTheirWay \in Nat \ {0}
<1>1. deliveries \in Seq(Offsets) /\ deliveries # <<>>
  BY DEF TypeOK, Take
<1>2. /\ Len(deliveries) \in Nat \ {0}
      /\ Len(deliveries') = Len(deliveries) - 1
      /\ \A i \in 1 .. Len(deliveries) - 1 : deliveries'[i] = deliveries[i + 1]
      /\ Head(deliveries) = deliveries[1]
  BY <1>1, HeadTailProperties, EmptySeq DEF Take
<1>3. inHand' = inHand /\ fetchPos' = fetchPos
  BY DEF Take, readerVars
<1>4. msg'[w] = Head(deliveries)
  BY DEF Take, TypeOK
<1>5. QED
  BY <1>2, <1>3, <1>4 DEF OnTheirWay, Coming

\* Everything else leaves what is on its way alone, but a rejoin and a restart.
LEMMA ComingStays ==
  ASSUME TypeOK, UNCHANGED <<deliveries, inHand, fetchPos>>
  PROVE  OnTheirWay' = OnTheirWay /\ \A i \in Nat : Coming(i)' = Coming(i)
BY DEF OnTheirWay, Coming

LEMMA InOrderStep ==
  ASSUME TypeOK, InOrder, [Next]_vars
  PROVE  InOrder'
<1>0. OnTheirWay \in Nat /\ fetchPos \in Int /\ outdated \in Nat
  BY ReaderTypes
<1>1. CASE Receive
  <2>0. /\ OnTheirWay' = OnTheirWay + 1
        /\ \A i \in 1 .. OnTheirWay + 1 : Coming(i)' = Coming(i)
        /\ Coming(OnTheirWay + 1) = fetchPos
    BY <1>1, ReceiveExtends, Zenon
  <2>1. fetchPos' = fetchPos + 1 /\ outdated' = outdated
    BY <1>1 DEF Receive, channelVars
  <2>2. ASSUME NEW i \in outdated + 1 .. OnTheirWay + 1
        PROVE  Coming(i)' = fetchPos + 1 - (OnTheirWay + 2 - i)
    <3>1. Coming(i)' = Coming(i)
      BY <1>0, <2>0
    <3>2. CASE i \in outdated + 1 .. OnTheirWay
      <4>1. Coming(i) = fetchPos - (OnTheirWay + 1 - i)
        BY <3>2 DEF InOrder
      <4>2. fetchPos - (OnTheirWay + 1 - i) = fetchPos + 1 - (OnTheirWay + 2 - i)
        BY <1>0
      <4>3. QED
        BY <3>1, <4>1, <4>2
    <3>3. CASE i = OnTheirWay + 1
      <4>1. fetchPos + 1 - (OnTheirWay + 2 - i) = fetchPos
        BY <1>0, <3>3
      <4>2. QED
        BY <2>0, <3>1, <3>3, <4>1, Zenon
    <3>4. QED
      BY <1>0, <3>2, <3>3
  <2>4. OnTheirWay' + 1 = OnTheirWay + 2 /\ outdated' <= OnTheirWay'
    BY <1>0, <2>0, <2>1 DEF InOrder
  <2>5. ASSUME NEW i \in outdated' + 1 .. OnTheirWay'
        PROVE  Coming(i)' = fetchPos' - (OnTheirWay' + 1 - i)
    <3>1. i \in outdated + 1 .. OnTheirWay + 1
      BY <2>0, <2>1
    <3>2. Coming(i)' = fetchPos + 1 - (OnTheirWay + 2 - i)
      BY <2>2, <3>1, Zenon
    <3>3. i \in Int /\ OnTheirWay' = OnTheirWay + 1 /\ fetchPos' = fetchPos + 1
      BY <1>0, <2>0, <2>1, <3>1
    <3>4. fetchPos' - (OnTheirWay' + 1 - i) = fetchPos + 1 - (OnTheirWay + 2 - i)
      BY <1>0, <3>3
    <3>5. QED
      BY <3>2, <3>4, Zenon
  <2>6. QED
    BY <2>4, <2>5 DEF InOrder
<1>2. CASE Send
  BY <1>0, <1>2, SendKeepsComing DEF InOrder, Send
<1>3. ASSUME NEW w \in Workers, Take(w)
      PROVE  InOrder'
  <2>1. fetchPos' = fetchPos /\ outdated' = IF outdated = 0 THEN 0 ELSE outdated - 1
    BY <1>3 DEF Take, readerVars
  <2>2. /\ OnTheirWay' = OnTheirWay - 1 /\ OnTheirWay \in Nat \ {0}
        /\ \A i \in 1 .. OnTheirWay : Coming(i)' = Coming(i + 1)
    BY <1>3, TakeShifts, Zenon
  <2>3. ASSUME NEW i \in outdated' + 1 .. OnTheirWay - 1
        PROVE  Coming(i)' = fetchPos - (OnTheirWay - i)
    <3>1. i \in 1 .. OnTheirWay
      BY <1>0, <2>1, <2>2
    <3>2. Coming(i)' = Coming(i + 1)
      BY <2>2, <3>1, Zenon
    <3>3. i + 1 \in outdated + 1 .. OnTheirWay
      BY <1>0, <2>1, <2>2
    <3>4. Coming(i + 1) = fetchPos - (OnTheirWay + 1 - (i + 1))
      BY <3>3 DEF InOrder
    <3>5. OnTheirWay + 1 - (i + 1) = OnTheirWay - i
      BY <1>0
    <3>6. QED
      BY <3>2, <3>4, <3>5, Zenon
  <2>4. outdated' <= OnTheirWay - 1
    BY <1>0, <2>1, <2>2 DEF InOrder
  <2>5. QED
    BY <1>0, <2>1, <2>2, <2>3, <2>4 DEF InOrder
<1>4. CASE Restart
  BY <1>0, <1>4 DEF Restart, FreshRun, InOrder, OnTheirWay
<1>5. CASE Rejoin
  BY <1>0, <1>5 DEF Rejoin, InOrder, OnTheirWay
<1>6. ASSUME UNCHANGED <<deliveries, inHand, fetchPos, outdated>>
      PROVE  InOrder'
  BY <1>0, <1>6, ComingStays DEF InOrder
<1>7. CASE \/ ReceiveFails \/ SendCancelled \/ Cancel \/ Return \/ UNCHANGED vars
           \/ \E w \in Workers :
                WorkerExits(w) \/ RequestRetry(w) \/ Decide(w) \/ BackoffElapses(w)
                  \/ BackoffCancelled(w) \/ Commit(w) \/ CommitFails(w) \/ GiveUp(w)
                  \/ CompletionFails(w)
  BY <1>6, <1>7
     DEF ReceiveFails, SendCancelled, ReceiveReturns, Cancel, Return, WorkerExits,
         RequestRetry, Decide, BackoffElapses, BackoffCancelled, Commit, CommitFails,
         GiveUp, CompletionFails, Completed, Fail, vars, readerVars, channelVars
<1>8. QED
  BY <1>1, <1>2, <1>3, <1>4, <1>5, <1>7 DEF Next, ReceiveLoop, Worker

LEMMA AttemptsStep ==
  ASSUME TypeOK, Attempts, [Next]_vars
  PROVE  Attempts'
<1> USE DEF Attempts, TypeOK
<1>1. ASSUME NEW w \in Workers, Take(w) \/ WorkerExits(w) \/ BackoffElapses(w)
      PROVE  Attempts'
  BY <1>1 DEF Take, WorkerExits, BackoffElapses
<1>2. ASSUME NEW w \in Workers, RequestRetry(w)
      PROVE  Attempts'
  BY <1>2 DEF RequestRetry
<1>3. ASSUME NEW w \in Workers, Decide(w)
      PROVE  Attempts'
  <2>1. PICK outcome \in Outcomes :
          /\ Recovered(outcome) = "retry" => attempt[w] >= MaxRetries
          /\ decision' = [decision EXCEPT ![w] = Recovered(outcome)]
    BY <1>3 DEF Decide
  <2>2. attempt[w] \in 0 .. MaxRetries /\ MaxRetries \in Nat
    BY RunnerAssumption
  <2>3. decision'[w] = "retry" => attempt[w] = MaxRetries
    BY <2>1, <2>2
  <2>4. QED
    BY <1>3, <2>1, <2>3 DEF Decide
<1>4. ASSUME NEW w \in Workers,
             BackoffCancelled(w) \/ CommitFails(w) \/ CompletionFails(w)
      PROVE  Attempts'
  BY <1>4 DEF BackoffCancelled, CommitFails, CompletionFails, Fail
<1>5. ASSUME NEW w \in Workers, Commit(w) \/ GiveUp(w)
      PROVE  Attempts'
  <2>1. Completed(w)
    BY <1>5 DEF Commit, GiveUp
  <2>2. /\ pc' = [pc EXCEPT ![w] = "idle"] /\ attempt' = [attempt EXCEPT ![w] = 0]
        /\ decision' = [decision EXCEPT ![w] = "none"]
    BY <2>1 DEF Completed
  <2>3. QED
    BY <2>2
<1>6. CASE Restart
  BY <1>6 DEF Restart, FreshRun
<1>7. CASE ReceiveLoop \/ Cancel \/ Return \/ Rejoin \/ UNCHANGED vars
  BY <1>7 DEF ReceiveLoop, Receive, Send, ReceiveFails, SendCancelled, ReceiveReturns,
              Cancel, Return, Rejoin, workerVars, vars
<1>8. QED
  BY <1>1, <1>2, <1>3, <1>4, <1>5, <1>6, <1>7 DEF Next, Worker

LEMMA InitInOrder == Init => InOrder /\ Attempts
BY DEF Init, InOrder, Attempts, OnTheirWay

LEMMA AlwaysInOrder == Spec => [](InOrder /\ Attempts)
<1> QED
  BY InitInOrder, InOrderStep, AttemptsStep, TypeCorrect, PTL DEF Spec

LEMMA OutdatedSeq ==
  ASSUME TypeOK, InOrder
  PROVE  /\ Outdated \in Seq(Nat)
         /\ Len(Outdated) = outdated
         /\ Outdated = <<>> <=> outdated = 0
<1>1. outdated \in Nat /\ Outdated \in [1 .. outdated -> Nat]
  BY ReaderTypes DEF InOrder, Outdated
<1>2. Outdated \in Seq(Nat)
  BY <1>1, SeqDef
<1>3. Len(Outdated) \in Nat /\ DOMAIN Outdated = 1 .. Len(Outdated)
  BY <1>2, LenProperties
<1>4. Len(Outdated) = outdated
  <2>1. 1 .. Len(Outdated) = 1 .. outdated
    BY <1>1, <1>3
  <2>2. QED
    BY <1>1, <1>3, <2>1
<1>5. Outdated # <<>> => Len(Outdated) \in Nat \ {0}
  BY <1>2, EmptySeq
<1>6. Len(<<>>) = 0
  BY EmptySeq
<1>7. QED
  BY <1>2, <1>4, <1>5, <1>6

\* The message handed out next, after those outdated.
LEMMA NextComing ==
  ASSUME TypeOK, InOrder
  PROVE  Coming(outdated + 1) = fetchPos - (OnTheirWay - outdated)
<1>1. CASE outdated < OnTheirWay
  <2>1. outdated + 1 \in outdated + 1 .. OnTheirWay
    BY <1>1, ReaderTypes
  <2>2. QED
    BY <2>1, ReaderTypes DEF InOrder
<1>2. CASE outdated = OnTheirWay
  BY <1>2, ReaderTypes DEF Coming, OnTheirWay, TypeOK
<1>3. QED
  BY <1>1, <1>2, ReaderTypes DEF InOrder

LEMMA PoolReaderRests ==
  ASSUME TypeOK, UNCHANGED <<committed, outdated>>,
         \A i \in 1 .. outdated + 1 : Coming(i)' = Coming(i)
  PROVE  UNCHANGED Pool!readerVars
<1>1. Coming(outdated + 1)' = Coming(outdated + 1)
  BY ReaderTypes
<1>2. Outdated' = Outdated
  BY ReaderTypes DEF Outdated
<1>3. QED
  BY <1>1, <1>2 DEF Pool!readerVars, HandedNext

LEMMA PoolWorkersRest ==
  ASSUME \A w \in Workers :
           /\ PoolPlace(w)' = PoolPlace(w)
           /\ PoolPlace(w) # "idle" => msg'[w] = msg[w] /\ attempt'[w] = attempt[w]
  PROVE  UNCHANGED Pool!workerVars
BY DEF Pool!workerVars, PoolPc, PoolEv, PoolTries

\* Where a worker is for the pool depends on its own state only.
OnlyMoves(w) ==
  \A v \in Workers \ {w} :
    /\ pc'[v] = pc[v] /\ msg'[v] = msg[v]
    /\ attempt'[v] = attempt[v] /\ decision'[v] = decision[v]

LEMMA OneMoves ==
  ASSUME NEW w \in Workers, OnlyMoves(w)
  PROVE  /\ PoolPc' = [PoolPc EXCEPT ![w] = PoolPlace(w)']
         /\ PoolEv' = [PoolEv EXCEPT ![w] =
              IF PoolPlace(w)' = "idle" THEN 0 ELSE msg'[w] + 1]
         /\ PoolTries' = [PoolTries EXCEPT ![w] =
              IF PoolPlace(w)' = "idle" THEN 0 ELSE attempt'[w]]
<1>1. \A v \in Workers \ {w} : PoolPlace(v)' = PoolPlace(v)
  BY DEF OnlyMoves, PoolPlace, Decided
<1>2. QED
  BY <1>1 DEF OnlyMoves, PoolPc, PoolEv, PoolTries

\* A worker is handed the message that is next.
LEMMA TakeStarts ==
  ASSUME TypeOK, InOrder, Attempts, NEW w \in Workers, Take(w)
  PROVE  Pool!Start(w, "work")
<1>1. /\ PoolPlace(w) = "idle" /\ PoolPlace(w)' = "work"
      /\ attempt'[w] = 0
  BY DEF Attempts, Take, TypeOK, PoolPlace, Decided, Stopped, Holding
<1>2. /\ PoolPc' = [PoolPc EXCEPT ![w] = "work"]
      /\ PoolEv' = [PoolEv EXCEPT ![w] = msg'[w] + 1]
      /\ PoolTries' = [PoolTries EXCEPT ![w] = 0]
  <2>1. OnlyMoves(w)
    BY DEF Take, TypeOK, OnlyMoves
  <2>2. QED
    BY <1>1, <2>1, OneMoves
<1>3. PoolTries' = PoolTries
  BY <1>1, <1>2 DEF PoolTries
<1>4. /\ OnTheirWay \in Nat \ {0}
      /\ \A i \in 1 .. OnTheirWay : Coming(i)' = Coming(i + 1)
      /\ Coming(1) = msg'[w]
  BY TakeShifts
<1>5. outdated' = (IF outdated = 0 THEN 0 ELSE outdated - 1) /\ committed' = committed
  BY DEF Take
<1>6. UNCHANGED <<Pool!historyVars, Pool!boundVars>>
  BY DEF Pool!historyVars, Pool!boundVars, PoolAcked, PoolLost, Take, historyVars, boundVars
<1>7. CASE outdated = 0
  <2>1. Outdated = <<>> /\ Outdated' = Outdated
    <3>1. Outdated = <<>>
      BY <1>7, OutdatedSeq
    <3>2. Outdated' = Outdated
      BY <1>5, <1>7 DEF Outdated
    <3>3. QED
      BY <3>1, <3>2
  <2>2. Coming(outdated + 1)' + 1 = Coming(outdated + 1) + 1 + 1
    <3>1. Coming(1) = fetchPos - OnTheirWay
      BY <1>7, NextComing, ReaderTypes
    <3>2. Coming(2) = fetchPos - OnTheirWay + 1
      <4>1. CASE OnTheirWay > 1
        BY <1>7, <4>1, ReaderTypes DEF InOrder
      <4>2. CASE OnTheirWay = 1
        <5>0. PICK n \in Nat : n = Len(deliveries) /\ (OnTheirWay = n \/ OnTheirWay = n + 1)
          BY ReaderTypes DEF OnTheirWay
        <5>1. ~(2 <= n) /\ ~(2 <= OnTheirWay)
          BY <4>2, <5>0
        <5>2. ~(2 <= Len(deliveries)) /\ ~(2 <= OnTheirWay)
          BY <5>0, <5>1, Zenon
        <5>3. Coming(2) = fetchPos
          BY <5>2 DEF Coming
        <5>4. QED
          BY <4>2, <5>3, ReaderTypes
      <4>3. QED
        BY <1>4, <4>1, <4>2
    <3>3. Coming(1)' = Coming(2)
      BY <1>4
    <3>4. QED
      BY <1>5, <1>7, <3>1, <3>2, <3>3, ReaderTypes
  <2>3. msg'[w] + 1 = Coming(outdated + 1) + 1
    BY <1>4, <1>7
  <2>4. Pool!NextMessage = Coming(outdated + 1) + 1
    BY <2>1 DEF Pool!NextMessage, HandedNext
  <2>5. HandedNext' = HandedNext + 1 /\ Pool!NextMessage = msg'[w] + 1
    BY <2>2, <2>3, <2>4 DEF HandedNext
  <2>6. QED
    BY <1>1, <1>2, <1>3, <1>5, <1>6, <2>1, <2>5 DEF Pool!Start, PoolPc
<1>8. CASE outdated # 0
  <2>1. Outdated # <<>> /\ Head(Outdated) = msg'[w] + 1
    <3>1. Outdated # <<>> /\ Outdated \in Seq(Nat)
      BY <1>8, OutdatedSeq
    <3>2. Outdated[1] = Coming(1) + 1
      BY <1>8, ReaderTypes DEF Outdated
    <3>3. QED
      BY <1>4, <3>1, <3>2
  <2>2. Outdated' = Tail(Outdated)
    <3>1. /\ Tail(Outdated) \in Seq(Nat)
          /\ Len(Tail(Outdated)) = outdated - 1
          /\ \A i \in 1 .. outdated - 1 : Tail(Outdated)[i] = Outdated[i + 1]
      BY <1>8, OutdatedSeq, HeadTailProperties
    <3>2. Tail(Outdated) \in [1 .. outdated - 1 -> Nat]
      BY <3>1, LenProperties
    <3>3. \A i \in 1 .. outdated - 1 : Tail(Outdated)[i] = Coming(i + 1) + 1
      BY <3>1, ReaderTypes DEF Outdated
    <3>4. \A i \in 1 .. outdated - 1 : Coming(i)' = Coming(i + 1)
      BY <1>4, ReaderTypes DEF InOrder
    <3>5. Outdated' = [i \in 1 .. outdated - 1 |-> Coming(i + 1) + 1]
      BY <1>5, <1>8, <3>4 DEF Outdated
    <3>6. QED
      BY <3>2, <3>3, <3>5
  <2>3. HandedNext' = HandedNext
    <3>1. Coming(outdated + 1)' = Coming(outdated + 1)
      BY <1>4, <1>5, <1>8, ReaderTypes DEF InOrder
    <3>2. QED
      BY <3>1 DEF HandedNext
  <2>4. Pool!NextMessage = msg'[w] + 1
    BY <2>1 DEF Pool!NextMessage
  <2>5. QED
    BY <1>1, <1>2, <1>3, <1>5, <1>6, <2>1, <2>2, <2>3, <2>4 DEF Pool!Start, PoolPc
<1>9. QED
  BY <1>7, <1>8

LEMMA PoolHistoryRests ==
  ASSUME UNCHANGED <<processed, abandoned, skipped, restarts, rejoins>>
  PROVE  UNCHANGED <<Pool!historyVars, Pool!boundVars>>
BY DEF Pool!historyVars, Pool!boundVars, PoolAcked, PoolLost

\* Nothing is fetched or handed out.
LEMMA PoolReaderStays ==
  ASSUME TypeOK, UNCHANGED <<deliveries, inHand, fetchPos, outdated>>
  PROVE  /\ Outdated' = Outdated
         /\ HandedNext' = HandedNext
         /\ UNCHANGED committed => UNCHANGED Pool!readerVars
<1>1. \A i \in 1 .. outdated + 1 : Coming(i)' = Coming(i)
  BY ComingStays, ReaderTypes
<1>2. outdated' = outdated /\ outdated \in Nat
  BY ReaderTypes
<1>3. \A i \in 1 .. outdated : Coming(i)' = Coming(i)
  BY <1>1, <1>2
<1>4. Outdated' = Outdated
  BY <1>2, <1>3 DEF Outdated
<1>5. HandedNext' = HandedNext
  BY <1>1, <1>2 DEF HandedNext
<1>6. QED
  BY <1>1, <1>2, <1>4, <1>5, PoolReaderRests

LEMMA RequestRetryServes ==
  ASSUME TypeOK, Attempts, NEW w \in Workers, RequestRetry(w)
  PROVE  PoolPlace(w) = "work" /\ Pool!Retry(w, "work")
<1>1. PoolPlace(w) = "work" /\ PoolPlace(w)' = "work"
      /\ msg'[w] = msg[w] /\ attempt'[w] = attempt[w] + 1
  BY DEF Attempts, RequestRetry, TypeOK, PoolPlace, Decided, Stopped, Holding
<1>2. OnlyMoves(w)
  BY DEF RequestRetry, OnlyMoves, TypeOK
<1>3. /\ PoolPc' = [PoolPc EXCEPT ![w] = "work"]
      /\ PoolEv' = [PoolEv EXCEPT ![w] = msg[w] + 1]
      /\ PoolTries' = [PoolTries EXCEPT ![w] = attempt[w] + 1]
  BY <1>1, <1>2, OneMoves
<1>4. PoolEv' = PoolEv /\ PoolTries[w] = attempt[w]
  BY <1>1, <1>3 DEF PoolEv, PoolTries
<1>5. UNCHANGED <<Pool!readerVars, Pool!historyVars, Pool!boundVars>>
  BY PoolReaderStays, PoolHistoryRests
     DEF RequestRetry, readerVars, channelVars, historyVars, boundVars
<1>6. attempt[w] < MaxRetries
  BY DEF RequestRetry
<1>7. QED
  BY <1>1, <1>3, <1>4, <1>5, <1>6 DEF Pool!Retry

LEMMA DecideServes ==
  ASSUME TypeOK, Attempts, NEW w \in Workers, Decide(w)
  PROVE  \/ PoolPlace(w) = "work" /\ Pool!Acknowledge(w)
         \/ UNCHANGED Pool!poolVars
<1>1. PoolPlace(w) = "work"
      /\ PoolPlace(w)' = (IF decision'[w] \in {"ack", "drop"} THEN "commit" ELSE "work")
      /\ msg'[w] = msg[w] /\ attempt'[w] = attempt[w]
  BY DEF Attempts, Decide, TypeOK, PoolPlace, Decided, Stopped, Holding
<1>2. OnlyMoves(w)
  <2>1. PICK d : decision' = [decision EXCEPT ![w] = d]
    BY DEF Decide
  <2>2. QED
    BY <2>1 DEF Decide, OnlyMoves, TypeOK
<1>3. /\ PoolPc' = [PoolPc EXCEPT ![w] = PoolPlace(w)']
      /\ PoolEv' = [PoolEv EXCEPT ![w] = msg[w] + 1]
      /\ PoolTries' = [PoolTries EXCEPT ![w] = attempt[w]]
  BY <1>1, <1>2, OneMoves
<1>4. PoolEv' = PoolEv /\ PoolTries' = PoolTries /\ PoolEv[w] = msg[w] + 1
  BY <1>1, <1>3 DEF PoolEv, PoolTries
<1>5. UNCHANGED <<Pool!readerVars, Pool!boundVars>>
  BY PoolReaderStays DEF Decide, readerVars, channelVars, boundVars, Pool!boundVars
<1>6. /\ processed' = IF decision'[w] \in {"ack", "drop"} THEN processed \cup {msg[w]}
                      ELSE processed
      /\ UNCHANGED <<abandoned, skipped>>
  BY DEF Decide, Recovered, Outcomes, TypeOK
<1>7. CASE decision'[w] \in {"ack", "drop"}
  <2>1. PoolAcked' = PoolAcked \cup {PoolEv[w]}
    BY <1>4, <1>6, <1>7 DEF PoolAcked
  <2>2. PoolLost' = PoolLost
    BY <1>6 DEF PoolLost
  <2>3. QED
    BY <1>1, <1>3, <1>4, <1>5, <1>7, <2>1, <2>2
       DEF Pool!Acknowledge
<1>8. CASE decision'[w] \notin {"ack", "drop"}
  <2>1. PoolPc' = PoolPc
    BY <1>1, <1>3, <1>8 DEF PoolPc
  <2>2. UNCHANGED Pool!historyVars
    BY <1>6, <1>8 DEF Pool!historyVars, PoolAcked, PoolLost
  <2>3. QED
    BY <1>4, <1>5, <2>1, <2>2
       DEF Pool!poolVars, Pool!workerVars
<1>9. QED
  BY <1>7, <1>8

\* A commit that fails has the worker leave; for the pool it is done as well.
LEMMA CommitServes ==
  ASSUME TypeOK, NEW w \in Workers, Commit(w) \/ CommitFails(w)
  PROVE  Pool!Commit(w)
<1>1. PoolPlace(w) = "commit" /\ PoolPlace(w)' = "idle"
  BY DEF Commit, CommitFails, Completed, Fail, TypeOK, PoolPlace, Decided, Stopped,
         Holding
<1>2. OnlyMoves(w)
  BY DEF Commit, CommitFails, Completed, Fail, OnlyMoves, TypeOK
<1>3. /\ PoolPc' = [PoolPc EXCEPT ![w] = "idle"]
      /\ PoolEv' = [PoolEv EXCEPT ![w] = 0]
      /\ PoolTries' = [PoolTries EXCEPT ![w] = 0]
  BY <1>1, <1>2, OneMoves
<1>4. Outdated' = Outdated /\ HandedNext' = HandedNext
  BY PoolReaderStays DEF Commit, CommitFails, Completed, Fail, readerVars, channelVars
<1>5. UNCHANGED <<Pool!historyVars, Pool!boundVars>>
  BY PoolHistoryRests DEF Commit, CommitFails, Completed, Fail, historyVars, boundVars
<1>6. PoolEv[w] = msg[w] + 1
  BY <1>1 DEF PoolEv
<1>7. committed' + 1 = PoolEv[w] + 1 \/ committed' + 1 = committed + 1
  BY <1>6 DEF Commit, CommitFails, CommitOffset
<1>9. QED
  BY <1>1, <1>3, <1>4, <1>5, <1>7
     DEF Pool!Commit, Pool!Release, Pool!NoEvent, PoolPc

LEMMA GiveUpServes ==
  ASSUME TypeOK, Attempts, NEW w \in Workers, GiveUp(w)
  PROVE  PoolPlace(w) = "work" /\ Pool!Retry(w, "work")
<1>1. PoolPlace(w) = "work" /\ PoolPlace(w)' = "idle" /\ attempt[w] = MaxRetries
  BY DEF Attempts, GiveUp, Completed, TypeOK, PoolPlace, Decided, Stopped, Holding
<1>2. OnlyMoves(w)
  BY DEF GiveUp, Completed, OnlyMoves, TypeOK
<1>3. /\ PoolPc' = [PoolPc EXCEPT ![w] = "idle"]
      /\ PoolEv' = [PoolEv EXCEPT ![w] = 0]
      /\ PoolTries' = [PoolTries EXCEPT ![w] = 0]
  BY <1>1, <1>2, OneMoves
<1>4. PoolEv[w] = msg[w] + 1 /\ PoolTries[w] = MaxRetries
  BY <1>1 DEF PoolEv, PoolTries
<1>5. UNCHANGED <<Pool!readerVars, Pool!boundVars>>
  BY PoolReaderStays DEF GiveUp, Completed, readerVars, channelVars, boundVars, Pool!boundVars
<1>6. PoolLost' = PoolLost \cup {PoolEv[w]}
  BY <1>4 DEF GiveUp, Completed, PoolLost
<1>7. PoolAcked' = PoolAcked
  BY DEF GiveUp, Completed, PoolAcked
<1>8. QED
  BY <1>1, <1>3, <1>4, <1>5, <1>6, <1>7
     DEF Pool!Retry, Pool!Release, Pool!NoEvent

\* The steps of the receive loop and those that end a run do not show.
LEMMA RunHidden ==
  ASSUME TypeOK, InOrder, Attempts,
         \/ ReceiveLoop \/ Cancel \/ Return \/ UNCHANGED vars
         \/ \E w \in Workers : WorkerExits(w) \/ BackoffElapses(w) \/ BackoffCancelled(w)
                                 \/ CompletionFails(w)
  PROVE  UNCHANGED Pool!poolVars
<1> USE DEF readerVars, channelVars, workerVars, historyVars, boundVars
<1>1. UNCHANGED <<committed, outdated, processed, abandoned, skipped, restarts, rejoins>>
  BY DEF ReceiveLoop, Receive, Send, ReceiveFails, SendCancelled, ReceiveReturns, Cancel,
         Return, WorkerExits, BackoffElapses, BackoffCancelled, CompletionFails, Fail, vars
<1>2. UNCHANGED Pool!readerVars
  <2>1. CASE Receive
    BY <1>1, <2>1, ReceiveExtends, PoolReaderRests, ReaderTypes DEF InOrder
  <2>2. CASE Send
    BY <1>1, <2>2, SendKeepsComing, PoolReaderRests, ReaderTypes DEF InOrder
  <2>3. CASE ~Receive /\ ~Send
    <3>1. UNCHANGED <<deliveries, inHand, fetchPos>>
      BY <2>3 DEF ReceiveLoop, ReceiveFails, SendCancelled, ReceiveReturns, Cancel,
                  Return, WorkerExits, BackoffElapses, BackoffCancelled, CompletionFails,
                  Fail, vars
    <3>2. QED
      BY <1>1, <3>1, PoolReaderStays
  <2>4. QED
    BY <2>1, <2>2, <2>3
<1>3. UNCHANGED Pool!workerVars
  <2>1. ASSUME UNCHANGED <<pc, msg, attempt, decision>>
        PROVE  UNCHANGED Pool!workerVars
    <3>1. \A w \in Workers : PoolPlace(w)' = PoolPlace(w)
      BY <2>1 DEF PoolPlace, Decided
    <3>2. QED
      BY <2>1, <3>1, PoolWorkersRest
  <2>2. ASSUME NEW w \in Workers,
               WorkerExits(w) \/ BackoffElapses(w) \/ BackoffCancelled(w)
                 \/ CompletionFails(w)
        PROVE  UNCHANGED Pool!workerVars
    <3>1. UNCHANGED <<msg, attempt, decision>>
      BY <2>2 DEF WorkerExits, BackoffElapses, BackoffCancelled, CompletionFails, Fail
    <3>2. \A v \in Workers \ {w} : pc'[v] = pc[v]
      BY <2>2 DEF WorkerExits, BackoffElapses, BackoffCancelled, CompletionFails, Fail,
                  TypeOK
    <3>3. \A v \in Workers \ {w} : PoolPlace(v)' = PoolPlace(v)
      BY <3>1, <3>2 DEF PoolPlace, Decided
    <3>4. PoolPlace(w)' = PoolPlace(w)
      BY <2>2 DEF Attempts, WorkerExits, BackoffElapses, BackoffCancelled,
                  CompletionFails, Fail, TypeOK, PoolPlace, Decided, Stopped, Holding
    <3>5. \A v \in Workers : PoolPlace(v)' = PoolPlace(v)
      BY <3>3, <3>4
    <3>6. QED
      BY <3>1, <3>5, PoolWorkersRest
  <2>3. QED
    BY <2>1, <2>2 DEF ReceiveLoop, Receive, Send, ReceiveFails, SendCancelled,
                      ReceiveReturns, Cancel, Return, vars
<1>4. QED
  BY <1>1, <1>2, <1>3, PoolHistoryRests DEF Pool!poolVars

LEMMA RestartServes ==
  ASSUME TypeOK, InOrder', TypeOK', Restart
  PROVE  Pool!Restart
<1>1. outdated' = 0 /\ Outdated' = <<>>
  <2>1. outdated' = 0
    BY DEF Restart, FreshRun
  <2>2. (Outdated = <<>> <=> outdated = 0)'
    BY OutdatedSeq, PTL
  <2>3. QED
    BY <2>1, <2>2
<1>2. HandedNext' = committed + 1
  <2>1. Coming(outdated + 1)' = committed
    BY <1>1 DEF Restart, FreshRun, Coming, OnTheirWay
  <2>2. QED
    BY <2>1 DEF HandedNext
<1>3. /\ PoolPc' = [w \in Workers |-> "idle"]
      /\ PoolEv' = [w \in Workers |-> 0]
      /\ PoolTries' = [w \in Workers |-> 0]
  <2>1. \A w \in Workers : PoolPlace(w)' = "idle"
    BY DEF Restart, FreshRun, PoolPlace, Stopped, Holding
  <2>2. QED
    BY <2>1 DEF PoolPc, PoolEv, PoolTries
<1>4. PoolLost' = PoolLost \cup ((1 .. (committed + 1) - 1) \ PoolAcked)
  <2>1. \A o \in processed \cup abandoned \cup skipped : o \in Int
    BY DEF TypeOK, Offsets
  <2>2. skipped' = skipped \cup ((0 .. committed - 1) \ (processed \cup abandoned))
        /\ abandoned' = abandoned
    BY DEF Restart
  <2>3. committed \in Nat
    BY RunnerAssumption DEF TypeOK
  <2>4. ASSUME NEW o \in abandoned' \cup skipped', o \notin abandoned \cup skipped
        PROVE  o + 1 \in 1 .. committed /\ o + 1 \notin {p + 1 : p \in processed}
    BY <2>1, <2>2, <2>3, <2>4
  <2>5. ASSUME NEW n \in 1 .. committed, n \notin {o + 1 : o \in processed}
        PROVE  \E o \in abandoned' \cup skipped' : n = o + 1
    <3>1. n - 1 \in 0 .. committed - 1 /\ n = (n - 1) + 1
      BY <2>3
    <3>2. n - 1 \notin processed
      BY <2>5, <3>1
    <3>3. n - 1 \in abandoned' \cup skipped'
      BY <2>2, <3>1, <3>2
    <3>4. QED
      BY <3>1, <3>3
  <2>6. abandoned \cup skipped \subseteq abandoned' \cup skipped'
    BY <2>2
  <2>7. 1 .. (committed + 1) - 1 = 1 .. committed
    BY <2>3
  <2>8. QED
    BY <2>4, <2>5, <2>6, <2>7 DEF PoolLost, PoolAcked
<1>5. UNCHANGED <<committed, processed, rejoins>>
      /\ restarts < MaxRestarts /\ restarts' = restarts + 1
  BY DEF Restart
<1>6. UNCHANGED <<committed + 1, PoolAcked, rejoins>>
  BY <1>5 DEF PoolAcked
<1>7. QED
  BY <1>1, <1>2, <1>3, <1>4, <1>5, <1>6, Zenon DEF Pool!Restart, Pool!NoEvent

LEMMA RejoinServes ==
  ASSUME TypeOK, InOrder, Rejoin
  PROVE  Pool!Rejoin(HandedNext + (Buffer + 1))
<1> DEFINE k == OnTheirWay - outdated
           fetched == [i \in 1 .. k |-> HandedNext + i - 1]
<1> HIDE DEF fetched
<1>1. k \in 0 .. (Buffer + 1) - Len(Outdated) /\ k \in Nat
  <2>1. OnTheirWay <= Buffer + 1 /\ outdated <= OnTheirWay
    BY RunnerAssumption, ReaderTypes DEF TypeOK, OnTheirWay, InOrder
  <2>2. QED
    BY <2>1, OutdatedSeq, ReaderTypes, RunnerAssumption
<1>2. /\ outdated' = OnTheirWay
      /\ \A i \in 1 .. OnTheirWay : Coming(i)' = Coming(i)
      /\ Coming(outdated + 1)' = committed
  BY ReaderTypes DEF Rejoin, Coming, OnTheirWay
<1>3. Outdated' = Outdated \o fetched
  <2>1. Outdated' = [i \in 1 .. OnTheirWay |-> Coming(i) + 1]
    BY <1>2 DEF Outdated
  <2>2. fetched \in Seq(Nat) /\ Len(fetched) = k
    <3>1. fetched \in [1 .. k -> Nat]
      <4>1. HandedNext \in Nat
        BY ReaderTypes, SMTT(20) DEF InOrder, HandedNext
      <4>2. \A i \in 1 .. k : HandedNext + i - 1 \in Nat
        BY <1>1, <4>1
      <4>3. QED
        BY <4>2, Zenon DEF fetched
    <3>2. fetched \in Seq(Nat)
      BY <1>1, <3>1, SeqDef
    <3>3. Len(fetched) \in Nat /\ DOMAIN fetched = 1 .. Len(fetched)
      BY <3>2, LenProperties
    <3>4. 1 .. Len(fetched) = 1 .. k
      BY <3>1, <3>3
    <3>5. QED
      BY <1>1, <3>2, <3>3, <3>4
  <2>3. /\ Outdated \o fetched \in Seq(Nat)
        /\ Len(Outdated \o fetched) = OnTheirWay
        /\ \A i \in 1 .. OnTheirWay :
             (Outdated \o fetched)[i] = IF i <= outdated THEN Outdated[i] ELSE fetched[i - outdated]
    <3>1. outdated + k = OnTheirWay
      BY ReaderTypes
    <3>2. Outdated \in Seq(Nat) /\ Len(Outdated) = outdated
      BY OutdatedSeq
    <3>3. /\ Outdated \o fetched \in Seq(Nat)
          /\ Len(Outdated \o fetched) = Len(Outdated) + Len(fetched)
          /\ \A i \in 1 .. Len(Outdated) + Len(fetched) :
               (Outdated \o fetched)[i] =
                 IF i <= Len(Outdated) THEN Outdated[i] ELSE fetched[i - Len(Outdated)]
      BY <2>2, <3>2, ConcatProperties
    <3>4. Len(Outdated) + Len(fetched) = OnTheirWay
      BY <2>2, <3>1, <3>2
    <3>5. QED
      BY <3>2, <3>3, <3>4
  <2>4. Outdated \o fetched \in [1 .. OnTheirWay -> Nat]
    BY <2>3, LenProperties
  <2>5. ASSUME NEW i \in 1 .. OnTheirWay
        PROVE  (Outdated \o fetched)[i] = Coming(i) + 1
    <3>1. CASE i <= outdated
      BY <2>3, <3>1, ReaderTypes DEF Outdated
    <3>2. CASE i > outdated
      <4>1. (Outdated \o fetched)[i] = Coming(outdated + 1) + 1 + (i - outdated) - 1
        <5>1. i - outdated \in 1 .. k /\ ~(i <= outdated)
          BY <3>2, ReaderTypes
        <5>2. (Outdated \o fetched)[i] = fetched[i - outdated]
          BY <2>3, <5>1
        <5>3. QED
          BY <5>1, <5>2 DEF fetched, HandedNext
      <4>2. Coming(i) = fetchPos - (OnTheirWay + 1 - i)
        BY <3>2, ReaderTypes DEF InOrder
      <4>3. QED
        <5>1. Coming(outdated + 1) = fetchPos - (OnTheirWay - outdated)
          BY NextComing
        <5>2. QED
          BY <4>1, <4>2, <5>1, ReaderTypes
    <3>3. i <= outdated \/ i > outdated
      BY ReaderTypes
    <3>4. QED
      BY <3>1, <3>2, <3>3
  <2>6. QED
    BY <2>1, <2>4, <2>5
<1>4. HandedNext' = committed + 1
  BY <1>2 DEF HandedNext
<1>5. HandedNext + k - 1 <= HandedNext + (Buffer + 1)
  BY <1>1, ReaderTypes, RunnerAssumption DEF InOrder, HandedNext
<1>6. UNCHANGED Pool!workerVars
  <2>1. \A w \in Workers : PoolPlace(w)' = PoolPlace(w)
    BY DEF Rejoin, workerVars, PoolPlace, Decided
  <2>2. QED
    BY <2>1, PoolWorkersRest DEF Rejoin, workerVars
<1>7. /\ UNCHANGED <<committed, processed, abandoned, skipped, restarts>>
      /\ rejoins < MaxRejoins /\ rejoins' = rejoins + 1
  BY DEF Rejoin, historyVars
<1>8. UNCHANGED Pool!historyVars
  BY <1>7 DEF Pool!historyVars, PoolAcked, PoolLost
<1>9. UNCHANGED <<committed + 1, Pool!workerVars, Pool!historyVars, restarts>>
  BY <1>6, <1>7, <1>8
<1>10. QED
  BY <1>1, <1>3, <1>4, <1>5, <1>7, <1>9, Zenon DEF Pool!Rejoin, fetched

\* The models of the handlers, which are built on HandlerPool, are models of what
\* the runner does: it hands out the log in order, calls a handler again after
\* Retry, commits, restarts and rejoins as the pool says.
THEOREM RunnerServesHandlers == Spec => ServesHandlers
<1>1. Init => Pool!PoolInit
  <2> SUFFICES ASSUME Init
               PROVE  Pool!PoolInit
    OBVIOUS
  <2>1. TypeOK /\ InOrder
    BY InitTypeOK, InitInOrder
  <2>2. Outdated = <<>>
    BY <2>1, OutdatedSeq DEF Init
  <2>3. HandedNext = 1 /\ committed + 1 = 1
    BY DEF Init, Coming, OnTheirWay, HandedNext
  <2>4. /\ PoolPc = [w \in Workers |-> "idle"]
        /\ PoolEv = [w \in Workers |-> 0]
        /\ PoolTries = [w \in Workers |-> 0]
    BY DEF Init, PoolPc, PoolEv, PoolTries, PoolPlace, Stopped, Holding
  <2>5. PoolAcked = {} /\ PoolLost = {}
    BY DEF Init, PoolAcked, PoolLost
  <2>6. QED
    BY <2>2, <2>3, <2>4, <2>5 DEF Init, Pool!PoolInit, Pool!NoEvent
<1>2. ASSUME TypeOK, TypeOK', InOrder, InOrder', Attempts, [Next]_vars
      PROVE  [Pool!PoolNext]_(Pool!poolVars)
  <2>1. ASSUME NEW w \in Workers, Worker(w)
        PROVE  [Pool!PoolNext]_(Pool!poolVars)
    <3>1. PoolPc[w] = PoolPlace(w)
      BY DEF PoolPc
    <3>2. CASE Take(w)
      BY <1>2, <3>2, TakeStarts DEF Pool!PoolNext
    <3>3. CASE RequestRetry(w) \/ GiveUp(w)
      BY <1>2, <3>1, <3>3, RequestRetryServes, GiveUpServes DEF Pool!PoolNext
    <3>4. CASE Decide(w)
      BY <1>2, <3>1, <3>4, DecideServes DEF Pool!PoolNext
    <3>5. CASE Commit(w) \/ CommitFails(w)
      BY <1>2, <3>5, CommitServes DEF Pool!PoolNext
    <3>6. CASE WorkerExits(w) \/ BackoffElapses(w) \/ BackoffCancelled(w)
                 \/ CompletionFails(w)
      BY <1>2, <3>6, RunHidden
    <3>7. QED
      BY <2>1, <3>2, <3>3, <3>4, <3>5, <3>6 DEF Worker
  <2>2. CASE Restart
    BY <1>2, <2>2, RestartServes DEF Pool!PoolNext
  <2>3. CASE Rejoin
    BY <1>2, <2>3, RejoinServes DEF Pool!PoolNext
  <2>4. CASE ReceiveLoop \/ Cancel \/ Return \/ UNCHANGED vars
    BY <1>2, <2>4, RunHidden
  <2>5. QED
    BY <1>2, <2>1, <2>2, <2>3, <2>4 DEF Next
<1>3. QED
  BY <1>1, <1>2, AlwaysInOrder, TypeCorrect, PTL DEF Spec, ServesHandlers, Pool!PoolSpec
=============================================================================
