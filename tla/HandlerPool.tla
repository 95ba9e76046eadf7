---------------------------- MODULE HandlerPool ----------------------------
(***************************************************************************)
(* The consumer runtime as a message handler sees it: what is left of      *)
(* pkg/public/messaging (module MessageRunner) when the channel, the       *)
(* receive loop and the shutdown of a run are hidden.                      *)
(*                                                                         *)
(* Workers are handed the messages of a log in its order, may overtake     *)
(* each other, call their handler again when it decides Retry, and commit  *)
(* the offset of a message in a step of its own.  A crash starts again     *)
(* from the committed offset; so does a rejoin of the consumer group, but  *)
(* while the workers carry on and after what had been fetched before.      *)
(*                                                                         *)
(* Models of handlers extend this module and say with their own steps what *)
(* happens between Start and Acknowledge or Retry.  MessageRunner          *)
(* implements PoolSpec.                                                    *)
(***************************************************************************)
EXTENDS Integers, Sequences, FiniteSets

CONSTANTS
  Workers,      \* the workers of the runner
  Prefetch,     \* messages fetched ahead: the channel and the one in hand
  MaxRetries,   \* handler calls after the first one
  MaxRestarts,  \* bound: how many times the process is started again
  MaxRejoins    \* bound: how many times the reader rejoins its group

ASSUME PoolAssumption ==
  /\ Prefetch \in Nat
  /\ MaxRetries \in Nat \ {0}
  /\ MaxRestarts \in Nat
  /\ MaxRejoins \in Nat

VARIABLES
  next,       \* the message handed out next, after those in stale
  stale,      \* messages fetched before the last rejoin, not yet handed out
  committed,  \* the message delivery starts from after a crash
  pc,         \* per worker: the step of the handler it is at
  ev,         \* per worker: the message it handles
  tries,      \* per worker: retries of that message so far
  acked,      \* history: messages whose handler has decided Ack or Drop
  lost,       \* history: messages given up or not redelivered by a crash
  restarts,   \* number of restarts so far
  rejoins     \* number of rejoins so far

readerVars  == <<next, stale, committed>>
workerVars  == <<pc, ev, tries>>
historyVars == <<acked, lost>>
boundVars   == <<restarts, rejoins>>
poolVars    == <<readerVars, workerVars, historyVars, boundVars>>

NoEvent == 0

-----------------------------------------------------------------------------
PoolInit ==
  /\ next      = 1
  /\ stale     = <<>>
  /\ committed = 1
  /\ pc    = [w \in Workers |-> "idle"]
  /\ ev    = [w \in Workers |-> NoEvent]
  /\ tries = [w \in Workers |-> 0]
  /\ acked = {}
  /\ lost  = {}
  /\ restarts = 0
  /\ rejoins  = 0

\* The worker is done with its message.
Release(w) ==
  /\ pc'    = [pc EXCEPT ![w] = "idle"]
  /\ ev'    = [ev EXCEPT ![w] = NoEvent]
  /\ tries' = [tries EXCEPT ![w] = 0]

\* The handler goes on to another of its steps.
GoTo(w, step) ==
  /\ pc' = [pc EXCEPT ![w] = step]
  /\ UNCHANGED <<ev, tries, readerVars, historyVars, boundVars>>

\* A worker is handed the message that is next: what was fetched before a
\* rejoin comes first.
NextMessage == IF stale # <<>> THEN Head(stale) ELSE next

Start(w, step) ==
  /\ pc[w] = "idle"
  /\ ev' = [ev EXCEPT ![w] = NextMessage]
  /\ pc' = [pc EXCEPT ![w] = step]
  /\ IF stale # <<>> THEN stale' = Tail(stale) /\ UNCHANGED next
                     ELSE next' = next + 1 /\ UNCHANGED stale
  /\ UNCHANGED <<committed, tries, historyVars, boundVars>>

\* Mutant: the handler is called again however often it has failed.
RetryForever(w, step) ==
  /\ pc'    = [pc EXCEPT ![w] = step]
  /\ tries' = [tries EXCEPT ![w] = @ + 1]
  /\ UNCHANGED <<ev, readerVars, historyVars, boundVars>>

\* The handler decides Retry: the runner calls it again from its first step,
\* or gives the message up after the last retry.
Retry(w, step) ==
  \/ /\ tries[w] < MaxRetries
     /\ pc'    = [pc EXCEPT ![w] = step]
     /\ tries' = [tries EXCEPT ![w] = @ + 1]
     /\ UNCHANGED <<ev, readerVars, historyVars, boundVars>>
  \/ /\ tries[w] = MaxRetries
     /\ Release(w)
     /\ lost' = lost \cup {ev[w]}
     /\ UNCHANGED <<acked, readerVars, boundVars>>

\* The handler decides Ack or Drop.
Acknowledge(w) ==
  /\ acked' = acked \cup {ev[w]}
  /\ pc' = [pc EXCEPT ![w] = "commit"]
  /\ UNCHANGED <<ev, tries, lost, readerVars, boundVars>>

\* Delivery.Ack and Delivery.Drop; a commit that fails ends the run, whether
\* or not the broker has taken the offset.
Commit(w) ==
  /\ pc[w] = "commit"
  /\ committed' = ev[w] + 1 \/ UNCHANGED committed
  /\ Release(w)
  /\ UNCHANGED <<next, stale, historyVars, boundVars>>

\* The process dies, between any two steps, and is started again.
Restart ==
  /\ restarts < MaxRestarts
  /\ restarts' = restarts + 1
  /\ next'  = committed
  /\ stale' = <<>>
  /\ lost'  = lost \cup ((1 .. committed - 1) \ acked)
  /\ pc'    = [w \in Workers |-> "idle"]
  /\ ev'    = [w \in Workers |-> NoEvent]
  /\ tries' = [w \in Workers |-> 0]
  /\ UNCHANGED <<committed, acked, rejoins>>

\* The reader joins a new group generation while the workers carry on: it
\* goes back to the committed offset, behind the messages it had fetched.
Rejoin(last) ==
  /\ rejoins < MaxRejoins
  /\ rejoins' = rejoins + 1
  /\ \/ \E k \in 0 .. Prefetch - Len(stale) :
          /\ next + k - 1 <= last
          /\ stale' = stale \o [i \in 1 .. k |-> next + i - 1]
          /\ next'  = committed
     \/ UNCHANGED <<next, stale>>
  /\ UNCHANGED <<committed, workerVars, historyVars, restarts>>

-----------------------------------------------------------------------------
(* The pool by itself: a handler is one step, of which nothing is said.     *)
PoolNext ==
  \/ \E w \in Workers :
       \/ Start(w, "work")
       \/ pc[w] = "work" /\ (Retry(w, "work") \/ Acknowledge(w))
       \/ Commit(w)
  \/ Restart
  \/ Rejoin(next + Prefetch)

PoolSpec == PoolInit /\ [][PoolNext]_poolVars

\* The state of the pool is well formed, for a handler with these steps over a
\* log of this length.
PoolTypeOK(last, steps) ==
  /\ next \in 1 .. last + 1
  /\ stale \in Seq(1 .. last)
  /\ committed \in 1 .. last + 1
  /\ pc \in [Workers -> steps \cup {"idle", "commit"}]
  /\ ev \in [Workers -> (1 .. last) \cup {NoEvent}]
  /\ \A w \in Workers : pc[w] # "idle" => ev[w] \in 1 .. last
  /\ tries \in [Workers -> 0 .. MaxRetries]
  /\ acked \subseteq 1 .. last
  /\ lost \subseteq 1 .. last
  /\ restarts \in 0 .. MaxRestarts
  /\ rejoins \in 0 .. MaxRejoins
=============================================================================
