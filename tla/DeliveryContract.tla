-------------------------- MODULE DeliveryContract --------------------------
(***************************************************************************)
(* What a consumer of one log promises its producers, without saying how   *)
(* it is built: the messages below the committed offset are finished, but  *)
(* for at most Slack of them, and a restart loses no more than those.      *)
(* With Slack = 0 this is at-least-once delivery.                          *)
(***************************************************************************)
EXTENDS Integers, FiniteSets

CONSTANTS
  LogEnd,   \* number of messages in the log
  Slack     \* messages that may be unfinished below the committed offset

VARIABLES
  committed,  \* the committed offset
  processed,  \* messages finished
  abandoned,  \* messages given up
  skipped     \* messages lost in a restart

contractVars == <<committed, processed, abandoned, skipped>>

\* The unfinished messages below offset c.
Unfinished(c) == (0 .. c - 1) \ (processed \cup abandoned \cup skipped)

Init ==
  /\ committed = 0
  /\ processed = {}
  /\ abandoned = {}
  /\ skipped   = {}

Process ==
  /\ \E o \in 0 .. LogEnd - 1 : processed' = processed \cup {o}
  /\ UNCHANGED <<committed, abandoned, skipped>>

Abandon ==
  /\ \E o \in 0 .. LogEnd - 1 : abandoned' = abandoned \cup {o}
  /\ UNCHANGED <<committed, processed, skipped>>

\* Only the offset after a finished message is committed.
Commit ==
  /\ \E o \in processed :
       /\ Cardinality(Unfinished(o + 1)) <= Slack
       /\ committed' = o + 1
  /\ UNCHANGED <<processed, abandoned, skipped>>

Restart ==
  /\ skipped' = skipped \cup Unfinished(committed)
  /\ UNCHANGED <<committed, processed, abandoned>>

Next == Process \/ Abandon \/ Commit \/ Restart

Spec == Init /\ [][Next]_contractVars
=============================================================================
