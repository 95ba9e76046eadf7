----------------------------- MODULE MCReports -----------------------------
(* Model checking of Reports: a definition with one property and one event, *)
(* another that gives them other types, and reports that fit the first.     *)
EXTENDS Reports, TLC

Number == [properties |-> "n" :> "number", events |-> "alarm" :> <<>>]
Text   == [properties |-> "n" :> "text" @@ "m" :> "number", events |-> "alarm" :> ("n" :> "text")]

MCDefinitions == {Number, Text}

MCMessages ==
  {[kind |-> "property", name |-> "", values |-> "n" :> "number"],
   [kind |-> "event", name |-> "alarm", values |-> "n" :> "text"]}

MCWorkers  == {1, 2}
MCRequests == {1, 2}

\* Of two reports the first is one of a property.
MCInit == Init /\ (Len(log) = 2 => log[1].kind = "property")

\* Three of: reports, requests of the backend, lost changes, a crash or a rejoin,
\* of which there is none with two reports.  Of two idle workers or requests, which do
\* not differ, the first one starts.
MCNext ==
  /\ Next
  /\ Len(log) + served' + Cardinality(dropped') + restarts' + rejoins' <= 3
  /\ restarts' + rejoins' <= (IF Len(log) = 2 THEN 0 ELSE 1)
  /\ at[1] = "idle" /\ at[2] = "idle" => at'[2] = "idle"
  /\ pc[1] = "idle" /\ pc[2] = "idle" => pc'[2] = "idle"

MCSpec == MCInit /\ [][MCNext]_vars /\ Fairness
=============================================================================
