---------------------------- MODULE CommandLife ----------------------------
(***************************************************************************)
(* What LinkFlow promises about a command (a property set or a service     *)
(* call): it is recorded before it can reach the device, the device can    *)
(* carry it out only when it was sent, and the history shows an outcome    *)
(* only if the device has reported it.  A command without a report turns   *)
(* from pending to failed; a report may still correct that later.          *)
(***************************************************************************)
CONSTANT Commands

VARIABLES
  shown,     \* per command: what the history says
  sent,      \* commands handed to the broker, perhaps more than once
  outcomes   \* per command: the outcomes it has had on the device

vars == <<shown, sent, outcomes>>

Verdict(success) == IF success THEN "success" ELSE "failed"

Init ==
  /\ shown    = [c \in Commands |-> "unknown"]
  /\ sent     = {}
  /\ outcomes = [c \in Commands |-> {}]

\* The command appears in the history, perhaps after its deadline.
Record(c) ==
  /\ shown[c] = "unknown"
  /\ \E s \in {"pending", "failed"} : shown' = [shown EXCEPT ![c] = s]
  /\ UNCHANGED <<sent, outcomes>>

Send(c) ==
  /\ shown[c] # "unknown"
  /\ sent' = sent \cup {c}
  /\ UNCHANGED <<shown, outcomes>>

Execute(c) ==
  /\ c \in sent
  /\ \E success \in BOOLEAN :
       outcomes' = [outcomes EXCEPT ![c] = @ \cup {success}]
  /\ UNCHANGED <<shown, sent>>

Answer(c) ==
  /\ shown[c] # "unknown"
  /\ \E success \in outcomes[c] : shown' = [shown EXCEPT ![c] = Verdict(success)]
  /\ UNCHANGED <<sent, outcomes>>

\* The deadlines of some commands pass at the same moment.
Expire ==
  /\ \E late \in SUBSET {c \in Commands : shown[c] = "pending"} :
       shown' = [c \in Commands |-> IF c \in late THEN "failed" ELSE shown[c]]
  /\ UNCHANGED <<sent, outcomes>>

Next ==
  \/ \E c \in Commands : Record(c) \/ Send(c) \/ Execute(c) \/ Answer(c)
  \/ Expire

Spec == Init /\ [][Next]_vars
=============================================================================
