--------------------------- MODULE ReportsProofs ---------------------------
(***************************************************************************)
(* Theorems about Reports and about the ThingsModels it reads: the current *)
(* model of a product, for every number of requests, thing models and      *)
(* definitions; and what is stored and published of a report, for every    *)
(* number of workers, every log and every set of definitions.              *)
(***************************************************************************)
EXTENDS Reports, TLAPS

----------------------------------------------------------------------------
(* The things models by themselves. *)

\* No request is one that deletes a model.
LEMMA NoAskType == NoAsk \in Asks /\ NoAsk.op = "delete" /\ ~NoAsk.current
<1>1. PICK m \in Models : TRUE
  BY ModelsAssumption
<1>2. AnyDefinition \in Definitions
  BY ModelsAssumption DEF AnyDefinition
<1> DEFINE ask == [op |-> "delete", model |-> m, current |-> FALSE, definition |-> AnyDefinition]
<1>3. ask \in Asks /\ ask.op = "delete"
  BY <1>1, <1>2 DEF Asks
<1>4. \E a \in Asks : a.op = "delete"
  BY <1>3
<1>5. NoAsk \in Asks /\ NoAsk.op = "delete"
  BY <1>4 DEF NoAsk
<1>6. QED
  BY <1>5 DEF Asks

LEMMA NoRowType == NoRow("unused") \in Rows /\ NoRow("gone") \in Rows
<1>1. AnyDefinition \in Definitions
  BY ModelsAssumption DEF AnyDefinition
<1>2. QED
  BY <1>1 DEF NoRow, Rows

LEMMA NewRowType ==
  ASSUME NEW a \in Asks
  PROVE  NewRow(a) \in Rows /\ (NewRow(a).current <=> a.current)
<1>1. a.model \in Models /\ a.definition \in Definitions /\ a.current \in BOOLEAN
  BY ModelsAssumption DEF Asks, AnyDefinition
<1>2. CASE a.op = "delete"
  <2>1. ~a.current
    BY <1>2 DEF Asks
  <2>2. QED
    BY <1>2, <2>1, NoRowType DEF NewRow, NoRow
<1>3. CASE a.op # "delete"
  BY <1>1, <1>3 DEF NewRow, Rows
<1>4. QED
  BY <1>2, <1>3

LEMMA AskModel == ASSUME NEW a \in Asks PROVE a.model \in Models
BY DEF Asks

-----------------------------------------------------------------------------
(* Types. *)

WritesOK == writes \in [Requests -> UNION {[M -> Rows] : M \in SUBSET Models}]

\* A row is added to what a request has written.
LEMMA WriteType ==
  ASSUME WritesOK, NEW r \in Requests, NEW m \in Models, NEW row \in Rows, Write(r, m, row)
  PROVE  /\ WritesOK'
         /\ DOMAIN writes'[r] = DOMAIN writes[r] \cup {m}
         /\ writes'[r][m] = row
         /\ \A k \in DOMAIN writes[r] : k # m => writes'[r][k] = writes[r][k]
         /\ \A q \in Requests : q # r => writes'[q] = writes[q]
<1> DEFINE new == [k \in DOMAIN writes[r] \cup {m} |-> IF k = m THEN row ELSE writes[r][k]]
<1>1. PICK M \in SUBSET Models : writes[r] \in [M -> Rows]
  BY DEF WritesOK
<1>2. DOMAIN writes[r] = M
  BY <1>1
<1>3. new \in [M \cup {m} -> Rows]
  BY <1>1, <1>2
<1>4. M \cup {m} \in SUBSET Models
  OBVIOUS
<1>5. new \in UNION {[N -> Rows] : N \in SUBSET Models}
  BY <1>3, <1>4
<1>6. writes' = [writes EXCEPT ![r] = new]
  BY DEF Write
<1> HIDE DEF new
<1>7. WritesOK' /\ writes'[r] = new /\ \A q \in Requests : q # r => writes'[q] = writes[q]
  BY <1>5, <1>6 DEF WritesOK
<1>8. DOMAIN new = DOMAIN writes[r] \cup {m} /\ new[m] = row
      /\ \A k \in DOMAIN writes[r] : k # m => new[k] = writes[r][k]
  BY DEF new
<1>9. QED
  BY <1>7, <1>8

LEMMA NoWritesType == NoWrites \in UNION {[M -> Rows] : M \in SUBSET Models} /\ DOMAIN NoWrites = {}
<1>1. NoWrites \in [{} -> Rows] /\ DOMAIN NoWrites = {}
  BY DEF NoWrites
<1>2. {} \in SUBSET Models
  OBVIOUS
<1>3. QED
  BY <1>1, <1>2

\* The end of a transaction.
LEMMA EndType ==
  ASSUME ModelsTypeOK, NEW r \in Requests, End(r)
  PROVE  /\ request' \in [Requests -> Asks] /\ request'[r] = NoAsk
         /\ at' \in [Requests -> {"idle", "find", "clear", "write", "commit"}] /\ at'[r] = "idle"
         /\ found' \in [Requests -> SUBSET Models]
         /\ WritesOK' /\ DOMAIN writes'[r] = {}
         /\ \A q \in Requests : q # r => /\ request'[q] = request[q] /\ at'[q] = at[q]
                                         /\ writes'[q] = writes[q]
<1>1. WritesOK' /\ DOMAIN writes'[r] = {} /\ \A q \in Requests : q # r => writes'[q] = writes[q]
  BY NoWritesType DEF End, ModelsTypeOK, WritesOK
<1>2. QED
  BY <1>1, NoAskType DEF End, ModelsTypeOK

LEMMA SeenType ==
  ASSUME ModelsTypeOK, NEW r \in Requests, NEW m \in Models
  PROVE  Seen(r, m) \in Rows
<1>1. PICK M \in SUBSET Models : writes[r] \in [M -> Rows]
  BY DEF ModelsTypeOK
<1>2. QED
  BY <1>1 DEF Seen, ModelsTypeOK

LEMMA CurrentsType ==
  ASSUME models \in [Models -> Rows]
  PROVE  CurrentDefinitions \subseteq Definitions \cup {NoDefinition}
BY DEF CurrentDefinitions, Currents, Rows

LEMMA ModelsInitType == ModelsInit => ModelsTypeOK
<1> SUFFICES ASSUME ModelsInit PROVE ModelsTypeOK
  OBVIOUS
<1>1. models \in [Models -> Rows]
  <2>1. CASE models = [m \in Models |-> NoRow("unused")]
    BY <2>1, NoRowType
  <2>2. ASSUME NEW c \in Models, NEW d \in Definitions,
               models = [m \in Models |->
                           IF m = c THEN [state |-> "here", current |-> TRUE, definition |-> d]
                                    ELSE NoRow("unused")]
        PROVE  models \in [Models -> Rows]
    <3>1. [state |-> "here", current |-> TRUE, definition |-> d] \in Rows
      BY DEF Rows
    <3>2. QED
      BY <2>2, <3>1, NoRowType
  <2>3. QED
    BY <2>1, <2>2 DEF ModelsInit
<1>2. past \subseteq Definitions \cup {NoDefinition}
  BY <1>1, CurrentsType DEF ModelsInit
<1>3. writes \in [Requests -> UNION {[M -> Rows] : M \in SUBSET Models}]
  BY NoWritesType DEF ModelsInit
<1>4. QED
  BY <1>1, <1>2, <1>3, NoAskType, ModelsAssumption DEF ModelsInit, ModelsTypeOK

LEMMA ModelsTypeStep == ModelsTypeOK /\ [ModelsNext]_modelVars => ModelsTypeOK'
<1> SUFFICES ASSUME ModelsTypeOK, [ModelsNext]_modelVars
             PROVE  ModelsTypeOK'
  OBVIOUS
<1>0. WritesOK
  BY DEF ModelsTypeOK, WritesOK
<1>1. ASSUME NEW r \in Requests, NEW a \in Asks, Ask(r, a)
      PROVE  ModelsTypeOK'
  BY <1>1, ModelsAssumption DEF Ask, ModelsTypeOK
<1>2. ASSUME NEW r \in Requests, Find(r)
      PROVE  ModelsTypeOK'
  <2>1. Currents \in SUBSET Models
    BY DEF Currents
  <2>2. QED
    BY <1>2, <2>1 DEF Find, ModelsTypeOK
<1>3. ASSUME NEW r \in Requests, NEW m \in Models, Clear(r, m)
      PROVE  ModelsTypeOK'
  <2>1. [models[m] EXCEPT !.current = FALSE] \in Rows
    BY DEF ModelsTypeOK, Rows
  <2>2. WritesOK'
    BY <1>0, <1>3, <2>1, WriteType DEF Clear, WritesOK
  <2>3. QED
    BY <1>3, <2>2 DEF Clear, ModelsTypeOK, WritesOK
<1>4. ASSUME NEW r \in Requests, WriteModel(r)
      PROVE  ModelsTypeOK'
  <2>1. request[r] \in Asks
    BY DEF ModelsTypeOK
  <2>2. WritesOK'
    BY <1>0, <1>4, <2>1, NewRowType, AskModel, WriteType DEF WriteModel
  <2>3. QED
    BY <1>4, <2>2 DEF WriteModel, ModelsTypeOK, WritesOK
<1>5. ASSUME NEW r \in Requests, CommitRequest(r)
      PROVE  ModelsTypeOK'
  <2>1. models' \in [Models -> Rows]
    BY <1>5, SeenType DEF CommitRequest
  <2>2. CurrentDefinitions' \subseteq Definitions \cup {NoDefinition}
    BY <2>1 DEF CurrentDefinitions, Currents, Rows
  <2>3. past' \subseteq Definitions \cup {NoDefinition}
    BY <1>5, <2>2 DEF CommitRequest, ModelsTypeOK
  <2>4. QED
    BY <1>5, <2>1, <2>3, EndType DEF CommitRequest, ModelsTypeOK, WritesOK
<1>6. ASSUME NEW r \in Requests, Rollback(r)
      PROVE  ModelsTypeOK'
  BY <1>6, EndType DEF Rollback, ModelsTypeOK, WritesOK
<1>7. CASE UNCHANGED modelVars
  BY <1>7 DEF modelVars, requestVars, ModelsTypeOK
<1>8. QED
  BY <1>1, <1>2, <1>3, <1>4, <1>5, <1>6, <1>7 DEF ModelsNext, Request

\* Every reachable state of the rows and their transactions is well formed.
THEOREM ModelsTypeCorrect == ModelsSpec => []ModelsTypeOK
BY ModelsInitType, ModelsTypeStep, PTL DEF ModelsSpec

-----------------------------------------------------------------------------
(* The current model.                                                       *)

Holds(r) == DOMAIN writes[r]

\* Nobody writes before the clearing statement, and no two transactions hold
\* one row.
Exclusive ==
  /\ \A r \in Requests : at[r] \in {"idle", "find"} => Holds(r) = {}
  /\ \A q, r \in Requests : q # r => Holds(q) \cap Holds(r) = {}

\* A request that does not make its model the current one has written no other
\* row, and makes none current.
LeavesOthers ==
  \A r \in Requests : ~request[r].current =>
    /\ at[r] \in {"idle", "write", "commit"}
    /\ \A m \in Holds(r) : m = request[r].model /\ ~writes[r][m].current
    /\ at[r] = "commit" => request[r].model \in Holds(r)

\* One that does has taken it from every other row it sees when it is about to
\* commit, and no other transaction is going to make one current.
TakesIt ==
  \A r \in Requests : at[r] = "commit" /\ request[r].current =>
    /\ request[r].model \in Holds(r)
    /\ writes[r][request[r].model].current
    /\ \A m \in Models \ {request[r].model} : ~Seen(r, m).current
    /\ \A q \in Requests \ {r} : \A m \in Holds(q) : ~writes[q][m].current

Settled == Exclusive /\ LeavesOthers /\ TakesIt

LEMMA SettledInit == ModelsInit => Settled
BY NoAskType, NoWritesType DEF ModelsInit, Settled, Exclusive, LeavesOthers, TakesIt, Holds

\* A step that writes and locks nothing, and takes no request to its commit.
LEMMA SettledAsk ==
  ASSUME ModelsTypeOK, Settled, NEW r \in Requests, NEW a \in Asks, Ask(r, a)
  PROVE  Settled'
<1>1. /\ request'[r] = a /\ at'[r] \in {"find", "write"} /\ (at'[r] = "find" <=> a.current)
      /\ \A q \in Requests : q # r => request'[q] = request[q] /\ at'[q] = at[q]
      /\ UNCHANGED <<models, writes>>
  BY DEF Ask, ModelsTypeOK
<1>2. Holds(r) = {}
  BY DEF Ask, Settled, Exclusive
<1>3. Exclusive'
  BY <1>1, <1>2 DEF Settled, Exclusive, Holds
<1>4. LeavesOthers'
  BY <1>1, <1>2 DEF Settled, LeavesOthers, Holds
<1>5. TakesIt'
  BY <1>1 DEF Settled, TakesIt, Holds, Seen
<1>6. QED
  BY <1>3, <1>4, <1>5 DEF Settled

LEMMA SettledFind ==
  ASSUME ModelsTypeOK, Settled, NEW r \in Requests, Find(r)
  PROVE  Settled'
<1>1. /\ at'[r] \in {"clear", "write"} /\ at[r] = "find"
      /\ \A q \in Requests : q # r => at'[q] = at[q]
      /\ UNCHANGED <<models, request, writes>>
  BY DEF Find, ModelsTypeOK
<1>2. request[r].current
  BY <1>1 DEF Settled, LeavesOthers
<1>3. Exclusive'
  BY <1>1 DEF Settled, Exclusive, Holds
<1>4. LeavesOthers'
  BY <1>1, <1>2 DEF Settled, LeavesOthers, Holds
<1>5. TakesIt'
  BY <1>1 DEF Settled, TakesIt, Holds, Seen
<1>6. QED
  BY <1>3, <1>4, <1>5 DEF Settled

\* A row is added to those of one request, which has not written it before, or
\* had it not current.
LEMMA SettledClear ==
  ASSUME ModelsTypeOK, Settled, NEW r \in Requests, NEW m \in Models, Clear(r, m)
  PROVE  Settled'
<1>1. /\ at'[r] \in {"clear", "write"} /\ at[r] = "clear"
      /\ \A q \in Requests : q # r => at'[q] = at[q]
      /\ UNCHANGED <<models, request>>
  BY DEF Clear, ModelsTypeOK
<1>2. request[r].current
  BY <1>1 DEF Settled, LeavesOthers
<1>3. CASE UNCHANGED writes
  <2>1. Exclusive'
    BY <1>1, <1>3 DEF Settled, Exclusive, Holds
  <2>2. LeavesOthers'
    BY <1>1, <1>2, <1>3 DEF Settled, LeavesOthers, Holds
  <2>3. TakesIt'
    BY <1>1, <1>3 DEF Settled, TakesIt, Holds, Seen
  <2>4. QED
    BY <2>1, <2>2, <2>3 DEF Settled
<1>4. CASE Write(r, m, [models[m] EXCEPT !.current = FALSE])
  <2>1. [models[m] EXCEPT !.current = FALSE] \in Rows /\ [models[m] EXCEPT !.current = FALSE].current = FALSE
    BY DEF ModelsTypeOK, Rows
  <2>2. WritesOK
    BY DEF ModelsTypeOK, WritesOK
  <2>3. /\ Holds(r)' = Holds(r) \cup {m}
        /\ ~writes'[r][m].current
        /\ \A k \in Holds(r) : k # m => writes'[r][k] = writes[r][k]
        /\ \A q \in Requests : q # r => writes'[q] = writes[q]
    <3>1. PICK row \in Rows : row = [models[m] EXCEPT !.current = FALSE] /\ row.current = FALSE
      BY <2>1
    <3>2. Write(r, m, row)
      BY <1>4, <3>1
    <3>3. /\ DOMAIN writes'[r] = DOMAIN writes[r] \cup {m}
          /\ writes'[r][m] = row
          /\ \A k \in DOMAIN writes[r] : k # m => writes'[r][k] = writes[r][k]
          /\ \A q \in Requests : q # r => writes'[q] = writes[q]
      BY <2>2, <3>2, WriteType
    <3>4. QED
      BY <3>1, <3>3 DEF Holds
  <2>4. \A q \in Requests \ {r} : m \notin Holds(q)
    BY DEF Clear, Locked, Holds
  <2>5. Exclusive'
    BY <1>1, <2>3, <2>4 DEF Settled, Exclusive, Holds
  <2>6. LeavesOthers'
    BY <1>1, <1>2, <2>3 DEF Settled, LeavesOthers, Holds
  <2>7. TakesIt'
    BY <1>1, <2>3 DEF Settled, TakesIt, Holds, Seen
  <2>8. QED
    BY <2>5, <2>6, <2>7 DEF Settled
<1>5. QED
  BY <1>3, <1>4 DEF Clear

LEMMA SettledWrite ==
  ASSUME ModelsTypeOK, Settled, NEW r \in Requests, WriteModel(r)
  PROVE  Settled'
<1> DEFINE a == request[r]
           m == a.model
<1>1. /\ at'[r] = "commit" /\ at[r] = "write"
      /\ \A q \in Requests : q # r => at'[q] = at[q]
      /\ UNCHANGED <<models, request>>
  BY DEF WriteModel, ModelsTypeOK
<1>2. a \in Asks /\ m \in Models
  BY AskModel DEF ModelsTypeOK
<1>3. WritesOK /\ Write(r, m, NewRow(a))
  BY DEF ModelsTypeOK, WritesOK, WriteModel
<1>4. NewRow(a) \in Rows /\ (NewRow(a).current <=> a.current)
  BY <1>2, NewRowType
<1>5. /\ Holds(r)' = Holds(r) \cup {m}
      /\ writes'[r][m].current <=> a.current
      /\ \A k \in Holds(r) : k # m => writes'[r][k] = writes[r][k]
      /\ \A q \in Requests : q # r => writes'[q] = writes[q]
  BY <1>2, <1>3, <1>4, WriteType DEF Holds
<1>6. \A q \in Requests \ {r} : m \notin Holds(q)
  BY DEF WriteModel, Locked, Holds
<1>7. Unique(r)
  BY DEF WriteModel
<1> HIDE DEF a, m
<1>8. Exclusive'
  BY <1>1, <1>5, <1>6 DEF Settled, Exclusive, Holds
<1>9. LeavesOthers'
  BY <1>1, <1>5 DEF Settled, LeavesOthers, Holds, a, m
<1>10. ASSUME NEW q \in Requests, at'[q] = "commit", request'[q].current
       PROVE  /\ request'[q].model \in Holds(q)'
              /\ writes'[q][request'[q].model].current
              /\ \A k \in Models \ {request'[q].model} : ~Seen(q, k)'.current
              /\ \A p \in Requests \ {q} : \A k \in Holds(p)' : ~writes'[p][k].current
  <2>1. CASE q = r
    <3>1. a.current /\ request'[q].model = m
      BY <1>1, <1>10, <2>1 DEF a, m
    <3>2. \A k \in Models \ {m} : ~Seen(r, k).current
      BY <1>7, <3>1 DEF Unique, Conflict, a, m
    <3>3. \A p \in Requests \ {r} : \A k \in Holds(p) : ~writes[p][k].current
      BY <1>6, <1>7, <3>1 DEF Unique, InDoubt, Holds, a, m
    <3>4. \A k \in Models \ {m} : Seen(r, k)' = Seen(r, k)
      BY <1>1, <1>5 DEF Seen, Holds
    <3>5. QED
      BY <1>5, <2>1, <3>1, <3>2, <3>3, <3>4 DEF Holds
  <2>2. CASE q # r
    <3>1. at[q] = "commit" /\ request[q].current /\ request'[q] = request[q]
      BY <1>1, <1>10, <2>2
    <3>2. /\ request[q].model \in Holds(q)
          /\ writes[q][request[q].model].current
          /\ \A k \in Models \ {request[q].model} : ~Seen(q, k).current
          /\ \A p \in Requests \ {q} : \A k \in Holds(p) : ~writes[p][k].current
      BY <3>1 DEF Settled, TakesIt
    <3>3. request[q].model # m
      BY <1>6, <2>2, <3>2
    <3>4. ~a.current
      <4>1. a.current => ~InDoubt(r)
        BY <1>7 DEF Unique, a
      <4>2. InDoubt(r)
        BY <2>2, <3>2, <3>3 DEF InDoubt, Holds, a, m
      <4>3. QED
        BY <4>1, <4>2
    <3>5. \A k \in Models : Seen(q, k)' = Seen(q, k)
      BY <1>1, <1>5, <2>2 DEF Seen
    <3>6. \A p \in Requests \ {q} : \A k \in Holds(p)' : ~writes'[p][k].current
      BY <1>5, <3>2, <3>4 DEF Holds
    <3>7. QED
      BY <1>5, <2>2, <3>1, <3>2, <3>5, <3>6 DEF Holds
  <2>3. QED
    BY <2>1, <2>2
<1>11. TakesIt'
  BY <1>10 DEF TakesIt
<1>12. QED
  BY <1>8, <1>9, <1>11 DEF Settled

\* A transaction ends; if it commits, its rows become those of the table.
LEMMA SettledEnd ==
  ASSUME ModelsTypeOK, Settled, NEW r \in Requests, CommitRequest(r) \/ Rollback(r)
  PROVE  Settled'
<1>1. /\ request'[r] = NoAsk /\ at'[r] = "idle" /\ Holds(r)' = {}
      /\ \A q \in Requests : q # r => /\ request'[q] = request[q] /\ at'[q] = at[q]
                                      /\ writes'[q] = writes[q]
  BY EndType DEF CommitRequest, Rollback, Holds
<1>2. Exclusive'
  BY <1>1 DEF Settled, Exclusive, Holds
<1>3. LeavesOthers'
  BY <1>1, NoAskType DEF Settled, LeavesOthers, Holds
<1>4. ASSUME NEW q \in Requests, at'[q] = "commit", request'[q].current
      PROVE  /\ request'[q].model \in Holds(q)'
             /\ writes'[q][request'[q].model].current
             /\ \A k \in Models \ {request'[q].model} : ~Seen(q, k)'.current
             /\ \A p \in Requests \ {q} : \A k \in Holds(p)' : ~writes'[p][k].current
  <2>1. q # r /\ at[q] = "commit" /\ request[q].current /\ request'[q] = request[q]
    BY <1>1, <1>4
  <2>2. /\ request[q].model \in Holds(q)
        /\ writes[q][request[q].model].current
        /\ \A k \in Models \ {request[q].model} : ~Seen(q, k).current
        /\ \A p \in Requests \ {q} : \A k \in Holds(p) : ~writes[p][k].current
    BY <2>1 DEF Settled, TakesIt
  <2>3. ASSUME NEW k \in Models \ {request[q].model}
        PROVE  ~Seen(q, k)'.current
    <3>1. CASE k \in Holds(q)
      BY <1>1, <2>1, <2>2, <3>1 DEF Seen, Holds
    <3>2. CASE k \notin Holds(q) /\ models'[k] = models[k]
      BY <1>1, <2>1, <2>2, <3>2 DEF Seen, Holds
    <3>3. CASE k \notin Holds(q) /\ models'[k] # models[k]
      <4>1. CommitRequest(r)
        BY <3>3 DEF Rollback
      <4>2. models'[k] = Seen(r, k)
        BY <4>1 DEF CommitRequest
      <4>3. k \in Holds(r) /\ models'[k] = writes[r][k]
        BY <3>3, <4>2 DEF Seen, Holds
      <4>4. ~models'[k].current
        BY <2>1, <2>2, <4>3
      <4>5. QED
        BY <1>1, <2>1, <3>3, <4>4 DEF Seen, Holds
    <3>4. QED
      BY <3>1, <3>2, <3>3
  <2>4. QED
    BY <1>1, <2>1, <2>2, <2>3 DEF Holds
<1>5. TakesIt'
  BY <1>4 DEF TakesIt
<1>6. QED
  BY <1>2, <1>3, <1>5 DEF Settled

LEMMA SettledStep == ModelsTypeOK /\ Settled /\ [ModelsNext]_modelVars => Settled'
<1> SUFFICES ASSUME ModelsTypeOK, Settled, [ModelsNext]_modelVars
             PROVE  Settled'
  OBVIOUS
<1>1. CASE UNCHANGED modelVars
  BY <1>1 DEF modelVars, requestVars, Settled, Exclusive, LeavesOthers, TakesIt, Holds, Seen
<1>2. ASSUME NEW r \in Requests, Request(r)
      PROVE  Settled'
  BY <1>2, SettledAsk, SettledFind, SettledClear, SettledWrite, SettledEnd DEF Request
<1>3. QED
  BY <1>1, <1>2 DEF ModelsNext

\* A step that changes which rows are current is the commit of a request.
LEMMA ChangesAsAsked ==
  ASSUME ModelsTypeOK, Settled, [ModelsNext]_modelVars, Currents' # Currents
  PROVE  \E r \in Requests :
           /\ at[r] = "commit" /\ at'[r] = "idle"
           /\ LET a == request[r] IN
              Currents' = IF a.current THEN {a.model} ELSE Currents \ {a.model}
<1>1. models' # models
  BY DEF Currents
<1>2. PICK r \in Requests : CommitRequest(r)
  BY <1>1 DEF ModelsNext, modelVars, Request, Ask, Find, Clear, WriteModel, Rollback
<1>3. at[r] = "commit" /\ at'[r] = "idle"
  BY <1>2, EndType DEF CommitRequest
<1>4. \A m \in Models : models'[m] = Seen(r, m)
  BY <1>2 DEF CommitRequest
<1>5. request[r].model \in Models
  BY AskModel DEF ModelsTypeOK
<1>6. CASE request[r].current
  <2>1. /\ request[r].model \in Holds(r) /\ writes[r][request[r].model].current
        /\ \A m \in Models \ {request[r].model} : ~Seen(r, m).current
    BY <1>3, <1>6 DEF Settled, TakesIt
  <2>2. Seen(r, request[r].model).current
    BY <2>1 DEF Seen, Holds
  <2>3. Currents' = {request[r].model}
    BY <1>4, <1>5, <2>1, <2>2 DEF Currents
  <2>4. QED
    BY <1>3, <1>6, <2>3
<1>7. CASE ~request[r].current
  <2>1. /\ request[r].model \in Holds(r)
        /\ \A m \in Holds(r) : m = request[r].model /\ ~writes[r][m].current
    BY <1>3, <1>7 DEF Settled, LeavesOthers
  <2>2. ~Seen(r, request[r].model).current
    BY <2>1 DEF Seen, Holds
  <2>3. \A m \in Models \ {request[r].model} : Seen(r, m) = models[m]
    BY <2>1 DEF Seen, Holds
  <2>4. Currents' = Currents \ {request[r].model}
    BY <1>4, <1>5, <2>2, <2>3 DEF Currents
  <2>5. QED
    BY <1>3, <1>7, <2>4
<1>8. QED
  BY <1>6, <1>7

\* Which model is current changes only as a committed request asked, however
\* many requests overlap and wherever they fail.
THEOREM CurrentChanges == ModelsSpec => CurrentChangesAsAsked
<1>1. ModelsTypeOK /\ Settled /\ [ModelsNext]_modelVars
        => [Currents' # Currents =>
              \E r \in Requests :
                /\ at[r] = "commit" /\ at'[r] = "idle"
                /\ LET a == request[r] IN
                   Currents' = IF a.current THEN {a.model}
                                            ELSE Currents \ {a.model}]_modelVars
  BY ChangesAsAsked
<1>2. QED
  BY <1>1, ModelsInitType, ModelsTypeStep, SettledInit, SettledStep, PTL
     DEF ModelsSpec, CurrentChangesAsAsked

\* A product never has two current models.
THEOREM AtMostOneCurrent == ModelsSpec => []OneCurrent
<1>1. ModelsInit => OneCurrent
  <2> SUFFICES ASSUME ModelsInit PROVE OneCurrent
    OBVIOUS
  <2>1. CASE models = [m \in Models |-> NoRow("unused")]
    BY <2>1 DEF OneCurrent, Currents, NoRow
  <2>2. ASSUME NEW c \in Models, NEW d \in Definitions,
               models = [m \in Models |->
                           IF m = c THEN [state |-> "here", current |-> TRUE, definition |-> d]
                                    ELSE NoRow("unused")]
        PROVE  OneCurrent
    BY <2>2 DEF OneCurrent, Currents, NoRow
  <2>3. QED
    BY <2>1, <2>2 DEF ModelsInit
<1>2. ModelsTypeOK /\ Settled /\ OneCurrent /\ [ModelsNext]_modelVars => OneCurrent'
  BY ChangesAsAsked DEF OneCurrent
<1>3. QED
  BY <1>1, <1>2, ModelsInitType, ModelsTypeStep, SettledInit, SettledStep, PTL DEF ModelsSpec

----------------------------------------------------------------------------
(* What the steps of the pool preserve, whatever the handler does meanwhile. *)

\* An empty log, or one nobody has read of.
LEMMA PoolInitType ==
  ASSUME NEW last \in Nat, NEW steps, PoolInit
  PROVE  PoolTypeOK(last, steps)
BY PoolAssumption DEF PoolInit, PoolTypeOK, NoEvent

\* The next message comes from the log.
LEMMA StartType ==
  ASSUME NEW last \in Nat, NEW steps, NEW step \in steps, NEW w \in Workers,
         PoolTypeOK(last, steps), NextMessage <= last, Start(w, step)
  PROVE  /\ PoolTypeOK(last, steps)'
         /\ NextMessage \in 1 .. last
<1>1. NextMessage \in 1 .. last
  BY DEF PoolTypeOK, NextMessage
<1>2. /\ ev' = [ev EXCEPT ![w] = NextMessage]
      /\ pc' = [pc EXCEPT ![w] = step]
  BY DEF Start
<1>3. ev' \in [Workers -> (1 .. last) \cup {NoEvent}]
  BY <1>1, <1>2 DEF PoolTypeOK
<1>4. pc' \in [Workers -> steps \cup {"idle", "commit"}]
  BY <1>2 DEF PoolTypeOK
<1>5. \A v \in Workers : pc'[v] # "idle" => ev'[v] \in 1 .. last
  BY <1>1, <1>2 DEF PoolTypeOK
<1>6. next' \in 1 .. last + 1 /\ stale' \in Seq(1 .. last)
  <2>1. CASE stale # <<>>
    BY <2>1, SMTT(20) DEF Start, PoolTypeOK
  <2>2. CASE stale = <<>>
    BY <1>1, <2>2 DEF Start, PoolTypeOK, NextMessage
  <2>3. QED
    BY <2>1, <2>2
<1>7. QED
  BY <1>1, <1>3, <1>4, <1>5, <1>6
     DEF Start, PoolTypeOK, historyVars, boundVars

LEMMA GoToType ==
  ASSUME NEW last \in Nat, NEW steps, NEW step \in steps, NEW w \in Workers,
         PoolTypeOK(last, steps), pc[w] # "idle", GoTo(w, step)
  PROVE  PoolTypeOK(last, steps)'
BY DEF GoTo, PoolTypeOK, readerVars, historyVars, boundVars

LEMMA RetryType ==
  ASSUME NEW last \in Nat, NEW steps, NEW step \in steps, NEW w \in Workers,
         PoolTypeOK(last, steps), pc[w] # "idle", Retry(w, step)
  PROVE  PoolTypeOK(last, steps)'
<1> USE DEF readerVars, historyVars, boundVars
<1>0. ev[w] \in 1 .. last /\ tries[w] \in 0 .. MaxRetries
  BY DEF PoolTypeOK
<1>1. CASE /\ tries[w] < MaxRetries
           /\ pc'    = [pc EXCEPT ![w] = step]
           /\ tries' = [tries EXCEPT ![w] = tries[w] + 1]
           /\ UNCHANGED <<ev, readerVars, historyVars, boundVars>>
  <2>1. tries[w] + 1 \in 0 .. MaxRetries
    BY <1>0, <1>1, PoolAssumption
  <2>2. tries' \in [Workers -> 0 .. MaxRetries]
    BY <1>1, <2>1 DEF PoolTypeOK
  <2>3. QED
    BY <1>0, <1>1, <2>2 DEF PoolTypeOK
<1>2. CASE /\ Release(w)
           /\ lost' = lost \cup {ev[w]}
           /\ UNCHANGED <<acked, readerVars, boundVars>>
  <2>1. tries' \in [Workers -> 0 .. MaxRetries]
    BY <1>2, PoolAssumption DEF PoolTypeOK, Release
  <2>2. lost' \subseteq 1 .. last
    BY <1>0, <1>2 DEF PoolTypeOK
  <2>3. QED
    BY <1>2, <2>1, <2>2 DEF PoolTypeOK, Release, NoEvent
<1>3. QED
  BY <1>1, <1>2 DEF Retry

LEMMA AcknowledgeType ==
  ASSUME NEW last \in Nat, NEW steps, NEW w \in Workers,
         PoolTypeOK(last, steps), pc[w] # "idle", Acknowledge(w)
  PROVE  PoolTypeOK(last, steps)'
BY DEF Acknowledge, PoolTypeOK, readerVars, boundVars

LEMMA CommitType ==
  ASSUME NEW last \in Nat, NEW steps, NEW w \in Workers,
         PoolTypeOK(last, steps), Commit(w)
  PROVE  PoolTypeOK(last, steps)'
<1>1. ev[w] \in 1 .. last
  BY DEF PoolTypeOK, Commit
<1>2. committed' \in 1 .. last + 1
  BY <1>1 DEF PoolTypeOK, Commit
<1>3. tries' \in [Workers -> 0 .. MaxRetries]
  BY PoolAssumption DEF PoolTypeOK, Commit, Release
<1>4. QED
  BY <1>2, <1>3 DEF PoolTypeOK, Commit, Release, NoEvent, historyVars, boundVars

LEMMA RestartType ==
  ASSUME NEW last \in Nat, NEW steps, PoolTypeOK(last, steps), Restart
  PROVE  PoolTypeOK(last, steps)'
<1>1. lost' \subseteq 1 .. last
  BY DEF PoolTypeOK, Restart
<1>2. restarts' \in 0 .. MaxRestarts /\ tries' \in [Workers -> 0 .. MaxRetries]
  BY PoolAssumption DEF PoolTypeOK, Restart
<1>3. QED
  BY <1>1, <1>2 DEF PoolTypeOK, Restart, NoEvent

LEMMA RejoinType ==
  ASSUME NEW last \in Nat, NEW steps, PoolTypeOK(last, steps), Rejoin(last)
  PROVE  PoolTypeOK(last, steps)'
<1>1. next' \in 1 .. last + 1 /\ stale' \in Seq(1 .. last)
  <2>1. ASSUME NEW k \in 0 .. Prefetch - Len(stale), next + k - 1 <= last,
               stale' = stale \o [i \in 1 .. k |-> next + i - 1], next' = committed
        PROVE  next' \in 1 .. last + 1 /\ stale' \in Seq(1 .. last)
    <3>1. next \in 1 .. last + 1 /\ committed \in 1 .. last + 1 /\ stale \in Seq(1 .. last)
      BY DEF PoolTypeOK
    <3>2. k \in Nat
      BY <3>1, PoolAssumption
    <3>3. \A i \in 1 .. k : next + i - 1 \in 1 .. last
      BY <2>1, <3>1, <3>2
    <3>4. [i \in 1 .. k |-> next + i - 1] \in Seq(1 .. last)
      BY <3>2, <3>3
    <3>5. QED
      BY <2>1, <3>1, <3>4
  <2>2. QED
    BY <2>1 DEF Rejoin, PoolTypeOK
<1>2. rejoins' \in 0 .. MaxRejoins
  BY PoolAssumption DEF PoolTypeOK, Rejoin
<1>3. QED
  BY <1>1, <1>2 DEF PoolTypeOK, Rejoin, workerVars, historyVars

----------------------------------------------------------------------------
(* The reports, judged by them. *)

Steps  == {"lookup", "read", "store", "save", "publish"}
Names  == UNION {DOMAIN m.values : m \in Messages}
Called == Definitions \cup {NoDefinition}

\* What every step leaves of the log, and of the pool beside the handler.
LEMMA LogStays == [Next]_vars => log' = log
BY DEF Next, vars, reportVars, topicVars, Worker, Begin, Finish, Hit, Miss, Read, Store, ReadFails,
       Save, SaveFails, Publish, PublishFails, CacheExpires, Disturb, Backend

\* A handler's step calls one of these operations of the pool.
PoolStep(w) ==
  \/ \E step \in Steps : GoTo(w, step)
  \/ Acknowledge(w)
  \/ Retry(w, "lookup")

Handle(w) ==
  \/ Hit(w) \/ Miss(w) \/ Read(w) \/ Store(w) \/ ReadFails(w)
  \/ Save(w) \/ SaveFails(w) \/ Publish(w) \/ PublishFails(w)

LEMMA HandleIsPoolStep ==
  ASSUME NEW w \in Workers, Handle(w)
  PROVE  /\ pc[w] \in Steps
         /\ PoolStep(w)
         /\ UNCHANGED <<modelVars, log>>
<1>1. CASE Hit(w) \/ Store(w)
  BY <1>1 DEF Hit, Store, Judge, PoolStep, Steps
<1>2. CASE Miss(w)
  BY <1>2 DEF Miss, PoolStep, Steps, reportVars, topicVars
<1>3. CASE Read(w)
  BY <1>3 DEF Read, PoolStep, Steps
<1>4. CASE ReadFails(w)
  BY <1>4 DEF ReadFails, PoolStep, Steps, reportVars, topicVars
<1>5. CASE Save(w) \/ SaveFails(w)
  BY <1>5 DEF Save, SaveFails, PoolStep, Steps
<1>6. CASE Publish(w) \/ PublishFails(w)
  BY <1>6 DEF Publish, PublishFails, PoolStep, Steps
<1>7. QED
  BY <1>1, <1>2, <1>3, <1>4, <1>5, <1>6 DEF Handle

LEMMA PoolStepType ==
  ASSUME NEW last \in Nat, NEW w \in Workers, PoolTypeOK(last, Steps), pc[w] \in Steps, PoolStep(w)
  PROVE  PoolTypeOK(last, Steps)'
<1>1. pc[w] # "idle" /\ "lookup" \in Steps
  BY DEF Steps
<1>2. QED
  BY <1>1, GoToType, AcknowledgeType, RetryType DEF PoolStep

\* A worker inside its handler has a report of the log.
LEMMA HeldMessage ==
  ASSUME TypeOK, NEW w \in Workers, pc[w] # "idle"
  PROVE  /\ ev[w] \in Events
         /\ Message(w) \in Messages
         /\ Message(w).kind \in Kinds
<1>1. ev[w] \in Events /\ log \in Seq(Messages)
  BY DEF TypeOK, PoolTypeOK, Events
<1>2. Message(w) \in Messages
  BY <1>1 DEF Message, Events
<1>3. QED
  BY <1>1, <1>2, ReportsAssumption

LEMMA AcceptedNames ==
  ASSUME NEW m \in Messages, NEW d
  PROVE  Accepted(m, d) \in SUBSET Names
BY DEF Accepted, Names

\* What a handler's step does to what it reads and writes.
LEMMA HandleType ==
  ASSUME TypeOK, NEW w \in Workers, Handle(w)
  PROVE  /\ cache' \in [Kinds -> Called]
         /\ held' \in [Workers -> Called]
         /\ rows' \subseteq Events \X SUBSET Names
         /\ topic' \subseteq Events \X SUBSET Names
         /\ dropped' \subseteq Events
<1>1. pc[w] # "idle"
  BY HandleIsPoolStep DEF Steps
<1>2. ev[w] \in Events /\ Message(w) \in Messages /\ Message(w).kind \in Kinds
  BY <1>1, HeldMessage
<1>3. /\ cache \in [Kinds -> Called] /\ held \in [Workers -> Called]
      /\ rows \subseteq Events \X SUBSET Names /\ topic \subseteq Events \X SUBSET Names
      /\ dropped \subseteq Events
      /\ NoDefinition \in Called
  BY DEF TypeOK, Called, Names
<1>4. Accepted(Message(w), held[w]) \in SUBSET Names
  BY <1>2, AcceptedNames
<1>5. CurrentDefinitions \subseteq Called
  BY CurrentsType DEF TypeOK, ModelsTypeOK, Called
<1>6. CASE Hit(w)
  BY <1>2, <1>3, <1>6 DEF Hit, Judge, Hold, topicVars
<1>7. CASE Store(w)
  BY <1>2, <1>3, <1>7 DEF Store, Judge, Hold, topicVars
<1>8. CASE Miss(w) \/ ReadFails(w)
  BY <1>3, <1>8 DEF Miss, ReadFails, reportVars, topicVars
<1>9. CASE Read(w)
  BY <1>3, <1>5, <1>9 DEF Read, Hold, topicVars
<1>10. CASE Save(w) \/ SaveFails(w)
  <2>1. rows' \subseteq Events \X SUBSET Names
    BY <1>2, <1>3, <1>4, <1>10 DEF Save, SaveFails, Insert
  <2>2. QED
    BY <1>3, <1>10, <2>1 DEF Save, SaveFails, Hold, topicVars
<1>11. CASE Publish(w) \/ PublishFails(w)
  <2>1. topic' \subseteq Events \X SUBSET Names /\ dropped' \subseteq Events
    BY <1>2, <1>3, <1>4, <1>11 DEF Publish, PublishFails, Send, Arrive
  <2>2. QED
    BY <1>3, <1>11, <2>1 DEF Publish, PublishFails, Hold
<1>12. QED
  BY <1>6, <1>7, <1>8, <1>9, <1>10, <1>11 DEF Handle

\* Every reachable state is well formed.
THEOREM ReportsTypeCorrect == Spec => []TypeOK
<1>1. Init => TypeOK
  <2> SUFFICES ASSUME Init PROVE TypeOK
    OBVIOUS
  <2>1. log \in Seq(Messages) /\ Len(log) \in Nat
    <3>1. PICK n \in 0 .. LogEnd : log \in [1 .. n -> Messages]
      BY DEF Init
    <3>2. n \in Nat
      BY <3>1, ReportsAssumption
    <3>3. QED
      BY <3>1, <3>2
  <2> PICK k \in Nat : k = Len(log)
    BY <2>1
  <2>2. PoolTypeOK(k, Steps)
    BY PoolInitType DEF Init
  <2>3. ModelsTypeOK
    BY ModelsInitType DEF Init
  <2>4. QED
    BY <2>1, <2>2, <2>3 DEF Init, TypeOK, Steps, Events
<1>2. TypeOK /\ [Next]_vars => TypeOK'
  <2> SUFFICES ASSUME TypeOK, [Next]_vars PROVE TypeOK'
    OBVIOUS
  <2> DEFINE DataOK == /\ cache \in [Kinds -> Called]
                       /\ held \in [Workers -> Called]
                       /\ rows \subseteq Events \X SUBSET Names
                       /\ topic \subseteq Events \X SUBSET Names
                       /\ dropped \subseteq Events
  <2>1. log' = log /\ log \in Seq(Messages) /\ Len(log) \in Nat /\ DataOK /\ ModelsTypeOK
    BY LogStays DEF TypeOK, Called, Names
  <2> PICK k \in Nat : k = Len(log)
    BY <2>1
  <2>2. PoolTypeOK(k, Steps)
    BY DEF TypeOK, Steps
  <2>3. ASSUME PoolTypeOK(k, Steps)', ModelsTypeOK', DataOK'
        PROVE  TypeOK'
    <3>1. Len(log)' = k /\ Events' = Events
      BY <2>1 DEF Events
    <3>2. PoolTypeOK(Len(log), Steps)'
      BY <2>3, <3>1
    <3>3. QED
      BY <2>1, <2>3, <3>2 DEF TypeOK, Steps, Called, Names
  <2>4. ASSUME UNCHANGED modelVars
        PROVE  ModelsTypeOK'
    BY <2>1, <2>4, ModelsTypeStep
  <2>5. ASSUME UNCHANGED poolVars
        PROVE  PoolTypeOK(k, Steps)'
    BY <2>2, <2>5 DEF PoolTypeOK, poolVars, readerVars, workerVars, historyVars, boundVars
  <2>6. ASSUME UNCHANGED reportVars
        PROVE  DataOK'
    BY <2>1, <2>6 DEF reportVars, topicVars, Events
  <2>7. ASSUME NEW w \in Workers, Begin(w) \/ Finish(w)
        PROVE  TypeOK'
    <3>1. "lookup" \in Steps
      BY DEF Steps
    <3>2. PoolTypeOK(k, Steps)'
      BY <2>2, <2>7, <3>1, StartType, CommitType DEF Begin, Finish
    <3>3. QED
      BY <2>3, <2>4, <2>6, <2>7, <3>2 DEF Begin, Finish
  <2>8. ASSUME NEW w \in Workers, Handle(w)
        PROVE  TypeOK'
    <3>1. PoolTypeOK(k, Steps)' /\ ModelsTypeOK'
      BY <2>2, <2>4, <2>8, HandleIsPoolStep, PoolStepType
    <3>2. DataOK'
      BY <2>1, <2>8, HandleType DEF Events
    <3>3. QED
      BY <2>3, <3>1, <3>2
  <2>9. ASSUME NEW c \in Kinds, CacheExpires(c)
        PROVE  TypeOK'
    <3>1. DataOK'
      BY <2>1, <2>9 DEF CacheExpires, Called, Events, topicVars
    <3>2. QED
      BY <2>3, <2>4, <2>5, <2>9, <3>1 DEF CacheExpires
  <2>10. CASE Disturb
    <3>1. PoolTypeOK(k, Steps)'
      BY <2>2, <2>10, RestartType, RejoinType DEF Disturb
    <3>2. DataOK'
      BY <2>1, <2>6, <2>10 DEF Disturb, Called, Events, topicVars
    <3>3. QED
      BY <2>3, <2>4, <2>10, <3>1, <3>2 DEF Disturb
  <2>11. CASE Backend
    <3>1. ModelsTypeOK'
      BY <2>1, <2>11, ModelsTypeStep DEF Backend
    <3>2. QED
      BY <2>3, <2>5, <2>6, <2>11, <3>1 DEF Backend
  <2>12. CASE UNCHANGED vars
    BY <2>3, <2>4, <2>5, <2>6, <2>12 DEF vars
  <2>13. QED
    BY <2>7, <2>8, <2>9, <2>10, <2>11, <2>12 DEF Next, Worker, Handle
<1>3. QED
  BY <1>1, <1>2, PTL DEF Spec

-----------------------------------------------------------------------------
(* What a report was judged by.                                             *)

PastOK  == CurrentDefinitions \subseteq past
CacheOK == \A k \in Kinds : cache[k] \in past \cup {NoDefinition}

\* A worker that goes on to save and publish holds a definition that accepts
\* its report.
HeldOK ==
  \A w \in Workers :
    /\ pc[w] \in {"store", "save", "publish"} => held[w] \in past
    /\ pc[w] \in {"save", "publish"} => Accepts(Message(w), held[w])
    /\ pc[w] = "publish" => Stored(ev[w])

AckedOK ==
  \A e \in acked :
    \/ Stored(e) /\ Sent(e)
    \/ \E d \in past : ~Accepts(log[e], d)

\* The tables, the topic and the past only grow.
LEMMA Grows ==
  ASSUME [Next]_vars
  PROVE  /\ past \subseteq past' /\ rows \subseteq rows' /\ topic \subseteq topic'
         /\ dropped \subseteq dropped'
         /\ log' = log
<1>1. past \subseteq past'
  <2>1. CASE UNCHANGED modelVars
    BY <2>1 DEF modelVars
  <2>2. CASE Backend
    BY <2>2 DEF Backend, ModelsNext, Request, Ask, Find, Clear, WriteModel, CommitRequest, Rollback
  <2>3. UNCHANGED modelVars \/ Backend
    BY DEF Next, vars, Worker, Begin, Finish, Hit, Miss, Read, Store, ReadFails, Save, SaveFails,
           Publish, PublishFails, CacheExpires, Disturb
  <2>4. QED
    BY <2>1, <2>2, <2>3
<1>2. rows \subseteq rows' /\ topic \subseteq topic' /\ dropped \subseteq dropped'
  BY DEF Next, vars, reportVars, topicVars, Worker, Begin, Finish, Hit, Miss, Read, Store, ReadFails,
         Save, SaveFails, Publish, PublishFails, CacheExpires, Disturb, Backend, Insert, Send, Arrive
<1>3. QED
  BY <1>1, <1>2, LogStays

LEMMA StaysStored ==
  ASSUME [Next]_vars, NEW e
  PROVE  (Stored(e) => Stored(e)') /\ (Sent(e) => Sent(e)')
BY Grows DEF Stored, Published, Sent

\* What is current has been current.
LEMMA PastStep == PastOK /\ [Next]_vars => PastOK'
<1> SUFFICES ASSUME PastOK, [Next]_vars PROVE PastOK'
  OBVIOUS
<1>1. CASE models' = models
  BY <1>1, Grows DEF PastOK, CurrentDefinitions, Currents
<1>2. CASE models' # models
  <2>1. Backend
    BY <1>2 DEF Next, vars, modelVars, Worker, Begin, Finish, Hit, Miss, Read, Store, ReadFails,
                Save, SaveFails, Publish, PublishFails, CacheExpires, Disturb
  <2>2. PICK r \in Requests : CommitRequest(r)
    BY <1>2, <2>1 DEF Backend, ModelsNext, Request, Ask, Find, Clear, WriteModel, Rollback
  <2>3. QED
    BY <2>2 DEF CommitRequest, PastOK
<1>3. QED
  BY <1>1, <1>2

LEMMA CacheStep ==
  ASSUME TypeOK, CacheOK, HeldOK, [Next]_vars
  PROVE  CacheOK'
<1>1. past \subseteq past' /\ cache \in [Kinds -> Called]
  BY Grows DEF TypeOK, Called
<1>2. CASE cache' = cache
  BY <1>1, <1>2 DEF CacheOK
<1>3. ASSUME NEW w \in Workers, Store(w)
      PROVE  CacheOK'
  <2>1. held[w] \in past
    BY <1>3 DEF HeldOK, Store
  <2>2. QED
    BY <1>1, <1>3, <2>1 DEF CacheOK, Store
<1>4. ASSUME NEW k \in Kinds, CacheExpires(k)
      PROVE  CacheOK'
  BY <1>1, <1>4 DEF CacheOK, CacheExpires
<1>5. CASE Disturb
  BY <1>1, <1>2, <1>5 DEF CacheOK, Disturb, reportVars, topicVars
<1>6. cache' = cache \/ Disturb \/ (\E w \in Workers : Store(w)) \/ (\E k \in Kinds : CacheExpires(k))
  BY DEF Next, vars, reportVars, topicVars, Worker, Begin, Finish, Hit, Miss, Read, ReadFails,
         Save, SaveFails, Publish, PublishFails, Backend
<1>7. QED
  BY <1>2, <1>3, <1>4, <1>5, <1>6

\* The workers other than the one that takes the step stay where they are.
LEMMA OthersStay ==
  ASSUME TypeOK, NEW w \in Workers, Worker(w), NEW v \in Workers, v # w
  PROVE  pc'[v] = pc[v] /\ ev'[v] = ev[v] /\ held'[v] = held[v]
<1>1. pc'[v] = pc[v] /\ ev'[v] = ev[v]
  <2>1. CASE Begin(w) \/ Finish(w)
    BY <2>1 DEF Begin, Finish, Start, Commit, Release, TypeOK, PoolTypeOK
  <2>2. CASE Handle(w)
    BY <2>2, HandleIsPoolStep
       DEF PoolStep, GoTo, Acknowledge, Retry, Release, TypeOK, PoolTypeOK
  <2>3. QED
    BY <2>1, <2>2 DEF Worker, Handle
<1>2. held'[v] = held[v]
  BY DEF Worker, Begin, Finish, Hit, Miss, Read, Store, Judge, ReadFails, Save, SaveFails,
         Publish, PublishFails, Hold, reportVars, topicVars, TypeOK
<1>3. QED
  BY <1>1, <1>2

\* What a retried or finished handler leaves of its worker.
LEMMA OutOfHandler ==
  ASSUME TypeOK, NEW w \in Workers, Acknowledge(w) \/ Retry(w, "lookup")
  PROVE  pc'[w] \in {"commit", "lookup", "idle"}
BY DEF Acknowledge, Retry, Release, TypeOK, PoolTypeOK

LEMMA HeldStep ==
  ASSUME TypeOK, PastOK, CacheOK, HeldOK, [Next]_vars
  PROVE  HeldOK'
<1>1. past \subseteq past' /\ log' = log
  BY Grows
<1>2. \A e : Stored(e) => Stored(e)'
  BY StaysStored
<1> DEFINE Right(w) == /\ pc[w] \in {"store", "save", "publish"} => held[w] \in past
                       /\ pc[w] \in {"save", "publish"} => Accepts(Message(w), held[w])
                       /\ pc[w] = "publish" => Stored(ev[w])
<1>3. ASSUME NEW v \in Workers, pc'[v] = pc[v], ev'[v] = ev[v], held'[v] = held[v]
      PROVE  Right(v)'
  <2>1. Right(v) /\ Message(v)' = Message(v)
    BY <1>1, <1>3 DEF HeldOK, Message
  <2>2. Stored(ev[v]) => Stored(ev[v])'
    BY <1>2, <1>3 DEF Stored
  <2>3. QED
    BY <1>1, <1>3, <2>1, <2>2
<1>4. ASSUME NEW w \in Workers, pc'[w] \in {"idle", "lookup", "read", "commit"}
      PROVE  Right(w)'
  BY <1>4
<1>5. ASSUME NEW w \in Workers, Worker(w)
      PROVE  Right(w)'
  <2>1. pc \in [Workers -> Steps \cup {"idle", "commit"}] /\ held \in [Workers -> Called]
    BY DEF TypeOK, PoolTypeOK, Called, Steps
  <2>2. ASSUME NEW d \in past, Judge(w, d)
        PROVE  Right(w)'
    <3>1. CASE Acknowledge(w)
      BY <1>4, <3>1, OutOfHandler
    <3>2. CASE Accepts(Message(w), d) /\ Hold(w, d) /\ GoTo(w, "save")
      <4>1. pc'[w] = "save" /\ held'[w] = d /\ ev' = ev
        BY <2>1, <3>2 DEF GoTo, Hold
      <4>2. Message(w)' = Message(w)
        BY <1>1, <4>1 DEF Message
      <4>3. QED
        BY <1>1, <3>2, <4>1, <4>2
    <3>3. QED
      BY <2>2, <3>1, <3>2 DEF Judge
  <2>3. CASE Begin(w) \/ Finish(w)
    BY <1>4, <2>1, <2>3 DEF Begin, Finish, Start, Commit, Release
  <2>4. CASE Hit(w)
    <3>1. Message(w).kind \in Kinds
      BY <2>4, HeldMessage DEF Hit
    <3>2. cache[Message(w).kind] \in past
      BY <2>4, <3>1 DEF Hit, CacheOK
    <3>3. QED
      BY <2>2, <2>4, <3>2 DEF Hit
  <2>5. CASE Store(w)
    <3>1. held[w] \in past
      BY <2>5 DEF Store, HeldOK
    <3>2. QED
      BY <2>2, <2>5, <3>1 DEF Store
  <2>6. CASE Miss(w)
    BY <1>4, <2>1, <2>6 DEF Miss, GoTo
  <2>7. CASE Read(w)
    <3>1. PICK d \in CurrentDefinitions :
            IF d = NoDefinition THEN Acknowledge(w) /\ UNCHANGED held
                                ELSE GoTo(w, "store") /\ Hold(w, d)
      BY <2>7 DEF Read
    <3>2. CASE Acknowledge(w)
      BY <1>4, <3>2, OutOfHandler
    <3>3. CASE GoTo(w, "store") /\ Hold(w, d)
      <4>1. pc'[w] = "store" /\ held'[w] = d /\ d \in past
        BY <2>1, <3>1, <3>3 DEF GoTo, Hold, PastOK
      <4>2. QED
        BY <1>1, <4>1
    <3>4. QED
      BY <3>1, <3>2, <3>3
  <2>8. CASE Save(w)
    <3>1. pc[w] = "save" /\ pc'[w] = "publish" /\ ev' = ev /\ held' = held
      BY <2>1, <2>8 DEF Save, GoTo
    <3>2. held[w] \in past /\ Accepts(Message(w), held[w])
      BY <3>1 DEF HeldOK
    <3>3. Message(w)' = Message(w)
      BY <1>1, <3>1 DEF Message
    <3>4. Stored(ev[w])'
      <4>1. CASE Stored(ev[w])
        BY <2>8, <3>1, <4>1 DEF Save, Insert, Stored
      <4>2. CASE ~Stored(ev[w])
        <5>1. <<ev[w], Accepted(Message(w), held[w])>> \in rows'
          BY <2>8, <4>2 DEF Save, Insert
        <5>2. QED
          BY <3>1, <5>1 DEF Stored
      <4>3. QED
        BY <4>1, <4>2
    <3>5. QED
      BY <1>1, <3>1, <3>2, <3>3, <3>4
  <2>9. CASE ReadFails(w) \/ SaveFails(w) \/ Publish(w) \/ PublishFails(w)
    BY <1>4, <2>9, OutOfHandler DEF ReadFails, SaveFails, Publish, PublishFails
  <2>10. QED
    BY <1>5, <2>3, <2>4, <2>5, <2>6, <2>7, <2>8, <2>9 DEF Worker
<1>6. ASSUME NEW v \in Workers
      PROVE  Right(v)'
  <2>1. CASE UNCHANGED <<pc, ev, held>>
    BY <1>3, <2>1
  <2>2. ASSUME NEW w \in Workers, Worker(w)
        PROVE  Right(v)'
    BY <1>3, <1>5, <2>2, OthersStay
  <2>3. CASE Disturb
    <3>1. CASE Restart
      BY <1>4, <3>1 DEF Restart
    <3>2. CASE Rejoin(Len(log)) /\ UNCHANGED reportVars
      BY <2>1, <3>2 DEF Rejoin, workerVars, reportVars, topicVars
    <3>3. QED
      BY <2>3, <3>1, <3>2 DEF Disturb
  <2>4. \/ UNCHANGED <<pc, ev, held>> \/ Disturb
        \/ \E w \in Workers : Worker(w)
    BY DEF Next, vars, poolVars, workerVars, reportVars, topicVars, CacheExpires, Backend
  <2>5. QED
    BY <2>1, <2>2, <2>3, <2>4
<1>7. QED
  BY <1>6 DEF HeldOK

\* A new row or change is what a definition accepts that the worker holds.
LEMMA JudgedStep ==
  ASSUME TypeOK, HeldOK, JudgedByCurrentModel, [Next]_vars
  PROVE  JudgedByCurrentModel'
<1>1. past \subseteq past' /\ log' = log
  BY Grows
<1>2. \A e : Stored(e) => Stored(e)'
  BY StaysStored
<1>3. ASSUME NEW t \in rows' \cup topic'
      PROVE  \E d \in past : Accepts(log[t[1]], d) /\ t[2] = Accepted(log[t[1]], d)
  <2>1. CASE t \in rows \cup topic
    BY <2>1 DEF JudgedByCurrentModel
  <2>2. CASE t \notin rows \cup topic
    <3>1. PICK w \in Workers : /\ pc[w] \in {"save", "publish"}
                               /\ t = <<ev[w], Accepted(Message(w), held[w])>>
      BY <2>2 DEF Next, vars, reportVars, topicVars, Worker, Begin, Finish, Hit, Miss, Read, Store,
                  ReadFails, Save, SaveFails, Publish, PublishFails, CacheExpires, Disturb, Backend,
                  Insert, Send, Arrive
    <3>2. held[w] \in past /\ Accepts(Message(w), held[w])
      BY <3>1 DEF HeldOK
    <3>3. log[t[1]] = Message(w) /\ t[2] = Accepted(Message(w), held[w])
      BY <3>1 DEF Message
    <3>4. QED
      BY <3>2, <3>3
  <2>3. QED
    BY <2>1, <2>2
<1>4. ASSUME NEW t \in topic'
      PROVE  Stored(t[1])'
  <2>1. CASE t \in topic
    BY <1>2, <2>1 DEF JudgedByCurrentModel
  <2>2. CASE t \notin topic
    <3>1. PICK w \in Workers : pc[w] = "publish" /\ t[1] = ev[w]
      BY <2>2 DEF Next, vars, reportVars, topicVars, Worker, Begin, Finish, Hit, Miss, Read, Store,
                  ReadFails, Save, SaveFails, Publish, PublishFails, CacheExpires, Disturb, Backend,
                  Send, Arrive
    <3>2. Stored(t[1])
      BY <3>1 DEF HeldOK
    <3>3. QED
      BY <1>2, <3>2
  <2>3. QED
    BY <2>1, <2>2
<1>5. QED
  BY <1>1, <1>3, <1>4 DEF JudgedByCurrentModel

\* A report is acknowledged when its change was sent, or when it is not accepted.
LEMMA AckedStep ==
  ASSUME TypeOK, PastOK, CacheOK, HeldOK, AckedOK, [Next]_vars
  PROVE  AckedOK'
<1>1. past \subseteq past' /\ log' = log
  BY Grows
<1>2. \A e : (Stored(e) => Stored(e)') /\ (Sent(e) => Sent(e)')
  BY StaysStored
<1>3. ASSUME NEW e \in acked
      PROVE  (Stored(e)' /\ Sent(e)') \/ \E d \in past : ~Accepts(log[e], d)
  BY <1>2 DEF AckedOK
<1>4. ASSUME NEW w \in Workers, Worker(w), acked' # acked
      PROVE  /\ acked' = acked \cup {ev[w]} /\ ev' = ev
             /\ \/ Stored(ev[w])' /\ Sent(ev[w])'
                \/ \E d \in past : ~Accepts(Message(w), d)
  <2>1. CASE Begin(w) \/ Finish(w)
    BY <1>4, <2>1 DEF Begin, Finish, Start, Commit, historyVars
  <2>2. CASE Miss(w) \/ ReadFails(w) \/ Save(w) \/ SaveFails(w) \/ PublishFails(w)
    BY <1>4, <2>2 DEF Miss, ReadFails, Save, SaveFails, PublishFails, GoTo, Retry, historyVars
  <2>3. ASSUME NEW d \in past, Judge(w, d)
        PROVE  acked' = acked \cup {ev[w]} /\ ev' = ev /\ ~Accepts(Message(w), d)
    BY <1>4, <2>3 DEF Judge, GoTo, Acknowledge, historyVars
  <2>4. CASE Hit(w)
    <3>1. cache[Message(w).kind] \in past
      BY <2>4, HeldMessage DEF Hit, CacheOK
    <3>2. QED
      BY <2>3, <2>4, <3>1 DEF Hit
  <2>5. CASE Store(w)
    <3>1. held[w] \in past
      BY <2>5 DEF Store, HeldOK
    <3>2. QED
      BY <2>3, <2>5, <3>1 DEF Store
  <2>6. CASE Read(w)
    <3>1. Acknowledge(w) /\ NoDefinition \in past
      BY <1>4, <2>6 DEF Read, PastOK, GoTo, historyVars
    <3>2. ~Accepts(Message(w), NoDefinition)
      BY DEF Accepts
    <3>3. QED
      BY <3>1, <3>2 DEF Acknowledge
  <2>7. CASE Publish(w)
    <3>1. Stored(ev[w])
      BY <2>7 DEF Publish, HeldOK
    <3>2. Sent(ev[w])'
      <4>1. /\ ev' = ev
            /\ \/ <<ev[w], Accepted(Message(w), held[w])>> \in topic'
               \/ ev[w] \in dropped'
        BY <2>7 DEF Publish, Send, Arrive, Acknowledge
      <4>2. QED
        BY <4>1 DEF Published, Sent
    <3>3. Stored(ev[w])'
      BY <2>7, <3>1 DEF Publish, Acknowledge, Stored
    <3>4. QED
      BY <2>7, <3>2, <3>3 DEF Publish, Acknowledge
  <2>8. QED
    BY <1>4, <2>1, <2>2, <2>4, <2>5, <2>6, <2>7 DEF Worker
<1>5. CASE acked' = acked
  BY <1>1, <1>3, <1>5 DEF AckedOK
<1>6. CASE acked' # acked
  <2>1. PICK w \in Workers : Worker(w)
    BY <1>6 DEF Next, vars, poolVars, historyVars, CacheExpires, Disturb, Restart, Rejoin, Backend
  <2>2. ASSUME NEW e \in acked'
        PROVE  (Stored(e)' /\ Sent(e)') \/ \E d \in past : ~Accepts(log[e], d)
    <3>1. CASE e \in acked
      BY <1>3, <3>1
    <3>2. CASE e \notin acked
      <4>1. e = ev[w]
        BY <1>4, <1>6, <2>1, <2>2, <3>2
      <4>2. CASE Stored(ev[w])' /\ Sent(ev[w])'
        BY <1>4, <1>6, <2>1, <4>1, <4>2 DEF Stored, Published, Sent
      <4>3. CASE \E d \in past : ~Accepts(Message(w), d)
        BY <4>1, <4>3 DEF Message
      <4>4. QED
        BY <1>4, <1>6, <2>1, <4>2, <4>3
    <3>3. QED
      BY <3>1, <3>2
  <2>3. QED
    BY <1>1, <2>2 DEF AckedOK
<1>7. QED
  BY <1>5, <1>6

-----------------------------------------------------------------------------
(* The theorems. *)

Sound == PastOK /\ CacheOK /\ HeldOK /\ JudgedByCurrentModel /\ AckedOK

LEMMA SoundInit == Init => Sound
<1> SUFFICES ASSUME Init PROVE Sound
  OBVIOUS
<1>1. PastOK
  BY DEF Init, ModelsInit, PastOK
<1>2. CacheOK
  BY DEF Init, CacheOK
<1>3. HeldOK
  BY DEF Init, PoolInit, HeldOK
<1>4. JudgedByCurrentModel
  BY DEF Init, JudgedByCurrentModel
<1>5. AckedOK
  BY DEF Init, PoolInit, AckedOK
<1>6. QED
  BY <1>1, <1>2, <1>3, <1>4, <1>5 DEF Sound

LEMMA SoundStep == TypeOK /\ Sound /\ [Next]_vars => Sound'
BY PastStep, CacheStep, HeldStep, JudgedStep, AckedStep DEF Sound

LEMMA AlwaysSound == Spec => []Sound
BY ReportsTypeCorrect, SoundInit, SoundStep, PTL DEF Spec

\* Whatever is stored or published of a report was accepted by a definition that
\* has been the product's current one; what is published is stored.
THEOREM JudgedByCurrent == Spec => []JudgedByCurrentModel
<1>1. Sound => JudgedByCurrentModel
  BY DEF Sound
<1>2. QED
  BY <1>1, AlwaysSound, PTL

\* A report that every definition so far accepts is stored once it is acknowledged,
\* and its change was sent: published, unless the sink lost the write unnoticed.
THEOREM AcceptedIsNotLost == Spec => []AcceptedIsPublished
<1>1. Sound => AcceptedIsPublished
  BY DEF Sound, AckedOK, AcceptedIsPublished
<1>2. QED
  BY <1>1, AlwaysSound, PTL

\* The handlers leave the thing models alone: with them, too, the current model
\* changes only as a committed request asked.
THEOREM CurrentChangesWithReports == Spec => CurrentChangesAsAsked
<1>1. Init => ModelsInit
  BY DEF Init
<1>2. [Next]_vars => [ModelsNext]_modelVars
  BY DEF Next, vars, Worker, Begin, Finish, Hit, Miss, Read, Store, ReadFails, Save, SaveFails,
         Publish, PublishFails, CacheExpires, Disturb, Backend
<1>3. Spec => ModelsSpec
  BY <1>1, <1>2, PTL DEF Spec, ModelsSpec
<1>4. QED
  BY <1>3, CurrentChanges
=============================================================================
