---------------------------- MODULE ThingsModels ----------------------------
(***************************************************************************)
(* The thing models of a product, as the backend keeps them:               *)
(* service/thingsmodel_service.go over store/thingsmodel_store.go, with    *)
(* the transactions of several requests at a time.                         *)
(*                                                                         *)
(* A request that makes its model the current one first takes is_current   *)
(* from the others, in a statement of its own.  PostgreSQL runs the        *)
(* transactions READ COMMITTED: a statement finds the rows committed when  *)
(* it starts, waits for a row another transaction has written, and then    *)
(* looks at that row again.  The index idx_thingsmodel_product_current_    *)
(* unique lets no second row be current.                                   *)
(*                                                                         *)
(* Status, version, name and description of a model are left out: a        *)
(* request that they make invalid is one that fails.                       *)
(***************************************************************************)
EXTENDS Integers, FiniteSets

CONSTANTS
  Requests,      \* the requests the backend works on at a time
  Models,        \* ids of thing models
  Definitions,   \* what a thing model may define
  NoDefinition,  \* of a product without a current model
  MaxRequests    \* bound: requests in all

ASSUME ModelsAssumption ==
  /\ Models # {}
  /\ Definitions # {}
  /\ NoDefinition \notin Definitions
  /\ MaxRequests \in Nat

VARIABLES
  models,    \* per id: its row, as committed
  request,   \* per request: what it asks for
  at,        \* per request: the statement of its transaction it is at
  found,     \* per request: the rows its clearing statement has still to visit
  writes,    \* per request: the rows it has written, and holds the locks of
  served,    \* number of requests so far
  past       \* history: every definition that has been the current one

requestVars == <<request, at, found, writes>>
modelVars   == <<models, requestVars, served, past>>

AnyDefinition == CHOOSE d \in Definitions : TRUE

Asks == [op : {"create", "update"}, model : Models, current : BOOLEAN,
         definition : Definitions]
        \cup [op : {"delete"}, model : Models, current : {FALSE},
              definition : {AnyDefinition}]
Rows == [state : {"unused", "here", "gone"}, current : BOOLEAN,
         definition : Definitions]

NoAsk    == CHOOSE a \in Asks : a.op = "delete"
NoWrites == [m \in {} |-> m]
NoRow(s) == [state |-> s, current |-> FALSE, definition |-> AnyDefinition]

Currents == {m \in Models : models[m].current}

\* What a reader of the committed rows may take for the current definition.
CurrentDefinitions ==
  IF Currents = {} THEN {NoDefinition}
                   ELSE {models[m].definition : m \in Currents}

-----------------------------------------------------------------------------
\* The product has no thing model yet, or one that is current.
ModelsInit ==
  /\ \/ models = [m \in Models |-> NoRow("unused")]
     \/ \E c \in Models, d \in Definitions :
          models = [m \in Models |->
                      IF m = c THEN [state |-> "here", current |-> TRUE, definition |-> d]
                               ELSE NoRow("unused")]
  /\ request = [r \in Requests |-> NoAsk]
  /\ at      = [r \in Requests |-> "idle"]
  /\ found   = [r \in Requests |-> {}]
  /\ writes  = [r \in Requests |-> NoWrites]
  /\ served  = 0
  /\ past    = CurrentDefinitions

\* Another transaction has written the row and has not ended.
Locked(r, m) == \E q \in Requests \ {r} : m \in DOMAIN writes[q]

\* The row as the transaction of r sees it.
Seen(r, m) == IF m \in DOMAIN writes[r] THEN writes[r][m] ELSE models[m]

Write(r, m, row) ==
  writes' = [writes EXCEPT ![r] =
               [k \in DOMAIN writes[r] \cup {m} |-> IF k = m THEN row ELSE writes[r][k]]]

\* The transaction ends.
End(r) ==
  /\ request' = [request EXCEPT ![r] = NoAsk]
  /\ at'      = [at EXCEPT ![r] = "idle"]
  /\ found'   = [found EXCEPT ![r] = {}]
  /\ writes'  = [writes EXCEPT ![r] = NoWrites]

\* CreateThingsModel, UpdateThingsModel or DeleteThingsModel begins.  A new
\* model gets an id of its own; the update of a model that is not there ends
\* before it has written anything.
Ask(r, a) ==
  /\ at[r] = "idle"
  /\ served < MaxRequests
  /\ IF a.op = "create"
     THEN /\ models[a.model].state = "unused"
          /\ \A q \in Requests : at[q] # "idle" => request[q].model # a.model
     ELSE models[a.model].state = "here"
  /\ request' = [request EXCEPT ![r] = a]
  /\ at'      = [at EXCEPT ![r] = IF a.current THEN "find" ELSE "write"]
  /\ served'  = served + 1
  /\ UNCHANGED <<models, found, writes, past>>

\* clearCurrentThingsModel starts: the rows that are current, except the one
\* an update is about.
Find(r) ==
  /\ at[r] = "find"
  /\ LET a == request[r]
         rows == Currents \ (IF a.op = "update" THEN {a.model} ELSE {}) IN
     /\ found' = [found EXCEPT ![r] = rows]
     /\ at'    = [at EXCEPT ![r] = IF rows = {} THEN "write" ELSE "clear"]
  /\ UNCHANGED <<models, request, writes, served, past>>

\* It visits a row, which may have changed since.
Clear(r, m) ==
  /\ at[r] = "clear"
  /\ m \in found[r]
  /\ ~Locked(r, m)
  /\ IF models[m].current THEN Write(r, m, [models[m] EXCEPT !.current = FALSE])
                          ELSE UNCHANGED writes
  /\ found' = [found EXCEPT ![r] = @ \ {m}]
  /\ at'    = [at EXCEPT ![r] = IF found[r] = {m} THEN "write" ELSE "clear"]
  /\ UNCHANGED <<models, request, served, past>>

\* The unique index knows of another current row, or may soon.
Conflict(r) == \E m \in Models \ {request[r].model} : Seen(r, m).current

InDoubt(r) ==
  \E q \in Requests \ {r} : \E m \in DOMAIN writes[q] \ {request[r].model} :
    models[m].current \/ writes[q][m].current

Unique(r) == request[r].current => ~Conflict(r) /\ ~InDoubt(r)

\* The row a request leaves.
NewRow(a) ==
  IF a.op = "delete" THEN NoRow("gone")
  ELSE [state |-> "here", current |-> a.current, definition |-> a.definition]

\* INSERT, UPDATE or DELETE of the request's own model.
WriteModel(r) ==
  /\ at[r] = "write"
  /\ LET a == request[r] IN
     /\ ~Locked(r, a.model)
     /\ a.op # "create" => models[a.model].state = "here"
     /\ Unique(r)
     /\ Write(r, a.model, NewRow(a))
  /\ at' = [at EXCEPT ![r] = "commit"]
  /\ UNCHANGED <<models, request, found, served, past>>

\* COMMIT, whether or not the backend hears of it.
CommitRequest(r) ==
  /\ at[r] = "commit"
  /\ models' = [m \in Models |-> Seen(r, m)]
  /\ past'   = past \cup CurrentDefinitions'
  /\ End(r)
  /\ UNCHANGED served

\* Mutant: the clearing statement runs in a transaction of its own.
KeepsCleared(r) ==
  /\ at[r] # "idle"
  /\ models' = [m \in Models |-> IF at[r] = "write" THEN Seen(r, m) ELSE models[m]]
  /\ past'   = past \cup CurrentDefinitions'
  /\ End(r)
  /\ UNCHANGED served

\* A statement fails, finds no row or a second current one, the product is not
\* the tenant's, a deadlock is broken, or the connection is lost: rolled back.
Rollback(r) ==
  /\ at[r] # "idle"
  /\ End(r)
  /\ UNCHANGED <<models, served, past>>

Request(r) ==
  \/ \E a \in Asks : Ask(r, a)
  \/ Find(r)
  \/ \E m \in Models : Clear(r, m)
  \/ WriteModel(r)
  \/ CommitRequest(r)
  \/ Rollback(r)

ModelsNext == \E r \in Requests : Request(r)

ModelsSpec == ModelsInit /\ [][ModelsNext]_modelVars

-----------------------------------------------------------------------------
(* Properties. *)

ModelsTypeOK ==
  /\ models \in [Models -> Rows]
  /\ request \in [Requests -> Asks]
  /\ at \in [Requests -> {"idle", "find", "clear", "write", "commit"}]
  /\ found \in [Requests -> SUBSET Models]
  /\ writes \in [Requests -> UNION {[M -> Rows] : M \in SUBSET Models}]
  /\ served \in 0 .. MaxRequests
  /\ past \subseteq Definitions \cup {NoDefinition}

\* deploy/init-scripts/timescaledb/08-thingsmodel.sql: "one product can have at
\* most one current published model".
OneCurrent == \A m, n \in Currents : m = n

\* Which model is current changes only when a request commits, and only to what
\* that request asked for: its own model, if it makes it the current one, and
\* otherwise at most its own model stops being current.  No overlapping request
\* is undone by it, and no product loses its current model to a request that
\* fails.
CurrentChangesAsAsked ==
  [][Currents' # Currents =>
       \E r \in Requests :
         /\ at[r] = "commit" /\ at'[r] = "idle"
         /\ LET a == request[r] IN
            Currents' = IF a.current THEN {a.model} ELSE Currents \ {a.model}]_modelVars
=============================================================================
