------------------------------ MODULE Reports ------------------------------
(***************************************************************************)
(* What devices of one product report, as device-event-processor handles   *)
(* it: handler/property_report_handler.go and event_report_handler.go over *)
(* the validators with their caches, the stores and the publisher.         *)
(*                                                                         *)
(* A report is judged by the product's current thing model, which the      *)
(* validator of its kind reads from the backend's table (ThingsModels) and *)
(* keeps for a while; what it accepts is inserted, unless a row of the     *)
(* report is already there, and then published.  A failure restarts the    *)
(* whole handler, which may then judge by another model.                   *)
(*                                                                         *)
(* The workers are those of HandlerPool.  A value is represented by its    *)
(* type: that it fits a field stands for all that validatePropertyValue    *)
(* asks of it.  A report that fails to decode, or names no product, is     *)
(* dropped or given up as one that nothing accepts.                        *)
(***************************************************************************)
EXTENDS HandlerPool, ThingsModels

CONSTANTS
  Messages,  \* what a report may say
  LogEnd     \* bound: number of reports in the log

Kinds == {"property", "event"}

ASSUME ReportsAssumption ==
  /\ LogEnd \in Nat
  /\ \A m \in Messages : m.kind \in Kinds

VARIABLES
  log,     \* the reports
  cache,   \* per kind: the definition its validator keeps, or NoDefinition
  held,    \* per worker: the definition it judges by, or NoDefinition
  rows,    \* the rows inserted: a report and the names stored of it
  topic,   \* the changes published: a report and the names published of it
  dropped  \* reports of which a change was reported as sent, but lost

topicVars  == <<topic, dropped>>
reportVars == <<log, cache, held, rows, topicVars>>
vars       == <<poolVars, modelVars, reportVars>>

Events == 1 .. Len(log)

Stored(e)    == \E row \in rows : row[1] = e
Published(e) == \E change \in topic : change[1] = e

-----------------------------------------------------------------------------
(* PropertyReportValidator.Validate and EventReportValidator.Validate.      *)

\* The fields a definition has for a report: those of the product, or those of
\* its event.
Known(m, d)  == m.kind = "event" => m.name \in DOMAIN d.events
Fields(m, d) == IF m.kind = "event" THEN d.events[m.name] ELSE d.properties

\* The reported names that the definition has; the others are left out.
Accepted(m, d) == DOMAIN m.values \cap DOMAIN Fields(m, d)

\* An event without output fields is accepted without looking at its values.
Accepts(m, d) ==
  /\ d # NoDefinition
  /\ Known(m, d)
  /\ \/ m.kind = "event" /\ DOMAIN Fields(m, d) = {}
     \/ /\ Accepted(m, d) # {}
        /\ \A n \in Accepted(m, d) : m.values[n] = Fields(m, d)[n]

-----------------------------------------------------------------------------
Init ==
  /\ PoolInit
  /\ ModelsInit
  /\ log \in UNION {[1 .. n -> Messages] : n \in 0 .. LogEnd}
  /\ cache = [k \in Kinds |-> NoDefinition]
  /\ held  = [w \in Workers |-> NoDefinition]
  /\ rows  = {}
  /\ topic = {}
  /\ dropped = {}

Message(w) == log[ev[w]]

Hold(w, d) == held' = [held EXCEPT ![w] = d]

\* The report is saved next, or dropped.
Judge(w, d) ==
  \/ Accepts(Message(w), d) /\ Hold(w, d) /\ GoTo(w, "save")
  \/ ~Accepts(Message(w), d) /\ Hold(w, NoDefinition) /\ Acknowledge(w)

\* lookup finds an entry of the cache that has not expired.
Hit(w) ==
  /\ pc[w] = "lookup"
  /\ LET d == cache[Message(w).kind] IN d # NoDefinition /\ Judge(w, d)
  /\ UNCHANGED <<modelVars, log, cache, rows, topicVars>>

Miss(w) ==
  /\ pc[w] = "lookup"
  /\ cache[Message(w).kind] = NoDefinition
  /\ GoTo(w, "read")
  /\ UNCHANGED <<modelVars, reportVars>>

\* Mutant: the query does not ask for is_current.
ReadsAnyModel(w) ==
  /\ pc[w] = "read"
  /\ \E m \in Models : /\ models[m].state = "here"
                       /\ Hold(w, models[m].definition)
  /\ GoTo(w, "store")
  /\ UNCHANGED <<modelVars, log, cache, rows, topicVars>>

\* FindCurrentByProductID, outside the lock; without a current model the
\* report is dropped, and nothing is remembered of that.
Read(w) ==
  /\ pc[w] = "read"
  /\ \E d \in CurrentDefinitions :
       IF d = NoDefinition
       THEN Acknowledge(w) /\ UNCHANGED held
       ELSE GoTo(w, "store") /\ Hold(w, d)
  /\ UNCHANGED <<modelVars, log, cache, rows, topicVars>>

\* The entry is replaced, by whichever reader comes last.
Store(w) ==
  /\ pc[w] = "store"
  /\ cache' = [cache EXCEPT ![Message(w).kind] = held[w]]
  /\ Judge(w, held[w])
  /\ UNCHANGED <<modelVars, log, rows, topicVars>>

ReadFails(w) ==
  /\ pc[w] \in {"lookup", "read"}
  /\ Retry(w, "lookup")
  /\ UNCHANGED <<modelVars, reportVars>>

\* SavePropertyReport or SaveEventReport: ON CONFLICT DO NOTHING.
Insert(w) ==
  IF Stored(ev[w]) THEN UNCHANGED rows
                   ELSE rows' = rows \cup {<<ev[w], Accepted(Message(w), held[w])>>}

\* Mutant: a report whose row is there counts as handled.
SaveOnce(w) ==
  /\ pc[w] = "save"
  /\ Insert(w)
  /\ IF Stored(ev[w]) THEN Acknowledge(w) /\ Hold(w, NoDefinition)
                      ELSE GoTo(w, "publish") /\ UNCHANGED held
  /\ UNCHANGED <<modelVars, log, cache, topicVars>>

Save(w) ==
  /\ pc[w] = "save"
  /\ Insert(w)
  /\ GoTo(w, "publish")
  /\ UNCHANGED <<modelVars, log, cache, held, topicVars>>

SaveFails(w) ==
  /\ pc[w] = "save"
  /\ Insert(w) \/ UNCHANGED rows
  /\ Retry(w, "lookup")
  /\ Hold(w, NoDefinition)
  /\ UNCHANGED <<modelVars, log, cache, topicVars>>

\* The topic gets what this call of the handler has accepted.
Arrive(w) == topic' = topic \cup {<<ev[w], Accepted(Message(w), held[w])>>}

\* EventPublisher.Publish, over Sink.Send: its writer asks the brokers for no
\* acknowledgement, so a success does not say that the topic has the change.
Send(w) ==
  \/ Arrive(w) /\ UNCHANGED dropped
  \/ dropped' = dropped \cup {ev[w]} /\ UNCHANGED topic

Publish(w) ==
  /\ pc[w] = "publish"
  /\ Send(w)
  /\ Acknowledge(w)
  /\ Hold(w, NoDefinition)
  /\ UNCHANGED <<modelVars, log, cache, rows>>

PublishFails(w) ==
  /\ pc[w] = "publish"
  /\ Arrive(w) \/ UNCHANGED topic
  /\ Retry(w, "lookup")
  /\ Hold(w, NoDefinition)
  /\ UNCHANGED <<modelVars, log, cache, rows, dropped>>

-----------------------------------------------------------------------------
Begin(w)  == NextMessage <= Len(log) /\ Start(w, "lookup") /\ UNCHANGED <<modelVars, reportVars>>
Finish(w) == Commit(w) /\ UNCHANGED <<modelVars, reportVars>>

Worker(w) ==
  \/ Begin(w)
  \/ Hit(w) \/ Miss(w) \/ Read(w) \/ Store(w) \/ ReadFails(w)
  \/ Save(w) \/ SaveFails(w)
  \/ Publish(w) \/ PublishFails(w)
  \/ Finish(w)

\* Mutant: entries stay.
CacheStays(k) == k \notin Kinds

\* The time to live of an entry has passed.
CacheExpires(k) ==
  /\ cache[k] # NoDefinition
  /\ cache' = [cache EXCEPT ![k] = NoDefinition]
  /\ UNCHANGED <<poolVars, modelVars, log, held, rows, topicVars>>

\* The process dies and starts with empty caches, or its reader rejoins.
Disturb ==
  \/ /\ Restart
     /\ cache' = [k \in Kinds |-> NoDefinition]
     /\ held'  = [w \in Workers |-> NoDefinition]
     /\ UNCHANGED <<modelVars, log, rows, topicVars>>
  \/ Rejoin(Len(log)) /\ UNCHANGED <<modelVars, reportVars>>

Backend == ModelsNext /\ UNCHANGED <<poolVars, reportVars>>

Next ==
  \/ \E w \in Workers : Worker(w)
  \/ \E k \in Kinds : CacheExpires(k)
  \/ Disturb
  \/ Backend

Spec == Init /\ [][Next]_vars

\* Every worker that can take a step takes one, and entries expire.
Fairness ==
  /\ \A w \in Workers : WF_vars(Worker(w))
  /\ \A k \in Kinds : WF_vars(CacheExpires(k))

LiveSpec == Spec /\ Fairness

-----------------------------------------------------------------------------
(* Properties. *)

TypeOK ==
  /\ PoolTypeOK(Len(log), {"lookup", "read", "store", "save", "publish"})
  /\ ModelsTypeOK
  /\ log \in Seq(Messages)
  /\ cache \in [Kinds -> Definitions \cup {NoDefinition}]
  /\ held \in [Workers -> Definitions \cup {NoDefinition}]
  /\ rows \subseteq Events \X SUBSET UNION {DOMAIN m.values : m \in Messages}
  /\ topic \subseteq Events \X SUBSET UNION {DOMAIN m.values : m \in Messages}
  /\ dropped \subseteq Events

\* Through caches that lag behind, retries, crashes, and requests that are
\* rolled back: what is stored of a report, and every change published of it,
\* is what a definition accepts that has been the product's current one, and a
\* change is published of stored reports only.  While the definition stays the
\* same, all changes of a report therefore say what its row says.
JudgedByCurrentModel ==
  /\ \A t \in rows \cup topic :
       \E d \in past : Accepts(log[t[1]], d) /\ t[2] = Accepted(log[t[1]], d)
  /\ \A t \in topic : Stored(t[1])

\* A change of the report was sent: the topic has it, or lost it unnoticed.
Sent(e) == Published(e) \/ e \in dropped

\* A report that every definition so far accepts is not lost once its handler
\* has acknowledged it, whatever call of the handler failed, and where: it is
\* stored, and its change was sent.  The topic lacks the change only if a write
\* was lost that the sink had reported as a success.
AcceptedIsPublished ==
  \A e \in acked : (\A d \in past : Accepts(log[e], d)) => Stored(e) /\ Sent(e)

\* A new thing model takes hold: however readers overtake each other when they
\* fill the caches, no validator keeps an older definition for good.
UpdatesTakeHold ==
  \A k \in Kinds : <>[](cache[k] \in CurrentDefinitions \cup {NoDefinition})
=============================================================================
