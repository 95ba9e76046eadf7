--------------------------- MODULE DeviceControl ---------------------------
(***************************************************************************)
(* The device page of the web console: how a device is selected, and how a *)
(* command to it is composed and sent.                                     *)
(*                                                                         *)
(* The selection is a cascade of questions to the server: the tenants, the *)
(* products and the devices of the selected tenant, and the things models  *)
(* of the selected device's product.  Each question is asked again when    *)
(* what it depends on changes, and only its last answer is taken.  The     *)
(* model tells which services and properties a command may name: it fills  *)
(* the forms from which a property set or a service call is sent.          *)
(***************************************************************************)
EXTENDS FiniteSets, Integers

CONSTANTS
    Tenants, Products, Devices,
    None,           \* nothing selected
    TenantOf,       \* of each product
    ProductOf,      \* of each device
    Services,       \* the services of each product's current things model
    Writable,       \* the products whose model has writable properties
    Budgets         \* bounds, of which a behaviour has one: what the user
                    \* clicks, what changes on the server, and failures

ASSUME ControlWorld ==
    /\ None \notin Tenants \cup Products \cup Devices \cup UNION {Services[p] : p \in Products}
    /\ TenantOf \in [Products -> Tenants]
    /\ ProductOf \in [Devices -> Products]
    /\ Writable \subseteq Products
    /\ Budgets \subseteq [{"clicks", "changes", "failures"} -> Nat]

VARIABLES
    page,           \* what is selected and listed, the model, and the forms
    requests,       \* questions whose answers are still taken
    commands,       \* commands that are not answered yet
    alive,          \* the devices on the server, and the ones online
    online,
    wire,           \* realtime messages about connections
    left,           \* what is left of the budget
    stale           \* history: the questions whose last answer failed

controlVars == <<page, requests, commands, alive, online, wire, left, stale>>

Kinds == {"set", "call"}
Questions == {"tenants", "products", "devices", "model"}

\* The first of a list in the server's order, or none.
First(S) == IF S = {} THEN None ELSE CHOOSE x \in S : TRUE

ListedProducts(tenant) == {p \in Products : TenantOf[p] = tenant}
ListedDevices(tenant, product) ==
    {d \in alive : /\ TenantOf[ProductOf[d]] = tenant
                   /\ product # None => ProductOf[d] = product}
CurrentModel(tenant, product) == IF TenantOf[product] = tenant THEN product ELSE None

ServicesOf(model) == IF model = None THEN {} ELSE Services[model]

\* A form is filled for a model; the user may make it invalid.
EmptyForm == [model |-> None, service |-> None, valid |-> TRUE]
CallForm(model, service) == [model |-> model, service |-> service, valid |-> TRUE]
SetForm(model) == [EmptyForm EXCEPT !.model = IF model \in Writable THEN model ELSE None]

\* selectedProductId: the product of the selected device if it is listed, or else
\* the product filtered by.
SelectedProduct(p) == IF p.device \in DOMAIN p.devices THEN ProductOf[p.device] ELSE p.filter

Spend(what) == left[what] > 0 /\ left' = [left EXCEPT ![what] = @ - 1]

----------------------------------------------------------------------------
(* The questions: what they depend on, when there is nothing to ask. *)

Deps(q, p) ==
    CASE q = "tenants" -> <<>>
      [] q = "products" -> <<p.tenant>>
      [] q = "devices" -> <<p.tenant, p.filter>>
      [] q = "model" -> <<p.tenant, SelectedProduct(p)>>

Asks(q, p) ==
    CASE q = "tenants" -> TRUE
      [] q \in {"products", "devices"} -> p.tenant # None
      [] q = "model" -> p.tenant # None /\ SelectedProduct(p) # None

\* The forms without a model, and with one: the first service is chosen.
WithoutModel(p) ==
    [p EXCEPT !.model = None, !.form = [set |-> EmptyForm, call |-> EmptyForm],
              !.result = [k \in Kinds |-> None], !.strayed = [k \in Kinds |-> FALSE]]

WithModel(p, m) ==
    [WithoutModel(p) EXCEPT !.model = m,
                            !.form = [set |-> SetForm(m), call |-> CallForm(m, First(ServicesOf(m)))]]

\* The list of devices brings one of its own if the selected one is not in it.
WithDevices(p, listed) ==
    LET chosen == IF p.device \in listed THEN p.device ELSE First(listed)
    IN  [p EXCEPT !.devices = [d \in listed |-> d \in online], !.device = chosen,
                  !.strayed = [k \in Kinds |-> p.strayed[k] \/ p.result[k] \notin {None, chosen}]]

WithProducts(p, listed) == [p EXCEPT !.products = listed, !.filter = IF @ \in listed THEN @ ELSE None]

Question(q, p, by) == [what |-> q, deps |-> Deps(q, p), by |-> by]

\* Variants with a bug, that show what the properties detect.
RenderUncancelled(p, awaited, failed) ==
    LET changed == {q \in Questions : Deps(q, p) # Deps(q, page)}
        starts == {q \in changed : Asks(q, p)}
    IN  /\ page' = [p EXCEPT !.loading = @ \/ "model" \in starts]
        /\ requests' = awaited \cup {Question(q, p, "effect") : q \in starts}
        /\ stale' = failed \ starts

\* The page is drawn with the selection p.  The effects whose dependencies
\* changed run: the answers to their earlier questions are no longer taken.
\* Without a product there is no model.  (Once chosen, a tenant stays.)
Render(p, awaited, failed) ==
    LET changed == {q \in Questions : Deps(q, p) # Deps(q, page)}
        starts == {q \in changed : Asks(q, p)}
        kept == {r \in awaited : /\ r.by = "effect" => r.what \notin changed
                                 /\ r.by = "poll" => <<p.tenant, p.filter, p.device>> =
                                                     <<page.tenant, page.filter, page.device>>}
        drawn == IF "model" \in changed \ starts THEN WithoutModel(p) ELSE p
    IN  /\ page' = [drawn EXCEPT !.loading = @ \/ "model" \in starts]
        /\ requests' = kept \cup {Question(q, p, "effect") : q \in starts}
        /\ stale' = failed \ changed

Init ==
    /\ page = [tenants |-> {}, tenant |-> None, products |-> {}, filter |-> None,
               devices |-> [d \in {} |-> FALSE], device |-> None, model |-> None, loading |-> FALSE,
               form |-> [k \in Kinds |-> EmptyForm], busy |-> [k \in Kinds |-> FALSE],
               result |-> [k \in Kinds |-> None], strayed |-> [k \in Kinds |-> FALSE]]
    /\ requests = {[what |-> "tenants", deps |-> <<>>, by |-> "effect"]}
    /\ commands = {}
    /\ alive = Devices
    /\ online \in {Devices, {}}
    /\ wire = {}
    /\ left \in Budgets
    /\ stale = {}

----------------------------------------------------------------------------
(* Selecting. *)

serverVars == <<alive, online, wire>>

NoResults(p) == [p EXCEPT !.result = [k \in Kinds |-> None], !.strayed = [k \in Kinds |-> FALSE]]

Select(p) == Spend("clicks") /\ Render(p, requests, stale) /\ UNCHANGED <<commands, serverVars>>

\* The devices of the former tenant stay listed until the new list comes.
HandleTenantChange(t) ==
    /\ t \in page.tenants \ {page.tenant}
    /\ Select(NoResults([page EXCEPT !.tenant = t, !.filter = None, !.device = None]))

HandleProductFilterChange(product) ==
    /\ product \in (page.products \cup {None}) \ {page.filter}
    /\ Select(NoResults([page EXCEPT !.filter = product, !.device = None]))

\* Mutant: the results of the device before stay.
HandleDeviceChangeKeepingResults(d) ==
    /\ d \in DOMAIN page.devices \ {page.device}
    /\ Select([page EXCEPT !.device = d])

HandleDeviceChange(d) ==
    /\ d \in DOMAIN page.devices \ {page.device}
    /\ Select(NoResults([page EXCEPT !.device = d]))

----------------------------------------------------------------------------
(* Composing and sending a command. *)

Selectable == page.device \in DOMAIN page.devices

Compose(p) == Spend("clicks") /\ page' = p /\ UNCHANGED <<requests, commands, serverVars, stale>>

HandleServiceNameChange(s) ==
    /\ Selectable /\ ~page.loading
    /\ s \in ServicesOf(page.model) \ {page.form["call"].service}
    /\ Compose([page EXCEPT !.form["call"] = CallForm(page.model, s), !.result["call"] = None,
                            !.strayed["call"] = FALSE])

\* A parameter is added, removed or changed: a name that is missing or given
\* twice, or a value not of its type, makes the input invalid.
HandleServiceInputParamChange ==
    Compose([page EXCEPT !.form["call"].valid = ~@])

\* The text of the properties to set becomes an object, or stops being one.
OnPropertiesTextChange ==
    /\ ~page.loading /\ page.model \in Writable
    /\ Compose([page EXCEPT !.form["set"].valid = ~@])

HandleUseWritableProperty ==
    /\ page.model \in Writable
    /\ Compose([page EXCEPT !.form["set"] = SetForm(page.model), !.result["set"] = None,
                            !.strayed["set"] = FALSE])

\* The device is listed as active and online: a disabled device counts as one that
\* is not online.
CanSet == Selectable /\ page.devices[page.device] /\ page.model \in Writable /\ ~page.busy["set"]

\* Mutant: a call under way does not disable the button.
CanCallAgain == Selectable /\ page.devices[page.device] /\ page.form["call"].service # None

\* Neither waits for a model that is being loaded.
CanCall == Selectable /\ page.devices[page.device] /\ page.form["call"].service # None /\ ~page.busy["call"]

Send(k) ==
    /\ Spend("clicks")
    /\ page.form[k].valid
    /\ page' = [page EXCEPT !.busy[k] = TRUE]
    /\ commands' = commands \cup
           {[kind |-> k, device |-> page.device, model |-> page.form[k].model,
             pending |-> \E r \in requests : r.what = "model"]}
    /\ UNCHANGED <<requests, serverVars, stale>>

HandleSetProperties == CanSet /\ Send("set")
HandleCallService == CanCall /\ Send("call")

\* The answer is shown, whatever is selected by then.
Accepted(c) ==
    /\ commands' = commands \ {c}
    /\ page' = [page EXCEPT !.busy[c.kind] = FALSE, !.result[c.kind] = c.device,
                            !.strayed[c.kind] = c.device # page.device]
    /\ UNCHANGED <<requests, serverVars, left, stale>>

Rejected(c) ==
    /\ Spend("failures")
    /\ commands' = commands \ {c}
    /\ page' = [page EXCEPT !.busy[c.kind] = FALSE]
    /\ UNCHANGED <<requests, serverVars, stale>>

----------------------------------------------------------------------------
(* Answers to the questions. *)

\* What the answer, of the server as it is now, makes of the page.
Answered(r) ==
    CASE r.what = "tenants" -> [page EXCEPT !.tenants = Tenants, !.tenant = IF @ # None THEN @ ELSE First(Tenants)]
      [] r.what = "products" -> WithProducts(page, ListedProducts(page.tenant))
      [] r.what = "devices" -> WithDevices(page, ListedDevices(r.deps[1], r.deps[2]))
      [] r.what = "model" -> [WithModel(page, CurrentModel(r.deps[1], r.deps[2])) EXCEPT !.loading = FALSE]

Arrive(r) ==
    /\ Render(Answered(r), requests \ {r}, stale)
    /\ UNCHANGED <<commands, serverVars, left>>

\* Mutant: the forms are kept when their model cannot be loaded.
FailKeepsModel(r) ==
    /\ Spend("failures")
    /\ Render(IF r.what = "model" THEN [page EXCEPT !.loading = FALSE] ELSE page, requests \ {r},
              IF r.by = "effect" THEN stale \cup {r.what} ELSE stale)
    /\ UNCHANGED <<commands, serverVars>>

\* Without its model the forms are emptied; the other lists stay as they are.
Fail(r) ==
    /\ Spend("failures")
    /\ Render(IF r.what = "model" THEN [WithoutModel(page) EXCEPT !.loading = FALSE] ELSE page, requests \ {r},
              IF r.by = "effect" THEN stale \cup {r.what} ELSE stale)
    /\ UNCHANGED <<commands, serverVars>>

----------------------------------------------------------------------------
(* The server, and realtime. *)

\* Without a realtime connection, which is lost at any time, the devices are
\* asked for every ten seconds.
Poll ==
    /\ Spend("changes")
    /\ page.tenant # None
    /\ requests' = requests \cup {Question("devices", page, "poll")}
    /\ UNCHANGED <<page, commands, serverVars, stale>>

DeviceDeleted(d) ==
    /\ Spend("changes")
    /\ d \in alive
    /\ alive' = alive \ {d}
    /\ UNCHANGED <<page, requests, commands, online, wire, stale>>

ConnectionChanges(d) ==
    /\ Spend("changes")
    /\ online' = IF d \in online THEN online \ {d} ELSE online \cup {d}
    /\ wire' = wire \cup {[device |-> d, online |-> d \notin online]}
    /\ UNCHANGED <<page, requests, commands, alive, stale>>

\* The message is lost, or shown if the device is listed.
OnConnectionChanged(m) ==
    /\ wire' = wire \ {m}
    /\ \/ UNCHANGED page
       \/ /\ TenantOf[ProductOf[m.device]] = page.tenant
          /\ m.device \in DOMAIN page.devices
          /\ page' = [page EXCEPT !.devices[m.device] = m.online]
    /\ UNCHANGED <<requests, commands, alive, online, left, stale>>

----------------------------------------------------------------------------
Selects ==
    \/ \E t \in Tenants : HandleTenantChange(t)
    \/ \E p \in Products \cup {None} : HandleProductFilterChange(p)
    \/ \E d \in Devices : HandleDeviceChange(d)

DevicePropertySetPanel == OnPropertiesTextChange \/ HandleUseWritableProperty \/ HandleSetProperties

DeviceServiceCallPanel ==
    \/ \E s \in UNION {Services[p] : p \in Products} : HandleServiceNameChange(s)
    \/ HandleServiceInputParamChange
    \/ HandleCallService

Network ==
    \/ \E r \in requests : Arrive(r) \/ Fail(r)
    \/ \E c \in commands : Accepted(c) \/ Rejected(c)

Server ==
    \/ Poll
    \/ \E d \in Devices : DeviceDeleted(d) \/ ConnectionChanges(d)
    \/ \E m \in wire : OnConnectionChanged(m)

Next == Selects \/ DevicePropertySetPanel \/ DeviceServiceCallPanel \/ Network \/ Server

Spec == Init /\ [][Next]_controlVars

----------------------------------------------------------------------------
Form == [model : Products \cup {None}, service : (UNION {Services[p] : p \in Products}) \cup {None}, valid : BOOLEAN]

\* Type correctness of the page and of what is on its way.
TypeOK ==
    /\ page.tenants \subseteq Tenants /\ page.tenant \in Tenants \cup {None}
    /\ page.products \subseteq Products /\ page.filter \in Products \cup {None}
    /\ DOMAIN page.devices \subseteq Devices /\ page.device \in Devices \cup {None}
    /\ \A d \in DOMAIN page.devices : page.devices[d] \in BOOLEAN
    /\ page.model \in Products \cup {None} /\ page.loading \in BOOLEAN
    /\ page.form \in [Kinds -> Form]
    /\ page.busy \in [Kinds -> BOOLEAN] /\ page.strayed \in [Kinds -> BOOLEAN]
    /\ page.result \in [Kinds -> Devices \cup {None}]
    /\ \A r \in requests : r.what \in Questions /\ r.by \in {"effect", "poll"}
    /\ commands \subseteq [kind : Kinds, device : Devices, model : Products \cup {None}, pending : BOOLEAN]
    /\ alive \subseteq Devices /\ online \subseteq Devices
    /\ wire \subseteq [device : Devices, online : BOOLEAN]
    /\ left \in [{"clicks", "changes", "failures"} -> Nat]
    /\ stale \subseteq Questions

\* Once every question is answered the selection fits together: the products and
\* the devices are the tenant's, the filter is one of them, the selected device
\* is listed (and one is, if any is listed), and the model is the one its product
\* has.  However the answers crossed, and whatever was chosen meanwhile.
SelectionSettles ==
    requests = {} /\ stale = {} =>
        /\ page.products \subseteq ListedProducts(page.tenant)
        /\ page.filter \in page.products \cup {None}
        /\ \A d \in DOMAIN page.devices : /\ TenantOf[ProductOf[d]] = page.tenant
                                          /\ page.filter # None => ProductOf[d] = page.filter
        /\ IF DOMAIN page.devices = {} THEN page.device = None ELSE page.device \in DOMAIN page.devices
        /\ page.model = SelectedProduct(page)

\* A command is composed for the model of another product than the device's only
\* when it was sent while the new model was being loaded.
CommandFitsDevice == \A c \in commands : c.model # ProductOf[c.device] => c.pending

\* The result of a command to another device than the selected one is shown only
\* if it came after the selection changed, or if a list of devices replaced the
\* selected one.  Choosing another tenant, product or device removes it.
ResultIsOfSelection ==
    \A k \in Kinds : page.result[k] \notin {None, page.device} => page.strayed[k]

\* What the page says of itself is so: at most one command of a kind is in flight,
\* and its button is disabled just as long; and the forms are locked only while the
\* model of the selected product is being loaded.
IndicatorsAreAwaited ==
    /\ \A k \in Kinds : Cardinality({c \in commands : c.kind = k}) = IF page.busy[k] THEN 1 ELSE 0
    /\ page.loading /\ Asks("model", page) => \E r \in requests : r.what = "model"
=============================================================================
