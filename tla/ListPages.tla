------------------------------ MODULE ListPages ------------------------------
(***************************************************************************)
(* The list pages of the web console: tenants, products, devices, things   *)
(* models and the audit log (pages/Admin/*Management.tsx).  They share one *)
(* design.  A table shows a page of rows, which an effect asks for again   *)
(* whenever the page, its size, the filter or the tenant changes, ignoring *)
(* the answer to its earlier question.  A dialog creates or edits a row,   *)
(* and rows are deleted; both reload the list afterwards as it was when    *)
(* they were started, and that answer is taken whenever it comes.          *)
(***************************************************************************)
EXTENDS Paging, FiniteSets

CONSTANTS
    Tenants, Products, None,
    TenantOf,       \* of each product
    Sizes,          \* sizes of a page
    InitialRows,    \* rows on the server: a number, a tenant and one of its products
    Budgets,        \* bounds, of which a behaviour has one: clicks, failures, polls
    MaxAsks         \* bound: questions open at once, beyond which the user waits

ASSUME ListWorld ==
    /\ None \notin Tenants \cup Products
    /\ TenantOf \in [Products -> Tenants]
    /\ Sizes \subseteq Nat \ {0} /\ \E s \in Sizes : \A t \in Sizes : s >= t
    /\ InitialRows \subseteq [id : Nat, tenant : Tenants, product : Products] /\ IsFiniteSet(InitialRows)
    /\ \A r, s \in InitialRows : r.id = s.id => r = s
    /\ \A r \in InitialRows : r.id <= Cardinality(InitialRows) /\ TenantOf[r.product] = r.tenant
    /\ Budgets \subseteq [{"clicks", "failures", "polls"} -> Nat]
    /\ MaxAsks \in Nat

VARIABLES
    section,        \* the page of the console that is open
    list,           \* what it holds
    requests,       \* questions whose answers are still taken
    calls,          \* saves and deletions that are not answered yet
    rows,           \* on the server
    version,        \* how often the rows changed
    left,           \* what is left of the budget
    disturbed,      \* history: a question failed, or its answer came out of order,
                    \* since the effect last asked
    raced           \* history: a row was deleted or a page was turned while the
                    \* list was out of date, or a page of another list was taken

listVars == <<section, list, requests, calls, rows, version, left, disturbed, raced>>
serverVars == <<rows, version>>

Sections == {"tenants", "products", "devices", "models", "audit"}
OfTenant == section \in {"products", "devices", "models"}
OfProduct == section \in {"devices", "models"}

First(S) == IF S = {} THEN None ELSE CHOOSE x \in S : TRUE
ProductsOf(tenant) == {p \in Products : TenantOf[p] = tenant}

\* The rows of S, a newer one before an older one.
NewestFirst(S) ==
    [i \in 1 .. Cardinality(S) |-> CHOOSE r \in S : Cardinality({s \in S : s.id > r.id}) = i - 1]

\* The rows of a tenant and a product, and how they are listed.
RowsOf(tenant, product) ==
    {r \in rows : (OfTenant => r.tenant = tenant) /\ (product # None => r.product = product)}

Listed(tenant, product) == NewestFirst(RowsOf(tenant, product))

Selection(l) == [tenant |-> l.tenant, filter |-> l.filter, page |-> l.page, size |-> l.size]

\* What the server answers now.  It takes the page before the first for the first.
Answer(sel) ==
    LET page == AtLeast(1, sel.page)
        all == Listed(sel.tenant, sel.filter)
    IN  [items |-> PageOf(all, page, sel.size), total |-> Len(all), page |-> page, version |-> version]

Unanswered == [items |-> <<>>, total |-> 0, page |-> 0, version |-> -1]

Ask(sel, by) == [by |-> by, sel |-> sel, late |-> FALSE, answer |-> Unanswered]

Spend(what) == left[what] > 0 /\ left' = [left EXCEPT ![what] = @ - 1]
Click == Spend("clicks") /\ Cardinality(requests) < MaxAsks

----------------------------------------------------------------------------
(* What the list of each page depends on, and whether it has one to ask for. *)

TenantDeps(l) == <<l.page, l.size>>
ProductDeps(l) == <<l.page, l.size, l.tenant>>
DeviceDeps(l) == <<l.page, l.size, l.filter, l.tenant>>
ModelDeps(l) == <<l.page, l.size, l.filter, l.tenant>>
AuditDeps(l) == <<l.page, l.size>>

Deps(l) ==
    CASE section = "tenants" -> TenantDeps(l) [] section = "products" -> ProductDeps(l)
      [] section = "devices" -> DeviceDeps(l) [] section = "models" -> ModelDeps(l)
      [] section = "audit" -> AuditDeps(l)

HasList(l) == OfTenant => l.tenant # None

\* Variants with a bug, that show what the properties detect.
RenderUncancelled(l, awaited, d) ==
    LET asks == Deps(l) # Deps(list)
    IN  /\ list' = [l EXCEPT !.loading = @ \/ asks]
        /\ requests' = awaited \cup (IF asks THEN {Ask(Selection(l), "effect")} ELSE {})
        /\ disturbed' = (~asks /\ d)

\* The page is drawn with l: its effects ask anew for what changed.
Render(l, awaited, d) ==
    LET asks == Deps(l) # Deps(list)
        moved == <<l.tenant, l.filter, l.size>> # <<list.tenant, list.filter, list.size>>
        products == OfProduct /\ l.tenant # list.tenant
        kept == {r \in awaited : /\ asks => r.by # "effect"
                                 /\ products => r.by # "products"}
    IN  /\ list' = [l EXCEPT !.loading = @ \/ asks]
        /\ requests' = {IF r.by \in {"save", "delete", "poll"} THEN [r EXCEPT !.late = @ \/ moved] ELSE r : r \in kept}
                           \cup (IF asks THEN {Ask(Selection(l), "effect")} ELSE {})
                           \cup (IF products THEN {Ask(Selection(l), "products")} ELSE {})
        /\ disturbed' = (~asks /\ d)

Init ==
    /\ section \in Sections
    /\ list = [tenants |-> {}, tenant |-> None, filter |-> None, products |-> {},
               page |-> 1, size |-> CHOOSE s \in Sizes : \A t \in Sizes : s >= t,
               items |-> <<>>, total |-> 0, shown |-> -1, loading |-> ~OfTenant, saving |-> FALSE,
               deleting |-> None, mode |-> "closed", editing |-> None, product |-> None]
    /\ requests = IF OfTenant THEN {Ask(Selection(list), "tenants")} ELSE {Ask(Selection(list), "effect")}
    /\ calls = {}
    /\ rows = InitialRows
    /\ version = 0
    /\ left \in Budgets
    /\ disturbed = FALSE
    /\ raced = FALSE

----------------------------------------------------------------------------
(* Turning pages, choosing what is listed, and the dialog. *)

Choose(l) == Click /\ Render(l, requests, disturbed) /\ UNCHANGED <<section, calls, serverVars, raced>>

Closed(l) == [l EXCEPT !.mode = "closed", !.editing = None, !.product = None]

\* The rows of the former tenant stay, with their buttons, until the list comes.
HandleTenantChange(t) ==
    /\ t \in list.tenants \ {list.tenant}
    /\ Choose(Closed([list EXCEPT !.tenant = t, !.filter = None, !.page = 1]))

HandleProductFilterChange(p) ==
    /\ p \in (list.products \cup {None}) \ {list.filter}
    /\ Choose([list EXCEPT !.filter = p, !.page = 1])

OnPageChange(n) ==
    /\ n \in PageTargets(list.page, list.total, list.size, list.loading) \ {list.page}
    /\ Click
    /\ Render([list EXCEPT !.page = n], requests, disturbed)
    /\ raced' = (raced \/ list.loading \/ disturbed \/ list.shown # version)
    /\ UNCHANGED <<section, calls, serverVars>>

OnPageSizeChange(s) == s # list.size /\ Choose([list EXCEPT !.page = 1, !.size = s])

Table == (\E n \in 1 .. 5 : OnPageChange(n)) \/ \E s \in Sizes : OnPageSizeChange(s)

OpenCreateForm(product) == Choose([Closed(list) EXCEPT !.mode = "create", !.product = product])

\* A device or a model is created under the product filtered by, or the first one.
DefaultProduct == IF list.filter # None THEN list.filter ELSE First(list.products)

OpenEditForm(r) == Choose([Closed(list) EXCEPT !.mode = "edit", !.editing = r, !.product = r.product])

ChooseFormProduct(p) ==
    /\ list.mode = "create" /\ p \in list.products \ {list.product}
    /\ Choose([list EXCEPT !.product = p])

CloseForm == list.mode # "closed" /\ Choose(Closed(list))

----------------------------------------------------------------------------
(* Saving. *)

TenantCanSubmit == ~list.saving
ProductCanSubmit == list.tenant # None /\ ~list.saving
\* Mutant: a save under way does not disable the button.
DeviceCanSubmitAgain == list.tenant # None /\ list.product # None
DeviceCanSubmit == list.tenant # None /\ list.product # None /\ ~list.saving
ModelCanSubmit == list.tenant # None /\ list.product # None /\ ~list.saving

\* A call keeps the page as it was when it was made.
Call(kind, row) ==
    [kind |-> kind, row |-> row, product |-> list.product, sel |-> Selection(list),
     items |-> Len(list.items), shown |-> list.shown, ready |-> list.products = ProductsOf(list.tenant)]

HandleSubmit ==
    /\ list.mode # "closed"
    /\ Click
    /\ list' = [list EXCEPT !.saving = TRUE]
    /\ calls' = calls \cup {Call(list.mode, list.editing)}
    /\ UNCHANGED <<section, requests, serverVars, disturbed, raced>>

\* The dialog is closed, whichever is open by now; a list with a new row is shown
\* from its first page.
SavedAndClosed(l, c) == Closed(IF c.kind = "create" THEN [l EXCEPT !.page = 1] ELSE l)

SavedTenant(l, c) == SavedAndClosed(l, c)
SavedProduct(l, c) == SavedAndClosed(l, c)
SavedModel(l, c) == SavedAndClosed(l, c)

\* The dialog of a new device stays open: it shows the secret.
SavedDevice(l, c) == IF c.kind = "create" THEN [l EXCEPT !.page = 1] ELSE Closed(l)

Saved(l, c) ==
    CASE section = "tenants" -> SavedTenant(l, c) [] section = "products" -> SavedProduct(l, c)
      [] section = "devices" -> SavedDevice(l, c) [] section = "models" -> SavedModel(l, c)

\* The reload that follows: of the list as it was when the call was made.
Reload(sel, by) ==
    [Ask(sel, by) EXCEPT !.late = <<sel.tenant, sel.filter, sel.size>> # <<list.tenant, list.filter, list.size>>]

\* A row for the call: of the tenant the page is about, and of the product chosen.
NewRow(c) ==
    [id |-> Cardinality(InitialRows) + version + 1, tenant |-> c.sel.tenant, product |-> c.product]

Accepts(c) == c.kind = "create" /\ OfProduct => TenantOf[c.product] = c.sel.tenant

Created(c) == IF c.kind = "create" THEN {NewRow(c)} ELSE {}

SaveSucceeds(c) ==
    LET page == IF c.kind = "create" THEN 1 ELSE c.sel.page
    IN  /\ Accepts(c)
        /\ calls' = calls \ {c}
        /\ rows' = rows \cup Created(c)
        /\ version' = version + 1
        /\ Render([Saved(list, c) EXCEPT !.loading = TRUE],
                  requests \cup {Reload([c.sel EXCEPT !.page = page], "save")}, disturbed)
        /\ UNCHANGED <<section, left, raced>>

\* An error is notified and the dialog stays, also when the row was saved and only
\* the answer was lost.
SaveFails(c, done) ==
    /\ IF Accepts(c) THEN Spend("failures") ELSE UNCHANGED left
    /\ done => Accepts(c)
    /\ calls' = calls \ {c}
    /\ rows' = IF done THEN rows \cup Created(c) ELSE rows
    /\ version' = IF done THEN version + 1 ELSE version
    /\ list' = [list EXCEPT !.saving = FALSE]
    /\ disturbed' = (disturbed \/ done)
    /\ UNCHANGED <<section, requests, raced>>

----------------------------------------------------------------------------
(* Deleting. *)

\* The button of the row whose deletion began last is disabled.
HandleDelete(r) ==
    /\ r # list.deleting
    /\ Click
    /\ list' = [list EXCEPT !.deleting = r]
    /\ calls' = calls \cup {Call("delete", r)}
    /\ raced' = (raced \/ list.loading \/ disturbed)
    /\ UNCHANGED <<section, requests, serverVars, disturbed>>

\* Mutant: the page stays at a number its last row was deleted from.
NeverStepsBack(c) == FALSE

\* The only row of a page that is not the first was deleted.
StepsBack(c) == c.items = 1 /\ c.sel.page > 1

DeleteSucceeds(c) ==
    /\ c.row \in rows
    /\ calls' = calls \ {c}
    /\ rows' = rows \ {c.row}
    /\ version' = version + 1
    /\ raced' = (raced \/ c.sel # Selection(list) \/ c.shown # version)
    /\ IF StepsBack(c)
       THEN Render([list EXCEPT !.page = @ - 1, !.deleting = None], requests, disturbed)
       ELSE Render([list EXCEPT !.loading = TRUE], requests \cup {Reload(c.sel, "delete")}, disturbed)
    /\ UNCHANGED <<section, left>>

DeleteFails(c, done) ==
    /\ IF c.row \in rows THEN Spend("failures") ELSE UNCHANGED left
    /\ done => c.row \in rows
    /\ calls' = calls \ {c}
    /\ rows' = IF done THEN rows \ {c.row} ELSE rows
    /\ version' = IF done THEN version + 1 ELSE version
    /\ list' = [list EXCEPT !.deleting = None]
    /\ disturbed' = (disturbed \/ done)
    /\ UNCHANGED <<section, requests, raced>>

----------------------------------------------------------------------------
(* Answers. *)

\* The form of a model keeps whatever product it has.
ModelFormProduct(l, listed) == IF l.product # None THEN l.product ELSE First(listed)

\* The products of the tenant: the form keeps a product only if it is one of them.
DeviceFormProduct(l, listed) == IF l.product \in listed THEN l.product ELSE First(listed)

WithProducts(l, listed) ==
    IF section = "devices"
    THEN [l EXCEPT !.products = listed, !.filter = IF @ \in listed THEN @ ELSE None,
                   !.product = DeviceFormProduct(l, listed)]
    ELSE [l EXCEPT !.products = listed, !.product = ModelFormProduct(l, listed)]

\* The indicators a list answer, or its error, puts out.
Finished(l, by) ==
    [l EXCEPT !.loading = @ /\ by = "poll", !.saving = @ /\ by # "save",
              !.deleting = IF by = "delete" THEN None ELSE @]

ServerAnswers(r) ==
    /\ r.by \notin {"tenants", "products"}
    /\ r.answer = Unanswered
    /\ requests' = (requests \ {r}) \cup {[r EXCEPT !.answer = Answer(r.sel)]}
    /\ UNCHANGED <<section, list, calls, serverVars, left, disturbed, raced>>

TenantsArrive(r) ==
    /\ r.by = "tenants"
    /\ Render([list EXCEPT !.tenants = Tenants, !.tenant = IF @ # None THEN @ ELSE First(Tenants)],
              requests \ {r}, disturbed)
    /\ UNCHANGED <<section, calls, serverVars, left, raced>>

ProductsArrive(r) ==
    /\ r.by = "products"
    /\ Render(WithProducts(list, ProductsOf(r.sel.tenant)), requests \ {r}, disturbed)
    /\ UNCHANGED <<section, calls, serverVars, left, raced>>

Arrive(r) ==
    /\ r.answer # Unanswered
    /\ Render([Finished(list, r.by) EXCEPT !.items = r.answer.items, !.total = r.answer.total,
                                           !.page = r.answer.page, !.size = r.sel.size,
                                           !.shown = r.answer.version],
              requests \ {r}, disturbed \/ r.late \/ r.answer.version < list.shown)
    /\ raced' = (raced \/ r.late \/ r.sel # Selection(list))
    /\ UNCHANGED <<section, calls, serverVars, left>>

Fail(r) ==
    /\ Spend("failures")
    /\ r.answer = Unanswered
    /\ requests' = requests \ {r}
    /\ list' = IF r.by \in {"tenants", "products"} THEN list ELSE Finished(list, r.by)
    /\ disturbed' = (disturbed \/ r.by \notin {"tenants", "products"})
    /\ UNCHANGED <<section, calls, serverVars, raced>>

\* Without a realtime connection, which is lost at any time, the devices are asked
\* for every ten seconds.  A poll that is under way is not given up.
Poll ==
    /\ section = "devices" /\ list.tenant # None
    /\ Spend("polls")
    /\ requests' = requests \cup {Ask(Selection(list), "poll")}
    /\ UNCHANGED <<section, list, calls, serverVars, disturbed, raced>>

----------------------------------------------------------------------------
(* What each page lets the user do. *)

ShownRows == {list.items[i] : i \in DOMAIN list.items}
RowButtons == \E r \in ShownRows : OpenEditForm(r) \/ HandleDelete(r)
TenantSelect == \E t \in Tenants : HandleTenantChange(t)
ProductSelect == \E p \in Products \cup {None} : HandleProductFilterChange(p)

TenantForm == CloseForm \/ (TenantCanSubmit /\ HandleSubmit)
ProductForm == CloseForm \/ (ProductCanSubmit /\ HandleSubmit)
DeviceForm == CloseForm \/ (\E p \in Products : ChooseFormProduct(p)) \/ (DeviceCanSubmit /\ HandleSubmit)
ModelForm == CloseForm \/ (\E p \in Products : ChooseFormProduct(p)) \/ (ModelCanSubmit /\ HandleSubmit)

NewOfProduct == list.tenant # None /\ list.products # {} /\ OpenCreateForm(DefaultProduct)

TenantManagement == OpenCreateForm(None) \/ TenantForm \/ RowButtons \/ Table

ProductManagement ==
    \/ TenantSelect
    \/ list.tenant # None /\ OpenCreateForm(None)
    \/ ProductForm \/ RowButtons \/ Table

DeviceManagement ==
    \/ TenantSelect \/ ProductSelect
    \/ NewOfProduct \/ DeviceForm \/ RowButtons \/ Table

ThingsModelManagement ==
    \/ TenantSelect \/ ProductSelect
    \/ NewOfProduct \/ ModelForm \/ RowButtons \/ Table

AuditLogManagement == Table

User ==
    \/ section = "tenants" /\ TenantManagement
    \/ section = "products" /\ ProductManagement
    \/ section = "devices" /\ DeviceManagement
    \/ section = "models" /\ ThingsModelManagement
    \/ section = "audit" /\ AuditLogManagement

Saves == {c \in calls : c.kind # "delete"}
Deletions == {c \in calls : c.kind = "delete"}

SaveEnds == \E c \in Saves : SaveSucceeds(c) \/ \E done \in BOOLEAN : SaveFails(c, done)
DeleteEnds == \E c \in Deletions : DeleteSucceeds(c) \/ \E done \in BOOLEAN : DeleteFails(c, done)

Answers(by) == \E r \in requests : r.by = by /\ (ServerAnswers(r) \/ Arrive(r) \/ Fail(r))

Network ==
    \/ SaveEnds \/ DeleteEnds
    \/ \E by \in {"effect", "save", "delete", "poll"} : Answers(by)
    \/ \E r \in requests : TenantsArrive(r) \/ ProductsArrive(r) \/ (r.by \in {"tenants", "products"} /\ Fail(r))

Next == User \/ Network \/ Poll

Spec == Init /\ [][Next]_listVars

----------------------------------------------------------------------------
Row == [id : Nat, tenant : Tenants \cup {None}, product : Products \cup {None}]

\* Type correctness of the page, of the server and of what is between them.
TypeOK ==
    /\ section \in Sections
    /\ list.tenants \subseteq Tenants /\ list.tenant \in Tenants \cup {None}
    /\ list.products \subseteq Products
    /\ {list.filter, list.product} \subseteq Products \cup {None}
    /\ list.page \in Int /\ list.size \in Sizes /\ list.total \in Nat
    /\ ShownRows \subseteq Row
    /\ {list.loading, list.saving} \subseteq BOOLEAN
    /\ {list.deleting, list.editing} \subseteq Row \cup {None}
    /\ list.mode \in {"closed", "create", "edit"}
    /\ rows \subseteq Row /\ version \in Nat
    /\ left \in [{"clicks", "failures", "polls"} -> Nat]
    /\ {disturbed, raced} \subseteq BOOLEAN

Settled == requests = {} /\ calls = {} /\ HasList(list)

\* Once everything is answered the table shows the rows the server has for the
\* selected tenant, product and page, saved and deleted rows included, unless a
\* question failed or an answer came out of order since the list was last asked
\* for: after another tenant, product or page size was selected, or after a newer
\* one.
SettledShowsSelection ==
    Settled /\ ~disturbed =>
        LET all == Listed(list.tenant, list.filter)
        IN  /\ list.page >= 1
            /\ list.items = PageOf(all, list.page, list.size)
            /\ list.total = Len(all)

\* Once everything is answered the page that is shown exists, unless a page was
\* turned or a row deleted while the list was out of date (the rows and the number
\* of pages the user goes by are those of the list before, which may be another
\* tenant's), or an answer about another selection or page was taken: a poll that
\* is answered after a deletion or a choice leads back to the page it asked for.
PageExists ==
    Settled /\ ~disturbed /\ ~raced => list.page <= TotalPages(list.total, list.size)

\* What the page says of itself is so: at most one save is under way, its reload
\* included, and the save button is disabled just as long; and the other indicators
\* stay on only while there is something to wait for.
IndicatorsAreAwaited ==
    /\ Cardinality(Saves) + Cardinality({r \in requests : r.by = "save"}) = IF list.saving THEN 1 ELSE 0
    /\ list.loading => \E r \in requests : r.by \in {"effect", "save", "delete"}
    /\ list.deleting # None => Deletions # {} \/ \E r \in requests : r.by = "delete"

\* A device is created under a product of its tenant once the tenant's products
\* are listed, also if the dialog was opened before that.
CreateFitsTenant ==
    section = "devices" =>
        \A c \in calls : c.kind = "create" /\ c.ready => TenantOf[c.product] = c.sel.tenant

=============================================================================
