--------------------------- MODULE ListPagesProofs ---------------------------
(***************************************************************************)
(* The list pages of the console: what the table shows is what was asked   *)
(* for, and what the page says of itself is so.                            *)
(*                                                                         *)
(* The inductive invariant follows a question from the effect, the save or *)
(* the deletion that asks it to the table: every question under way is     *)
(* about the present selection or known to be late (RequestFits), and the  *)
(* table shows the newest rows unless an answer that tells them is under   *)
(* way (Comes).                                                            *)
(*                                                                         *)
(* That the page which is shown exists needs more: what the rows and the   *)
(* calls are (TypesFit), and that each deletion under way is of a row that *)
(* was counted with those before it (PagesFit).                            *)
(***************************************************************************)
EXTENDS ListPages, TLAPS, FiniteSetTheorems, FunctionTheorems, SequenceTheorems

Fields == {"tenants", "tenant", "filter", "products", "page", "size", "items", "total", "shown",
           "loading", "saving", "deleting", "mode", "editing", "product"}
IsList(l) == l = [f \in Fields |-> l[f]]

IsSelection(s) ==
    /\ s = [tenant |-> s.tenant, filter |-> s.filter, page |-> s.page, size |-> s.size]
    /\ s.page \in Int

\* Only the pages of a tenant have one selected, and only those of a product filter.
SectionFits(l) == (~OfTenant => l.tenant = None) /\ (~OfProduct => l.filter = None)

\* A device is filtered by and created under a product that is listed.
DialogFits(l) ==
    section = "devices" =>
        /\ l.filter \in l.products \cup {None}
        /\ l.mode = "create" => l.product \in l.products \cup {None}

ListFits(l) ==
    /\ IsList(l)
    /\ l.page \in Int /\ l.shown \in Int
    /\ l.loading \in BOOLEAN /\ l.saving \in BOOLEAN
    /\ l.mode \in {"closed", "create", "edit"}
    /\ SectionFits(l)
    /\ DialogFits(l)

\* A question of the list.
Asking == {"effect", "save", "delete", "poll"}

\* A question that is not late is about what is selected, that of an effect about the
\* very page.
RequestFits(r, l) ==
    /\ r = [by |-> r.by, sel |-> r.sel, late |-> r.late, answer |-> r.answer]
    /\ r.by \in Asking \cup {"tenants", "products"}
    /\ r.late \in BOOLEAN
    /\ IsSelection(r.sel)
    /\ r.by = "effect" => r.late = FALSE /\ r.sel = Selection(l)
    /\ r.by \in {"save", "delete", "poll"} /\ ~r.late =>
           r.sel.tenant = l.tenant /\ r.sel.filter = l.filter /\ r.sel.size = l.size
    /\ r.by = "tenants" => OfTenant
    /\ r.by = "products" => OfProduct
    /\ r.by \notin Asking => r.answer = Unanswered

\* The answer a to a question about sel tells of all the rows.
Tells(a, all, sel) ==
    /\ a.items = PageOf(all, AtLeast(1, sel.page), sel.size)
    /\ a.total = Len(all)

\* An answer of the present version tells the present rows.
AnswerFits(r) ==
    r.answer # Unanswered =>
        /\ r.answer.version \in Nat /\ r.answer.version <= version
        /\ r.answer.page = AtLeast(1, r.sel.page)
        /\ r.answer.version = version => Tells(r.answer, Listed(r.sel.tenant, r.sel.filter), r.sel)

\* The answer to r is, or will be, of the present version.
AsksNewest(r) == r.by \in Asking /\ (r.answer = Unanswered \/ r.answer.version = version)

\* The table shows what is selected of all the rows.
Shows(l, all) ==
    /\ l.page >= 1
    /\ l.items = PageOf(all, l.page, l.size)
    /\ l.total = Len(all)

Newest(l) == l.shown = version /\ Shows(l, Listed(l.tenant, l.filter))

\* A table that was not disturbed shows the newest rows, or awaits them.
Comes(l, reqs, d) == HasList(l) /\ ~d => Newest(l) \/ \E r \in reqs : AsksNewest(r)

Awaits(reqs, bys) == \E r \in reqs : r.by \in bys

SaveRequests(reqs) == {r \in reqs : r.by = "save"}
SavesOf(cs) == {c \in cs : c.kind # "delete"}
Single(S) == \E x : S = {x}

\* One save is under way, or its reload; or neither.
OneSave(saving, saves, reloads) ==
    IF saving THEN (Single(saves) /\ reloads = {}) \/ (saves = {} /\ Single(reloads))
    ELSE saves = {} /\ reloads = {}

DeletionAwaits(l, cs, reqs) == l.deleting # None => (\E c \in cs : c.kind = "delete") \/ Awaits(reqs, {"delete"})
LoadingAwaits(l, reqs) == l.loading => Awaits(reqs, {"effect", "save", "delete"})

\* What the page says of itself is so.
IndicatorsFit(l, cs, reqs) ==
    /\ OneSave(l.saving, SavesOf(cs), SaveRequests(reqs))
    /\ LoadingAwaits(l, reqs)
    /\ DeletionAwaits(l, cs, reqs)

\* A call is about a page of rows, and a device is created under a product of its tenant.
CallFits(c) ==
    /\ IsSelection(c.sel)
    /\ section # "audit"
    /\ section = "devices" /\ c.kind = "create" /\ c.ready => TenantOf[c.product] = c.sel.tenant

\* What holds of a page and what it awaits, also before its effects ask.
Drawable(l, cs, reqs) ==
    /\ ListFits(l) /\ l.shown <= version
    /\ \A r \in reqs : AnswerFits(r)
    /\ IndicatorsFit(l, cs, reqs)

\* The inductive invariant.
ListInv ==
    /\ section \in Sections /\ version \in Nat /\ disturbed \in BOOLEAN
    /\ Drawable(list, calls, requests)
    /\ \A r \in requests : RequestFits(r, list)
    /\ \A c \in calls : CallFits(c)
    /\ Comes(list, requests, disturbed)

----------------------------------------------------------------------------
(* Pages that exist.                                                        *)
(*                                                                          *)
(* The server numbers rows in the order they are made, so that no two are   *)
(* alike, and the lists, the questions and the calls are about what there   *)
(* is (TypesFit).  A page exists as long as the user turns pages of a list  *)
(* that is up to date, and each deletion is of a row that was counted       *)
(* (PagesFit).                                                              *)

ListTyped(l) ==
    /\ l.tenants \subseteq Tenants /\ l.tenant \in Tenants \cup {None}
    /\ l.products \subseteq Products
    /\ l.filter \in Products \cup {None} /\ l.product \in Products \cup {None}
    /\ l.size \in Sizes
    /\ l.total \in Nat /\ l.items \in Seq(Row)
    /\ l.deleting \in Row \cup {None} /\ l.editing \in Row \cup {None}

SelectionTyped(s) == s.tenant \in Tenants \cup {None} /\ s.size \in Sizes

RequestTyped(r) ==
    /\ SelectionTyped(r.sel)
    /\ r.answer.total \in Nat /\ r.answer.items \in Seq(Row)

\* A row is created for a tenant.
CallTyped(c) ==
    /\ SelectionTyped(c.sel)
    /\ c.product \in Products \cup {None}
    /\ c.shown \in Int /\ c.items \in Nat
    /\ OfTenant /\ c.kind = "create" => c.sel.tenant # None

\* The rows are numbered in the order they are made, and each is of its tenant.
RowsTyped ==
    /\ rows \subseteq Row /\ IsFiniteSet(rows)
    /\ \A r, s \in rows : r.id = s.id => r = s
    /\ \A r \in rows : r.id <= Cardinality(InitialRows) + version
    /\ OfTenant => \A r \in rows : r.tenant # None
    /\ OfProduct => \A r \in rows : TenantOf[r.product] = r.tenant

TypesFit ==
    /\ RowsTyped
    /\ ListTyped(list)
    /\ \A r \in requests : RequestTyped(r)
    /\ \A c \in calls : CallTyped(c)
    /\ left \in [{"clicks", "failures", "polls"} -> Nat]
    /\ raced \in BOOLEAN

\* How many rows there are of a tenant and a product.
HowMany(tenant, product) == Cardinality(RowsOf(tenant, product))

\* A page of so many rows: it has some, or is the first.
PageThere(page, size, total) == page <= 1 \/ (page - 1) * size < total

\* The list filters by a product of another tenant, or there is no tenant.
Foreign(l) ==
    OfTenant /\ (l.tenant = None \/ (OfProduct /\ l.filter # None /\ TenantOf[l.filter] # l.tenant))

\* What holds of the page, of which d says that it was disturbed, and z that it raced.
PageFits(l, d, z) ==
    /\ ~z /\ ~d => PageThere(l.page, l.size, HowMany(l.tenant, l.filter))
    /\ ~z /\ ~d /\ ~l.loading /\ l.shown = version => Shows(l, Listed(l.tenant, l.filter))
    /\ ~z /\ Foreign(l) => l.page <= 1

\* The row that is deleted was counted with those before it.
Counts(c) ==
    /\ c.items >= 1 /\ c.sel.page >= 1
    /\ (c.sel.page - 1) * c.sel.size + c.items <= HowMany(c.sel.tenant, c.sel.filter)

CallsCount(cs, z) ==
    /\ \A c \in cs : c.shown <= version
    /\ ~z => \A c \in cs : c.kind = "delete" /\ c.shown = version => Counts(c)

ProductsAsked(reqs, l) == \A r \in reqs : r.by = "products" => r.sel.tenant = l.tenant

PagesFit ==
    /\ PageFits(list, disturbed, raced)
    /\ CallsCount(calls, raced)
    /\ ProductsAsked(requests, list)

----------------------------------------------------------------------------
(* What the list depends on. *)

\* Pages that depend on the same show the same selection.
LEMMA DepsTell ==
  ASSUME section \in Sections, NEW l, NEW o, SectionFits(l), SectionFits(o), Deps(l) = Deps(o)
  PROVE  /\ l.tenant = o.tenant /\ l.filter = o.filter /\ l.page = o.page /\ l.size = o.size
         /\ Selection(l) = Selection(o)
<1>1. l.tenant = o.tenant /\ l.filter = o.filter /\ l.page = o.page /\ l.size = o.size
  <2> USE DEF SectionFits, OfTenant, OfProduct, Deps
  <2>1. CASE section = "tenants"
    BY <2>1 DEF TenantDeps
  <2>2. CASE section = "products"
    BY <2>2 DEF ProductDeps
  <2>3. CASE section = "devices"
    BY <2>3 DEF DeviceDeps
  <2>4. CASE section = "models"
    BY <2>4 DEF ModelDeps
  <2>5. CASE section = "audit"
    BY <2>5 DEF AuditDeps
  <2>6. QED
    BY <2>1, <2>2, <2>3, <2>4, <2>5 DEF Sections
<1>2. QED
  BY <1>1 DEF Selection

\* Another page, or another size of it, asks anew.
LEMMA TurnAsks ==
  ASSUME section \in Sections, NEW l, NEW o, Deps(l) = Deps(o)
  PROVE  l.page = o.page /\ l.size = o.size
BY DEF Deps, TenantDeps, ProductDeps, DeviceDeps, ModelDeps, AuditDeps, Sections

----------------------------------------------------------------------------
(* Questions. *)

\* A question after the page was drawn: late if what is listed moved on.
Marked(r, moved) == IF r.by \in {"save", "delete", "poll"} THEN [r EXCEPT !.late = @ \/ moved] ELSE r

LEMMA MarkedFields ==
  ASSUME NEW r, NEW o, RequestFits(r, o), NEW moved \in BOOLEAN
  PROVE  LET m == Marked(r, moved)
         IN  /\ m = [by |-> r.by, sel |-> r.sel, late |-> m.late, answer |-> r.answer]
             /\ m.by = r.by /\ m.sel = r.sel /\ m.answer = r.answer
             /\ m.late = IF r.by \in {"save", "delete", "poll"} THEN r.late \/ moved ELSE r.late
BY DEF Marked, RequestFits

\* A question fits the page that is drawn if it fitted the one before.
LEMMA MarkedFits ==
  ASSUME NEW r, NEW o, RequestFits(r, o), NEW l, NEW moved \in BOOLEAN,
         r.by = "effect" => Selection(l) = Selection(o),
         ~moved => l.tenant = o.tenant /\ l.filter = o.filter /\ l.size = o.size
  PROVE  /\ RequestFits(Marked(r, moved), l)
         /\ Marked(r, moved).by = r.by /\ Marked(r, moved).sel = r.sel
         /\ Marked(r, moved).answer = r.answer
<1> DEFINE m == Marked(r, moved)
<1>1. /\ m = [by |-> r.by, sel |-> r.sel, late |-> m.late, answer |-> r.answer]
      /\ m.by = r.by /\ m.sel = r.sel /\ m.answer = r.answer
      /\ m.late = IF r.by \in {"save", "delete", "poll"} THEN r.late \/ moved ELSE r.late
  BY MarkedFields
<1> HIDE DEF m
<1>2. RequestFits(m, l)
  BY <1>1 DEF RequestFits, Asking
<1>3. QED
  BY <1>1, <1>2 DEF m

\* A question that was just asked fits, and its answer will be the newest.
LEMMA AskFits ==
  ASSUME NEW l, l.page \in Int, NEW by \in {"effect", "poll", "tenants", "products"},
         by = "tenants" => OfTenant, by = "products" => OfProduct
  PROVE  LET r == Ask(Selection(l), by)
         IN  /\ RequestFits(r, l) /\ AnswerFits(r) /\ AnswerFits(r)'
             /\ r.by = by /\ r.answer = Unanswered
<1> DEFINE s == Selection(l)
           r == Ask(s, by)
<1>1. IsSelection(s) /\ s.tenant = l.tenant /\ s.filter = l.filter /\ s.size = l.size
  BY DEF Selection, IsSelection
<1>2. s = Selection(l)
  OBVIOUS
<1> HIDE DEF s
<1>3. /\ r = [by |-> r.by, sel |-> r.sel, late |-> r.late, answer |-> r.answer]
      /\ r.by = by /\ r.sel = s /\ r.late = FALSE /\ r.answer = Unanswered
  BY DEF Ask
<1> HIDE DEF r
<1>4. RequestFits(r, l)
  BY <1>1, <1>2, <1>3 DEF RequestFits, Asking
<1>5. AnswerFits(r) /\ AnswerFits(r)'
  BY <1>3 DEF AnswerFits
<1>6. QED
  BY <1>3, <1>4, <1>5 DEF r, s

----------------------------------------------------------------------------
(* Drawing the page. *)

\* What an effect asks is about the page that is drawn.
LEMMA LoadingFits ==
  ASSUME NEW l, ListFits(l), NEW b \in BOOLEAN, NEW n, n = [l EXCEPT !.loading = b]
  PROVE  /\ ListFits(n) /\ Selection(n) = Selection(l) /\ n.loading = b
         /\ n.tenant = l.tenant /\ n.filter = l.filter /\ n.page = l.page /\ n.size = l.size
         /\ n.items = l.items /\ n.total = l.total /\ n.shown = l.shown
         /\ n.saving = l.saving /\ n.deleting = l.deleting
<1>1. IsList(l) /\ n = [l EXCEPT !.loading = b]
  BY DEF ListFits
<1>2. /\ IsList(n) /\ n.loading = b
      /\ n.tenant = l.tenant /\ n.filter = l.filter /\ n.page = l.page /\ n.size = l.size
      /\ n.items = l.items /\ n.total = l.total /\ n.shown = l.shown
      /\ n.saving = l.saving /\ n.deleting = l.deleting /\ n.mode = l.mode
      /\ n.product = l.product /\ n.products = l.products
  BY <1>1 DEF IsList, Fields
<1>3. SectionFits(n) /\ DialogFits(n)
  BY <1>2 DEF ListFits, SectionFits, DialogFits
<1>4. ListFits(n)
  BY <1>2, <1>3 DEF ListFits
<1>5. QED
  BY <1>2, <1>4 DEF Selection

\* The questions after the page is drawn: those that are kept, and the new ones.
Drawn(l, awaited, asks, moved, products) ==
    LET kept == {r \in awaited : /\ asks => r.by # "effect"
                                 /\ products => r.by # "products"}
    IN  {Marked(r, moved) : r \in kept}
            \cup (IF asks THEN {Ask(Selection(l), "effect")} ELSE {})
            \cup (IF products THEN {Ask(Selection(l), "products")} ELSE {})

LEMMA DrawnFits ==
  ASSUME section \in Sections, NEW o, SectionFits(o), NEW l, ListFits(l),
         NEW awaited, \A r \in awaited : RequestFits(r, o),
         NEW asks, NEW moved \in BOOLEAN, NEW products,
         asks = (Deps(l) # Deps(o)),
         moved = (<<l.tenant, l.filter, l.size>> # <<o.tenant, o.filter, o.size>>),
         products => OfProduct
  PROVE  \A r \in Drawn(l, awaited, asks, moved, products) : RequestFits(r, l)
<1> DEFINE kept == {r \in awaited : /\ asks => r.by # "effect"
                                    /\ products => r.by # "products"}
<1>1. ASSUME NEW r \in kept
      PROVE  RequestFits(Marked(r, moved), l)
  <2>1. r.by = "effect" => Selection(l) = Selection(o)
    BY DepsTell DEF ListFits
  <2>2. ~moved => l.tenant = o.tenant /\ l.filter = o.filter /\ l.size = o.size
    OBVIOUS
  <2>3. QED
    BY <2>1, <2>2, MarkedFits
<1>2. RequestFits(Ask(Selection(l), "effect"), l)
  BY AskFits DEF ListFits
<1>3. products => RequestFits(Ask(Selection(l), "products"), l)
  BY AskFits DEF ListFits
<1>4. QED
  BY <1>1, <1>2, <1>3 DEF Drawn

\* The questions reqs are those awaited, unless the effect that asked them asks anew.
Follow(reqs, awaited, asks) ==
    /\ \A r \in awaited : r.by \in {"save", "delete", "poll"} \/ (r.by = "effect" /\ ~asks) =>
           \E m \in reqs : m.by = r.by /\ m.answer = r.answer
    /\ \A m \in reqs : \/ m.answer = Unanswered /\ m.by \in {"effect", "products"}
                       \/ \E r \in awaited : m.by = r.by /\ m.sel = r.sel /\ m.answer = r.answer
    /\ asks => \E m \in reqs : m.by = "effect" /\ m.answer = Unanswered
    /\ SaveRequests(awaited) = {} => SaveRequests(reqs) = {}
    /\ Single(SaveRequests(awaited)) => Single(SaveRequests(reqs))

LEMMA DrawnKeeps ==
  ASSUME NEW o, NEW l, NEW awaited, \A r \in awaited : RequestFits(r, o),
         NEW asks \in BOOLEAN, NEW moved \in BOOLEAN, NEW products \in BOOLEAN,
         NEW reqs, reqs = Drawn(l, awaited, asks, moved, products)
  PROVE  Follow(reqs, awaited, asks)
<1> DEFINE kept == {r \in awaited : /\ asks => r.by # "effect"
                                    /\ products => r.by # "products"}
           effect == Ask(Selection(l), "effect")
           listed == Ask(Selection(l), "products")
<1>1. \A r \in awaited : /\ Marked(r, moved).by = r.by /\ Marked(r, moved).sel = r.sel
                         /\ Marked(r, moved).answer = r.answer
  BY MarkedFields
<1>2. /\ effect.by = "effect" /\ effect.answer = Unanswered
      /\ listed.by = "products" /\ listed.answer = Unanswered
  BY DEF Ask
<1>3. reqs = {Marked(r, moved) : r \in kept} \cup (IF asks THEN {effect} ELSE {})
                                             \cup (IF products THEN {listed} ELSE {})
  BY DEF Drawn
<1> HIDE DEF effect, listed
<1>4. ASSUME NEW r \in awaited, r.by \in {"save", "delete", "poll"} \/ (r.by = "effect" /\ ~asks)
      PROVE  \E m \in reqs : m.by = r.by /\ m.answer = r.answer
  <2>1. r \in kept
    BY <1>4
  <2>2. Marked(r, moved) \in reqs
    BY <2>1, <1>3
  <2>3. QED
    BY <1>1, <2>2
<1>5. ASSUME NEW m \in reqs
      PROVE  \/ m.answer = Unanswered /\ m.by \in {"effect", "products"}
             \/ \E r \in awaited : m = Marked(r, moved) /\ m.by = r.by /\ m.sel = r.sel /\ m.answer = r.answer
  BY <1>1, <1>2, <1>3
<1>6. asks => effect \in reqs
  BY <1>3
<1>7. SaveRequests(reqs) = {Marked(r, moved) : r \in SaveRequests(awaited)}
  <2>1. ASSUME NEW m \in SaveRequests(reqs)
        PROVE  m \in {Marked(r, moved) : r \in SaveRequests(awaited)}
    BY <1>5 DEF SaveRequests
  <2>2. ASSUME NEW r \in SaveRequests(awaited)
        PROVE  Marked(r, moved) \in SaveRequests(reqs)
    <3>1. r \in kept
      BY DEF SaveRequests
    <3>2. QED
      BY <3>1, <1>1, <1>3 DEF SaveRequests
  <2>3. QED
    BY <2>1, <2>2
<1>8. Single(SaveRequests(awaited)) => Single(SaveRequests(reqs))
  <2>1. ASSUME NEW x, SaveRequests(awaited) = {x}
        PROVE  SaveRequests(reqs) = {Marked(x, moved)}
    BY <1>7, <2>1
  <2>2. QED
    BY <2>1 DEF Single
<1>9. QED
  BY <1>2, <1>4, <1>5, <1>6, <1>7, <1>8 DEF Follow

\* What the page says of itself stays so when it is drawn.
LEMMA IndicatorsDrawn ==
  ASSUME NEW l, NEW n, NEW cs, NEW awaited, NEW reqs, NEW asks \in BOOLEAN,
         n.saving = l.saving, n.deleting = l.deleting, n.loading = (l.loading \/ asks),
         IndicatorsFit(l, cs, awaited),
         Follow(reqs, awaited, asks)
  PROVE  IndicatorsFit(n, cs, reqs)
<1>1. OneSave(n.saving, SavesOf(cs), SaveRequests(reqs))
  BY DEF IndicatorsFit, OneSave, Follow
<1>2. LoadingAwaits(n, reqs)
  BY DEF IndicatorsFit, LoadingAwaits, Awaits, Follow
<1>3. DeletionAwaits(n, cs, reqs)
  BY DEF IndicatorsFit, DeletionAwaits, Awaits, Follow
<1>4. QED
  BY <1>1, <1>2, <1>3 DEF IndicatorsFit

\* What depends on the rows does not depend on how the page is drawn.
LEMMA ComesDrawn ==
  ASSUME NEW l, NEW n, NEW awaited, NEW reqs, NEW asks, NEW d, NEW e, ~asks /\ d => e,
         n.tenant = l.tenant, n.filter = l.filter, n.page = l.page, n.size = l.size,
         n.items = l.items, n.total = l.total, n.shown = l.shown,
         ~asks => Comes(l, awaited, d)',
         Follow(reqs, awaited, asks)
  PROVE  Comes(n, reqs, e)'
<1>1. CASE asks
  BY <1>1 DEF Comes, AsksNewest, Asking, Unanswered, Follow
<1>2. CASE ~asks
  <2>1. HasList(n)' = HasList(l)' /\ Newest(n)' = Newest(l)'
    BY DEF HasList, Newest, Shows
  <2>2. (\E r \in awaited : AsksNewest(r)') => \E m \in reqs : AsksNewest(m)'
    BY <1>2 DEF AsksNewest, Asking, Unanswered, Follow
  <2>3. QED
    BY <1>2, <2>1, <2>2 DEF Comes
<1>3. QED
  BY <1>1, <1>2

\* With the same section what fits still fits.
LEMMA SectionStays ==
  ASSUME section' = section
  PROVE  /\ OfTenant' = OfTenant /\ OfProduct' = OfProduct
         /\ \A l, o : /\ (Deps(l) = Deps(o))' = (Deps(l) = Deps(o))
                      /\ SectionFits(l)' = SectionFits(l) /\ DialogFits(l)' = DialogFits(l)
                      /\ ListFits(l)' = ListFits(l) /\ HasList(l)' = HasList(l)
         /\ \A r, l : RequestFits(r, l)' = RequestFits(r, l)
         /\ \A c : CallFits(c)' = CallFits(c)
<1>1. OfTenant' = OfTenant /\ OfProduct' = OfProduct
  BY DEF OfTenant, OfProduct
<1>2. ASSUME NEW l, NEW o
      PROVE  (Deps(l) = Deps(o))' = (Deps(l) = Deps(o))
  BY DEF Deps, TenantDeps, ProductDeps, DeviceDeps, ModelDeps, AuditDeps
<1>3. ASSUME NEW l
      PROVE  SectionFits(l)' = SectionFits(l) /\ DialogFits(l)' = DialogFits(l) /\ HasList(l)' = HasList(l)
  BY <1>1 DEF SectionFits, DialogFits, HasList
<1>4. ASSUME NEW l
      PROVE  ListFits(l)' = ListFits(l)
  BY <1>3 DEF ListFits, IsList
<1>5. ASSUME NEW r, NEW l
      PROVE  RequestFits(r, l)' = RequestFits(r, l)
  BY <1>1 DEF RequestFits, IsSelection, Selection, Unanswered
<1>6. ASSUME NEW c
      PROVE  CallFits(c)' = CallFits(c)
  BY DEF CallFits, IsSelection
<1>7. QED
  BY <1>1, <1>2, <1>3, <1>4, <1>5, <1>6

\* The invariant from its parts.
LEMMA Assembled ==
  ASSUME NEW n, NEW reqs, NEW cs, NEW e \in BOOLEAN,
         n = list', reqs = requests', cs = calls', e = disturbed',
         section' \in Sections, version' \in Nat,
         ListFits(n)', n.shown <= version',
         \A r \in reqs : AnswerFits(r)', IndicatorsFit(n, cs, reqs),
         \A r \in reqs : RequestFits(r, n)', \A c \in cs : CallFits(c)',
         Comes(n, reqs, e)'
  PROVE  ListInv'
<1>1. ListFits(list)'
  BY DEF ListFits, IsList, SectionFits, DialogFits
<1>2. IndicatorsFit(list, calls, requests)'
  BY DEF IndicatorsFit, OneSave, SavesOf, SaveRequests, Single, LoadingAwaits, DeletionAwaits, Awaits
<1>3. Drawable(list, calls, requests)'
  BY <1>1, <1>2 DEF Drawable
<1>4. \A r \in requests' : RequestFits(r, list)'
  BY DEF RequestFits, Selection
<1>5. Comes(list, requests, disturbed)'
  BY DEF Comes, HasList, Newest, Shows
<1>6. QED
  BY <1>3, <1>4, <1>5 DEF ListInv

\* Drawing a page l, while the questions awaited are under way: if the effect need not
\* ask for the list, the list has to come without it.
LEMMA RenderKeeps ==
  ASSUME section \in Sections, section' = section, SectionFits(list), version' \in Nat,
         NEW l, NEW awaited, NEW cs, NEW d \in BOOLEAN,
         Render(l, awaited, d), calls' = cs,
         Drawable(l, cs, awaited)',
         \A r \in awaited : RequestFits(r, list),
         \A c \in cs : CallFits(c),
         Deps(l) = Deps(list) => Comes(l, awaited, d)'
  PROVE  ListInv'
<1>1. PICK o : o = list
  OBVIOUS
<1>2. PICK n : n = list'
  OBVIOUS
<1>3. PICK reqs : reqs = requests'
  OBVIOUS
<1>4. PICK asks \in BOOLEAN, moved \in BOOLEAN, products \in BOOLEAN :
          /\ asks = (Deps(l) # Deps(o))
          /\ moved = (<<l.tenant, l.filter, l.size>> # <<o.tenant, o.filter, o.size>>)
          /\ products = (OfProduct /\ l.tenant # o.tenant)
  BY DEF OfProduct
<1>5. PICK e \in BOOLEAN : e = (~asks /\ d)
  OBVIOUS
<1>6. /\ n = [l EXCEPT !.loading = l.loading \/ asks]
      /\ reqs = Drawn(l, awaited, asks, moved, products)
      /\ disturbed' = e
  BY <1>1, <1>2, <1>3, <1>4, <1>5 DEF Render, Drawn, Marked
<1>7. ListFits(l) /\ l.shown <= version'
  BY SectionStays DEF Drawable
<1>8. (\A r \in awaited : AnswerFits(r)') /\ IndicatorsFit(l, cs, awaited)
  BY DEF Drawable, IndicatorsFit, OneSave, SavesOf, SaveRequests, Single, LoadingAwaits,
         DeletionAwaits, Awaits
<1>9. ~asks => Comes(l, awaited, d)'
  BY <1>1, <1>4
<1>10. SectionFits(o) /\ \A r \in awaited : RequestFits(r, o)
  BY <1>1
<1>11. \A r \in reqs : RequestFits(r, l)
  <2>1. products => OfProduct
    BY <1>4
  <2>2. QED
    BY <1>4, <1>6, <1>7, <1>10, <2>1, DrawnFits
<1>12. Follow(reqs, awaited, asks)
  BY <1>6, <1>10, DrawnKeeps
<1>13. /\ ListFits(n) /\ Selection(n) = Selection(l) /\ n.loading = (l.loading \/ asks)
       /\ n.tenant = l.tenant /\ n.filter = l.filter /\ n.page = l.page /\ n.size = l.size
       /\ n.items = l.items /\ n.total = l.total /\ n.shown = l.shown
       /\ n.saving = l.saving /\ n.deleting = l.deleting
  <2>1. PICK loading \in BOOLEAN : loading = (l.loading \/ asks)
    BY <1>7 DEF ListFits
  <2>2. n = [l EXCEPT !.loading = loading]
    BY <1>6, <2>1
  <2>3. /\ ListFits(n) /\ Selection(n) = Selection(l) /\ n.loading = loading
        /\ n.tenant = l.tenant /\ n.filter = l.filter /\ n.page = l.page /\ n.size = l.size
        /\ n.items = l.items /\ n.total = l.total /\ n.shown = l.shown
        /\ n.saving = l.saving /\ n.deleting = l.deleting
    BY <1>7, <2>2, LoadingFits
  <2>4. QED
    BY <2>1, <2>3
<1>14. \A r \in reqs : RequestFits(r, n)
  BY <1>11, <1>13 DEF RequestFits
<1>15. \A r \in reqs : AnswerFits(r)'
  <2>1. ASSUME NEW m \in reqs
        PROVE  AnswerFits(m)'
    <3>1. CASE m.answer = Unanswered
      BY <3>1 DEF AnswerFits, Unanswered
    <3>2. CASE \E r \in awaited : m.by = r.by /\ m.sel = r.sel /\ m.answer = r.answer
      BY <3>2, <1>8 DEF AnswerFits
    <3>3. QED
      BY <3>1, <3>2, <1>12 DEF Follow
  <2>2. QED
    BY <2>1
<1>16. IndicatorsFit(n, cs, reqs)
  BY <1>8, <1>12, <1>13, IndicatorsDrawn
<1>17. Comes(n, reqs, e)'
  <2>1. ~asks /\ d => e
    BY <1>5
  <2>2. QED
    BY <1>9, <1>12, <1>13, <2>1, ComesDrawn
<1>18. ListFits(n)' /\ (\A r \in reqs : RequestFits(r, n)') /\ (\A c \in cs : CallFits(c)')
  BY <1>13, <1>14, SectionStays
<1>19. QED
  BY <1>2, <1>3, <1>6, <1>7, <1>13, <1>15, <1>16, <1>17, <1>18, Assembled

----------------------------------------------------------------------------
(* Steps that leave the rows alone. *)

\* What is known of the rows depends on them alone.
LEMMA RowsStay ==
  ASSUME section' = section, UNCHANGED serverVars
  PROVE  /\ \A r : AnswerFits(r)' = AnswerFits(r) /\ AsksNewest(r)' = AsksNewest(r)
         /\ \A l, reqs, d : Comes(l, reqs, d)' = Comes(l, reqs, d)
<1>1. rows' = rows /\ version' = version
  BY DEF serverVars
<1>2. ASSUME NEW tenant, NEW product
      PROVE  Listed(tenant, product)' = Listed(tenant, product)
  BY <1>1 DEF Listed, RowsOf, OfTenant
<1>3. ASSUME NEW r
      PROVE  AnswerFits(r)' = AnswerFits(r) /\ AsksNewest(r)' = AsksNewest(r)
  BY <1>1, <1>2 DEF AnswerFits, AsksNewest, Tells, Unanswered
<1>4. ASSUME NEW l, NEW reqs, NEW d
      PROVE  Comes(l, reqs, d)' = Comes(l, reqs, d)
  <2>1. Newest(l)' = Newest(l)
    BY <1>1, <1>2 DEF Newest, Shows
  <2>2. HasList(l)' = HasList(l)
    BY DEF HasList, OfTenant
  <2>3. QED
    BY <1>3, <2>1, <2>2 DEF Comes
<1>5. QED
  BY <1>3, <1>4

\* Something is chosen on the page.
LEMMA ChosenKeeps ==
  ASSUME ListInv, NEW l, Render(l, requests, disturbed), UNCHANGED <<section, calls, serverVars>>,
         ListFits(l), l.items = list.items, l.total = list.total, l.shown = list.shown,
         l.loading = list.loading, l.saving = list.saving, l.deleting = list.deleting
  PROVE  ListInv'
<1>1. PICK awaited : awaited = requests
  OBVIOUS
<1>2. PICK cs : cs = calls
  OBVIOUS
<1>3. PICK d \in BOOLEAN : d = disturbed
  BY DEF ListInv
<1>4. PICK o : o = list
  OBVIOUS
<1>5. /\ section \in Sections /\ section' = section /\ version' = version /\ version \in Nat
      /\ UNCHANGED serverVars
  BY DEF ListInv, serverVars
<1>6. ListFits(o) /\ SectionFits(o) /\ o.shown <= version /\ SectionFits(list)
  BY <1>4 DEF ListInv, Drawable, ListFits
<1>7. /\ \A r \in awaited : RequestFits(r, list) /\ AnswerFits(r)
      /\ \A c \in cs : CallFits(c)
  BY <1>1, <1>2 DEF ListInv, Drawable
<1>8. IndicatorsFit(l, cs, awaited)
  BY <1>1, <1>2 DEF ListInv, Drawable, IndicatorsFit, LoadingAwaits, DeletionAwaits
<1>9. Drawable(l, cs, awaited)'
  <2>1. ListFits(l)' /\ \A r \in awaited : AnswerFits(r)'
    BY <1>5, <1>7, SectionStays, RowsStay
  <2>2. IndicatorsFit(l, cs, awaited)'
    BY <1>8 DEF IndicatorsFit, OneSave, SavesOf, SaveRequests, Single, LoadingAwaits, DeletionAwaits, Awaits
  <2>3. l.shown <= version'
    BY <1>4, <1>5, <1>6
  <2>4. QED
    BY <2>1, <2>2, <2>3 DEF Drawable
<1>10. Deps(l) = Deps(list) => Comes(l, awaited, d)'
  <2>1. SUFFICES ASSUME Deps(l) = Deps(o)
                 PROVE  Comes(l, awaited, d)
    BY <1>4, <1>5, RowsStay
  <2>2. l.tenant = o.tenant /\ l.filter = o.filter /\ l.page = o.page /\ l.size = o.size
    BY <1>5, <1>6, <2>1, DepsTell DEF ListFits
  <2>3. Comes(o, awaited, d)
    BY <1>1, <1>3, <1>4 DEF ListInv, Comes, HasList, Newest, Shows
  <2>4. QED
    BY <1>4, <2>2, <2>3 DEF Comes, HasList, Newest, Shows
<1>11. QED
  <2>1. Render(l, awaited, d)
    BY <1>1, <1>3
  <2>2. calls' = cs
    BY <1>2
  <2>3. QED
    BY <1>5, <1>6, <1>7, <1>9, <1>10, <2>1, <2>2, RenderKeeps

\* A page on which other things are chosen, but the same is shown and awaited.
Rechosen(l, o) ==
    /\ IsList(l)
    /\ l.items = o.items /\ l.total = o.total /\ l.shown = o.shown
    /\ l.loading = o.loading /\ l.saving = o.saving /\ l.deleting = o.deleting

\* Something is chosen, or a dialog opened or closed: the list starts from its first
\* page, or stays.
Choice(l) ==
    /\ Choose(l) /\ Rechosen(l, list) /\ ListFits(l)
    /\ l.page <= 1 \/ Selection(l) = Selection(list)
    /\ TypesFit => ListTyped(l)

LEMMA ChoiceKeeps ==
  ASSUME ListInv, NEW l, Choice(l)
  PROVE  ListInv'
BY ChosenKeeps DEF Choice, Choose, Rechosen

LEMMA ChoiceFits ==
  ASSUME ListInv, NEW l, Choose(l), Rechosen(l, list), SectionFits(l), DialogFits(l),
         l.page \in Int, l.mode \in {"closed", "create", "edit"},
         \/ l.page = 1
         \/ l.tenant = list.tenant /\ l.filter = list.filter /\ l.page = list.page /\ l.size = list.size,
         TypesFit => ListTyped(l)
  PROVE  Choice(l)
<1>1. ListFits(l)
  BY DEF ListInv, Drawable, ListFits, Rechosen
<1>2. l.page <= 1 \/ Selection(l) = Selection(list)
  BY DEF Selection
<1>3. QED
  BY <1>1, <1>2 DEF Choice

\* What the lists hold before a step.
LEMMA ListFacts ==
  ASSUME ListInv
  PROVE  /\ IsList(list) /\ list.page \in Int /\ list.mode \in {"closed", "create", "edit"}
         /\ SectionFits(list) /\ DialogFits(list)
BY DEF ListInv, Drawable, ListFits

LEMMA TenantChangeChooses ==
  ASSUME ListInv, OfTenant, NEW t, HandleTenantChange(t)
  PROVE  \E l : Choice(l)
<1>1. PICK l : l = Closed([list EXCEPT !.tenant = t, !.filter = None, !.page = 1])
  OBVIOUS
<1>2. Choose(l) /\ t \in list.tenants
  BY <1>1 DEF HandleTenantChange
<1>3. /\ Rechosen(l, list) /\ l.page = 1 /\ l.mode = "closed" /\ l.filter = None
      /\ l.tenants = list.tenants /\ l.tenant = t /\ l.products = list.products
      /\ l.size = list.size /\ l.editing = None /\ l.product = None
  BY <1>1, ListFacts DEF Closed, Rechosen, IsList, Fields
<1>4. SectionFits(l) /\ DialogFits(l)
  BY <1>3 DEF SectionFits, DialogFits
<1>5. TypesFit => ListTyped(l)
  BY <1>2, <1>3 DEF TypesFit, ListTyped, Rechosen
<1>6. QED
  BY <1>2, <1>3, <1>4, <1>5, ChoiceFits

LEMMA FilterChangeChooses ==
  ASSUME ListInv, OfProduct, NEW p, HandleProductFilterChange(p)
  PROVE  \E l : Choice(l)
<1>1. PICK l : l = [list EXCEPT !.filter = p, !.page = 1]
  OBVIOUS
<1>2. Choose(l) /\ p \in list.products \cup {None}
  BY <1>1 DEF HandleProductFilterChange
<1>3. /\ Rechosen(l, list) /\ l.page = 1 /\ l.mode = list.mode /\ l.filter = p
      /\ l.tenant = list.tenant /\ l.products = list.products /\ l.product = list.product
      /\ l.tenants = list.tenants /\ l.size = list.size /\ l.editing = list.editing
  BY <1>1, ListFacts DEF Rechosen, IsList, Fields
<1>4. SectionFits(l) /\ DialogFits(l)
  BY <1>2, <1>3, ListFacts DEF SectionFits, DialogFits, OfTenant, OfProduct
<1>5. TypesFit => ListTyped(l)
  BY <1>2, <1>3 DEF TypesFit, ListTyped, Rechosen
<1>6. QED
  BY <1>2, <1>3, <1>4, <1>5, ListFacts, ChoiceFits

LEMMA PageSizeChangeChooses ==
  ASSUME ListInv, NEW s \in Sizes, OnPageSizeChange(s)
  PROVE  \E l : Choice(l)
<1>1. PICK l : l = [list EXCEPT !.page = 1, !.size = s]
  OBVIOUS
<1>2. Choose(l)
  BY <1>1 DEF OnPageSizeChange
<1>3. /\ Rechosen(l, list) /\ l.page = 1 /\ l.mode = list.mode /\ l.filter = list.filter
      /\ l.tenant = list.tenant /\ l.products = list.products /\ l.product = list.product
      /\ l.tenants = list.tenants /\ l.size = s /\ l.editing = list.editing
  BY <1>1, ListFacts DEF Rechosen, IsList, Fields
<1>4. SectionFits(l) /\ DialogFits(l)
  BY <1>3, ListFacts DEF SectionFits, DialogFits
<1>5. TypesFit => ListTyped(l)
  BY <1>3 DEF TypesFit, ListTyped, Rechosen
<1>6. QED
  BY <1>2, <1>3, <1>4, <1>5, ListFacts, ChoiceFits

\* The dialog of a new row.
LEMMA CreateFormChooses ==
  ASSUME ListInv, NEW product, OpenCreateForm(product),
         section = "devices" => product \in list.products \cup {None},
         TypesFit => product \in Products \cup {None}
  PROVE  \E l : Choice(l)
<1>1. PICK l : l = [Closed(list) EXCEPT !.mode = "create", !.product = product]
  OBVIOUS
<1>2. Choose(l)
  BY <1>1 DEF OpenCreateForm
<1>3. /\ Rechosen(l, list) /\ l.page = list.page /\ l.mode = "create" /\ l.filter = list.filter
      /\ l.tenant = list.tenant /\ l.products = list.products /\ l.product = product
      /\ l.tenants = list.tenants /\ l.size = list.size /\ l.editing = None
  BY <1>1, ListFacts DEF Closed, Rechosen, IsList, Fields
<1>4. SectionFits(l) /\ DialogFits(l)
  BY <1>3, ListFacts DEF SectionFits, DialogFits
<1>5. TypesFit => ListTyped(l)
  BY <1>3 DEF TypesFit, ListTyped, Rechosen
<1>6. QED
  BY <1>2, <1>3, <1>4, <1>5, ListFacts, ChoiceFits

\* The first of the products is one of them.
LEMMA FirstOf ==
  ASSUME NEW S
  PROVE  First(S) \in S \cup {None}
BY DEF First

LEMMA NewOfProductChooses ==
  ASSUME ListInv, NewOfProduct
  PROVE  \E l : Choice(l)
<1>1. section = "devices" => DefaultProduct \in list.products \cup {None}
  BY ListFacts, FirstOf DEF DefaultProduct, DialogFits
<1>2. TypesFit => DefaultProduct \in Products \cup {None}
  BY FirstOf DEF DefaultProduct, TypesFit, ListTyped
<1>3. PICK product : product = DefaultProduct
  OBVIOUS
<1>4. OpenCreateForm(product)
  BY <1>3 DEF NewOfProduct
<1>5. QED
  BY <1>1, <1>2, <1>3, <1>4, CreateFormChooses

LEMMA EditFormChooses ==
  ASSUME ListInv, NEW r \in ShownRows, OpenEditForm(r)
  PROVE  \E l : Choice(l)
<1>1. PICK l : l = [Closed(list) EXCEPT !.mode = "edit", !.editing = r, !.product = r.product]
  OBVIOUS
<1>2. Choose(l)
  BY <1>1 DEF OpenEditForm
<1>3. /\ Rechosen(l, list) /\ l.page = list.page /\ l.mode = "edit" /\ l.filter = list.filter
      /\ l.tenant = list.tenant /\ l.products = list.products
      /\ l.tenants = list.tenants /\ l.size = list.size /\ l.editing = r /\ l.product = r.product
  BY <1>1, ListFacts DEF Closed, Rechosen, IsList, Fields
<1>4. SectionFits(l) /\ DialogFits(l)
  BY <1>3, ListFacts DEF SectionFits, DialogFits
<1>5. ASSUME TypesFit
      PROVE  ListTyped(l)
  <2>1. r \in Row
    BY <1>5 DEF ShownRows, TypesFit, ListTyped
  <2>2. QED
    BY <1>3, <1>5, <2>1 DEF TypesFit, ListTyped, Rechosen, Row
<1>6. QED
  BY <1>2, <1>3, <1>4, <1>5, ListFacts, ChoiceFits

LEMMA FormProductChooses ==
  ASSUME ListInv, NEW p, ChooseFormProduct(p)
  PROVE  \E l : Choice(l)
<1>1. PICK l : l = [list EXCEPT !.product = p]
  OBVIOUS
<1>2. Choose(l) /\ p \in list.products
  BY <1>1 DEF ChooseFormProduct
<1>3. /\ Rechosen(l, list) /\ l.page = list.page /\ l.mode = list.mode /\ l.filter = list.filter
      /\ l.tenant = list.tenant /\ l.products = list.products /\ l.product = p
      /\ l.tenants = list.tenants /\ l.size = list.size /\ l.editing = list.editing
  BY <1>1, ListFacts DEF Rechosen, IsList, Fields
<1>4. SectionFits(l) /\ DialogFits(l)
  BY <1>2, <1>3, ListFacts DEF SectionFits, DialogFits
<1>5. TypesFit => ListTyped(l)
  BY <1>2, <1>3 DEF TypesFit, ListTyped, Rechosen
<1>6. QED
  BY <1>2, <1>3, <1>4, <1>5, ListFacts, ChoiceFits

LEMMA CloseFormChooses ==
  ASSUME ListInv, CloseForm
  PROVE  \E l : Choice(l)
<1>1. PICK l : l = Closed(list)
  OBVIOUS
<1>2. Choose(l)
  BY <1>1 DEF CloseForm
<1>3. /\ Rechosen(l, list) /\ l.page = list.page /\ l.mode = "closed" /\ l.filter = list.filter
      /\ l.tenant = list.tenant /\ l.products = list.products
      /\ l.tenants = list.tenants /\ l.size = list.size /\ l.editing = None /\ l.product = None
  BY <1>1, ListFacts DEF Closed, Rechosen, IsList, Fields
<1>4. SectionFits(l) /\ DialogFits(l)
  BY <1>3, ListFacts DEF SectionFits, DialogFits
<1>5. TypesFit => ListTyped(l)
  BY <1>3 DEF TypesFit, ListTyped, Rechosen
<1>6. QED
  BY <1>2, <1>3, <1>4, <1>5, ListFacts, ChoiceFits

\* Another page of the list.
Turned(n) == [list EXCEPT !.page = n]

LEMMA TurnedFits ==
  ASSUME ListInv, NEW n \in Int, NEW l, l = Turned(n)
  PROVE  /\ Rechosen(l, list) /\ ListFits(l) /\ l.page = n /\ l.size = list.size
         /\ l.tenant = list.tenant /\ l.filter = list.filter
         /\ TypesFit => ListTyped(l)
<1>1. /\ Rechosen(l, list) /\ l.page = n /\ l.mode = list.mode /\ l.filter = list.filter
      /\ l.tenant = list.tenant /\ l.products = list.products /\ l.product = list.product
      /\ l.tenants = list.tenants /\ l.size = list.size /\ l.editing = list.editing
  BY ListFacts DEF Turned, Rechosen, IsList, Fields
<1>2. SectionFits(l) /\ DialogFits(l)
  BY <1>1, ListFacts DEF SectionFits, DialogFits
<1>3. ListFits(l)
  BY <1>1, <1>2, ListFacts DEF ListInv, Drawable, ListFits, Rechosen
<1>4. TypesFit => ListTyped(l)
  BY <1>1 DEF TypesFit, ListTyped, Rechosen
<1>5. QED
  BY <1>1, <1>3, <1>4

LEMMA PageChangeKeeps ==
  ASSUME ListInv, NEW n \in Int, OnPageChange(n)
  PROVE  ListInv'
<1>1. PICK l : l = Turned(n)
  OBVIOUS
<1>2. Render(l, requests, disturbed) /\ UNCHANGED <<section, calls, serverVars>>
  BY <1>1 DEF OnPageChange, Turned
<1>3. Rechosen(l, list) /\ ListFits(l)
  BY <1>1, TurnedFits
<1>4. QED
  BY <1>2, <1>3, ChosenKeeps DEF Rechosen

\* The user chooses something, turns a page, saves or deletes.
Submits == HandleSubmit /\ section # "audit" /\ ~list.saving /\ (section = "devices" => list.product # None)
           /\ (OfTenant => list.tenant # None)
UserStep ==
    \/ \E l : Choice(l)
    \/ \E n \in Int : OnPageChange(n)
    \/ Submits
    \/ section # "audit" /\ \E r \in ShownRows : HandleDelete(r)

LEMMA UserSteps ==
  ASSUME ListInv, User
  PROVE  UserStep
<1>1. ASSUME Table
      PROVE  UserStep
  BY <1>1, PageSizeChangeChooses DEF Table, UserStep
<1>2. ASSUME section # "audit", RowButtons
      PROVE  UserStep
  BY <1>2, EditFormChooses DEF RowButtons, UserStep
<1>3. ASSUME CloseForm
      PROVE  UserStep
  BY <1>3, CloseFormChooses DEF UserStep
<1>4. ASSUME section \in {"tenants", "products"}, OpenCreateForm(None)
      PROVE  UserStep
  BY <1>4, CreateFormChooses DEF UserStep
<1>5. ASSUME OfTenant, TenantSelect
      PROVE  UserStep
  BY <1>5, TenantChangeChooses DEF TenantSelect, UserStep
<1>6. ASSUME section \in {"devices", "models"}, TenantSelect \/ ProductSelect \/ NewOfProduct
      PROVE  UserStep
  <2>1. OfTenant /\ OfProduct
    BY <1>6 DEF OfTenant, OfProduct
  <2>2. QED
    BY <1>5, <1>6, <2>1, FilterChangeChooses, NewOfProductChooses DEF ProductSelect, UserStep
<1>7. ASSUME NEW p, ChooseFormProduct(p)
      PROVE  UserStep
  BY <1>7, FormProductChooses DEF UserStep
<1>8. ASSUME Submits
      PROVE  UserStep
  BY <1>8 DEF UserStep
<1>9. CASE section = "tenants" /\ TenantManagement
  <2>1. TenantForm => CloseForm \/ Submits
    BY <1>9 DEF TenantForm, TenantCanSubmit, Submits, OfTenant
  <2>2. QED
    BY <1>1, <1>2, <1>3, <1>4, <1>8, <1>9, <2>1 DEF TenantManagement
<1>10. CASE section = "products" /\ ProductManagement
  <2>1. ProductForm => CloseForm \/ Submits
    BY <1>10 DEF ProductForm, ProductCanSubmit, Submits
  <2>2. OfTenant
    BY <1>10 DEF OfTenant
  <2>3. QED
    BY <1>1, <1>2, <1>3, <1>4, <1>5, <1>8, <1>10, <2>1, <2>2 DEF ProductManagement
<1>11. CASE section = "devices" /\ DeviceManagement
  <2>1. DeviceForm => CloseForm \/ Submits \/ \E p \in Products : ChooseFormProduct(p)
    BY <1>11 DEF DeviceForm, DeviceCanSubmit, Submits
  <2>2. QED
    BY <1>1, <1>2, <1>3, <1>6, <1>7, <1>8, <1>11, <2>1 DEF DeviceManagement
<1>12. CASE section = "models" /\ ThingsModelManagement
  <2>1. ModelForm => CloseForm \/ Submits \/ \E p \in Products : ChooseFormProduct(p)
    BY <1>12 DEF ModelForm, ModelCanSubmit, Submits
  <2>2. QED
    BY <1>1, <1>2, <1>3, <1>6, <1>7, <1>8, <1>12, <2>1 DEF ThingsModelManagement
<1>13. CASE section = "audit" /\ AuditLogManagement
  BY <1>1, <1>13 DEF AuditLogManagement
<1>14. QED
  BY <1>9, <1>10, <1>11, <1>12, <1>13 DEF User

----------------------------------------------------------------------------
(* Saving and deleting. *)

\* What a call keeps of the page.
LEMMA CallTells ==
  ASSUME ListInv, section # "audit", NEW kind, NEW row, NEW c, c = Call(kind, row),
         kind = "create" /\ section = "devices" => list.mode = "create" /\ list.product # None
  PROVE  CallFits(c) /\ c.kind = kind
<1>1. /\ c.kind = kind /\ c.product = list.product /\ c.sel = Selection(list)
      /\ c.ready = (list.products = ProductsOf(list.tenant))
  BY DEF Call
<1>2. IsSelection(c.sel) /\ c.sel.tenant = list.tenant
  BY <1>1, ListFacts DEF Selection, IsSelection
<1>3. ASSUME section = "devices", kind = "create", c.ready
      PROVE  TenantOf[c.product] = c.sel.tenant
  BY <1>1, <1>2, <1>3, ListFacts DEF DialogFits, ProductsOf
<1>4. QED
  BY <1>1, <1>2, <1>3 DEF CallFits

\* A page with other indicators.
Same(n, o) ==
    /\ IsList(n)
    /\ n.tenant = o.tenant /\ n.filter = o.filter /\ n.products = o.products
    /\ n.page = o.page /\ n.size = o.size
    /\ n.items = o.items /\ n.total = o.total /\ n.shown = o.shown
    /\ n.mode = o.mode /\ n.product = o.product

\* When only indicators, questions and calls change, it is enough that the new ones fit.
LEMMA SameKeeps ==
  ASSUME ListInv, section' = section, NEW n, n = list', Same(n, list),
         n.loading \in BOOLEAN, n.saving \in BOOLEAN, NEW e \in BOOLEAN, e = disturbed',
         version' \in Nat, version <= version',
         NEW reqs, reqs = requests', NEW cs, cs = calls',
         IndicatorsFit(n, cs, reqs),
         \A r \in reqs : AnswerFits(r)',
         \A r \in reqs : RequestFits(r, n),
         \A c \in cs : CallFits(c),
         Comes(n, reqs, e)'
  PROVE  ListInv'
<1>1. /\ section' \in Sections /\ version \in Nat
      /\ list.page \in Int /\ list.shown \in Int /\ list.shown <= version
      /\ list.mode \in {"closed", "create", "edit"} /\ SectionFits(list) /\ DialogFits(list)
  BY DEF ListInv, Drawable, ListFits
<1>2. ListFits(n)
  BY <1>1 DEF Same, ListFits, SectionFits, DialogFits
<1>3. n.shown <= version'
  BY <1>1 DEF Same
<1>4. ListFits(n)' /\ (\A r \in reqs : RequestFits(r, n)') /\ (\A c \in cs : CallFits(c)')
  BY <1>2, SectionStays
<1>5. QED
  BY <1>1, <1>3, <1>4, Assembled

\* The same selection fits the same questions, and shows the same rows.
LEMMA SameFits ==
  ASSUME NEW o, NEW n, Same(n, o)
  PROVE  /\ \A r : RequestFits(r, o) => RequestFits(r, n)
         /\ \A reqs, d : Comes(o, reqs, d) => Comes(n, reqs, d)
<1>1. Selection(n) = Selection(o)
  BY DEF Same, Selection
<1>2. \A r : RequestFits(r, o) => RequestFits(r, n)
  BY <1>1 DEF Same, RequestFits
<1>3. HasList(n) = HasList(o) /\ Newest(n) = Newest(o)
  BY DEF Same, HasList, Newest, Shows
<1>4. QED
  BY <1>2, <1>3 DEF Comes

\* The state before a step, held fast while it is taken.
Held(o, reqs, cs, d) ==
    /\ o = list /\ reqs = requests /\ cs = calls /\ d = disturbed
    /\ ListFits(o) /\ o.shown <= version
    /\ \A r \in reqs : RequestFits(r, o) /\ AnswerFits(r)
    /\ \A c \in cs : CallFits(c)
    /\ IndicatorsFit(o, cs, reqs)
    /\ Comes(o, reqs, d)

LEMMA Holds ==
  ASSUME ListInv
  PROVE  \E o, reqs, cs : \E d \in BOOLEAN : Held(o, reqs, cs, d)
<1>1. PICK o, reqs, cs : o = list /\ reqs = requests /\ cs = calls
  OBVIOUS
<1>2. PICK d \in BOOLEAN : d = disturbed
  BY DEF ListInv
<1>3. \A r \in reqs : RequestFits(r, o) /\ AnswerFits(r)
  BY <1>1 DEF ListInv, Drawable, RequestFits, Selection
<1>4. IndicatorsFit(o, cs, reqs)
  BY <1>1 DEF ListInv, Drawable, IndicatorsFit, LoadingAwaits, DeletionAwaits
<1>5. Comes(o, reqs, d)
  BY <1>1, <1>2 DEF ListInv, Comes, HasList, Newest, Shows
<1>6. ListFits(o) /\ o.shown <= version /\ \A c \in cs : CallFits(c)
  BY <1>1 DEF ListInv, Drawable, ListFits
<1>7. QED
  BY <1>1, <1>2, <1>3, <1>4, <1>5, <1>6 DEF Held

LEMMA SubmitKeeps ==
  ASSUME ListInv, HandleSubmit, section # "audit", ~list.saving,
         section = "devices" => list.product # None
  PROVE  ListInv'
<1>1. PICK o, reqs, old : \E d \in BOOLEAN : Held(o, reqs, old, d)
  BY Holds
<1>2. PICK d \in BOOLEAN : Held(o, reqs, old, d)
  BY <1>1
<1>3. PICK c, n, cs : c = Call(list.mode, list.editing) /\ n = list' /\ cs = old \cup {c}
  OBVIOUS
<1>4. /\ n = [o EXCEPT !.saving = TRUE] /\ cs = calls' /\ reqs = requests' /\ d = disturbed'
      /\ section' = section /\ UNCHANGED serverVars /\ version' = version /\ version \in Nat
      /\ list.mode \in {"create", "edit"} /\ o.saving = FALSE
  BY <1>2, <1>3, ListFacts DEF HandleSubmit, serverVars, Held, ListInv, ListFits
<1>5. Same(n, o) /\ n.loading = o.loading /\ n.deleting = o.deleting /\ n.saving = TRUE
  BY <1>2, <1>4 DEF Held, ListFits, Same, IsList, Fields
<1>6. CallFits(c) /\ c.kind = list.mode
  BY <1>3, CallTells
<1>7. IndicatorsFit(n, cs, reqs)
  <2>1. SavesOf(old) = {} /\ SaveRequests(reqs) = {}
    BY <1>2, <1>4 DEF Held, IndicatorsFit, OneSave
  <2>2. SavesOf(cs) = {c}
    BY <1>3, <1>4, <1>6, <2>1 DEF SavesOf
  <2>3. OneSave(n.saving, SavesOf(cs), SaveRequests(reqs))
    BY <1>5, <2>1, <2>2 DEF OneSave, Single
  <2>4. LoadingAwaits(n, reqs) /\ DeletionAwaits(n, cs, reqs)
    BY <1>2, <1>3, <1>5 DEF Held, IndicatorsFit, LoadingAwaits, DeletionAwaits
  <2>5. QED
    BY <2>3, <2>4 DEF IndicatorsFit
<1>8. \A b \in cs : CallFits(b)
  BY <1>2, <1>3, <1>6 DEF Held
<1>9. Comes(n, reqs, d)' /\ (\A r \in reqs : AnswerFits(r)') /\ \A r \in reqs : RequestFits(r, n)
  <2>1. Comes(n, reqs, d) /\ \A r \in reqs : RequestFits(r, n)
    BY <1>2, <1>5, SameFits DEF Held
  <2>2. \A r \in reqs : AnswerFits(r)
    BY <1>2 DEF Held
  <2>3. QED
    BY <1>4, <2>1, <2>2, RowsStay
<1>10. /\ Same(n, list) /\ n.loading \in BOOLEAN /\ n.saving \in BOOLEAN
       /\ version' \in Nat /\ version <= version'
  BY <1>2, <1>4, <1>5 DEF Held, ListFits
<1>11. QED
  BY <1>3, <1>4, <1>7, <1>8, <1>9, <1>10, SameKeeps

\* The user begins to delete a row.
LEMMA DeleteKeeps ==
  ASSUME ListInv, NEW row, HandleDelete(row), section # "audit"
  PROVE  ListInv'
<1>1. PICK o, reqs, old : \E d \in BOOLEAN : Held(o, reqs, old, d)
  BY Holds
<1>2. PICK d \in BOOLEAN : Held(o, reqs, old, d)
  BY <1>1
<1>3. PICK c, n, cs : c = Call("delete", row) /\ n = list' /\ cs = old \cup {c}
  OBVIOUS
<1>4. /\ n = [o EXCEPT !.deleting = row] /\ cs = calls' /\ reqs = requests' /\ d = disturbed'
      /\ section' = section /\ UNCHANGED serverVars /\ version' = version /\ version \in Nat
  BY <1>2, <1>3 DEF HandleDelete, serverVars, Held, ListInv
<1>5. Same(n, o) /\ n.loading = o.loading /\ n.deleting = row /\ n.saving = o.saving
  BY <1>2, <1>4 DEF Held, ListFits, Same, IsList, Fields
<1>6. CallFits(c) /\ c.kind = "delete"
  BY <1>3, CallTells
<1>7. IndicatorsFit(n, cs, reqs)
  <2>1. SavesOf(cs) = SavesOf(old)
    BY <1>3, <1>6 DEF SavesOf
  <2>2. OneSave(n.saving, SavesOf(cs), SaveRequests(reqs)) /\ LoadingAwaits(n, reqs)
    BY <1>2, <1>5, <2>1 DEF Held, IndicatorsFit, LoadingAwaits
  <2>3. DeletionAwaits(n, cs, reqs)
    BY <1>3, <1>6 DEF DeletionAwaits
  <2>4. QED
    BY <2>2, <2>3 DEF IndicatorsFit
<1>8. \A b \in cs : CallFits(b)
  BY <1>2, <1>3, <1>6 DEF Held
<1>9. Comes(n, reqs, d)' /\ (\A r \in reqs : AnswerFits(r)') /\ \A r \in reqs : RequestFits(r, n)
  <2>1. Comes(n, reqs, d) /\ \A r \in reqs : RequestFits(r, n)
    BY <1>2, <1>5, SameFits DEF Held
  <2>2. \A r \in reqs : AnswerFits(r)
    BY <1>2 DEF Held
  <2>3. QED
    BY <1>4, <2>1, <2>2, RowsStay
<1>10. /\ Same(n, list) /\ n.loading \in BOOLEAN /\ n.saving \in BOOLEAN
       /\ version' \in Nat /\ version <= version'
  BY <1>2, <1>4, <1>5 DEF Held, ListFits
<1>11. QED
  BY <1>3, <1>4, <1>7, <1>8, <1>9, <1>10, SameKeeps

\* An answer that was fitting stays so when the rows change: it is not the newest any more.
LEMMA RowsChange ==
  ASSUME version \in Nat, version' = version + 1, NEW r, AnswerFits(r)
  PROVE  AnswerFits(r)'
<1>1. CASE r.answer = Unanswered
  BY <1>1 DEF AnswerFits, Unanswered
<1>2. CASE r.answer # Unanswered
  BY <1>2 DEF AnswerFits
<1>3. QED
  BY <1>1, <1>2

\* A call fails: what was done of it tells the page nothing, which is disturbed by it.
LEMMA CallFails ==
  ASSUME section' = section, version \in Nat, NEW done \in BOOLEAN,
         ~done => rows' = rows,
         version' = IF done THEN version + 1 ELSE version,
         NEW reqs, \A r \in reqs : AnswerFits(r),
         NEW n, NEW d \in BOOLEAN, Comes(n, reqs, d), NEW e, e = (d \/ done)
  PROVE  /\ \A r \in reqs : AnswerFits(r)'
         /\ Comes(n, reqs, e)'
         /\ version' \in Nat /\ version <= version'
<1>1. CASE done
  <2>1. version' = version + 1 /\ e = TRUE
    BY <1>1
  <2>2. \A r \in reqs : AnswerFits(r)'
    BY <2>1, RowsChange
  <2>3. Comes(n, reqs, e)'
    BY <2>1 DEF Comes
  <2>4. QED
    BY <2>1, <2>2, <2>3
<1>2. CASE ~done
  <2>1. UNCHANGED serverVars /\ e = d
    BY <1>2 DEF serverVars
  <2>2. QED
    BY <1>2, <2>1, RowsStay
<1>3. QED
  BY <1>1, <1>2

LEMMA SaveFailsKeeps ==
  ASSUME ListInv, NEW c \in Saves, NEW done \in BOOLEAN, SaveFails(c, done)
  PROVE  ListInv'
<1>1. PICK o, reqs, old : \E d \in BOOLEAN : Held(o, reqs, old, d)
  BY Holds
<1>2. PICK d \in BOOLEAN : Held(o, reqs, old, d)
  BY <1>1
<1>3. PICK n, cs : n = list' /\ cs = old \ {c}
  OBVIOUS
<1>4. PICK e \in BOOLEAN : e = (d \/ done)
  OBVIOUS
<1>5. /\ n = [o EXCEPT !.saving = FALSE] /\ cs = calls' /\ reqs = requests' /\ e = disturbed'
      /\ section' = section /\ version \in Nat
      /\ (~done => rows' = rows) /\ version' = (IF done THEN version + 1 ELSE version)
      /\ c \in old /\ c.kind # "delete"
  BY <1>2, <1>3, <1>4 DEF SaveFails, Saves, Held, ListInv
<1>6. Same(n, o) /\ n.loading = o.loading /\ n.deleting = o.deleting /\ n.saving = FALSE
  BY <1>2, <1>5 DEF Held, ListFits, Same, IsList, Fields
<1>7. IndicatorsFit(n, cs, reqs)
  <2>1. c \in SavesOf(old)
    BY <1>5 DEF SavesOf
  <2>2. Single(SavesOf(old)) /\ SaveRequests(reqs) = {}
    BY <1>2, <2>1 DEF Held, IndicatorsFit, OneSave
  <2>3. SavesOf(cs) = {}
    BY <1>3, <2>1, <2>2 DEF Single, SavesOf
  <2>4. OneSave(n.saving, SavesOf(cs), SaveRequests(reqs))
    BY <1>6, <2>2, <2>3 DEF OneSave
  <2>5. LoadingAwaits(n, reqs) /\ DeletionAwaits(n, cs, reqs)
    BY <1>2, <1>3, <1>5, <1>6 DEF Held, IndicatorsFit, LoadingAwaits, DeletionAwaits
  <2>6. QED
    BY <2>4, <2>5 DEF IndicatorsFit
<1>8. (\A b \in cs : CallFits(b)) /\ \A r \in reqs : RequestFits(r, n)
  BY <1>2, <1>3, <1>6, SameFits DEF Held
<1>9. Comes(n, reqs, d) /\ \A r \in reqs : AnswerFits(r)
  BY <1>2, <1>6, SameFits DEF Held
<1>10. /\ Comes(n, reqs, e)' /\ (\A r \in reqs : AnswerFits(r)')
       /\ version' \in Nat /\ version <= version'
  BY <1>4, <1>5, <1>9, CallFails
<1>11. Same(n, list) /\ n.loading \in BOOLEAN /\ n.saving \in BOOLEAN
  BY <1>2, <1>6 DEF Held, ListFits
<1>12. QED
  BY <1>3, <1>5, <1>7, <1>8, <1>10, <1>11, SameKeeps

LEMMA DeleteFailsKeeps ==
  ASSUME ListInv, NEW c \in Deletions, NEW done \in BOOLEAN, DeleteFails(c, done)
  PROVE  ListInv'
<1>1. PICK o, reqs, old : \E d \in BOOLEAN : Held(o, reqs, old, d)
  BY Holds
<1>2. PICK d \in BOOLEAN : Held(o, reqs, old, d)
  BY <1>1
<1>3. PICK n, cs : n = list' /\ cs = old \ {c}
  OBVIOUS
<1>4. PICK e \in BOOLEAN : e = (d \/ done)
  OBVIOUS
<1>5. /\ n = [o EXCEPT !.deleting = None] /\ cs = calls' /\ reqs = requests' /\ e = disturbed'
      /\ section' = section /\ version \in Nat
      /\ (~done => rows' = rows) /\ version' = (IF done THEN version + 1 ELSE version)
      /\ c.kind = "delete"
  BY <1>2, <1>3, <1>4 DEF DeleteFails, Deletions, Held, ListInv
<1>6. Same(n, o) /\ n.loading = o.loading /\ n.deleting = None /\ n.saving = o.saving
  BY <1>2, <1>5 DEF Held, ListFits, Same, IsList, Fields
<1>7. IndicatorsFit(n, cs, reqs)
  <2>1. SavesOf(cs) = SavesOf(old)
    BY <1>3, <1>5 DEF SavesOf
  <2>2. QED
    BY <1>2, <1>6, <2>1 DEF Held, IndicatorsFit, LoadingAwaits, DeletionAwaits
<1>8. (\A b \in cs : CallFits(b)) /\ \A r \in reqs : RequestFits(r, n)
  BY <1>2, <1>3, <1>6, SameFits DEF Held
<1>9. Comes(n, reqs, d) /\ \A r \in reqs : AnswerFits(r)
  BY <1>2, <1>6, SameFits DEF Held
<1>10. /\ Comes(n, reqs, e)' /\ (\A r \in reqs : AnswerFits(r)')
       /\ version' \in Nat /\ version <= version'
  BY <1>4, <1>5, <1>9, CallFails
<1>11. Same(n, list) /\ n.loading \in BOOLEAN /\ n.saving \in BOOLEAN
  BY <1>2, <1>6 DEF Held, ListFits
<1>12. QED
  BY <1>3, <1>5, <1>7, <1>8, <1>10, <1>11, SameKeeps

\* The reload after a call is about what is selected, or known to be late.
LEMMA ReloadFits ==
  ASSUME NEW sel, IsSelection(sel), NEW by \in {"save", "delete"}, NEW r, r = Reload(sel, by)
  PROVE  /\ RequestFits(r, list) /\ AnswerFits(r)' /\ AsksNewest(r)'
         /\ r.by = by /\ r.answer = Unanswered
<1>1. /\ r = [by |-> r.by, sel |-> r.sel, late |-> r.late, answer |-> r.answer]
      /\ r.by = by /\ r.sel = sel /\ r.answer = Unanswered
      /\ r.late = (<<sel.tenant, sel.filter, sel.size>> # <<list.tenant, list.filter, list.size>>)
  BY DEF Reload, Ask
<1>2. RequestFits(r, list)
  BY <1>1 DEF RequestFits, Asking
<1>3. AnswerFits(r)' /\ AsksNewest(r)'
  BY <1>1 DEF AnswerFits, AsksNewest, Asking, Unanswered
<1>4. QED
  BY <1>1, <1>2, <1>3

\* The page a save leads to.
Reloading(o, c) == [Saved(o, c) EXCEPT !.loading = TRUE]

Reloads(l, o) ==
    /\ ListFits(l) /\ l.loading = TRUE
    /\ l.shown = o.shown /\ l.saving = o.saving /\ l.deleting = o.deleting
    /\ l.tenant = o.tenant /\ l.filter = o.filter /\ l.size = o.size
    /\ l.page = 1 \/ l.page = o.page
    /\ ListTyped(o) => ListTyped(l)

LEMMA SavedFits ==
  ASSUME section \in Sections, section # "audit", NEW o, ListFits(o), NEW c,
         NEW l, l = Reloading(o, c)
  PROVE  Reloads(l, o)
<1>1. PICK s : s = Saved(o, c)
  OBVIOUS
<1>2. IsList(o) /\ o.page \in Int /\ o.shown \in Int /\ o.mode \in {"closed", "create", "edit"}
  BY DEF ListFits
<1>3. s \in {SavedAndClosed(o, c), SavedDevice(o, c)}
  BY <1>1 DEF Saved, SavedTenant, SavedProduct, SavedModel, Sections
<1>4. PICK k : k = (IF c.kind = "create" THEN [o EXCEPT !.page = 1] ELSE o)
  OBVIOUS
<1>5. /\ IsList(k) /\ k.page \in {1, o.page} /\ k.tenant = o.tenant /\ k.filter = o.filter
      /\ k.tenants = o.tenants /\ k.products = o.products /\ k.size = o.size
      /\ k.items = o.items /\ k.total = o.total /\ k.shown = o.shown
      /\ k.saving = o.saving /\ k.deleting = o.deleting
      /\ k.mode = o.mode /\ k.editing = o.editing /\ k.product = o.product
  BY <1>2, <1>4 DEF IsList, Fields
<1>6. s = Closed(k) \/ s = k
  BY <1>3, <1>4 DEF SavedAndClosed, SavedDevice
<1>7. /\ IsList(s) /\ s.page = k.page /\ s.tenant = k.tenant /\ s.filter = k.filter
      /\ s.tenants = k.tenants /\ s.products = k.products /\ s.size = k.size
      /\ s.items = k.items /\ s.total = k.total /\ s.shown = k.shown
      /\ s.saving = k.saving /\ s.deleting = k.deleting
      /\ \/ s.mode = "closed" /\ s.editing = None /\ s.product = None
         \/ s.mode = k.mode /\ s.editing = k.editing /\ s.product = k.product
  BY <1>5, <1>6 DEF Closed, IsList, Fields
<1>8. /\ IsList(l) /\ l.loading = TRUE /\ l.page = s.page /\ l.tenant = s.tenant /\ l.filter = s.filter
      /\ l.tenants = s.tenants /\ l.products = s.products /\ l.size = s.size
      /\ l.items = s.items /\ l.total = s.total /\ l.shown = s.shown
      /\ l.saving = s.saving /\ l.deleting = s.deleting
      /\ l.mode = s.mode /\ l.editing = s.editing /\ l.product = s.product
  <2>1. l = [s EXCEPT !.loading = TRUE]
    BY <1>1 DEF Reloading
  <2>2. QED
    BY <1>7, <2>1 DEF IsList, Fields
<1>9. SectionFits(l) /\ DialogFits(l)
  BY <1>5, <1>7, <1>8 DEF ListFits, SectionFits, DialogFits
<1>10. /\ l.page \in Int /\ l.shown \in Int /\ l.saving \in BOOLEAN
       /\ l.mode \in {"closed", "create", "edit"}
  BY <1>2, <1>5, <1>7, <1>8 DEF ListFits
<1>11. ListFits(l)
  BY <1>8, <1>9, <1>10 DEF ListFits
<1>12. ListTyped(o) => ListTyped(l)
  BY <1>5, <1>7, <1>8 DEF ListTyped
<1>13. QED
  BY <1>5, <1>7, <1>8, <1>11, <1>12 DEF Reloads

\* A page that is drawn after the rows changed, with a reload among the questions.
LEMMA ReloadKeeps ==
  ASSUME ListInv, section' = section, version' = version + 1, calls' \subseteq calls,
         NEW r, RequestFits(r, list), AnswerFits(r)', AsksNewest(r)',
         NEW l, ListFits(l), l.shown = list.shown,
         NEW cs, cs = calls',
         NEW awaited, awaited = requests \cup {r},
         NEW d \in BOOLEAN,
         IndicatorsFit(l, cs, awaited),
         Render(l, awaited, d)
  PROVE  ListInv'
<1>1. (\A a \in awaited : RequestFits(a, list)) /\ \A b \in cs : CallFits(b)
  BY DEF ListInv
<1>2. \A a \in awaited : AnswerFits(a)'
  <2>1. (\A a \in requests : AnswerFits(a)) /\ version \in Nat
    BY DEF ListInv, Drawable
  <2>2. \A a \in requests : AnswerFits(a)'
    BY <2>1, RowsChange
  <2>3. QED
    BY <2>2
<1>3. section \in Sections /\ version \in Nat /\ list.shown \in Int /\ list.shown <= version /\ SectionFits(list)
  BY DEF ListInv, Drawable, ListFits
<1>4. Drawable(l, cs, awaited)'
  <2>1. IndicatorsFit(l, cs, awaited)'
    BY DEF IndicatorsFit, OneSave, SavesOf, SaveRequests, Single, LoadingAwaits, DeletionAwaits, Awaits
  <2>2. ListFits(l)'
    BY SectionStays
  <2>3. l.shown <= version'
    BY <1>3
  <2>4. QED
    BY <1>2, <2>1, <2>2, <2>3 DEF Drawable
<1>5. Comes(l, awaited, d)'
  BY DEF Comes
<1>6. version' \in Nat
  BY <1>3
<1>7. QED
  BY <1>1, <1>3, <1>4, <1>5, <1>6, RenderKeeps

LEMMA SaveSucceedsKeeps ==
  ASSUME ListInv, NEW c \in Saves, SaveSucceeds(c)
  PROVE  ListInv'
<1>1. PICK o, reqs, old : \E d \in BOOLEAN : Held(o, reqs, old, d)
  BY Holds
<1>2. PICK d \in BOOLEAN : Held(o, reqs, old, d)
  BY <1>1
<1>3. PICK sel : sel = [c.sel EXCEPT !.page = IF c.kind = "create" THEN 1 ELSE c.sel.page]
  OBVIOUS
<1>4. PICK r, l, cs, awaited :
          /\ r = Reload(sel, "save") /\ l = [Saved(o, c) EXCEPT !.loading = TRUE]
          /\ cs = old \ {c} /\ awaited = reqs \cup {r}
  OBVIOUS
<1>5. /\ Render(l, awaited, d) /\ cs = calls'
      /\ section \in Sections /\ section' = section /\ version \in Nat /\ version' = version + 1
      /\ c \in old /\ c.kind # "delete"
  BY <1>2, <1>3, <1>4 DEF SaveSucceeds, Saves, Held, ListInv
<1>6. IsSelection(c.sel) /\ section # "audit"
  BY <1>2, <1>5 DEF Held, CallFits
<1>7. IsSelection(sel)
  BY <1>3, <1>6 DEF IsSelection
<1>8. /\ ListFits(l) /\ l.loading = TRUE
      /\ l.shown = o.shown /\ l.saving = o.saving /\ l.deleting = o.deleting
  <2>1. ListFits(o) /\ section \in Sections /\ section # "audit"
    BY <1>2, <1>5, <1>6 DEF Held
  <2>2. l = Reloading(o, c)
    BY <1>4 DEF Reloading
  <2>3. Reloads(l, o)
    BY <2>1, <2>2, SavedFits
  <2>4. QED
    BY <2>3 DEF Reloads
<1>9. r.by = "save" /\ RequestFits(r, list) /\ AnswerFits(r)' /\ AsksNewest(r)'
  BY <1>4, <1>7, ReloadFits
<1>10. IndicatorsFit(l, cs, awaited)
  <2>1. c \in SavesOf(old)
    BY <1>5 DEF SavesOf
  <2>2. Single(SavesOf(old)) /\ SaveRequests(reqs) = {} /\ o.saving
    BY <1>2, <2>1 DEF Held, IndicatorsFit, OneSave
  <2>3. SavesOf(cs) = {}
    BY <1>4, <2>1, <2>2 DEF Single, SavesOf
  <2>4. SaveRequests(awaited) = {r}
    BY <1>4, <1>9, <2>2 DEF SaveRequests
  <2>5. OneSave(l.saving, SavesOf(cs), SaveRequests(awaited))
    BY <1>8, <2>2, <2>3, <2>4 DEF OneSave, Single
  <2>6. LoadingAwaits(l, awaited)
    BY <1>4, <1>9 DEF LoadingAwaits, Awaits
  <2>7. DeletionAwaits(l, cs, awaited)
    BY <1>2, <1>4, <1>5, <1>8 DEF Held, IndicatorsFit, DeletionAwaits, Awaits
  <2>8. QED
    BY <2>5, <2>6, <2>7 DEF IndicatorsFit
<1>11. calls' \subseteq calls /\ awaited = requests \cup {r} /\ l.shown = list.shown
  BY <1>2, <1>4, <1>5, <1>8 DEF Held
<1>12. QED
  BY <1>5, <1>8, <1>9, <1>10, <1>11, ReloadKeeps

LEMMA DeleteSucceedsKeeps ==
  ASSUME ListInv, NEW c \in Deletions, DeleteSucceeds(c)
  PROVE  ListInv'
<1>1. PICK o, reqs, old : \E d \in BOOLEAN : Held(o, reqs, old, d)
  BY Holds
<1>2. PICK d \in BOOLEAN : Held(o, reqs, old, d)
  BY <1>1
<1>3. PICK cs : cs = old \ {c}
  OBVIOUS
<1>4. /\ cs = calls' /\ c \in old /\ c.kind = "delete" /\ cs \subseteq old
      /\ section \in Sections /\ section' = section /\ version \in Nat /\ version' = version + 1
  BY <1>2, <1>3 DEF DeleteSucceeds, Deletions, Held, ListInv
<1>5. SavesOf(cs) = SavesOf(old)
  BY <1>3, <1>4 DEF SavesOf
<1>6. IsSelection(c.sel)
  BY <1>2, <1>4 DEF Held, CallFits
<1>7. CASE StepsBack(c)
  <2>1. PICK l : l = [o EXCEPT !.page = o.page - 1, !.deleting = None]
    OBVIOUS
  <2>2. Render(l, reqs, d)
    BY <1>2, <1>7, <2>1 DEF DeleteSucceeds, Held
  <2>3. /\ IsList(l) /\ l.page = o.page - 1 /\ l.deleting = None
        /\ l.tenant = o.tenant /\ l.filter = o.filter /\ l.products = o.products
        /\ l.shown = o.shown /\ l.loading = o.loading /\ l.saving = o.saving
        /\ l.mode = o.mode /\ l.product = o.product
    BY <1>2, <2>1 DEF Held, ListFits, IsList, Fields
  <2>4. ListFits(l) /\ o.page \in Int /\ l.page # o.page
    <3>1. SectionFits(l) /\ DialogFits(l)
      BY <1>2, <2>3 DEF Held, ListFits, SectionFits, DialogFits
    <3>2. QED
      BY <1>2, <2>3, <3>1 DEF Held, ListFits
  <2>5. IndicatorsFit(l, cs, reqs)
    BY <1>2, <1>5, <2>3 DEF Held, IndicatorsFit, LoadingAwaits, DeletionAwaits
  <2>6. Drawable(l, cs, reqs)'
    <3>1. IndicatorsFit(l, cs, reqs)'
      BY <2>5 DEF IndicatorsFit, OneSave, SavesOf, SaveRequests, Single, LoadingAwaits, DeletionAwaits, Awaits
    <3>2. ListFits(l)'
      BY <1>4, <2>4, SectionStays
    <3>3. \A a \in reqs : AnswerFits(a)'
      BY <1>2, <1>4, RowsChange DEF Held
    <3>4. l.shown <= version'
      BY <1>2, <1>4, <2>3 DEF Held, ListFits
    <3>5. QED
      BY <3>1, <3>2, <3>3, <3>4 DEF Drawable
  <2>7. Deps(l) # Deps(list)
    BY <1>2, <1>4, <2>4, TurnAsks DEF Held
  <2>8. /\ SectionFits(list) /\ version' \in Nat
        /\ (\A a \in reqs : RequestFits(a, list)) /\ \A b \in cs : CallFits(b)
    BY <1>2, <1>4 DEF Held, ListFits
  <2>9. QED
    BY <1>4, <2>2, <2>6, <2>7, <2>8, RenderKeeps
<1>8. CASE ~StepsBack(c)
  <2>0. PICK on \in BOOLEAN : on = TRUE
    OBVIOUS
  <2>1. PICK l, r, sel, awaited :
            /\ sel = c.sel /\ r = Reload(sel, "delete") /\ awaited = reqs \cup {r}
            /\ l = [o EXCEPT !.loading = on]
    OBVIOUS
  <2>2. Render(l, awaited, d) /\ IsSelection(sel) /\ ListFits(o)
    BY <1>2, <1>6, <1>8, <2>0, <2>1 DEF DeleteSucceeds, Held
  <2>3. /\ ListFits(l) /\ l.loading = TRUE /\ l.shown = o.shown
        /\ l.saving = o.saving /\ l.deleting = o.deleting
    <3>1. /\ IsList(l) /\ l.loading = TRUE /\ l.page = o.page /\ l.shown = o.shown
          /\ l.tenant = o.tenant /\ l.filter = o.filter /\ l.products = o.products
          /\ l.saving = o.saving /\ l.deleting = o.deleting
          /\ l.mode = o.mode /\ l.product = o.product
      BY <2>0, <2>1, <2>2 DEF ListFits, IsList, Fields
    <3>2. SectionFits(l) /\ DialogFits(l)
      BY <2>2, <3>1 DEF ListFits, SectionFits, DialogFits
    <3>3. QED
      BY <2>2, <3>1, <3>2 DEF ListFits
  <2>4. r.by = "delete" /\ RequestFits(r, list) /\ AnswerFits(r)' /\ AsksNewest(r)'
    BY <2>1, <2>2, ReloadFits
  <2>5. IndicatorsFit(l, cs, awaited)
    <3>1. SaveRequests(awaited) = SaveRequests(reqs)
      BY <2>1, <2>4 DEF SaveRequests
    <3>2. OneSave(l.saving, SavesOf(cs), SaveRequests(awaited))
      BY <1>2, <1>5, <2>3, <3>1 DEF Held, IndicatorsFit
    <3>3. LoadingAwaits(l, awaited) /\ DeletionAwaits(l, cs, awaited)
      BY <2>1, <2>4 DEF LoadingAwaits, DeletionAwaits, Awaits
    <3>4. QED
      BY <3>2, <3>3 DEF IndicatorsFit
  <2>6. calls' \subseteq calls /\ awaited = requests \cup {r} /\ l.shown = list.shown
    BY <1>2, <1>4, <2>1, <2>3 DEF Held
  <2>7. QED
    BY <1>4, <2>2, <2>3, <2>4, <2>5, <2>6, ReloadKeeps
<1>9. QED
  BY <1>7, <1>8

----------------------------------------------------------------------------
(* Answers. *)

\* The indicators that an answer of the list puts out are those that waited for it.
LEMMA FinishedAwaits ==
  ASSUME NEW o, NEW cs, NEW reqs, IndicatorsFit(o, cs, reqs),
         NEW r \in reqs, r.by \in Asking, NEW n,
         n.loading = (o.loading /\ r.by = "poll"), n.saving = (o.saving /\ r.by # "save"),
         n.deleting = IF r.by = "delete" THEN None ELSE o.deleting
  PROVE  IndicatorsFit(n, cs, reqs \ {r})
<1> DEFINE rest == reqs \ {r}
<1>1. OneSave(n.saving, SavesOf(cs), SaveRequests(rest))
  <2>1. CASE r.by = "save"
    <3>1. r \in SaveRequests(reqs)
      BY <2>1 DEF SaveRequests
    <3>2. SavesOf(cs) = {} /\ Single(SaveRequests(reqs))
      BY <3>1 DEF IndicatorsFit, OneSave
    <3>3. SaveRequests(rest) = {}
      BY <3>1, <3>2 DEF Single, SaveRequests
    <3>4. QED
      BY <2>1, <3>2, <3>3 DEF OneSave
  <2>2. CASE r.by # "save"
    <3>1. SaveRequests(rest) = SaveRequests(reqs)
      BY <2>2 DEF SaveRequests
    <3>2. QED
      BY <2>2, <3>1 DEF IndicatorsFit, OneSave
  <2>3. QED
    BY <2>1, <2>2
<1>2. LoadingAwaits(n, rest)
  BY DEF IndicatorsFit, LoadingAwaits, Awaits
<1>3. DeletionAwaits(n, cs, rest)
  BY DEF IndicatorsFit, DeletionAwaits, Awaits
<1>4. QED
  BY <1>1, <1>2, <1>3 DEF IndicatorsFit

\* Nothing waits for the tenants and the products.
LEMMA OtherAwaits ==
  ASSUME NEW o, NEW cs, NEW reqs, IndicatorsFit(o, cs, reqs),
         NEW r \in reqs, r.by \notin Asking, NEW n,
         n.loading = o.loading, n.saving = o.saving, n.deleting = o.deleting
  PROVE  IndicatorsFit(n, cs, reqs \ {r})
<1>1. SaveRequests(reqs \ {r}) = SaveRequests(reqs)
  BY DEF SaveRequests, Asking
<1>2. LoadingAwaits(n, reqs \ {r}) /\ DeletionAwaits(n, cs, reqs \ {r})
  BY DEF IndicatorsFit, LoadingAwaits, DeletionAwaits, Awaits, Asking
<1>3. QED
  BY <1>1, <1>2 DEF IndicatorsFit

LEMMA FinishedFits ==
  ASSUME NEW o, ListFits(o), NEW by, NEW n, n = Finished(o, by)
  PROVE  /\ Same(n, o) /\ n.loading = (o.loading /\ by = "poll")
         /\ n.saving = (o.saving /\ by # "save")
         /\ n.deleting = (IF by = "delete" THEN None ELSE o.deleting)
         /\ n.loading \in BOOLEAN /\ n.saving \in BOOLEAN
BY DEF Finished, Same, ListFits, IsList, Fields

\* A question fails.
LEMMA FailKeeps ==
  ASSUME ListInv, NEW r \in requests, Fail(r)
  PROVE  ListInv'
<1>1. PICK o, reqs, cs : \E d \in BOOLEAN : Held(o, reqs, cs, d)
  BY Holds
<1>2. PICK d \in BOOLEAN : Held(o, reqs, cs, d)
  BY <1>1
<1>3. PICK n, rest : n = list' /\ rest = reqs \ {r}
  OBVIOUS
<1>4. PICK e \in BOOLEAN : e = (d \/ r.by \notin {"tenants", "products"})
  OBVIOUS
<1>5. /\ n = (IF r.by \in {"tenants", "products"} THEN o ELSE Finished(o, r.by))
      /\ cs = calls' /\ rest = requests' /\ e = disturbed'
      /\ section' = section /\ UNCHANGED serverVars /\ version' = version /\ version \in Nat
      /\ r \in reqs /\ r.by \in Asking \cup {"tenants", "products"}
  BY <1>2, <1>3, <1>4 DEF Fail, serverVars, Held, ListInv, RequestFits
<1>6. ListFits(o) /\ IndicatorsFit(o, cs, reqs)
  BY <1>2 DEF Held
<1>7. /\ Same(n, o) /\ n.loading \in BOOLEAN /\ n.saving \in BOOLEAN
      /\ IndicatorsFit(n, cs, rest) /\ Comes(n, rest, e)
  <2>1. CASE r.by \in {"tenants", "products"}
    <3>1. n = o /\ r.by \notin Asking /\ e = d
      BY <1>4, <1>5, <2>1 DEF Asking
    <3>2. IndicatorsFit(n, cs, rest)
      BY <1>3, <1>5, <1>6, <3>1, OtherAwaits
    <3>3. Comes(n, rest, e)
      BY <1>2, <1>3, <3>1 DEF Held, Comes, AsksNewest
    <3>4. QED
      BY <1>6, <3>1, <3>2, <3>3 DEF ListFits, Same
  <2>2. CASE r.by \notin {"tenants", "products"}
    <3>1. n = Finished(o, r.by) /\ r.by \in Asking /\ e = TRUE
      BY <1>4, <1>5, <2>2
    <3>2. /\ Same(n, o) /\ n.loading = (o.loading /\ r.by = "poll")
          /\ n.saving = (o.saving /\ r.by # "save")
          /\ n.deleting = (IF r.by = "delete" THEN None ELSE o.deleting)
          /\ n.loading \in BOOLEAN /\ n.saving \in BOOLEAN
      BY <1>6, <3>1, FinishedFits
    <3>3. IndicatorsFit(n, cs, rest)
      BY <1>3, <1>5, <1>6, <3>1, <3>2, FinishedAwaits
    <3>4. Comes(n, rest, e)
      BY <3>1 DEF Comes
    <3>5. QED
      BY <3>2, <3>3, <3>4
  <2>3. QED
    BY <2>1, <2>2
<1>8. \A a \in rest : RequestFits(a, n) /\ AnswerFits(a)
  BY <1>2, <1>3, <1>7, SameFits DEF Held
<1>9. Comes(n, rest, e)' /\ \A a \in rest : AnswerFits(a)'
  BY <1>5, <1>7, <1>8, RowsStay
<1>10. /\ Same(n, list) /\ version' \in Nat /\ version <= version'
       /\ \A c \in cs : CallFits(c)
  BY <1>2, <1>5, <1>7 DEF Held
<1>11. QED
  BY <1>3, <1>5, <1>7, <1>8, <1>9, <1>10, SameKeeps

\* The server answers with what it has now.
LEMMA ServerAnswersKeeps ==
  ASSUME ListInv, NEW r \in requests, ServerAnswers(r)
  PROVE  ListInv'
<1>1. PICK o, reqs, cs : \E d \in BOOLEAN : Held(o, reqs, cs, d)
  BY Holds
<1>2. PICK d \in BOOLEAN : Held(o, reqs, cs, d)
  BY <1>1
<1>3. PICK n, a, ans : n = list' /\ ans = Answer(r.sel) /\ a = [r EXCEPT !.answer = ans]
  OBVIOUS
<1>4. PICK new : new = (reqs \ {r}) \cup {a}
  OBVIOUS
<1>5. /\ n = o /\ cs = calls' /\ new = requests' /\ d = disturbed'
      /\ section' = section /\ UNCHANGED serverVars /\ version' = version /\ version \in Nat
      /\ r \in reqs /\ r.by \notin {"tenants", "products"} /\ RequestFits(r, o)
  BY <1>2, <1>3, <1>4 DEF ServerAnswers, serverVars, Held, ListInv
<1>6. /\ a = [by |-> a.by, sel |-> a.sel, late |-> a.late, answer |-> a.answer]
      /\ a.by = r.by /\ a.sel = r.sel /\ a.late = r.late /\ a.answer = ans
  BY <1>3, <1>5 DEF RequestFits
<1>7. RequestFits(a, o) /\ a.by \in Asking
  BY <1>5, <1>6 DEF RequestFits, Asking
<1>8. /\ ans.version = version /\ ans.page = AtLeast(1, r.sel.page)
      /\ Tells(ans, Listed(r.sel.tenant, r.sel.filter), r.sel)
  BY <1>3 DEF Answer, Tells
<1>9. AnswerFits(a) /\ AsksNewest(a)
  BY <1>5, <1>6, <1>7, <1>8 DEF AnswerFits, AsksNewest
<1>10. IndicatorsFit(n, cs, new)
  <2>1. IndicatorsFit(o, cs, reqs)
    BY <1>2 DEF Held
  <2>2. CASE r.by = "save"
    <3>1. r \in SaveRequests(reqs)
      BY <1>5, <2>2 DEF SaveRequests
    <3>2. SaveRequests(reqs) = {r} /\ SavesOf(cs) = {} /\ o.saving
      BY <2>1, <3>1 DEF IndicatorsFit, OneSave, Single
    <3>3. SaveRequests(new) = {a}
      BY <1>4, <1>6, <2>2, <3>2 DEF SaveRequests
    <3>4. OneSave(n.saving, SavesOf(cs), SaveRequests(new))
      BY <1>5, <3>2, <3>3 DEF OneSave, Single
    <3>5. LoadingAwaits(n, new) /\ DeletionAwaits(n, cs, new)
      BY <1>4, <1>5, <1>6, <2>1 DEF IndicatorsFit, LoadingAwaits, DeletionAwaits, Awaits
    <3>6. QED
      BY <3>4, <3>5 DEF IndicatorsFit
  <2>3. CASE r.by # "save"
    <3>1. SaveRequests(new) = SaveRequests(reqs)
      BY <1>4, <1>6, <2>3 DEF SaveRequests
    <3>2. LoadingAwaits(n, new) /\ DeletionAwaits(n, cs, new)
      BY <1>4, <1>5, <1>6, <2>1 DEF IndicatorsFit, LoadingAwaits, DeletionAwaits, Awaits
    <3>3. QED
      BY <1>5, <2>1, <3>1, <3>2 DEF IndicatorsFit
  <2>4. QED
    BY <2>2, <2>3
<1>11. \A b \in new : RequestFits(b, n) /\ AnswerFits(b)
  BY <1>2, <1>4, <1>5, <1>7, <1>9 DEF Held
<1>12. Comes(n, new, d)
  BY <1>4, <1>9 DEF Comes
<1>13. Comes(n, new, d)' /\ \A b \in new : AnswerFits(b)'
  BY <1>5, <1>11, <1>12, RowsStay
<1>14. /\ Same(n, list) /\ n.loading \in BOOLEAN /\ n.saving \in BOOLEAN
       /\ version' \in Nat /\ version <= version' /\ \A c \in cs : CallFits(c)
  BY <1>2, <1>5 DEF Held, ListFits, Same
<1>15. QED
  BY <1>3, <1>5, <1>10, <1>11, <1>13, <1>14, SameKeeps

\* The devices are asked for without a change.
LEMMA PollKeeps ==
  ASSUME ListInv, Poll
  PROVE  ListInv'
<1>1. PICK o, reqs, cs : \E d \in BOOLEAN : Held(o, reqs, cs, d)
  BY Holds
<1>2. PICK d \in BOOLEAN : Held(o, reqs, cs, d)
  BY <1>1
<1>3. PICK n, r : n = list' /\ r = Ask(Selection(o), "poll")
  OBVIOUS
<1>4. PICK new : new = reqs \cup {r}
  OBVIOUS
<1>5. /\ n = o /\ cs = calls' /\ new = requests' /\ d = disturbed'
      /\ section' = section /\ UNCHANGED serverVars /\ version' = version /\ version \in Nat
  BY <1>2, <1>3, <1>4 DEF Poll, serverVars, Held, ListInv
<1>6. RequestFits(r, o) /\ AnswerFits(r) /\ r.by = "poll" /\ r.answer = Unanswered
  BY <1>2, <1>3, AskFits DEF Held, ListFits
<1>7. IndicatorsFit(n, cs, new)
  <2>1. SaveRequests(new) = SaveRequests(reqs)
    BY <1>4, <1>6 DEF SaveRequests
  <2>2. QED
    BY <1>2, <1>4, <1>5, <2>1 DEF Held, IndicatorsFit, LoadingAwaits, DeletionAwaits, Awaits
<1>8. \A b \in new : RequestFits(b, n) /\ AnswerFits(b)
  BY <1>2, <1>4, <1>5, <1>6 DEF Held
<1>9. Comes(n, new, d)
  BY <1>4, <1>6 DEF Comes, AsksNewest, Asking
<1>10. Comes(n, new, d)' /\ \A b \in new : AnswerFits(b)'
  BY <1>5, <1>8, <1>9, RowsStay
<1>11. /\ Same(n, list) /\ n.loading \in BOOLEAN /\ n.saving \in BOOLEAN
       /\ version' \in Nat /\ version <= version' /\ \A c \in cs : CallFits(c)
  BY <1>2, <1>5 DEF Held, ListFits, Same
<1>12. QED
  BY <1>3, <1>5, <1>7, <1>8, <1>10, <1>11, SameKeeps

\* The page is drawn with less to wait for, while the rows stay.
LEMMA AnsweredKeeps ==
  ASSUME ListInv, UNCHANGED <<section, calls, serverVars>>,
         NEW l, ListFits(l), l.shown <= version,
         NEW rest, rest \subseteq requests, NEW d \in BOOLEAN,
         NEW cs, cs = calls, IndicatorsFit(l, cs, rest),
         Deps(l) = Deps(list) => Comes(l, rest, d),
         Render(l, rest, d)
  PROVE  ListInv'
<1>1. /\ section \in Sections /\ section' = section /\ version' = version /\ version \in Nat
      /\ UNCHANGED serverVars /\ calls' = cs /\ SectionFits(list)
  BY DEF ListInv, Drawable, ListFits, serverVars
<1>2. (\A r \in rest : RequestFits(r, list) /\ AnswerFits(r)) /\ \A c \in cs : CallFits(c)
  BY DEF ListInv, Drawable
<1>3. Drawable(l, cs, rest)'
  <2>1. ListFits(l)' /\ \A r \in rest : AnswerFits(r)'
    BY <1>1, <1>2, SectionStays, RowsStay
  <2>2. IndicatorsFit(l, cs, rest)'
    BY DEF IndicatorsFit, OneSave, SavesOf, SaveRequests, Single, LoadingAwaits, DeletionAwaits, Awaits
  <2>3. QED
    BY <1>1, <2>1, <2>2 DEF Drawable
<1>4. Deps(l) = Deps(list) => Comes(l, rest, d)'
  BY <1>1, RowsStay
<1>5. QED
  BY <1>1, <1>2, <1>3, <1>4, RenderKeeps

\* The tenants, and the products of one, change what is selected at most: the list is
\* then asked for.
LEMMA ChoicesArrive ==
  ASSUME ListInv, UNCHANGED <<section, calls, serverVars>>,
         NEW r \in requests, r.by \notin Asking,
         NEW l, Rechosen(l, list), l.page = list.page, l.size = list.size, l.mode = list.mode,
         SectionFits(l), DialogFits(l),
         Render(l, requests \ {r}, disturbed)
  PROVE  ListInv'
<1>1. PICK o, reqs, cs : \E d \in BOOLEAN : Held(o, reqs, cs, d)
  BY Holds
<1>2. PICK d \in BOOLEAN : Held(o, reqs, cs, d)
  BY <1>1
<1>3. PICK rest : rest = reqs \ {r}
  OBVIOUS
<1>4. /\ o = list /\ rest = requests \ {r} /\ d = disturbed /\ cs = calls /\ r \in reqs
      /\ section \in Sections
  BY <1>2, <1>3 DEF Held, ListInv
<1>5. ListFits(l) /\ l.shown = o.shown /\ o.shown <= version /\ ListFits(o)
  BY <1>2, <1>4 DEF Held, ListFits, Rechosen
<1>6. IndicatorsFit(l, cs, rest)
  BY <1>2, <1>3, <1>4, OtherAwaits DEF Held, Rechosen
<1>7. ASSUME Deps(l) = Deps(o)
      PROVE  Comes(l, rest, d)
  <2>1. l.tenant = o.tenant /\ l.filter = o.filter
    BY <1>4, <1>5, <1>7, DepsTell DEF ListFits
  <2>2. HasList(l) = HasList(o) /\ Newest(l) = Newest(o)
    BY <1>4, <2>1 DEF HasList, Newest, Shows, Rechosen
  <2>3. Comes(o, reqs, d)
    BY <1>2 DEF Held
  <2>4. QED
    BY <1>3, <2>2, <2>3 DEF Comes, AsksNewest
<1>8. QED
  <2>1. rest \subseteq requests /\ l.shown <= version /\ Render(l, rest, d)
    BY <1>4, <1>5
  <2>2. Deps(l) = Deps(list) => Comes(l, rest, d)
    BY <1>4, <1>7
  <2>3. QED
    BY <1>4, <1>5, <1>6, <2>1, <2>2, AnsweredKeeps

\* The list with the tenants.
WithTenants(l) == [l EXCEPT !.tenants = Tenants, !.tenant = IF @ # None THEN @ ELSE First(Tenants)]

LEMMA TenantsFit ==
  ASSUME ListInv, OfTenant, NEW l, l = WithTenants(list)
  PROVE  /\ Rechosen(l, list) /\ l.page = list.page /\ l.size = list.size /\ l.mode = list.mode
         /\ l.filter = list.filter
         /\ l.tenant = (IF list.tenant # None THEN list.tenant ELSE First(Tenants))
         /\ SectionFits(l) /\ DialogFits(l) /\ ListFits(l)
         /\ TypesFit => ListTyped(l)
<1>1. PICK t : t = IF list.tenant # None THEN list.tenant ELSE First(Tenants)
  OBVIOUS
<1>2. l = [list EXCEPT !.tenants = Tenants, !.tenant = t]
  BY <1>1, ListFacts DEF WithTenants, IsList, Fields
<1>3. /\ Rechosen(l, list) /\ l.page = list.page /\ l.size = list.size /\ l.mode = list.mode
      /\ l.filter = list.filter /\ l.products = list.products /\ l.product = list.product
      /\ l.tenant = t /\ l.tenants = Tenants /\ l.editing = list.editing
  BY <1>2, ListFacts DEF Rechosen, IsList, Fields
<1>4. SectionFits(l) /\ DialogFits(l)
  BY <1>3, ListFacts DEF SectionFits, DialogFits
<1>5. ListFits(l)
  BY <1>3, <1>4 DEF ListInv, Drawable, ListFits, Rechosen
<1>6. TypesFit => ListTyped(l)
  BY <1>1, <1>3, FirstOf DEF TypesFit, ListTyped, Rechosen
<1>7. QED
  BY <1>1, <1>3, <1>4, <1>5, <1>6

LEMMA ProductsFit ==
  ASSUME ListInv, OfProduct, NEW t, NEW listed, listed = ProductsOf(t),
         NEW l, l = WithProducts(list, listed)
  PROVE  /\ Rechosen(l, list) /\ l.page = list.page /\ l.size = list.size /\ l.mode = list.mode
         /\ l.tenant = list.tenant
         /\ l.filter = list.filter \/ (l.filter = None /\ list.filter \notin listed)
         /\ SectionFits(l) /\ DialogFits(l) /\ ListFits(l)
         /\ TypesFit => ListTyped(l)
<1>1. PICK filter, product :
          /\ filter = (IF section = "devices" /\ list.filter \notin listed THEN None ELSE list.filter)
          /\ product = (IF section = "devices" THEN DeviceFormProduct(list, listed)
                                               ELSE ModelFormProduct(list, listed))
  OBVIOUS
<1>2. /\ Rechosen(l, list) /\ l.page = list.page /\ l.size = list.size /\ l.mode = list.mode
      /\ l.tenant = list.tenant /\ l.tenants = list.tenants /\ l.editing = list.editing
      /\ l.products = listed /\ l.product = product /\ l.filter = filter
  <2>1. CASE section = "devices"
    <3>1. l = [list EXCEPT !.products = listed, !.filter = filter, !.product = product]
      BY <1>1, <2>1, ListFacts DEF WithProducts, IsList, Fields
    <3>2. QED
      BY <3>1, ListFacts DEF Rechosen, IsList, Fields
  <2>2. CASE section # "devices"
    <3>1. l = [list EXCEPT !.products = listed, !.product = product]
      BY <1>1, <2>2 DEF WithProducts
    <3>2. QED
      BY <1>1, <2>2, <3>1, ListFacts DEF Rechosen, IsList, Fields
  <2>3. QED
    BY <2>1, <2>2
<1>3. section = "devices" => product \in listed \cup {None} /\ filter \in listed \cup {None}
  BY <1>1, FirstOf DEF DeviceFormProduct
<1>4. SectionFits(l) /\ DialogFits(l)
  BY <1>2, <1>3, ListFacts DEF SectionFits, DialogFits, OfTenant, OfProduct
<1>5. ListFits(l)
  BY <1>2, <1>4 DEF ListInv, Drawable, ListFits, Rechosen
<1>6. ASSUME TypesFit
      PROVE  ListTyped(l)
  <2>1. ListTyped(list) /\ listed \subseteq Products
    BY <1>6 DEF TypesFit, ProductsOf
  <2>2. filter \in Products \cup {None} /\ product \in Products \cup {None}
    BY <1>1, <2>1, FirstOf DEF ListTyped, DeviceFormProduct, ModelFormProduct
  <2>3. QED
    BY <1>2, <2>1, <2>2 DEF ListTyped, Rechosen
<1>7. QED
  BY <1>1, <1>2, <1>4, <1>5, <1>6

LEMMA TenantsArriveKeeps ==
  ASSUME ListInv, NEW r \in requests, TenantsArrive(r)
  PROVE  ListInv'
<1>1. PICK l : l = WithTenants(list)
  OBVIOUS
<1>2. Render(l, requests \ {r}, disturbed) /\ UNCHANGED <<section, calls, serverVars>> /\ r.by = "tenants"
  BY <1>1 DEF TenantsArrive, WithTenants
<1>3. OfTenant /\ r.by \notin Asking
  BY <1>2 DEF ListInv, RequestFits, Asking
<1>4. QED
  BY <1>1, <1>2, <1>3, TenantsFit, ChoicesArrive

LEMMA ProductsArriveKeeps ==
  ASSUME ListInv, NEW r \in requests, ProductsArrive(r)
  PROVE  ListInv'
<1>1. PICK l, listed : listed = ProductsOf(r.sel.tenant) /\ l = WithProducts(list, listed)
  OBVIOUS
<1>2. Render(l, requests \ {r}, disturbed) /\ UNCHANGED <<section, calls, serverVars>> /\ r.by = "products"
  BY <1>1 DEF ProductsArrive
<1>3. OfProduct /\ r.by \notin Asking
  BY <1>2 DEF ListInv, RequestFits, Asking
<1>4. QED
  BY <1>1, <1>2, <1>3, ProductsFit, ChoicesArrive

\* The page with an answer.
Answered(o, r) ==
    [Finished(o, r.by) EXCEPT !.items = r.answer.items, !.total = r.answer.total,
                              !.page = r.answer.page, !.size = r.sel.size, !.shown = r.answer.version]

LEMMA AnsweredFits ==
  ASSUME NEW o, ListFits(o), NEW r, r.answer.page \in Int, r.answer.version \in Nat,
         NEW l, l = Answered(o, r)
  PROVE  /\ ListFits(l)
         /\ l.items = r.answer.items /\ l.total = r.answer.total /\ l.page = r.answer.page
         /\ l.size = r.sel.size /\ l.shown = r.answer.version
         /\ l.tenant = o.tenant /\ l.filter = o.filter
         /\ l.loading = (o.loading /\ r.by = "poll") /\ l.saving = (o.saving /\ r.by # "save")
         /\ l.deleting = (IF r.by = "delete" THEN None ELSE o.deleting)
<1>1. PICK n : n = Finished(o, r.by)
  OBVIOUS
<1>2. /\ Same(n, o) /\ n.loading = (o.loading /\ r.by = "poll")
      /\ n.saving = (o.saving /\ r.by # "save")
      /\ n.deleting = (IF r.by = "delete" THEN None ELSE o.deleting)
      /\ n.loading \in BOOLEAN /\ n.saving \in BOOLEAN
  BY <1>1, FinishedFits
<1>3. l = [n EXCEPT !.items = r.answer.items, !.total = r.answer.total, !.page = r.answer.page,
                    !.size = r.sel.size, !.shown = r.answer.version]
  BY <1>1 DEF Answered
<1>4. /\ IsList(l)
      /\ l.items = r.answer.items /\ l.total = r.answer.total /\ l.page = r.answer.page
      /\ l.size = r.sel.size /\ l.shown = r.answer.version
      /\ l.tenant = o.tenant /\ l.filter = o.filter /\ l.products = o.products
      /\ l.loading = n.loading /\ l.saving = n.saving /\ l.deleting = n.deleting
      /\ l.mode = o.mode /\ l.product = o.product
  <2>1. IsList(n)
    BY <1>2 DEF Same
  <2>2. /\ IsList(l)
        /\ l.items = r.answer.items /\ l.total = r.answer.total /\ l.page = r.answer.page
        /\ l.size = r.sel.size /\ l.shown = r.answer.version
        /\ l.tenant = n.tenant /\ l.filter = n.filter /\ l.products = n.products
        /\ l.loading = n.loading /\ l.saving = n.saving /\ l.deleting = n.deleting
        /\ l.mode = n.mode /\ l.product = n.product
    <3>1. PICK items, total, page, size, shown :
              /\ items = r.answer.items /\ total = r.answer.total /\ page = r.answer.page
              /\ size = r.sel.size /\ shown = r.answer.version
      OBVIOUS
    <3>2. l = [n EXCEPT !.items = items, !.total = total, !.page = page, !.size = size, !.shown = shown]
      BY <1>3, <3>1
    <3>3. /\ IsList(l) /\ l.items = items /\ l.total = total /\ l.page = page
          /\ l.size = size /\ l.shown = shown
      BY <2>1, <3>2 DEF IsList, Fields
    <3>4. /\ l.tenant = n.tenant /\ l.filter = n.filter /\ l.products = n.products
          /\ l.loading = n.loading /\ l.saving = n.saving /\ l.deleting = n.deleting
          /\ l.mode = n.mode /\ l.product = n.product
      BY <2>1, <3>2 DEF IsList, Fields
    <3>5. QED
      BY <3>1, <3>3, <3>4
  <2>3. QED
    BY <1>2, <2>2 DEF Same
<1>5. SectionFits(l) /\ DialogFits(l)
  BY <1>4 DEF ListFits, SectionFits, DialogFits
<1>6. l.page \in Int /\ l.shown \in Int /\ l.mode \in {"closed", "create", "edit"}
      /\ l.loading \in BOOLEAN /\ l.saving \in BOOLEAN
  BY <1>2, <1>4 DEF ListFits
<1>7. ListFits(l)
  BY <1>4, <1>5, <1>6 DEF ListFits
<1>8. QED
  BY <1>2, <1>4, <1>7

\* An answer that is not late and not older than what is shown brings the newest rows,
\* or leaves the question that will.
LEMMA AnswerComes ==
  ASSUME NEW o, NEW reqs, NEW d, Comes(o, reqs, d), o.shown \in Int,
         NEW r \in reqs, RequestFits(r, o), AnswerFits(r), r.answer # Unanswered, version \in Nat,
         NEW l, l.items = r.answer.items, l.total = r.answer.total, l.page = r.answer.page,
         l.size = r.sel.size, l.shown = r.answer.version,
         l.tenant = o.tenant, l.filter = o.filter,
         NEW e, ~e => ~d /\ ~r.late /\ ~(r.answer.version < o.shown)
  PROVE  Comes(l, reqs \ {r}, e)
<1>1. SUFFICES ASSUME HasList(l), ~e
               PROVE  Newest(l) \/ \E a \in reqs \ {r} : AsksNewest(a)
  BY DEF Comes
<1>2. HasList(o) /\ ~d /\ ~r.late /\ ~(r.answer.version < o.shown)
  BY <1>1 DEF HasList
<1>3. r.by \in Asking /\ r.answer.version \in Nat /\ r.answer.version <= version
      /\ r.answer.page = AtLeast(1, r.sel.page) /\ IsSelection(r.sel)
  BY DEF RequestFits, AnswerFits
<1>4. CASE r.answer.version = version
  <2>1. r.sel.tenant = o.tenant /\ r.sel.filter = o.filter
    BY <1>2, <1>3 DEF RequestFits, Asking, Selection
  <2>2. Tells(r.answer, Listed(o.tenant, o.filter), r.sel)
    BY <1>4, <2>1 DEF AnswerFits
  <2>3. l.page >= 1
    BY <1>3 DEF AtLeast, IsSelection
  <2>4. Shows(l, Listed(l.tenant, l.filter))
    BY <1>3, <2>2, <2>3 DEF Shows, Tells
  <2>5. QED
    BY <1>4, <2>4 DEF Newest
<1>5. CASE r.answer.version # version
  <2>1. ~Newest(o)
    BY <1>2, <1>3, <1>5 DEF Newest
  <2>2. PICK a \in reqs : AsksNewest(a)
    BY <1>2, <2>1 DEF Comes
  <2>3. a # r
    BY <1>5, <2>2 DEF AsksNewest
  <2>4. QED
    BY <2>2, <2>3
<1>6. QED
  BY <1>4, <1>5

LEMMA ArriveKeeps ==
  ASSUME ListInv, NEW r \in requests, Arrive(r)
  PROVE  ListInv'
<1>1. PICK o, reqs, cs : \E d \in BOOLEAN : Held(o, reqs, cs, d)
  BY Holds
<1>2. PICK d \in BOOLEAN : Held(o, reqs, cs, d)
  BY <1>1
<1>3. PICK rest, l : rest = reqs \ {r} /\ l = Answered(o, r)
  OBVIOUS
<1>4. PICK e \in BOOLEAN : e = (d \/ r.late \/ r.answer.version < o.shown)
  OBVIOUS
<1>5. /\ r.answer # Unanswered /\ Render(l, rest, e) /\ UNCHANGED <<section, calls, serverVars>>
  BY <1>2, <1>3, <1>4 DEF Arrive, Held, Answered
<1>6. /\ o = list /\ r \in reqs /\ cs = calls /\ rest \subseteq requests /\ version \in Nat
      /\ ListFits(o) /\ o.shown \in Int /\ RequestFits(r, o) /\ AnswerFits(r)
      /\ IndicatorsFit(o, cs, reqs) /\ Comes(o, reqs, d)
  BY <1>2, <1>3 DEF Held, ListInv, ListFits
<1>7. r.answer.page \in Int /\ r.answer.version \in Nat /\ r.answer.version <= version /\ r.by \in Asking
  BY <1>5, <1>6 DEF RequestFits, AnswerFits, AtLeast, IsSelection
<1>8. /\ ListFits(l)
      /\ l.items = r.answer.items /\ l.total = r.answer.total /\ l.page = r.answer.page
      /\ l.size = r.sel.size /\ l.shown = r.answer.version
      /\ l.tenant = o.tenant /\ l.filter = o.filter
      /\ l.loading = (o.loading /\ r.by = "poll") /\ l.saving = (o.saving /\ r.by # "save")
      /\ l.deleting = (IF r.by = "delete" THEN None ELSE o.deleting)
  BY <1>3, <1>6, <1>7, AnsweredFits
<1>9. IndicatorsFit(l, cs, rest)
  <2>1. r \in reqs /\ r.by \in Asking /\ IndicatorsFit(o, cs, reqs)
    BY <1>6, <1>7
  <2>2. /\ l.loading = (o.loading /\ r.by = "poll") /\ l.saving = (o.saving /\ r.by # "save")
        /\ l.deleting = (IF r.by = "delete" THEN None ELSE o.deleting)
    BY <1>8
  <2>3. QED
    BY <1>3, <2>1, <2>2, FinishedAwaits
<1>10. Comes(l, rest, e)
  <2>1. ~e => ~d /\ ~r.late /\ ~(r.answer.version < o.shown)
    BY <1>4
  <2>2. QED
    BY <1>3, <1>5, <1>6, <1>8, <2>1, AnswerComes
<1>11. l.shown <= version
  BY <1>7, <1>8
<1>12. QED
  BY <1>5, <1>6, <1>8, <1>9, <1>10, <1>11, AnsweredKeeps

----------------------------------------------------------------------------
(* The invariant and the theorems. *)

LEMMA InitFits ==
  ASSUME Init
  PROVE  ListInv
<1>1. PICK o, reqs : o = list /\ reqs = requests
  OBVIOUS
<1>2. /\ section \in Sections /\ calls = {} /\ version = 0 /\ disturbed = FALSE
      /\ reqs = IF OfTenant THEN {Ask(Selection(o), "tenants")} ELSE {Ask(Selection(o), "effect")}
  BY <1>1 DEF Init
<1>3. /\ IsList(o) /\ o.tenant = None /\ o.filter = None /\ o.page = 1 /\ o.shown = -1
      /\ o.loading = ~OfTenant /\ o.saving = FALSE /\ o.deleting = None /\ o.mode = "closed"
  <2>1. PICK size : size = CHOOSE s \in Sizes : \A t \in Sizes : s >= t
    OBVIOUS
  <2>2. o = [tenants |-> {}, tenant |-> None, filter |-> None, products |-> {},
             page |-> 1, size |-> size, items |-> <<>>, total |-> 0, shown |-> -1,
             loading |-> ~OfTenant, saving |-> FALSE,
             deleting |-> None, mode |-> "closed", editing |-> None, product |-> None]
    BY <1>1, <2>1 DEF Init
  <2>3. QED
    BY <2>2 DEF IsList, Fields
<1>4. ListFits(o) /\ o.shown <= version
  <2>1. OfTenant \in BOOLEAN
    BY DEF OfTenant
  <2>2. SectionFits(o) /\ DialogFits(o)
    BY <1>3 DEF SectionFits, DialogFits
  <2>3. o.page \in Int /\ o.shown \in Int /\ o.shown <= version
    <3>1. o.page = 1 /\ o.shown = -1 /\ version = 0
      BY <1>2, <1>3
    <3>2. QED
      BY <3>1
  <2>4. o.loading \in BOOLEAN /\ o.saving \in BOOLEAN /\ o.mode \in {"closed", "create", "edit"}
    BY <1>3, <2>1
  <2>5. QED
    BY <1>3, <2>2, <2>3, <2>4 DEF ListFits
<1>5. PICK r : r = IF OfTenant THEN Ask(Selection(o), "tenants") ELSE Ask(Selection(o), "effect")
  OBVIOUS
<1>6. /\ reqs = {r} /\ RequestFits(r, o) /\ AnswerFits(r) /\ r.answer = Unanswered
      /\ r.by = IF OfTenant THEN "tenants" ELSE "effect"
  BY <1>2, <1>3, <1>5, AskFits
<1>7. IndicatorsFit(o, {}, reqs)
  <2>1. SaveRequests(reqs) = {} /\ SavesOf({}) = {}
    BY <1>6 DEF SaveRequests, SavesOf
  <2>2. OneSave(o.saving, SavesOf({}), SaveRequests(reqs))
    BY <1>3, <2>1 DEF OneSave
  <2>3. LoadingAwaits(o, reqs) /\ DeletionAwaits(o, {}, reqs)
    BY <1>3, <1>6 DEF LoadingAwaits, DeletionAwaits, Awaits
  <2>4. QED
    BY <2>2, <2>3 DEF IndicatorsFit
<1>8. Comes(o, reqs, FALSE)
  BY <1>3, <1>6 DEF Comes, HasList, AsksNewest, Asking
<1>9. QED
  BY <1>1, <1>2, <1>4, <1>6, <1>7, <1>8 DEF ListInv, Drawable

\* What the user does.
LEMMA UserKeeps ==
  ASSUME ListInv, User
  PROVE  ListInv'
<1>1. UserStep
  BY UserSteps
<1>2. CASE Submits
  BY <1>2, SubmitKeeps DEF Submits
<1>3. QED
  BY <1>1, <1>2, ChoiceKeeps, PageChangeKeeps, DeleteKeeps DEF UserStep

\* What the server and the network do.
LEMMA NetworkKeeps ==
  ASSUME ListInv, Network
  PROVE  ListInv'
<1>1. CASE SaveEnds
  BY <1>1, SaveSucceedsKeeps, SaveFailsKeeps DEF SaveEnds
<1>2. CASE DeleteEnds
  BY <1>2, DeleteSucceedsKeeps, DeleteFailsKeeps DEF DeleteEnds
<1>3. CASE \E by \in {"effect", "save", "delete", "poll"} : Answers(by)
  BY <1>3, ServerAnswersKeeps, ArriveKeeps, FailKeeps DEF Answers
<1>4. CASE \E r \in requests : \/ TenantsArrive(r) \/ ProductsArrive(r)
                               \/ r.by \in {"tenants", "products"} /\ Fail(r)
  BY <1>4, TenantsArriveKeeps, ProductsArriveKeeps, FailKeeps
<1>5. QED
  BY <1>1, <1>2, <1>3, <1>4 DEF Network

\* A step of nobody leaves everything as it is.
LEMMA StutterKeeps ==
  ASSUME ListInv, UNCHANGED listVars
  PROVE  ListInv'
<1>1. PICK o, reqs, cs : \E d \in BOOLEAN : Held(o, reqs, cs, d)
  BY Holds
<1>2. PICK d \in BOOLEAN : Held(o, reqs, cs, d)
  BY <1>1
<1>3. PICK n : n = list'
  OBVIOUS
<1>4. /\ n = o /\ reqs = requests' /\ cs = calls' /\ d = disturbed'
      /\ section' = section /\ UNCHANGED serverVars /\ version' = version /\ version \in Nat
  BY <1>2, <1>3 DEF Held, ListInv, listVars, serverVars
<1>5. /\ Same(n, list) /\ n.loading \in BOOLEAN /\ n.saving \in BOOLEAN
      /\ version' \in Nat /\ version <= version' /\ \A c \in cs : CallFits(c)
      /\ IndicatorsFit(n, cs, reqs)
  BY <1>2, <1>4 DEF Held, ListFits, Same
<1>6. Comes(n, reqs, d) /\ \A r \in reqs : RequestFits(r, n) /\ AnswerFits(r)
  BY <1>2, <1>4 DEF Held
<1>7. Comes(n, reqs, d)' /\ \A r \in reqs : AnswerFits(r)'
  BY <1>4, <1>6, RowsStay
<1>8. QED
  BY <1>3, <1>4, <1>5, <1>6, <1>7, SameKeeps

\* The inductive invariant holds of every state.
LEMMA ListsHold == Spec => []ListInv
<1>1. Init => ListInv
  BY InitFits
<1>2. ListInv /\ [Next]_listVars => ListInv'
  <2>1. SUFFICES ASSUME ListInv, [Next]_listVars
                 PROVE  ListInv'
    OBVIOUS
  <2>2. CASE UNCHANGED listVars
    BY <2>1, <2>2, StutterKeeps
  <2>3. CASE User
    BY <2>1, <2>3, UserKeeps
  <2>4. CASE Network
    BY <2>1, <2>4, NetworkKeeps
  <2>5. CASE Poll
    BY <2>1, <2>5, PollKeeps
  <2>6. QED
    BY <2>1, <2>2, <2>3, <2>4, <2>5 DEF Next
<1>3. QED
  BY <1>1, <1>2, PTL DEF Spec

\* Once everything is answered the table shows the rows the server has for what is
\* selected, unless a question failed or an answer came out of order: an answer that
\* reloads an earlier selection may come at any time, but none takes the place of the
\* newest rows unnoticed.
THEOREM ListsShowTheSelection == Spec => []SettledShowsSelection
<1>1. ASSUME ListInv, Settled, ~disturbed
      PROVE  Newest(list)
  BY <1>1 DEF ListInv, Comes, Settled
<1>2. ListInv => SettledShowsSelection
  BY <1>1 DEF Newest, Shows, SettledShowsSelection
<1>3. QED
  BY <1>2, ListsHold, PTL

\* The save button is disabled exactly while one save, or its reload, is under way, and
\* the other indicators stay on only while what puts them out is awaited: no error and
\* no answer that is ignored leaves a button disabled for good.
THEOREM ListIndicatorsAreAwaited == Spec => []IndicatorsAreAwaited
<1>1. ASSUME ListInv
      PROVE  IndicatorsAreAwaited
  <2>1. IndicatorsFit(list, calls, requests)
    BY <1>1 DEF ListInv, Drawable
  <2>2. Saves = SavesOf(calls) /\ SaveRequests(requests) = {r \in requests : r.by = "save"}
    BY DEF Saves, SavesOf, SaveRequests
  <2>3. \A S : Single(S) => Cardinality(S) = 1
    BY FS_Singleton DEF Single
  <2>4. Cardinality({}) = 0
    BY FS_EmptySet
  <2>5. Cardinality(SavesOf(calls)) + Cardinality(SaveRequests(requests)) = IF list.saving THEN 1 ELSE 0
    BY <2>1, <2>3, <2>4 DEF IndicatorsFit, OneSave
  <2>6. list.loading => \E r \in requests : r.by \in {"effect", "save", "delete"}
    BY <2>1 DEF IndicatorsFit, LoadingAwaits, Awaits
  <2>7. list.deleting # None => Deletions # {} \/ \E r \in requests : r.by = "delete"
    BY <2>1 DEF IndicatorsFit, DeletionAwaits, Awaits, Deletions
  <2>8. QED
    BY <2>2, <2>5, <2>6, <2>7 DEF IndicatorsAreAwaited
<1>2. QED
  BY <1>1, ListsHold, PTL

\* A device is created under a product of its tenant once the tenant's products are
\* listed, whenever its dialog was opened and whatever tenant was selected meanwhile.
THEOREM DevicesFitTheirTenant == Spec => []CreateFitsTenant
<1>1. ListInv => CreateFitsTenant
  BY DEF ListInv, CallFits, CreateFitsTenant
<1>2. QED
  BY <1>1, ListsHold, PTL

----------------------------------------------------------------------------
(* How many rows there are, and on how many pages. *)

\* A list of rows has as many of them as there are.
LEMMA ListedLength ==
  ASSUME RowsTyped, NEW tenant, NEW product
  PROVE  /\ IsFiniteSet(RowsOf(tenant, product))
         /\ HowMany(tenant, product) \in Nat
         /\ Listed(tenant, product) \in [1 .. HowMany(tenant, product) -> {Listed(tenant, product)[i] : i \in 1 .. HowMany(tenant, product)}]
         /\ Len(Listed(tenant, product)) = HowMany(tenant, product)
<1>1. RowsOf(tenant, product) \in SUBSET rows /\ IsFiniteSet(rows)
  BY DEF RowsOf, RowsTyped
<1>2. IsFiniteSet(RowsOf(tenant, product))
  BY <1>1, FS_Subset
<1>3. HowMany(tenant, product) \in Nat
  BY <1>2, FS_CardinalityType DEF HowMany
<1>4. PICK n \in Nat : n = HowMany(tenant, product)
  BY <1>3
<1>5. PICK all : all = Listed(tenant, product)
  OBVIOUS
<1>6. all = [i \in 1 .. n |-> all[i]]
  <2>1. PICK S : S = RowsOf(tenant, product)
    OBVIOUS
  <2>2. all = NewestFirst(S) /\ n = Cardinality(S)
    BY <1>4, <1>5, <2>1 DEF HowMany, Listed
  <2> DEFINE nth(i) == CHOOSE r \in S : Cardinality({s \in S : s.id > r.id}) = i - 1
  <2>3. all = [i \in 1 .. n |-> nth(i)]
    BY <2>2, Zenon DEF NewestFirst
  <2> HIDE DEF nth
  <2>4. QED
    BY <2>3
<1>7. all \in [1 .. n -> {all[i] : i \in 1 .. n}] /\ Len(all) = n
  BY <1>6
<1>8. QED
  BY <1>2, <1>3, <1>4, <1>5, <1>7

\* The number of pages: a page is one of them if the rows before it are not all.
LEMMA PagesOf ==
  ASSUME NEW total \in Nat, NEW size \in Nat \ {0}, NEW page \in Int
  PROVE  /\ TotalPages(total, size) \in Nat
         /\ PageThere(page, size, total) <=> page <= TotalPages(total, size)
<1> DEFINE q == (total + size - 1) \div size
<1>1. /\ q \in Nat
      /\ size * q <= total + size - 1 /\ total + size - 1 < size * (q + 1)
  <2>1. total + size - 1 \in Nat
    OBVIOUS
  <2>2. QED
    BY <2>1
<1>2. PICK p \in Nat : p = q
  BY <1>1
<1>3. /\ size * p <= total + size - 1 /\ total + size - 1 < size * (p + 1)
      /\ TotalPages(total, size) = AtLeast(1, p)
  BY <1>1, <1>2 DEF TotalPages
<1> HIDE DEF q
<1>4. TotalPages(total, size) \in Nat
  BY <1>3 DEF AtLeast
<1>5. PICK b \in Int : b = (page - 1) * size
  OBVIOUS
<1>6. ASSUME page <= p
      PROVE  b < total
  <2>1. page * size <= p * size
    BY <1>6
  <2>2. page * size = b + size /\ p * size = size * p
    BY <1>5
  <2>3. QED
    BY <1>3, <1>5, <2>1, <2>2
<1>7. ASSUME page > p
      PROVE  ~(b < total)
  <2>1. (p + 1) * size <= page * size
    BY <1>7
  <2>2. page * size = b + size /\ (p + 1) * size = size * p + size /\ size * (p + 1) = size * p + size
    BY <1>5
  <2>3. size * p \in Int
    OBVIOUS
  <2>4. QED
    BY <1>3, <1>5, <2>1, <2>2, <2>3
<1>8. PageThere(page, size, total) <=> (page <= 1 \/ b < total)
  BY <1>5 DEF PageThere
<1>9. page <= TotalPages(total, size) <=> (page <= 1 \/ page <= p)
  BY <1>3 DEF AtLeast
<1>10. QED
  BY <1>4, <1>6, <1>7, <1>8, <1>9

\* A page is a part of the list, and its rows with those before it are no more than all.
LEMMA PageOfType ==
  ASSUME NEW T, NEW all, NEW n \in Nat, all \in [1 .. n -> T], NEW page \in Nat \ {0}, NEW size \in Nat \ {0}
  PROVE  /\ PageOf(all, page, size) \in Seq(T)
         /\ Len(PageOf(all, page, size)) \in Nat
         /\ Len(PageOf(all, page, size)) >= 1 =>
                (page - 1) * size + Len(PageOf(all, page, size)) <= n
<1>1. PICK b \in Nat : b = (page - 1) * size
  OBVIOUS
<1>2. page * size = b + size
  BY <1>1
<1>3. Len(all) = n
  OBVIOUS
<1>4. PICK last \in Nat : last = AtMost(page * size, n) /\ last <= n
  BY <1>2 DEF AtMost
<1>5. PageOf(all, page, size) = SubSeq(all, b + 1, last)
  BY <1>1, <1>3, <1>4 DEF PageOf
<1>6. \A i \in b + 1 .. last : all[i] \in T
  BY <1>4
<1>7. /\ SubSeq(all, b + 1, last) \in Seq(T)
      /\ Len(SubSeq(all, b + 1, last)) = IF b + 1 <= last THEN last - (b + 1) + 1 ELSE 0
  BY <1>6, SubSeqProperties
<1>8. Len(PageOf(all, page, size)) \in Nat
  BY <1>4, <1>5, <1>7
<1>9. Len(PageOf(all, page, size)) >= 1 => b + Len(PageOf(all, page, size)) <= n
  BY <1>4, <1>5, <1>7
<1>10. QED
  BY <1>1, <1>5, <1>7, <1>8, <1>9

----------------------------------------------------------------------------
(* What depends on the rows. *)

LEMMA SameRows ==
  ASSUME section' = section, rows' = rows
  PROVE  /\ \A t, p : /\ RowsOf(t, p)' = RowsOf(t, p) /\ HowMany(t, p)' = HowMany(t, p)
                      /\ Listed(t, p)' = Listed(t, p)
         /\ \A l : Foreign(l)' = Foreign(l)
<1>1. OfTenant' = OfTenant /\ OfProduct' = OfProduct
  BY DEF OfTenant, OfProduct
<1>2. ASSUME NEW t, NEW p
      PROVE  RowsOf(t, p)' = RowsOf(t, p)
  BY <1>1 DEF RowsOf
<1>3. ASSUME NEW t, NEW p
      PROVE  HowMany(t, p)' = HowMany(t, p) /\ Listed(t, p)' = Listed(t, p)
  BY <1>2 DEF HowMany, Listed
<1>4. ASSUME NEW l
      PROVE  Foreign(l)' = Foreign(l)
  BY <1>1 DEF Foreign
<1>5. QED
  BY <1>2, <1>3, <1>4

\* A deletion takes one row at most.
LEMMA FewerRows ==
  ASSUME RowsTyped, section' = section, NEW row, rows' = rows \ {row}, NEW t, NEW p
  PROVE  /\ HowMany(t, p) \in Nat /\ HowMany(t, p)' \in Nat
         /\ HowMany(t, p)' >= HowMany(t, p) - 1
<1>1. IsFiniteSet(RowsOf(t, p)) /\ HowMany(t, p) \in Nat
  BY ListedLength
<1>2. RowsOf(t, p)' = RowsOf(t, p) \ {row}
  BY DEF RowsOf, OfTenant
<1>3. Cardinality(RowsOf(t, p) \ {row}) = IF row \in RowsOf(t, p) THEN HowMany(t, p) - 1 ELSE HowMany(t, p)
  BY <1>1, FS_RemoveElement DEF HowMany
<1>4. IsFiniteSet(RowsOf(t, p) \ {row})
  BY <1>1, FS_RemoveElement
<1>5. Cardinality(RowsOf(t, p) \ {row}) \in Nat
  BY <1>4, FS_CardinalityType
<1>6. HowMany(t, p)' = Cardinality(RowsOf(t, p) \ {row})
  BY <1>2 DEF HowMany
<1>7. QED
  BY <1>1, <1>3, <1>5, <1>6

\* A row that is saved takes none.
LEMMA MoreRows ==
  ASSUME RowsTyped, section' = section, rows \subseteq rows', IsFiniteSet(rows'), NEW t, NEW p
  PROVE  /\ HowMany(t, p) \in Nat /\ HowMany(t, p)' \in Nat
         /\ HowMany(t, p)' >= HowMany(t, p)
<1>1. HowMany(t, p) \in Nat
  BY ListedLength
<1>2. RowsOf(t, p) \in SUBSET (RowsOf(t, p)') /\ RowsOf(t, p)' \in SUBSET rows'
  BY DEF RowsOf, OfTenant
<1>3. IsFiniteSet(RowsOf(t, p)')
  BY <1>2, FS_Subset
<1>4. Cardinality(RowsOf(t, p)') \in Nat /\ Cardinality(RowsOf(t, p)) <= Cardinality(RowsOf(t, p)')
  BY <1>2, <1>3, FS_Subset, FS_CardinalityType
<1>5. QED
  BY <1>1, <1>4 DEF HowMany

\* No row is of another tenant than its product's, or of none.
LEMMA ForeignEmpty ==
  ASSUME RowsTyped, NEW l, Foreign(l)
  PROVE  HowMany(l.tenant, l.filter) = 0
<1>1. ASSUME NEW r \in RowsOf(l.tenant, l.filter)
      PROVE  FALSE
  <2>1. OfTenant /\ r \in rows /\ r.tenant = l.tenant /\ (l.filter # None => r.product = l.filter)
    BY DEF RowsOf, Foreign
  <2>2. QED
    BY <2>1 DEF Foreign, RowsTyped
<1>2. RowsOf(l.tenant, l.filter) = {}
  BY <1>1
<1>3. QED
  BY <1>2, FS_EmptySet DEF HowMany

----------------------------------------------------------------------------
(* Drawing the page. *)

\* Two lists that differ at most in what is loading.
Alike(n, l) ==
    /\ n.tenants = l.tenants /\ n.tenant = l.tenant /\ n.filter = l.filter /\ n.products = l.products
    /\ n.page = l.page /\ n.size = l.size /\ n.items = l.items /\ n.total = l.total /\ n.shown = l.shown
    /\ n.saving = l.saving /\ n.deleting = l.deleting /\ n.mode = l.mode /\ n.editing = l.editing
    /\ n.product = l.product

\* A question under way when page l is drawn: it was just asked, or was awaited.
Kept(m, l, awaited) ==
    \/ m.sel = Selection(l) /\ m.answer = Unanswered
    \/ \E r \in awaited : /\ m.by = r.by /\ m.sel = r.sel /\ m.answer = r.answer
                          /\ m.by = "products" /\ OfProduct => l.tenant = list.tenant

LEMMA Rendered ==
  ASSUME NEW l, IsList(l), NEW awaited, \A r \in awaited : RequestFits(r, list),
         NEW d, Render(l, awaited, d)
  PROVE  /\ Alike(list', l) /\ list'.loading = (l.loading \/ Deps(l) # Deps(list))
         /\ disturbed' = (Deps(l) = Deps(list) /\ d)
         /\ \A m \in requests' : Kept(m, l, awaited)
<1>1. PICK asks \in BOOLEAN, moved \in BOOLEAN, products \in BOOLEAN :
          /\ asks = (Deps(l) # Deps(list))
          /\ moved = (<<l.tenant, l.filter, l.size>> # <<list.tenant, list.filter, list.size>>)
          /\ products = (OfProduct /\ l.tenant # list.tenant)
  BY DEF OfProduct
<1>2. /\ list' = [l EXCEPT !.loading = l.loading \/ asks]
      /\ requests' = Drawn(l, awaited, asks, moved, products)
      /\ disturbed' = (~asks /\ d)
  BY <1>1 DEF Render, Drawn, Marked
<1>3. Alike(list', l) /\ list'.loading = (l.loading \/ asks)
  <2>1. PICK loading, n : loading = (l.loading \/ asks) /\ n = [l EXCEPT !.loading = loading]
    OBVIOUS
  <2>2. Alike(n, l) /\ n.loading = loading
    BY <2>1 DEF IsList, Fields, Alike
  <2>3. QED
    BY <1>2, <2>1, <2>2
<1>4. ASSUME NEW m \in requests'
      PROVE  Kept(m, l, awaited)
  <2>1. CASE m \in {Ask(Selection(l), "effect"), Ask(Selection(l), "products")}
    BY <2>1 DEF Ask, Kept
  <2>2. CASE \E r \in awaited : m = Marked(r, moved) /\ (products => r.by # "products")
    <3>1. PICK r \in awaited : m = Marked(r, moved) /\ (products => r.by # "products")
      BY <2>2
    <3>2. m.by = r.by /\ m.sel = r.sel /\ m.answer = r.answer
      BY <3>1, MarkedFields
    <3>3. QED
      BY <1>1, <3>1, <3>2 DEF Kept
  <2>3. QED
    BY <1>2, <2>1, <2>2 DEF Drawn
<1>5. asks = TRUE <=> Deps(l) # Deps(list)
  BY <1>1
<1>6. CASE Deps(l) # Deps(list)
  <2>1. asks = TRUE
    BY <1>5, <1>6
  <2>2. list'.loading = TRUE /\ disturbed' = FALSE
    BY <1>2, <1>3, <2>1
  <2>3. QED
    BY <1>3, <1>4, <1>6, <2>2
<1>7. CASE Deps(l) = Deps(list)
  <2>1. asks = FALSE
    BY <1>5, <1>7
  <2>2. list'.loading = (l.loading \/ FALSE) /\ disturbed' = (TRUE /\ d)
    BY <1>2, <1>3, <2>1
  <2>3. QED
    BY <1>3, <1>4, <1>7, <2>2
<1>8. QED
  BY <1>6, <1>7

\* The invariant of the pages from its parts.
LEMMA PagesAssembled ==
  ASSUME NEW n, n = list', NEW e, e = disturbed', NEW z, z = raced',
         NEW reqs, reqs = requests', NEW cs, cs = calls',
         PageFits(n, e, z)', CallsCount(cs, z)', ProductsAsked(reqs, n)
  PROVE  PagesFit'
<1>1. PageFits(list, disturbed, raced)'
  BY DEF PageFits, Foreign, Shows
<1>2. CallsCount(calls, raced)' /\ ProductsAsked(requests, list)'
  BY DEF CallsCount, Counts, ProductsAsked
<1>3. QED
  BY <1>1, <1>2 DEF PagesFit

\* A page is drawn that exists, shows the rows and is of the tenant.
LEMMA RenderedPages ==
  ASSUME ListInv, section' = section,
         NEW l, ListFits(l), NEW awaited, \A r \in awaited : RequestFits(r, list),
         NEW d \in BOOLEAN, Render(l, awaited, d),
         CallsCount(calls, raced)',
         ProductsAsked(awaited, list),
         ~raced' /\ (Deps(l) # Deps(list) \/ ~d) => PageThere(l.page, l.size, HowMany(l.tenant, l.filter)'),
         ~raced' /\ Deps(l) = Deps(list) /\ ~d /\ ~l.loading /\ l.shown = version' =>
             Shows(l, Listed(l.tenant, l.filter)'),
         ~raced' /\ Foreign(l) => l.page <= 1
  PROVE  PagesFit'
<1>1. PICK n, e, z, reqs, cs : n = list' /\ e = disturbed' /\ z = raced' /\ reqs = requests' /\ cs = calls'
  OBVIOUS
<1>2. /\ Alike(n, l) /\ n.loading = (l.loading \/ Deps(l) # Deps(list))
      /\ e = (Deps(l) = Deps(list) /\ d)
      /\ \A m \in reqs : Kept(m, l, awaited)
  BY <1>1, Rendered DEF ListFits
<1>3. PageFits(n, e, z)'
  <2>1. ~z /\ ~e => PageThere(n.page, n.size, HowMany(n.tenant, n.filter)')
    BY <1>1, <1>2 DEF Alike
  <2>2. ~z /\ ~e /\ ~n.loading /\ n.shown = version' => Shows(n, Listed(n.tenant, n.filter)')
    BY <1>1, <1>2 DEF Alike, Shows
  <2>3. ~z /\ Foreign(n) => n.page <= 1
    BY <1>1, <1>2 DEF Alike, Foreign
  <2>4. Foreign(n)' = Foreign(n)
    BY DEF Foreign, OfTenant, OfProduct
  <2>5. QED
    BY <2>1, <2>2, <2>3, <2>4 DEF PageFits, Shows
<1>4. ProductsAsked(reqs, n)
  <2>1. ASSUME NEW m \in reqs, m.by = "products"
        PROVE  m.sel.tenant = n.tenant
    <3>1. n.tenant = l.tenant
      BY <1>2 DEF Alike
    <3>2. CASE m.sel = Selection(l)
      BY <3>1, <3>2 DEF Selection
    <3>3. CASE \E r \in awaited : /\ m.by = r.by /\ m.sel = r.sel
                                  /\ OfProduct => l.tenant = list.tenant
      BY <2>1, <3>1, <3>3 DEF ProductsAsked, RequestFits
    <3>4. QED
      BY <1>2, <2>1, <3>2, <3>3 DEF Kept
  <2>2. QED
    BY <2>1 DEF ProductsAsked
<1>5. CallsCount(cs, z)'
  BY <1>1 DEF CallsCount, Counts
<1>6. QED
  BY <1>1, <1>3, <1>4, <1>5, PagesAssembled

----------------------------------------------------------------------------
(* The page after each step. *)

\* The three invariants together.
PageInv == ListInv /\ TypesFit /\ PagesFit

\* Calls that are not new still count while the rows stay, or are of an earlier version.
LEMMA CallsStay ==
  ASSUME PageInv, section' = section, calls' \subseteq calls, raced => raced',
         (rows' = rows /\ version' = version) \/ version' = version + 1
  PROVE  CallsCount(calls, raced)'
<1>1. version \in Nat /\ (\A c \in calls : c.shown \in Int /\ c.shown <= version)
      /\ (~raced => \A c \in calls : c.kind = "delete" /\ c.shown = version => Counts(c))
  BY DEF PageInv, ListInv, TypesFit, CallTyped, PagesFit, CallsCount
<1>2. CASE rows' = rows /\ version' = version
  <2>1. \A t, p : HowMany(t, p)' = HowMany(t, p)
    BY <1>2, SameRows
  <2>2. \A c : Counts(c)' = Counts(c)
    BY <2>1 DEF Counts
  <2>3. QED
    BY <1>1, <1>2, <2>2 DEF CallsCount
<1>3. CASE version' = version + 1
  <2>1. \A c \in calls' : c.shown <= version' /\ c.shown # version'
    BY <1>1, <1>3
  <2>2. QED
    BY <2>1 DEF CallsCount
<1>4. QED
  BY <1>2, <1>3

\* Something is chosen, or listed to choose from: the list starts from its first page
\* then, or is the same.
LEMMA ChosenPages ==
  ASSUME PageInv, UNCHANGED <<section, calls, serverVars, raced>>,
         NEW l, ListFits(l), Rechosen(l, list),
         raced \/ l.page <= 1 \/ Selection(l) = Selection(list),
         NEW awaited, awaited \subseteq requests,
         Render(l, awaited, disturbed)
  PROVE  PagesFit'
<1>1. /\ ListInv /\ section \in Sections /\ disturbed \in BOOLEAN /\ ListFits(list)
      /\ \A r \in awaited : RequestFits(r, list)
  BY DEF PageInv, ListInv, Drawable
<1>2. section' = section /\ rows' = rows /\ version' = version /\ raced' = raced
  BY DEF serverVars
<1>3. PageFits(list, disturbed, raced) /\ ProductsAsked(awaited, list)
  BY DEF PageInv, PagesFit, ProductsAsked
<1>4. CallsCount(calls, raced)'
  BY <1>2, CallsStay
<1>5. ASSUME Selection(l) = Selection(list)
      PROVE  /\ l.tenant = list.tenant /\ l.filter = list.filter
             /\ l.page = list.page /\ l.size = list.size
             /\ Deps(l) = Deps(list)
  <2>1. /\ l.tenant = list.tenant /\ l.filter = list.filter
        /\ l.page = list.page /\ l.size = list.size
    BY <1>5 DEF Selection
  <2>2. QED
    BY <2>1 DEF Deps, TenantDeps, ProductDeps, DeviceDeps, ModelDeps, AuditDeps
<1>6. ASSUME Deps(l) = Deps(list)
      PROVE  Selection(l) = Selection(list)
  BY <1>1, <1>6, DepsTell DEF ListFits
<1>7. ~raced' /\ (Deps(l) # Deps(list) \/ ~disturbed) => PageThere(l.page, l.size, HowMany(l.tenant, l.filter)')
  <2>1. CASE l.page <= 1
    BY <2>1 DEF PageThere
  <2>2. CASE Selection(l) = Selection(list)
    BY <1>2, <1>3, <1>5, <2>2, SameRows DEF PageFits
  <2>3. QED
    BY <1>2, <2>1, <2>2
<1>8. ASSUME ~raced', Deps(l) = Deps(list), ~disturbed, ~l.loading, l.shown = version'
      PROVE  Shows(l, Listed(l.tenant, l.filter)')
  BY <1>2, <1>3, <1>5, <1>6, <1>8, SameRows DEF PageFits, Rechosen, Shows
<1>9. ASSUME ~raced', Foreign(l)
      PROVE  l.page <= 1
  BY <1>2, <1>3, <1>5, <1>9 DEF PageFits, Foreign
<1>10. QED
  BY <1>1, <1>2, <1>3, <1>4, <1>7, <1>8, <1>9, RenderedPages

\* Steps that do not draw the page: the rows stay, or the page is disturbed.
LEMMA SamePages ==
  ASSUME PageInv, section' = section,
         Same(list', list),
         raced => raced',
         \/ rows' = rows /\ version' = version /\ disturbed' = disturbed /\ list'.loading = list.loading
         \/ disturbed' = TRUE,
         CallsCount(calls, raced)',
         ProductsAsked(requests, list)'
  PROVE  PagesFit'
<1>1. PICK n, e, z, reqs, cs : n = list' /\ e = disturbed' /\ z = raced' /\ reqs = requests' /\ cs = calls'
  OBVIOUS
<1>2. /\ n.tenant = list.tenant /\ n.filter = list.filter /\ n.page = list.page /\ n.size = list.size
      /\ n.items = list.items /\ n.total = list.total /\ n.shown = list.shown
  BY <1>1 DEF Same
<1>3. PageFits(list, disturbed, raced)
  BY DEF PageInv, PagesFit
<1>4. ~z /\ Foreign(n)' => n.page <= 1
  <2>1. Foreign(n)' = Foreign(list)
    BY <1>2 DEF Foreign, OfTenant, OfProduct
  <2>2. QED
    BY <1>1, <1>2, <1>3, <2>1 DEF PageFits
<1>5. ASSUME disturbed' = TRUE
      PROVE  PageFits(n, e, z)'
  BY <1>1, <1>4, <1>5 DEF PageFits
<1>6. ASSUME rows' = rows, version' = version, disturbed' = disturbed, list'.loading = list.loading
      PROVE  PageFits(n, e, z)'
  <2>1. /\ HowMany(n.tenant, n.filter)' = HowMany(list.tenant, list.filter)
        /\ Listed(n.tenant, n.filter)' = Listed(list.tenant, list.filter)
    BY <1>2, <1>6, SameRows
  <2>2. ~z /\ ~e => PageThere(n.page, n.size, HowMany(n.tenant, n.filter)')
    BY <1>1, <1>2, <1>3, <1>6, <2>1 DEF PageFits
  <2>3. ~z /\ ~e /\ ~n.loading /\ n.shown = version' => Shows(n, Listed(n.tenant, n.filter)')
    BY <1>1, <1>2, <1>3, <1>6, <2>1 DEF PageFits, Shows
  <2>4. QED
    BY <1>4, <2>2, <2>3 DEF PageFits, Shows
<1>7. PageFits(n, e, z)'
  BY <1>5, <1>6
<1>8. CallsCount(cs, z)' /\ ProductsAsked(reqs, n)
  BY <1>1 DEF CallsCount, Counts, ProductsAsked
<1>9. QED
  BY <1>1, <1>7, <1>8, PagesAssembled

LEMMA ChoicePages ==
  ASSUME PageInv, NEW l, Choice(l)
  PROVE  PagesFit'
<1>1. UNCHANGED <<section, calls, serverVars, raced>> /\ Render(l, requests, disturbed)
  BY DEF Choice, Choose
<1>2. QED
  BY <1>1, ChosenPages DEF Choice

\* A page is turned of a list that is up to date, to one that it counts.
LEMMA PageChangePages ==
  ASSUME PageInv, NEW n \in Int, OnPageChange(n)
  PROVE  PagesFit'
<1>1. PICK l : l = Turned(n)
  OBVIOUS
<1>2. /\ Render(l, requests, disturbed) /\ section' = section /\ UNCHANGED <<calls, serverVars>>
      /\ raced' = (raced \/ list.loading \/ disturbed \/ list.shown # version)
      /\ n \in PageTargets(list.page, list.total, list.size, list.loading)
  BY <1>1 DEF OnPageChange, Turned
<1>3. rows' = rows /\ version' = version /\ calls' = calls
  BY <1>2 DEF serverVars
<1>4. /\ ListInv /\ ListFits(list) /\ disturbed \in BOOLEAN
      /\ \A r \in requests : RequestFits(r, list)
      /\ list.size \in Nat \ {0} /\ list.total \in Nat /\ RowsTyped
      /\ PageFits(list, disturbed, raced) /\ ProductsAsked(requests, list)
  BY ListWorld DEF PageInv, ListInv, Drawable, PagesFit, TypesFit, ListTyped
<1>5. /\ ListFits(l) /\ l.page = n /\ l.size = list.size /\ l.tenant = list.tenant
      /\ l.filter = list.filter /\ l.loading = list.loading
  BY <1>1, <1>4, TurnedFits DEF Rechosen
<1>6. CallsCount(calls, raced)'
  BY <1>2, <1>3, CallsStay
<1>7. ASSUME ~raced'
      PROVE  /\ ~raced /\ ~disturbed /\ Shows(list, Listed(list.tenant, list.filter))
             /\ PageThere(n, list.size, HowMany(list.tenant, list.filter))
  <2>1. ~raced /\ ~disturbed /\ ~list.loading /\ list.shown = version
    BY <1>2, <1>7
  <2>2. Shows(list, Listed(list.tenant, list.filter))
    BY <1>4, <2>1 DEF PageFits
  <2>3. list.total = HowMany(list.tenant, list.filter) /\ list.page >= 1
    BY <1>4, <2>2, ListedLength DEF Shows
  <2>4. TotalPages(list.total, list.size) \in Nat /\ TotalPages(list.total, list.size) >= 1
    BY <1>4, PagesOf DEF TotalPages, AtLeast
  <2>5. PageThere(list.page, list.size, list.total)
    BY <1>4, <2>1, <2>3 DEF PageFits
  <2>6. list.page <= TotalPages(list.total, list.size)
    BY <1>4, <2>5, PagesOf DEF ListFits
  <2>7. n <= TotalPages(list.total, list.size)
    BY <1>2, <1>4, <2>3, <2>4, <2>6 DEF PageTargets, JumpPage, AtMost, AtLeast, ListFits
  <2>8. PageThere(n, list.size, list.total)
    BY <1>4, <2>7, PagesOf
  <2>9. QED
    BY <2>1, <2>2, <2>3, <2>8
<1>8. ~raced' /\ (Deps(l) # Deps(list) \/ ~disturbed) => PageThere(l.page, l.size, HowMany(l.tenant, l.filter)')
  BY <1>2, <1>3, <1>5, <1>7, SameRows
<1>9. ASSUME ~raced', Deps(l) = Deps(list)
      PROVE  Shows(l, Listed(l.tenant, l.filter)')
  <2>1. l.page = list.page
    BY <1>4, <1>9, TurnAsks DEF ListInv
  <2>2. l.items = list.items /\ l.total = list.total
    BY <1>1, <1>4, TurnedFits DEF Rechosen
  <2>3. QED
    BY <1>2, <1>3, <1>5, <1>7, <1>9, <2>1, <2>2, SameRows DEF Shows
<1>10. ASSUME ~raced', Foreign(l)
       PROVE  l.page <= 1
  <2>1. Foreign(list)
    BY <1>5, <1>10 DEF Foreign
  <2>2. HowMany(list.tenant, list.filter) = 0
    BY <1>4, <2>1, ForeignEmpty
  <2>3. n <= 1 \/ (n - 1) * list.size < 0
    BY <1>7, <1>10, <2>2 DEF PageThere
  <2>4. n > 1 => (n - 1) * list.size >= 0
    <3>1. n > 1 => n - 1 \in Nat
      OBVIOUS
    <3>2. \A a \in Nat : a * list.size >= 0
      BY <1>4
    <3>3. QED
      BY <3>1, <3>2, <1>4
  <2>5. (n - 1) * list.size \in Int
    BY <1>4
  <2>6. QED
    BY <1>5, <2>3, <2>4, <2>5
<1>11. QED
  BY <1>2, <1>4, <1>5, <1>6, <1>8, <1>9, <1>10, RenderedPages

\* A list with another indicator is the same.
LEMMA SameList ==
  ASSUME NEW o, IsList(o), NEW v
  PROVE  /\ Same(o, o)
         /\ Same([o EXCEPT !.saving = v], o) /\ [o EXCEPT !.saving = v].loading = o.loading
         /\ Same([o EXCEPT !.deleting = v], o) /\ [o EXCEPT !.deleting = v].loading = o.loading
BY DEF Same, IsList, Fields

\* What a call keeps.
LEMMA CallFields ==
  ASSUME NEW kind, NEW row, NEW c, c = Call(kind, row)
  PROVE  /\ c.kind = kind /\ c.row = row /\ c.product = list.product /\ c.sel = Selection(list)
         /\ c.sel.tenant = list.tenant /\ c.sel.filter = list.filter
         /\ c.sel.page = list.page /\ c.sel.size = list.size
         /\ c.items = Len(list.items) /\ c.shown = list.shown
BY DEF Call, Selection

\* A call that is made counts.
LEMMA CallMade ==
  ASSUME PageInv, section' = section, UNCHANGED serverVars, NEW c, calls' = calls \cup {c},
         c.shown <= version, raced => raced',
         ~raced' /\ c.kind = "delete" /\ c.shown = version => Counts(c)
  PROVE  CallsCount(calls, raced)'
<1>1. rows' = rows /\ version' = version
  BY DEF serverVars
<1>2. CallsCount(calls, raced)
  BY DEF PageInv, PagesFit
<1>3. \A b : Counts(b)' = Counts(b)
  BY <1>1, SameRows DEF Counts
<1>4. QED
  BY <1>1, <1>2, <1>3 DEF CallsCount

LEMMA SubmitPages ==
  ASSUME PageInv, Submits
  PROVE  PagesFit'
<1>1. PICK c : c = Call(list.mode, list.editing)
  OBVIOUS
<1>2. /\ calls' = calls \cup {c} /\ list' = [list EXCEPT !.saving = TRUE]
      /\ section' = section /\ requests' = requests /\ UNCHANGED serverVars
      /\ disturbed' = disturbed /\ raced' = raced
  BY <1>1 DEF Submits, HandleSubmit
<1>3. IsList(list) /\ list.mode # "delete" /\ list.shown <= version
  BY DEF PageInv, ListInv, Drawable, ListFits
<1>4. CallsCount(calls, raced)'
  <2>1. c.kind = list.mode /\ c.shown = list.shown
    BY <1>1, CallFields
  <2>2. c.kind # "delete" /\ c.shown <= version
    BY <1>3, <2>1
  <2>3. QED
    BY <1>2, <2>2, CallMade
<1>5. Same(list', list) /\ list'.loading = list.loading
  BY <1>2, <1>3, SameList
<1>6. ProductsAsked(requests, list)'
  BY <1>2, <1>5 DEF PageInv, PagesFit, ProductsAsked, Same
<1>7. rows' = rows /\ version' = version
  BY <1>2 DEF serverVars
<1>8. QED
  BY <1>2, <1>4, <1>5, <1>6, <1>7, SamePages

\* A row that is shown and not out of date is on its page, and was counted.
LEMMA DeletePages ==
  ASSUME PageInv, NEW r \in ShownRows, HandleDelete(r)
  PROVE  PagesFit'
<1>1. PICK c : c = Call("delete", r)
  OBVIOUS
<1>2. /\ calls' = calls \cup {c} /\ list' = [list EXCEPT !.deleting = r]
      /\ section' = section /\ requests' = requests /\ UNCHANGED serverVars
      /\ disturbed' = disturbed /\ raced' = (raced \/ list.loading \/ disturbed)
  BY <1>1 DEF HandleDelete
<1>3. /\ IsList(list) /\ list.shown <= version /\ list.page \in Int
      /\ list.size \in Nat \ {0} /\ list.items \in Seq(Row) /\ RowsTyped
  BY ListWorld DEF PageInv, ListInv, Drawable, ListFits, TypesFit, ListTyped
<1>0. c.shown = list.shown
  BY <1>1, CallFields
<1>4. ASSUME ~raced', c.shown = version
      PROVE  Counts(c)
  <2>1. ~raced /\ ~disturbed /\ ~list.loading /\ list.shown = version
    BY <1>2, <1>4, <1>0
  <2>2. Shows(list, Listed(list.tenant, list.filter))
    BY <2>1 DEF PageInv, PagesFit, PageFits
  <2>3. PICK n \in Nat : n = HowMany(list.tenant, list.filter)
    BY <1>3, ListedLength
  <2>4. PICK all, T : all = Listed(list.tenant, list.filter) /\ all \in [1 .. n -> T]
    BY <1>3, <2>3, ListedLength
  <2>5. list.page >= 1 /\ list.items = PageOf(all, list.page, list.size)
    BY <2>2, <2>4 DEF Shows
  <2>6. Len(list.items) >= 1 /\ Len(list.items) \in Nat
    BY <1>3 DEF ShownRows
  <2>7. (list.page - 1) * list.size + Len(list.items) <= n
    <3>1. list.page \in Nat \ {0} /\ Len(PageOf(all, list.page, list.size)) >= 1
      BY <1>3, <2>5, <2>6
    <3>2. (list.page - 1) * list.size + Len(PageOf(all, list.page, list.size)) <= n
      BY <1>3, <2>4, <3>1, PageOfType
    <3>3. QED
      BY <2>5, <3>2
  <2>8. QED
    BY <1>1, <2>3, <2>5, <2>6, <2>7, CallFields DEF Counts
<1>5. CallsCount(calls, raced)'
  BY <1>2, <1>3, <1>4, <1>0, CallMade
<1>6. Same(list', list) /\ list'.loading = list.loading
  BY <1>2, <1>3, SameList
<1>7. ProductsAsked(requests, list)'
  BY <1>2, <1>6 DEF PageInv, PagesFit, ProductsAsked, Same
<1>8. rows' = rows /\ version' = version
  BY <1>2 DEF serverVars
<1>9. QED
  BY <1>2, <1>5, <1>6, <1>7, <1>8, SamePages

LEMMA SaveFailsPages ==
  ASSUME PageInv, NEW c \in Saves, NEW done \in BOOLEAN, SaveFails(c, done)
  PROVE  PagesFit'
<1>1. /\ calls' \subseteq calls /\ list' = [list EXCEPT !.saving = FALSE]
      /\ section' = section /\ requests' = requests /\ raced' = raced
      /\ rows' = (IF done THEN rows \cup Created(c) ELSE rows)
      /\ version' = (IF done THEN version + 1 ELSE version)
      /\ disturbed' = (disturbed \/ done)
  BY DEF SaveFails
<1>2. IsList(list) /\ disturbed \in BOOLEAN
  BY DEF PageInv, ListInv, Drawable, ListFits
<1>3. (rows' = rows /\ version' = version) \/ version' = version + 1
  BY <1>1
<1>4. CallsCount(calls, raced)'
  BY <1>1, <1>3, CallsStay
<1>5. Same(list', list) /\ list'.loading = list.loading
  BY <1>1, <1>2, SameList
<1>6. ProductsAsked(requests, list)'
  BY <1>1, <1>5 DEF PageInv, PagesFit, ProductsAsked, Same
<1>7. \/ rows' = rows /\ version' = version /\ disturbed' = disturbed
      \/ disturbed' = TRUE
  BY <1>1, <1>2
<1>8. QED
  BY <1>1, <1>4, <1>5, <1>6, <1>7, SamePages

LEMMA DeleteFailsPages ==
  ASSUME PageInv, NEW c \in Deletions, NEW done \in BOOLEAN, DeleteFails(c, done)
  PROVE  PagesFit'
<1>1. /\ calls' \subseteq calls /\ list' = [list EXCEPT !.deleting = None]
      /\ section' = section /\ requests' = requests /\ raced' = raced
      /\ rows' = (IF done THEN rows \ {c.row} ELSE rows)
      /\ version' = (IF done THEN version + 1 ELSE version)
      /\ disturbed' = (disturbed \/ done)
  BY DEF DeleteFails
<1>2. IsList(list) /\ disturbed \in BOOLEAN
  BY DEF PageInv, ListInv, Drawable, ListFits
<1>3. (rows' = rows /\ version' = version) \/ version' = version + 1
  BY <1>1
<1>4. CallsCount(calls, raced)'
  BY <1>1, <1>3, CallsStay
<1>5. Same(list', list) /\ list'.loading = list.loading
  BY <1>1, <1>2, SameList
<1>6. ProductsAsked(requests, list)'
  BY <1>1, <1>5 DEF PageInv, PagesFit, ProductsAsked, Same
<1>7. \/ rows' = rows /\ version' = version /\ disturbed' = disturbed
      \/ disturbed' = TRUE
  BY <1>1, <1>2
<1>8. QED
  BY <1>1, <1>4, <1>5, <1>6, <1>7, SamePages

LEMMA FailPages ==
  ASSUME PageInv, NEW r \in requests, Fail(r)
  PROVE  PagesFit'
<1>1. /\ calls' = calls /\ section' = section /\ requests' = requests \ {r} /\ raced' = raced
      /\ list' = (IF r.by \in {"tenants", "products"} THEN list ELSE Finished(list, r.by))
      /\ rows' = rows /\ version' = version
      /\ disturbed' = (disturbed \/ r.by \notin {"tenants", "products"})
  BY DEF Fail, serverVars
<1>2. ListFits(list) /\ IsList(list) /\ disturbed \in BOOLEAN
  BY DEF PageInv, ListInv, Drawable, ListFits
<1>3. CallsCount(calls, raced)'
  BY <1>1, CallsStay
<1>4. /\ Same(list', list)
      /\ (disturbed' = disturbed /\ list'.loading = list.loading) \/ disturbed' = TRUE
  <2>1. CASE r.by \in {"tenants", "products"}
    BY <1>1, <1>2, <2>1, SameList
  <2>2. CASE r.by \notin {"tenants", "products"}
    <3>1. list' = Finished(list, r.by) /\ disturbed' = TRUE
      BY <1>1, <2>2
    <3>2. PICK n : n = list'
      OBVIOUS
    <3>3. Same(n, list)
      BY <1>2, <3>1, <3>2, FinishedFits
    <3>4. QED
      BY <3>1, <3>2, <3>3
  <2>3. QED
    BY <2>1, <2>2
<1>5. ProductsAsked(requests, list)'
  BY <1>1, <1>4 DEF PageInv, PagesFit, ProductsAsked, Same
<1>6. QED
  BY <1>1, <1>3, <1>4, <1>5, SamePages

LEMMA ServerAnswersPages ==
  ASSUME PageInv, NEW r \in requests, ServerAnswers(r)
  PROVE  PagesFit'
<1>1. PICK a : a = [r EXCEPT !.answer = Answer(r.sel)]
  OBVIOUS
<1>2. /\ calls' = calls /\ section' = section /\ raced' = raced /\ list' = list
      /\ rows' = rows /\ version' = version /\ disturbed' = disturbed
      /\ requests' = (requests \ {r}) \cup {a} /\ r.by # "products"
  BY <1>1 DEF ServerAnswers, serverVars
<1>3. IsList(list) /\ RequestFits(r, list)
  BY DEF PageInv, ListInv, Drawable, ListFits
<1>4. a.by = r.by
  BY <1>1, <1>3 DEF RequestFits
<1>5. CallsCount(calls, raced)'
  BY <1>2, CallsStay
<1>6. ProductsAsked(requests, list)'
  BY <1>2, <1>4 DEF PageInv, PagesFit, ProductsAsked
<1>7. Same(list', list)
  BY <1>2, <1>3, SameList
<1>8. QED
  BY <1>2, <1>5, <1>6, <1>7, SamePages

LEMMA PollPages ==
  ASSUME PageInv, Poll
  PROVE  PagesFit'
<1>1. PICK a : a = Ask(Selection(list), "poll")
  OBVIOUS
<1>2. /\ calls' = calls /\ section' = section /\ raced' = raced /\ list' = list
      /\ rows' = rows /\ version' = version /\ disturbed' = disturbed
      /\ requests' = requests \cup {a}
  BY <1>1 DEF Poll, serverVars
<1>3. IsList(list) /\ a.by = "poll"
  BY <1>1 DEF PageInv, ListInv, Drawable, ListFits, Ask
<1>4. CallsCount(calls, raced)'
  BY <1>2, CallsStay
<1>5. ProductsAsked(requests, list)'
  BY <1>2, <1>3 DEF PageInv, PagesFit, ProductsAsked
<1>6. Same(list', list)
  BY <1>2, <1>3, SameList
<1>7. QED
  BY <1>2, <1>4, <1>5, <1>6, SamePages

LEMMA StutterPages ==
  ASSUME PageInv, UNCHANGED listVars
  PROVE  PagesFit'
<1>1. /\ calls' = calls /\ section' = section /\ raced' = raced /\ list' = list
      /\ rows' = rows /\ version' = version /\ disturbed' = disturbed /\ requests' = requests
  BY DEF listVars
<1>2. IsList(list)
  BY DEF PageInv, ListInv, Drawable, ListFits
<1>3. CallsCount(calls, raced)'
  BY <1>1, CallsStay
<1>4. ProductsAsked(requests, list)'
  BY <1>1 DEF PageInv, PagesFit, ProductsAsked
<1>5. Same(list', list)
  BY <1>1, <1>2, SameList
<1>6. QED
  BY <1>1, <1>3, <1>4, <1>5, SamePages

\* The tenants, or the products of the tenant: a filter that is not one of them is given
\* up, and the list it filtered has only its first page.
LEMMA TenantsArrivePages ==
  ASSUME PageInv, NEW r \in requests, TenantsArrive(r)
  PROVE  PagesFit'
<1>1. PICK l : l = WithTenants(list)
  OBVIOUS
<1>2. /\ Render(l, requests \ {r}, disturbed) /\ UNCHANGED <<section, calls, serverVars, raced>>
      /\ r.by = "tenants"
  BY <1>1 DEF TenantsArrive, WithTenants
<1>3. ListInv /\ PageFits(list, disturbed, raced)
  BY DEF PageInv, PagesFit
<1>4. OfTenant
  BY <1>2, <1>3 DEF ListInv, RequestFits
<1>5. /\ Rechosen(l, list) /\ ListFits(l) /\ l.page = list.page /\ l.size = list.size
      /\ l.filter = list.filter
      /\ l.tenant = (IF list.tenant # None THEN list.tenant ELSE First(Tenants))
  BY <1>1, <1>3, <1>4, TenantsFit
<1>6. raced \/ l.page <= 1 \/ Selection(l) = Selection(list)
  <2>1. CASE list.tenant # None
    BY <1>5, <2>1 DEF Selection
  <2>2. CASE list.tenant = None
    BY <1>3, <1>4, <1>5, <2>2 DEF PageFits, Foreign
  <2>3. QED
    BY <2>1, <2>2
<1>7. QED
  BY <1>2, <1>5, <1>6, ChosenPages

LEMMA ProductsArrivePages ==
  ASSUME PageInv, NEW r \in requests, ProductsArrive(r)
  PROVE  PagesFit'
<1>1. PICK l, listed : listed = ProductsOf(r.sel.tenant) /\ l = WithProducts(list, listed)
  OBVIOUS
<1>2. /\ Render(l, requests \ {r}, disturbed) /\ UNCHANGED <<section, calls, serverVars, raced>>
      /\ r.by = "products"
  BY <1>1 DEF ProductsArrive
<1>3. ListInv /\ PageFits(list, disturbed, raced) /\ ListTyped(list)
  BY DEF PageInv, PagesFit, TypesFit
<1>4. OfProduct /\ OfTenant /\ r.sel.tenant = list.tenant
  BY <1>2 DEF PageInv, ListInv, RequestFits, OfProduct, OfTenant, PagesFit, ProductsAsked
<1>5. /\ Rechosen(l, list) /\ ListFits(l) /\ l.page = list.page /\ l.size = list.size
      /\ l.tenant = list.tenant
      /\ l.filter = list.filter \/ (l.filter = None /\ list.filter \notin listed)
  BY <1>1, <1>3, <1>4, ProductsFit
<1>6. raced \/ l.page <= 1 \/ Selection(l) = Selection(list)
  <2>1. CASE l.filter = list.filter
    BY <1>5, <2>1 DEF Selection
  <2>2. CASE l.filter # list.filter
    <3>1. list.filter # None /\ list.filter \in Products /\ list.filter \notin ProductsOf(list.tenant)
      BY <1>1, <1>3, <1>4, <1>5, <2>2 DEF ListTyped
    <3>2. Foreign(list)
      BY <1>4, <3>1 DEF ProductsOf, Foreign
    <3>3. QED
      BY <1>3, <1>5, <3>2 DEF PageFits
  <2>3. QED
    BY <2>1, <2>2
<1>7. QED
  BY <1>2, <1>5, <1>6, ChosenPages

\* A page of a list that lost no rows.
LEMMA PageStays ==
  ASSUME NEW page \in Int, NEW size \in Nat, NEW m \in Nat, NEW n \in Nat, n >= m,
         PageThere(page, size, m)
  PROVE  PageThere(page, size, n)
<1>1. PICK b \in Int : b = (page - 1) * size
  OBVIOUS
<1>2. page <= 1 \/ b < m
  BY <1>1 DEF PageThere
<1>3. QED
  BY <1>1, <1>2 DEF PageThere

LEMMA SaveSucceedsPages ==
  ASSUME PageInv, NEW c \in Saves, SaveSucceeds(c)
  PROVE  PagesFit'
<1>1. PICK sel, r, l, awaited :
          /\ sel = [c.sel EXCEPT !.page = IF c.kind = "create" THEN 1 ELSE c.sel.page]
          /\ r = Reload(sel, "save") /\ l = [Saved(list, c) EXCEPT !.loading = TRUE]
          /\ awaited = requests \cup {r}
  OBVIOUS
<1>2. /\ Render(l, awaited, disturbed) /\ section' = section /\ calls' \subseteq calls
      /\ version' = version + 1 /\ rows' = rows \cup Created(c) /\ raced' = raced
  BY <1>1 DEF SaveSucceeds
<1>3. /\ ListInv /\ ListFits(list) /\ section \in Sections /\ disturbed \in BOOLEAN
      /\ (\A a \in requests : RequestFits(a, list)) /\ CallFits(c)
      /\ PageFits(list, disturbed, raced) /\ ProductsAsked(requests, list) /\ RowsTyped
      /\ list.size \in Nat
  BY ListWorld DEF PageInv, ListInv, Drawable, PagesFit, TypesFit, Saves, ListTyped
<1>4. /\ ListFits(l) /\ l.loading = TRUE
      /\ l.tenant = list.tenant /\ l.filter = list.filter /\ l.size = list.size
      /\ l.page = 1 \/ l.page = list.page
  <2>1. ListFits(list) /\ section \in Sections /\ section # "audit"
    BY <1>3 DEF CallFits
  <2>2. l = Reloading(list, c)
    BY <1>1 DEF Reloading
  <2>3. Reloads(l, list)
    BY <2>1, <2>2, SavedFits
  <2>4. QED
    BY <2>3 DEF Reloads
<1>5. r.by = "save" /\ RequestFits(r, list)
  <2>1. IsSelection(sel)
    BY <1>1, <1>3 DEF CallFits, IsSelection
  <2>2. QED
    BY <1>1, <2>1, ReloadFits
<1>6. (\A a \in awaited : RequestFits(a, list)) /\ ProductsAsked(awaited, list)
  BY <1>1, <1>3, <1>5 DEF ProductsAsked
<1>7. CallsCount(calls, raced)'
  BY <1>2, CallsStay
<1>8. /\ HowMany(l.tenant, l.filter) \in Nat /\ HowMany(l.tenant, l.filter)' \in Nat
      /\ HowMany(l.tenant, l.filter)' >= HowMany(l.tenant, l.filter)
  <2>1. IsFiniteSet(rows) /\ rows \subseteq rows'
    BY <1>2, <1>3 DEF RowsTyped
  <2>2. IsFiniteSet(rows')
    BY <1>2, <2>1, FS_AddElement DEF Created
  <2>3. QED
    BY <1>2, <1>3, <2>1, <2>2, MoreRows
<1>9. ASSUME ~raced', Deps(l) # Deps(list) \/ ~disturbed
      PROVE  PageThere(l.page, l.size, HowMany(l.tenant, l.filter)')
  <2>1. CASE l.page = 1
    BY <2>1 DEF PageThere
  <2>2. CASE l.page = list.page
    <3>1. ~disturbed
      BY <1>4, <1>9, <2>2 DEF Deps, TenantDeps, ProductDeps, DeviceDeps, ModelDeps, AuditDeps
    <3>2. PageThere(l.page, l.size, HowMany(l.tenant, l.filter))
      BY <1>2, <1>3, <1>4, <1>9, <2>2, <3>1 DEF PageFits
    <3>3. QED
      BY <1>3, <1>4, <1>8, <3>2, PageStays DEF ListFits
  <2>3. QED
    BY <1>4, <2>1, <2>2
<1>10. ~raced' /\ Foreign(l) => l.page <= 1
  BY <1>2, <1>3, <1>4 DEF PageFits, Foreign
<1>11. QED
  BY <1>2, <1>3, <1>4, <1>6, <1>7, <1>9, <1>10, RenderedPages

\* The page that a deletion leaves: the page before, if its only row was deleted.
LEMMA DeletedPage ==
  ASSUME NEW page \in Nat \ {0}, NEW size \in Nat \ {0}, NEW items \in Nat \ {0},
         NEW m \in Nat, NEW n \in Nat, n >= m - 1, (page - 1) * size + items <= m
  PROVE  /\ page > 1 => PageThere(page - 1, size, n)
         /\ items # 1 \/ page = 1 => PageThere(page, size, n)
<1>1. PICK b \in Nat : b = (page - 1) * size
  OBVIOUS
<1>2. (page - 1 - 1) * size = b - size
  BY <1>1
<1>3. b - size < n
  BY <1>1
<1>4. items # 1 => b < n
  BY <1>1
<1>5. QED
  BY <1>1, <1>2, <1>3, <1>4 DEF PageThere

LEMMA DeleteSucceedsPages ==
  ASSUME PageInv, NEW c \in Deletions, DeleteSucceeds(c)
  PROVE  PagesFit'
<1>1. /\ section' = section /\ calls' \subseteq calls /\ version' = version + 1
      /\ rows' = rows \ {c.row}
      /\ raced' = (raced \/ c.sel # Selection(list) \/ c.shown # version)
  BY DEF DeleteSucceeds
<1>2. /\ ListInv /\ ListFits(list) /\ section \in Sections /\ disturbed \in BOOLEAN
      /\ (\A a \in requests : RequestFits(a, list)) /\ CallFits(c) /\ CallTyped(c)
      /\ PageFits(list, disturbed, raced) /\ ProductsAsked(requests, list) /\ RowsTyped
      /\ list.size \in Nat \ {0} /\ list.shown <= version /\ list.shown \in Int /\ version \in Nat
      /\ list.page \in Int /\ IsList(list)
  BY ListWorld DEF PageInv, ListInv, Drawable, PagesFit, TypesFit, Deletions, ListTyped, ListFits
<1>3. CallsCount(calls, raced)'
  BY <1>1, CallsStay
<1>4. PICK t, p : t = list.tenant /\ p = list.filter
  OBVIOUS
<1>41. PICK m \in Nat, n \in Nat : m = HowMany(t, p) /\ n = HowMany(t, p)' /\ n >= m - 1
  <2>1. /\ HowMany(t, p) \in Nat /\ HowMany(t, p)' \in Nat
        /\ HowMany(t, p)' >= HowMany(t, p) - 1
    BY <1>1, <1>2, FewerRows
  <2>2. QED
    BY <2>1
<1>42. PICK page, size, items : page = list.page /\ size = list.size /\ items = c.items
  OBVIOUS
<1>5. ASSUME ~raced'
      PROVE  /\ page \in Nat \ {0} /\ items \in Nat \ {0}
             /\ (page - 1) * size + items <= m
             /\ c.sel.page = page
  <2>1. ~raced /\ c.sel = Selection(list) /\ c.shown = version
    BY <1>1, <1>5
  <2>2. Counts(c)
    BY <2>1 DEF PageInv, PagesFit, CallsCount, Deletions
  <2>3. /\ c.sel.page = list.page /\ c.sel.size = list.size
        /\ c.sel.tenant = list.tenant /\ c.sel.filter = list.filter
    BY <2>1 DEF Selection
  <2>4. c.items \in Nat /\ c.items >= 1 /\ list.page \in Int /\ list.page >= 1
    BY <1>2, <2>2, <2>3 DEF Counts, CallTyped
  <2>5. (page - 1) * size + items <= m
    BY <1>4, <1>41, <1>42, <2>2, <2>3 DEF Counts
  <2>6. QED
    BY <1>42, <2>3, <2>4, <2>5
<1>50. /\ ~raced' /\ StepsBack(c) => PageThere(page - 1, size, n)
       /\ ~raced' /\ ~StepsBack(c) => PageThere(page, size, n)
  <2>1. SUFFICES ASSUME ~raced'
                 PROVE  /\ StepsBack(c) => PageThere(page - 1, size, n)
                        /\ ~StepsBack(c) => PageThere(page, size, n)
    OBVIOUS
  <2>2. size \in Nat \ {0}
    BY <1>2, <1>42
  <2>3. /\ page > 1 => PageThere(page - 1, size, n)
        /\ items # 1 \/ page = 1 => PageThere(page, size, n)
    BY <1>5, <1>41, <2>1, <2>2, DeletedPage
  <2>4. StepsBack(c) <=> items = 1 /\ page > 1
    BY <1>5, <1>42, <2>1 DEF StepsBack
  <2>5. page \in Nat \ {0}
    BY <1>5, <2>1
  <2>6. QED
    BY <2>3, <2>4, <2>5
<1>6. CASE StepsBack(c)
  <2>1. PICK l : l = [list EXCEPT !.page = list.page - 1, !.deleting = None]
    OBVIOUS
  <2>2. Render(l, requests, disturbed)
    BY <1>6, <2>1 DEF DeleteSucceeds
  <2>3. /\ IsList(l) /\ l.page = list.page - 1 /\ l.size = list.size
        /\ l.tenant = list.tenant /\ l.filter = list.filter /\ l.products = list.products
        /\ l.shown = list.shown /\ l.loading = list.loading /\ l.saving = list.saving
        /\ l.mode = list.mode /\ l.product = list.product
    BY <1>2, <2>1 DEF IsList, Fields
  <2>4. ListFits(l)
    <3>1. SectionFits(l) /\ DialogFits(l)
      BY <1>2, <2>3 DEF ListFits, SectionFits, DialogFits
    <3>2. QED
      BY <1>2, <2>3, <3>1 DEF ListFits
  <2>5. ~raced' => PageThere(l.page, l.size, HowMany(l.tenant, l.filter)')
    <3>1. l.page = page - 1 /\ l.size = size /\ HowMany(l.tenant, l.filter)' = n
      BY <1>4, <1>41, <1>42, <2>3
    <3>2. QED
      BY <1>6, <1>50, <3>1
  <2>6. l.shown # version'
    BY <1>1, <1>2, <2>3
  <2>7. ~raced' /\ Foreign(l) => l.page <= 1
    <3>1. Foreign(l) = Foreign(list)
      BY <2>3 DEF Foreign
    <3>2. ~raced /\ Foreign(list) => list.page <= 1
      BY <1>2 DEF PageFits
    <3>3. list.page <= 1 => l.page <= 1
      BY <1>2, <2>3
    <3>4. QED
      BY <1>1, <3>1, <3>2, <3>3
  <2>8. QED
    BY <1>1, <1>2, <1>3, <2>2, <2>4, <2>5, <2>6, <2>7, RenderedPages
<1>7. CASE ~StepsBack(c)
  <2>1. PICK l, r, awaited :
            /\ r = Reload(c.sel, "delete") /\ awaited = requests \cup {r}
            /\ l = [list EXCEPT !.loading = TRUE]
    OBVIOUS
  <2>2. Render(l, awaited, disturbed)
    BY <1>7, <2>1 DEF DeleteSucceeds
  <2>3. /\ ListFits(l) /\ l.loading = TRUE
        /\ l.tenant = list.tenant /\ l.filter = list.filter /\ l.page = list.page /\ l.size = list.size
    <3>1. /\ IsList(l) /\ l.loading = TRUE /\ l.page = list.page /\ l.size = list.size
          /\ l.tenant = list.tenant /\ l.filter = list.filter /\ l.products = list.products
          /\ l.shown = list.shown /\ l.saving = list.saving
          /\ l.mode = list.mode /\ l.product = list.product
      BY <1>2, <2>1 DEF IsList, Fields
    <3>2. SectionFits(l) /\ DialogFits(l)
      BY <1>2, <3>1 DEF ListFits, SectionFits, DialogFits
    <3>3. QED
      BY <1>2, <3>1, <3>2 DEF ListFits
  <2>4. r.by = "delete" /\ RequestFits(r, list)
    BY <1>2, <2>1, ReloadFits DEF CallFits
  <2>5. (\A a \in awaited : RequestFits(a, list)) /\ ProductsAsked(awaited, list)
    BY <1>2, <2>1, <2>4 DEF ProductsAsked
  <2>6. ~raced' => PageThere(l.page, l.size, HowMany(l.tenant, l.filter)')
    <3>1. l.page = page /\ l.size = size /\ HowMany(l.tenant, l.filter)' = n
      BY <1>4, <1>41, <1>42, <2>3
    <3>2. QED
      BY <1>7, <1>50, <3>1
  <2>7. ~raced' /\ Foreign(l) => l.page <= 1
    BY <1>1, <1>2, <2>3 DEF PageFits, Foreign
  <2>8. QED
    BY <1>1, <1>2, <1>3, <2>2, <2>3, <2>5, <2>6, <2>7, RenderedPages
<1>8. QED
  BY <1>6, <1>7

\* An answer is about the page that is selected, or the page raced.
LEMMA ArrivePages ==
  ASSUME PageInv, NEW r \in requests, Arrive(r)
  PROVE  PagesFit'
<1>1. PICK l, awaited : l = Answered(list, r) /\ awaited = requests \ {r}
  OBVIOUS
<1>2. PICK d \in BOOLEAN : d = (disturbed \/ r.late \/ r.answer.version < list.shown)
  BY DEF PageInv, ListInv
<1>3. /\ r.answer # Unanswered /\ Render(l, awaited, d)
      /\ calls' = calls /\ section' = section /\ rows' = rows /\ version' = version
      /\ raced' = (raced \/ r.late \/ r.sel # Selection(list))
  BY <1>1, <1>2 DEF Arrive, Answered, serverVars
<1>4. /\ ListInv /\ ListFits(list) /\ section \in Sections /\ list.page \in Int
      /\ (\A a \in awaited : RequestFits(a, list)) /\ RequestFits(r, list) /\ AnswerFits(r)
      /\ PageFits(list, disturbed, raced) /\ ProductsAsked(awaited, list)
  BY <1>1 DEF PageInv, ListInv, Drawable, PagesFit, ListFits, ProductsAsked
<1>5. r.answer.page = AtLeast(1, r.sel.page) /\ r.answer.version \in Nat /\ r.answer.page \in Int
  BY <1>3, <1>4 DEF AnswerFits, RequestFits, IsSelection, AtLeast
<1>6. /\ ListFits(l)
      /\ l.items = r.answer.items /\ l.total = r.answer.total /\ l.page = r.answer.page
      /\ l.size = r.sel.size /\ l.shown = r.answer.version
      /\ l.tenant = list.tenant /\ l.filter = list.filter
  BY <1>1, <1>4, <1>5, AnsweredFits
<1>7. CallsCount(calls, raced)'
  BY <1>3, CallsStay
<1>8. ASSUME ~raced'
      PROVE  /\ ~raced /\ r.sel = Selection(list)
             /\ l.page = AtLeast(1, list.page) /\ l.size = list.size
             /\ r.sel.tenant = l.tenant /\ r.sel.filter = l.filter
  <2>1. ~raced /\ r.sel = Selection(list)
    BY <1>3, <1>8
  <2>2. /\ r.sel.tenant = list.tenant /\ r.sel.filter = list.filter
        /\ r.sel.page = list.page /\ r.sel.size = list.size
    BY <2>1 DEF Selection
  <2>3. QED
    BY <1>5, <1>6, <2>1, <2>2
<1>9. ASSUME ~raced', Deps(l) # Deps(list) \/ ~d
      PROVE  PageThere(l.page, l.size, HowMany(l.tenant, l.filter)')
  <2>1. CASE list.page < 1
    BY <1>4, <1>8, <1>9, <2>1 DEF PageThere, AtLeast
  <2>2. CASE list.page >= 1
    <3>1. l.page = list.page
      BY <1>4, <1>8, <1>9, <2>2 DEF AtLeast
    <3>2. ~disturbed
      BY <1>2, <1>6, <1>8, <1>9, <3>1 DEF Deps, TenantDeps, ProductDeps, DeviceDeps, ModelDeps, AuditDeps
    <3>3. HowMany(l.tenant, l.filter)' = HowMany(l.tenant, l.filter)
      BY <1>3, SameRows
    <3>4. PageThere(list.page, list.size, HowMany(list.tenant, list.filter))
      BY <1>4, <1>8, <1>9, <3>2 DEF PageFits
    <3>5. l.size = list.size /\ HowMany(l.tenant, l.filter) = HowMany(list.tenant, list.filter)
      BY <1>6, <1>8, <1>9
    <3>6. QED
      BY <3>1, <3>3, <3>4, <3>5
  <2>3. QED
    BY <1>4, <2>1, <2>2
<1>10. ASSUME ~raced', l.shown = version'
       PROVE  Shows(l, Listed(l.tenant, l.filter)')
  <2>1. Tells(r.answer, Listed(l.tenant, l.filter), r.sel)
    BY <1>3, <1>4, <1>6, <1>8, <1>10 DEF AnswerFits
  <2>2. l.page >= 1
    BY <1>4, <1>8, <1>10 DEF AtLeast
  <2>3. Listed(l.tenant, l.filter)' = Listed(l.tenant, l.filter)
    BY <1>3, SameRows
  <2>4. QED
    BY <1>5, <1>6, <2>1, <2>2, <2>3 DEF Shows, Tells
<1>11. ASSUME ~raced', Foreign(l)
       PROVE  l.page <= 1
  BY <1>4, <1>6, <1>8, <1>11 DEF PageFits, Foreign, AtLeast
<1>12. QED
  BY <1>3, <1>4, <1>6, <1>7, <1>9, <1>10, <1>11, RenderedPages

----------------------------------------------------------------------------
(* What there is, after each step. *)

\* The rows of a set are listed by how many are newer: no two alike, and none left out.
LEMMA NewestFirstType ==
  ASSUME NEW S, IsFiniteSet(S), S \subseteq Row, \A r, s \in S : r.id = s.id => r = s
  PROVE  NewestFirst(S) \in [1 .. Cardinality(S) -> S]
<1>1. PICK n \in Nat : n = Cardinality(S)
  BY FS_CardinalityType
<1>2. \A r \in S : r.id \in Nat
  BY DEF Row
<1> DEFINE Newer(r) == {s \in S : s.id > r.id}
           rank == [r \in S |-> Cardinality(Newer(r)) + 1]
<1>3. ASSUME NEW r \in S
      PROVE  IsFiniteSet(Newer(r)) /\ Cardinality(Newer(r)) \in 0 .. n - 1
  <2>1. Newer(r) \in SUBSET (S \ {r})
    BY <1>2
  <2>2. IsFiniteSet(S \ {r}) /\ Cardinality(S \ {r}) = n - 1
    BY <1>1, FS_RemoveElement
  <2> HIDE DEF Newer
  <2>3. IsFiniteSet(Newer(r)) /\ Cardinality(Newer(r)) <= n - 1
    BY <2>1, <2>2, FS_Subset
  <2>4. Cardinality(Newer(r)) \in Nat
    BY <2>3, FS_CardinalityType
  <2>5. QED
    BY <2>3, <2>4
<1>4. ASSUME NEW r \in S, NEW s \in S, r.id > s.id
      PROVE  Cardinality(Newer(r)) < Cardinality(Newer(s))
  <2>1. Newer(r) \in SUBSET (Newer(s) \ {r})
    BY <1>2, <1>4
  <2>2. r \in Newer(s)
    BY <1>4
  <2>3. IsFiniteSet(Newer(s)) /\ Cardinality(Newer(s)) \in 0 .. n - 1 /\ Cardinality(Newer(r)) \in 0 .. n - 1
    BY <1>3
  <2> HIDE DEF Newer
  <2>4. IsFiniteSet(Newer(s) \ {r}) /\ Cardinality(Newer(s) \ {r}) = Cardinality(Newer(s)) - 1
    BY <2>2, <2>3, FS_RemoveElement
  <2>5. Cardinality(Newer(r)) <= Cardinality(Newer(s) \ {r})
    BY <2>1, <2>4, FS_Subset
  <2>6. QED
    BY <2>3, <2>4, <2>5
<1> HIDE DEF Newer
<1>5. rank \in [S -> 1 .. n]
  <2>1. \A r \in S : Cardinality(Newer(r)) + 1 \in 1 .. n
    BY <1>1, <1>3
  <2>2. QED
    BY <2>1
<1>6. ASSUME NEW r \in S, NEW s \in S, rank[r] = rank[s]
      PROVE  r = s
  <2>1. Cardinality(Newer(r)) \in Nat /\ Cardinality(Newer(s)) \in Nat
    BY <1>1, <1>3
  <2>2. Cardinality(Newer(r)) = Cardinality(Newer(s))
    BY <1>6, <2>1
  <2>3. ~(r.id > s.id) /\ ~(s.id > r.id)
    BY <1>4, <2>1, <2>2
  <2>4. QED
    BY <1>2, <2>3
<1>7. rank \in Injection(S, 1 .. n)
  <2> HIDE DEF rank
  <2>1. \A r, s \in S : rank[r] = rank[s] => r = s
    BY <1>6
  <2>2. QED
    BY <1>5, <2>1, Fun_IsInj
<1>8. IsFiniteSet(1 .. n) /\ Cardinality(1 .. n) = n
  BY <1>1, FS_Interval
<1>9. rank \in Surjection(S, 1 .. n)
  <2> HIDE DEF rank
  <2>1. QED
    BY <1>1, <1>7, <1>8, FS_Injection
<1>10. ASSUME NEW i \in 1 .. n
       PROVE  \E r \in S : Cardinality(Newer(r)) = i - 1
  <2>1. PICK r \in S : rank[r] = i
    BY <1>9 DEF Surjection
  <2>2. Cardinality(Newer(r)) + 1 = i /\ Cardinality(Newer(r)) \in Nat
    BY <1>1, <1>3, <2>1
  <2>3. QED
    BY <2>2
<1> DEFINE nth(i) == CHOOSE r \in S : Cardinality({s \in S : s.id > r.id}) = i - 1
<1>11. \A i \in 1 .. n : nth(i) \in S
  BY <1>10, Zenon DEF Newer
<1>12. NewestFirst(S) = [i \in 1 .. n |-> nth(i)]
  BY <1>1, Zenon DEF NewestFirst
<1> HIDE DEF nth
<1>13. QED
  BY <1>1, <1>11, <1>12

\* An answer tells rows.
LEMMA AnswerTyped ==
  ASSUME RowsTyped, NEW sel, SelectionTyped(sel), sel.page \in Int
  PROVE  Answer(sel).total \in Nat /\ Answer(sel).items \in Seq(Row)
<1>1. PICK S, n, page, size :
          /\ S = RowsOf(sel.tenant, sel.filter) /\ n = HowMany(sel.tenant, sel.filter)
          /\ page = AtLeast(1, sel.page) /\ size = sel.size
  OBVIOUS
<1>2. IsFiniteSet(S) /\ n \in Nat /\ n = Cardinality(S)
  BY <1>1, ListedLength DEF HowMany
<1>3. S \subseteq Row /\ \A r, s \in S : r.id = s.id => r = s
  BY <1>1 DEF RowsOf, RowsTyped
<1>4. NewestFirst(S) \in [1 .. n -> Row]
  BY <1>2, <1>3, NewestFirstType
<1>5. page \in Nat \ {0} /\ size \in Nat \ {0}
  <2>1. sel.size \in Sizes /\ Sizes \subseteq Nat \ {0}
    BY ListWorld DEF SelectionTyped
  <2>2. page \in Nat \ {0}
    BY <1>1 DEF AtLeast
  <2>3. QED
    BY <1>1, <2>1, <2>2
<1>6. PageOf(NewestFirst(S), page, size) \in Seq(Row) /\ Len(NewestFirst(S)) \in Nat
  <2>1. PageOf(NewestFirst(S), page, size) \in Seq(Row)
    BY <1>2, <1>4, <1>5, PageOfType
  <2>2. Len(NewestFirst(S)) = n
    BY <1>2, <1>4
  <2>3. QED
    BY <1>2, <2>1, <2>2
<1>7. Answer(sel).total = Len(NewestFirst(S)) /\ Answer(sel).items = PageOf(NewestFirst(S), page, size)
  BY <1>1 DEF Answer, Listed
<1>8. QED
  BY <1>6, <1>7

\* The rows after a step that leaves them, adds one or takes one.
LEMMA RowsLeft ==
  ASSUME RowsTyped, section' = section, rows' = rows, version' = version
  PROVE  RowsTyped'
BY DEF RowsTyped, OfTenant, OfProduct

LEMMA RowsSaved ==
  ASSUME RowsTyped, section' = section, version \in Nat, version' = version + 1,
         NEW c, CallTyped(c), Accepts(c), rows' = rows \cup Created(c)
  PROVE  RowsTyped'
<1>1. PICK k \in Nat : k = Cardinality(InitialRows)
  BY ListWorld, FS_CardinalityType
<1>2. CASE c.kind = "create"
  <2>1. PICK new : new = NewRow(c)
    OBVIOUS
  <2>2. /\ new.id = k + version + 1 /\ new.tenant = c.sel.tenant /\ new.product = c.product
        /\ new \in Row
    BY <1>1, <2>1 DEF NewRow, Row, CallTyped, SelectionTyped
  <2>3. rows' = rows \cup {new}
    BY <1>2, <2>1 DEF Created
  <2>4. \A r \in rows : r.id \in Nat /\ r.id <= k + version
    BY <1>1 DEF RowsTyped, Row
  <2>5. IsFiniteSet(rows')
    BY <2>3, FS_AddElement DEF RowsTyped
  <2>6. \A r, s \in rows' : r.id = s.id => r = s
    BY <2>2, <2>3, <2>4 DEF RowsTyped
  <2>7. \A r \in rows' : r.id <= k + version'
    BY <2>2, <2>3, <2>4
  <2>8. OfTenant' => \A r \in rows' : r.tenant # None
    BY <1>2, <2>2, <2>3 DEF RowsTyped, CallTyped, OfTenant
  <2>9. OfProduct' => \A r \in rows' : TenantOf[r.product] = r.tenant
    BY <1>2, <2>2, <2>3 DEF RowsTyped, Accepts, OfProduct
  <2>10. rows' \subseteq Row
    BY <2>2, <2>3 DEF RowsTyped
  <2>11. QED
    BY <1>1, <2>5, <2>6, <2>7, <2>8, <2>9, <2>10 DEF RowsTyped
<1>3. CASE c.kind # "create"
  <2>1. rows' = rows
    BY <1>3 DEF Created
  <2>2. \A r \in rows : r.id <= k + version'
    BY <1>1 DEF RowsTyped, Row
  <2>3. QED
    BY <1>1, <2>1, <2>2 DEF RowsTyped, OfTenant, OfProduct
<1>4. QED
  BY <1>2, <1>3

LEMMA RowsDeleted ==
  ASSUME RowsTyped, section' = section, version \in Nat, version' = version + 1,
         NEW row, rows' = rows \ {row}
  PROVE  RowsTyped'
<1>1. PICK k \in Nat : k = Cardinality(InitialRows)
  BY ListWorld, FS_CardinalityType
<1>2. IsFiniteSet(rows')
  BY FS_RemoveElement DEF RowsTyped
<1>3. \A r \in rows' : r.id <= k + version'
  BY <1>1 DEF RowsTyped, Row
<1>4. QED
  BY <1>1, <1>2, <1>3 DEF RowsTyped, OfTenant, OfProduct

LEMMA SpendTypes ==
  ASSUME left \in [{"clicks", "failures", "polls"} -> Nat],
         \/ \E what \in {"clicks", "failures", "polls"} : Spend(what)
         \/ left' = left
  PROVE  left' \in [{"clicks", "failures", "polls"} -> Nat]
BY DEF Spend

\* The types from their parts: the calls that are not new stay.
LEMMA TypesAssembled ==
  ASSUME TypesFit, section' = section, RowsTyped',
         NEW n, n = list', ListTyped(n),
         NEW reqs, reqs = requests', \A r \in reqs : RequestTyped(r),
         NEW cs, cs = calls', \A c \in cs : c \in calls \/ CallTyped(c),
         left' \in [{"clicks", "failures", "polls"} -> Nat], raced' \in BOOLEAN
  PROVE  TypesFit'
<1>1. (\A c \in cs : CallTyped(c)) /\ \A c : CallTyped(c)' = CallTyped(c)
  BY DEF TypesFit, CallTyped, OfTenant
<1>2. QED
  BY <1>1 DEF TypesFit

\* A list that is drawn, and what it asks.
LEMMA RenderedTypes ==
  ASSUME NEW l, IsList(l), ListTyped(l), NEW awaited, \A r \in awaited : RequestFits(r, list) /\ RequestTyped(r),
         NEW d, Render(l, awaited, d)
  PROVE  ListTyped(list') /\ \A m \in requests' : RequestTyped(m)
<1>1. Alike(list', l) /\ \A m \in requests' : Kept(m, l, awaited)
  BY Rendered
<1>2. ListTyped(list')
  BY <1>1 DEF Alike, ListTyped
<1>3. ASSUME NEW m \in requests'
      PROVE  RequestTyped(m)
  <2>1. CASE m.sel = Selection(l) /\ m.answer = Unanswered
    BY <2>1 DEF RequestTyped, SelectionTyped, Selection, Unanswered, ListTyped
  <2>2. CASE \E r \in awaited : m.sel = r.sel /\ m.answer = r.answer
    BY <2>2 DEF RequestTyped
  <2>3. QED
    BY <1>1, <2>1, <2>2 DEF Kept
<1>4. QED
  BY <1>2, <1>3

\* What the user does.
LEMMA ChoiceTypes ==
  ASSUME ListInv, TypesFit, NEW l, Choice(l)
  PROVE  TypesFit'
<1>1. /\ ListFits(l) /\ ListTyped(l) /\ Render(l, requests, disturbed) /\ Spend("clicks")
      /\ section' = section /\ calls' = calls /\ rows' = rows /\ version' = version /\ raced' = raced
  BY DEF Choice, Choose, Click, serverVars
<1>2. IsList(l) /\ \A r \in requests : RequestFits(r, list) /\ RequestTyped(r)
  BY <1>1 DEF ListFits, ListInv, TypesFit
<1>3. ListTyped(list') /\ \A m \in requests' : RequestTyped(m)
  BY <1>1, <1>2, RenderedTypes
<1>4. RowsTyped'
  BY <1>1, RowsLeft DEF TypesFit
<1>5. left' \in [{"clicks", "failures", "polls"} -> Nat] /\ raced' \in BOOLEAN
  BY <1>1, SpendTypes DEF TypesFit
<1>6. QED
  BY <1>1, <1>3, <1>4, <1>5, TypesAssembled

LEMMA PageChangeTypes ==
  ASSUME ListInv, TypesFit, NEW n \in Int, OnPageChange(n)
  PROVE  TypesFit'
<1>1. PICK l : l = Turned(n)
  OBVIOUS
<1>2. /\ Render(l, requests, disturbed) /\ Spend("clicks")
      /\ section' = section /\ calls' = calls /\ rows' = rows /\ version' = version
      /\ raced' = (raced \/ list.loading \/ disturbed \/ list.shown # version)
  BY <1>1 DEF OnPageChange, Turned, Click, serverVars
<1>3. IsList(l) /\ ListTyped(l)
  BY <1>1, TurnedFits DEF ListFits
<1>4. \A r \in requests : RequestFits(r, list) /\ RequestTyped(r)
  BY DEF ListInv, TypesFit
<1>5. ListTyped(list') /\ \A m \in requests' : RequestTyped(m)
  BY <1>2, <1>3, <1>4, RenderedTypes
<1>6. RowsTyped'
  BY <1>2, RowsLeft DEF TypesFit
<1>7. left' \in [{"clicks", "failures", "polls"} -> Nat]
  BY <1>2, SpendTypes DEF TypesFit
<1>8. raced' \in BOOLEAN
  BY <1>2 DEF TypesFit, ListInv, Drawable, ListFits
<1>9. QED
  BY <1>2, <1>5, <1>6, <1>7, <1>8, TypesAssembled

\* A list with another indicator.
LEMMA IndicatorTypes ==
  ASSUME NEW o, IsList(o), ListTyped(o), NEW v
  PROVE  /\ ListTyped([o EXCEPT !.saving = v])
         /\ v \in Row \cup {None} => ListTyped([o EXCEPT !.deleting = v])
<1>1. PICK n : n = [o EXCEPT !.saving = v]
  OBVIOUS
<1>2. ListTyped(n)
  BY <1>1 DEF ListTyped, IsList, Fields
<1>3. PICK m : m = [o EXCEPT !.deleting = v]
  OBVIOUS
<1>4. v \in Row \cup {None} => ListTyped(m)
  BY <1>3 DEF ListTyped, IsList, Fields
<1>5. QED
  BY <1>1, <1>2, <1>3, <1>4

LEMMA CallTypes ==
  ASSUME ListInv, TypesFit, NEW kind, NEW row, NEW c, c = Call(kind, row),
         OfTenant /\ kind = "create" => list.tenant # None
  PROVE  CallTyped(c)
<1>1. /\ c.kind = kind /\ c.product = list.product
      /\ c.sel.tenant = list.tenant /\ c.sel.size = list.size
      /\ c.items = Len(list.items) /\ c.shown = list.shown
  BY CallFields
<1>2. /\ list.tenant \in Tenants \cup {None} /\ list.size \in Sizes
      /\ list.product \in Products \cup {None} /\ Len(list.items) \in Nat /\ list.shown \in Int
  BY DEF ListInv, Drawable, ListFits, TypesFit, ListTyped
<1>3. QED
  BY <1>1, <1>2 DEF CallTyped, SelectionTyped

LEMMA SubmitTypes ==
  ASSUME ListInv, TypesFit, Submits
  PROVE  TypesFit'
<1>1. PICK c : c = Call(list.mode, list.editing)
  OBVIOUS
<1>2. /\ calls' = calls \cup {c} /\ list' = [list EXCEPT !.saving = TRUE] /\ Spend("clicks")
      /\ section' = section /\ requests' = requests /\ rows' = rows /\ version' = version
      /\ raced' = raced /\ (OfTenant => list.tenant # None)
  BY <1>1 DEF Submits, HandleSubmit, Click, serverVars
<1>3. CallTyped(c)
  BY <1>1, <1>2, CallTypes
<1>4. ListTyped(list')
  BY <1>2, IndicatorTypes DEF TypesFit, ListInv, Drawable, ListFits
<1>5. RowsTyped' /\ left' \in [{"clicks", "failures", "polls"} -> Nat]
  BY <1>2, RowsLeft, SpendTypes DEF TypesFit
<1>6. (\A r \in requests' : RequestTyped(r)) /\ raced' \in BOOLEAN
  BY <1>2 DEF TypesFit
<1>7. QED
  BY <1>2, <1>3, <1>4, <1>5, <1>6, TypesAssembled

LEMMA DeleteTypes ==
  ASSUME ListInv, TypesFit, NEW r \in ShownRows, HandleDelete(r)
  PROVE  TypesFit'
<1>1. PICK c : c = Call("delete", r)
  OBVIOUS
<1>2. /\ calls' = calls \cup {c} /\ list' = [list EXCEPT !.deleting = r] /\ Spend("clicks")
      /\ section' = section /\ requests' = requests /\ rows' = rows /\ version' = version
      /\ raced' = (raced \/ list.loading \/ disturbed)
  BY <1>1 DEF HandleDelete, Click, serverVars
<1>3. CallTyped(c)
  BY <1>1, CallTypes
<1>4. r \in Row
  BY DEF ShownRows, TypesFit, ListTyped
<1>5. ListTyped(list')
  BY <1>2, <1>4, IndicatorTypes DEF TypesFit, ListInv, Drawable, ListFits
<1>6. RowsTyped' /\ left' \in [{"clicks", "failures", "polls"} -> Nat]
  BY <1>2, RowsLeft, SpendTypes DEF TypesFit
<1>7. (\A q \in requests' : RequestTyped(q)) /\ raced' \in BOOLEAN
  BY <1>2 DEF TypesFit, ListInv, Drawable, ListFits
<1>8. QED
  BY <1>2, <1>3, <1>5, <1>6, <1>7, TypesAssembled

\* What the network does.
LEMMA SaveFailsTypes ==
  ASSUME ListInv, TypesFit, NEW c \in Saves, NEW done \in BOOLEAN, SaveFails(c, done)
  PROVE  TypesFit'
<1>1. /\ calls' \subseteq calls /\ list' = [list EXCEPT !.saving = FALSE]
      /\ section' = section /\ requests' = requests /\ raced' = raced
      /\ Spend("failures") \/ left' = left
      /\ rows' = (IF done THEN rows \cup Created(c) ELSE rows)
      /\ version' = (IF done THEN version + 1 ELSE version)
      /\ done => Accepts(c)
  BY DEF SaveFails
<1>2. RowsTyped /\ CallTyped(c) /\ version \in Nat
  BY DEF TypesFit, ListInv, Saves
<1>3. RowsTyped'
  BY <1>1, <1>2, RowsLeft, RowsSaved
<1>4. ListTyped(list')
  BY <1>1, IndicatorTypes DEF TypesFit, ListInv, Drawable, ListFits
<1>5. left' \in [{"clicks", "failures", "polls"} -> Nat] /\ raced' \in BOOLEAN
  BY <1>1, SpendTypes DEF TypesFit
<1>6. (\A r \in requests' : RequestTyped(r))
  BY <1>1 DEF TypesFit
<1>7. QED
  BY <1>1, <1>3, <1>4, <1>5, <1>6, TypesAssembled

LEMMA DeleteFailsTypes ==
  ASSUME ListInv, TypesFit, NEW c \in Deletions, NEW done \in BOOLEAN, DeleteFails(c, done)
  PROVE  TypesFit'
<1>1. /\ calls' \subseteq calls /\ list' = [list EXCEPT !.deleting = None]
      /\ section' = section /\ requests' = requests /\ raced' = raced
      /\ Spend("failures") \/ left' = left
      /\ rows' = (IF done THEN rows \ {c.row} ELSE rows)
      /\ version' = (IF done THEN version + 1 ELSE version)
  BY DEF DeleteFails
<1>2. RowsTyped /\ version \in Nat
  BY DEF TypesFit, ListInv
<1>3. RowsTyped'
  BY <1>1, <1>2, RowsLeft, RowsDeleted
<1>4. ListTyped(list')
  BY <1>1, IndicatorTypes DEF TypesFit, ListInv, Drawable, ListFits
<1>5. left' \in [{"clicks", "failures", "polls"} -> Nat] /\ raced' \in BOOLEAN
  BY <1>1, SpendTypes DEF TypesFit
<1>6. (\A r \in requests' : RequestTyped(r))
  BY <1>1 DEF TypesFit
<1>7. QED
  BY <1>1, <1>3, <1>4, <1>5, <1>6, TypesAssembled

\* The reload that follows a save or a deletion.
LEMMA ReloadTypes ==
  ASSUME NEW sel, SelectionTyped(sel), IsSelection(sel), NEW by \in {"save", "delete"},
         NEW r, r = Reload(sel, by)
  PROVE  RequestFits(r, list) /\ RequestTyped(r)
<1>1. RequestFits(r, list) /\ r.answer = Unanswered
  BY ReloadFits
<1>2. r.sel = sel
  BY DEF Reload, Ask
<1>3. QED
  BY <1>1, <1>2 DEF RequestTyped, Unanswered

LEMMA SaveSucceedsTypes ==
  ASSUME ListInv, TypesFit, NEW c \in Saves, SaveSucceeds(c)
  PROVE  TypesFit'
<1>1. PICK sel, r, l, awaited :
          /\ sel = [c.sel EXCEPT !.page = IF c.kind = "create" THEN 1 ELSE c.sel.page]
          /\ r = Reload(sel, "save") /\ l = Reloading(list, c) /\ awaited = requests \cup {r}
  OBVIOUS
<1>2. /\ Render(l, awaited, disturbed) /\ section' = section /\ calls' \subseteq calls
      /\ version' = version + 1 /\ rows' = rows \cup Created(c) /\ raced' = raced /\ left' = left
      /\ Accepts(c)
  BY <1>1 DEF SaveSucceeds, Reloading
<1>3. /\ ListFits(list) /\ section \in Sections /\ version \in Nat /\ ListTyped(list) /\ RowsTyped
      /\ (\A a \in requests : RequestFits(a, list) /\ RequestTyped(a)) /\ CallFits(c) /\ CallTyped(c)
      /\ left \in [{"clicks", "failures", "polls"} -> Nat] /\ raced \in BOOLEAN
  BY DEF ListInv, Drawable, TypesFit, Saves
<1>4. ListFits(l) /\ ListTyped(l)
  <2>1. section # "audit"
    BY <1>3 DEF CallFits
  <2>2. Reloads(l, list)
    BY <1>1, <1>3, <2>1, SavedFits
  <2>3. QED
    BY <1>3, <2>2 DEF Reloads
<1>5. RequestFits(r, list) /\ RequestTyped(r)
  <2>1. IsSelection(sel) /\ SelectionTyped(sel)
    BY <1>1, <1>3 DEF CallFits, CallTyped, IsSelection, SelectionTyped
  <2>2. QED
    BY <1>1, <2>1, ReloadTypes
<1>6. ListTyped(list') /\ \A m \in requests' : RequestTyped(m)
  <2>1. IsList(l) /\ \A a \in awaited : RequestFits(a, list) /\ RequestTyped(a)
    BY <1>1, <1>3, <1>4, <1>5 DEF ListFits
  <2>2. QED
    BY <1>2, <1>4, <2>1, RenderedTypes
<1>7. RowsTyped'
  BY <1>2, <1>3, RowsSaved
<1>8. QED
  BY <1>2, <1>3, <1>6, <1>7, TypesAssembled

LEMMA DeleteSucceedsTypes ==
  ASSUME ListInv, TypesFit, NEW c \in Deletions, DeleteSucceeds(c)
  PROVE  TypesFit'
<1>1. /\ section' = section /\ calls' \subseteq calls /\ version' = version + 1
      /\ rows' = rows \ {c.row} /\ left' = left
      /\ raced' = (raced \/ c.sel # Selection(list) \/ c.shown # version)
  BY DEF DeleteSucceeds
<1>2. /\ IsList(list) /\ version \in Nat /\ ListTyped(list) /\ RowsTyped
      /\ (\A a \in requests : RequestFits(a, list) /\ RequestTyped(a)) /\ CallFits(c) /\ CallTyped(c)
      /\ left \in [{"clicks", "failures", "polls"} -> Nat] /\ raced \in BOOLEAN
  BY DEF ListInv, Drawable, ListFits, TypesFit, Deletions
<1>3. RowsTyped' /\ raced' \in BOOLEAN
  BY <1>1, <1>2, RowsDeleted
<1>4. ListTyped(list') /\ \A m \in requests' : RequestTyped(m)
  <2>1. CASE StepsBack(c)
    <3>1. PICK l : l = [list EXCEPT !.page = list.page - 1, !.deleting = None]
      OBVIOUS
    <3>2. Render(l, requests, disturbed)
      BY <2>1, <3>1 DEF DeleteSucceeds
    <3>3. IsList(l) /\ ListTyped(l)
      BY <1>2, <3>1 DEF IsList, Fields, ListTyped
    <3>4. QED
      BY <1>2, <3>2, <3>3, RenderedTypes
  <2>2. CASE ~StepsBack(c)
    <3>1. PICK l, r, awaited :
              /\ r = Reload(c.sel, "delete") /\ awaited = requests \cup {r}
              /\ l = [list EXCEPT !.loading = TRUE]
      OBVIOUS
    <3>2. Render(l, awaited, disturbed)
      BY <2>2, <3>1 DEF DeleteSucceeds
    <3>3. IsList(l) /\ ListTyped(l)
      BY <1>2, <3>1 DEF IsList, Fields, ListTyped
    <3>4. RequestFits(r, list) /\ RequestTyped(r)
      BY <1>2, <3>1, ReloadTypes DEF CallFits, CallTyped
    <3>5. QED
      BY <1>2, <3>1, <3>2, <3>3, <3>4, RenderedTypes
  <2>3. QED
    BY <2>1, <2>2
<1>5. QED
  BY <1>1, <1>2, <1>3, <1>4, TypesAssembled

LEMMA FinishedTypes ==
  ASSUME NEW o, IsList(o), ListTyped(o), NEW by, NEW n, n = Finished(o, by)
  PROVE  IsList(n) /\ ListTyped(n)
BY DEF Finished, IsList, Fields, ListTyped

LEMMA FailTypes ==
  ASSUME ListInv, TypesFit, NEW r \in requests, Fail(r)
  PROVE  TypesFit'
<1>1. /\ calls' = calls /\ section' = section /\ requests' = requests \ {r} /\ raced' = raced
      /\ list' = (IF r.by \in {"tenants", "products"} THEN list ELSE Finished(list, r.by))
      /\ rows' = rows /\ version' = version /\ Spend("failures")
  BY DEF Fail, serverVars
<1>2. ListTyped(list')
  BY <1>1, FinishedTypes DEF TypesFit, ListInv, Drawable, ListFits
<1>3. RowsTyped' /\ left' \in [{"clicks", "failures", "polls"} -> Nat]
  BY <1>1, RowsLeft, SpendTypes DEF TypesFit
<1>4. (\A q \in requests' : RequestTyped(q)) /\ raced' \in BOOLEAN
  BY <1>1 DEF TypesFit
<1>5. QED
  BY <1>1, <1>2, <1>3, <1>4, TypesAssembled

LEMMA ServerAnswersTypes ==
  ASSUME ListInv, TypesFit, NEW r \in requests, ServerAnswers(r)
  PROVE  TypesFit'
<1>1. PICK a, w : w = Answer(r.sel) /\ a = [r EXCEPT !.answer = w]
  OBVIOUS
<1>2. /\ calls' = calls /\ section' = section /\ raced' = raced /\ list' = list /\ left' = left
      /\ rows' = rows /\ version' = version /\ requests' = (requests \ {r}) \cup {a}
  BY <1>1 DEF ServerAnswers, serverVars
<1>3. RequestFits(r, list) /\ RequestTyped(r) /\ RowsTyped
  BY DEF ListInv, TypesFit
<1>4. a.sel = r.sel /\ a.answer = w
  BY <1>1, <1>3 DEF RequestFits
<1>5. w.total \in Nat /\ w.items \in Seq(Row)
  BY <1>1, <1>3, AnswerTyped DEF RequestFits, RequestTyped, IsSelection
<1>6. RequestTyped(a)
  BY <1>3, <1>4, <1>5 DEF RequestTyped
<1>7. RowsTyped' /\ left' \in [{"clicks", "failures", "polls"} -> Nat] /\ raced' \in BOOLEAN
  BY <1>2, RowsLeft DEF TypesFit
<1>8. (\A q \in requests' : RequestTyped(q)) /\ ListTyped(list')
  BY <1>2, <1>6 DEF TypesFit
<1>9. QED
  BY <1>2, <1>7, <1>8, TypesAssembled

LEMMA PollTypes ==
  ASSUME ListInv, TypesFit, Poll
  PROVE  TypesFit'
<1>1. PICK a : a = Ask(Selection(list), "poll")
  OBVIOUS
<1>2. /\ calls' = calls /\ section' = section /\ raced' = raced /\ list' = list
      /\ rows' = rows /\ version' = version /\ requests' = requests \cup {a} /\ Spend("polls")
  BY <1>1 DEF Poll, serverVars
<1>3. RequestTyped(a)
  <2>1. a.sel = Selection(list) /\ a.answer = Unanswered
    BY <1>1 DEF Ask
  <2>2. SelectionTyped(a.sel)
    BY <2>1 DEF Selection, SelectionTyped, TypesFit, ListTyped
  <2>3. QED
    BY <2>1, <2>2 DEF RequestTyped, Unanswered
<1>4. RowsTyped' /\ left' \in [{"clicks", "failures", "polls"} -> Nat]
  BY <1>2, RowsLeft, SpendTypes DEF TypesFit
<1>5. (\A q \in requests' : RequestTyped(q)) /\ ListTyped(list') /\ raced' \in BOOLEAN
  BY <1>2, <1>3 DEF TypesFit
<1>6. QED
  BY <1>2, <1>4, <1>5, TypesAssembled

\* Something to choose from, or rows, are drawn.
LEMMA DrawnTypes ==
  ASSUME ListInv, TypesFit, NEW r \in requests, NEW l, IsList(l), ListTyped(l), NEW d,
         Render(l, requests \ {r}, d), section' = section, UNCHANGED serverVars,
         calls' = calls, left' = left, raced' \in BOOLEAN
  PROVE  TypesFit'
<1>1. rows' = rows /\ version' = version
  BY DEF serverVars
<1>2. PICK awaited : awaited = requests \ {r}
  OBVIOUS
<1>3. \A a \in awaited : RequestFits(a, list) /\ RequestTyped(a)
  BY <1>2 DEF ListInv, TypesFit
<1>4. ListTyped(list') /\ \A m \in requests' : RequestTyped(m)
  BY <1>2, <1>3, RenderedTypes
<1>5. RowsTyped' /\ left' \in [{"clicks", "failures", "polls"} -> Nat]
  BY <1>1, RowsLeft DEF TypesFit
<1>6. QED
  BY <1>4, <1>5, TypesAssembled

LEMMA TenantsArriveTypes ==
  ASSUME ListInv, TypesFit, NEW r \in requests, TenantsArrive(r)
  PROVE  TypesFit'
<1>1. PICK l : l = WithTenants(list)
  OBVIOUS
<1>2. /\ Render(l, requests \ {r}, disturbed) /\ r.by = "tenants"
      /\ section' = section /\ UNCHANGED serverVars /\ calls' = calls /\ left' = left /\ raced' = raced
  BY <1>1 DEF TenantsArrive, WithTenants
<1>3. OfTenant
  BY <1>2 DEF ListInv, RequestFits
<1>4. IsList(l) /\ ListTyped(l)
  BY <1>1, <1>3, TenantsFit DEF ListFits
<1>5. raced' \in BOOLEAN
  BY <1>2 DEF TypesFit
<1>6. QED
  BY <1>2, <1>4, <1>5, DrawnTypes

LEMMA ProductsArriveTypes ==
  ASSUME ListInv, TypesFit, NEW r \in requests, ProductsArrive(r)
  PROVE  TypesFit'
<1>1. PICK l, listed : listed = ProductsOf(r.sel.tenant) /\ l = WithProducts(list, listed)
  OBVIOUS
<1>2. /\ Render(l, requests \ {r}, disturbed) /\ r.by = "products"
      /\ section' = section /\ UNCHANGED serverVars /\ calls' = calls /\ left' = left /\ raced' = raced
  BY <1>1 DEF ProductsArrive
<1>3. OfProduct
  BY <1>2 DEF ListInv, RequestFits
<1>4. IsList(l) /\ ListTyped(l)
  BY <1>1, <1>3, ProductsFit DEF ListFits
<1>5. raced' \in BOOLEAN
  BY <1>2 DEF TypesFit
<1>6. QED
  BY <1>2, <1>4, <1>5, DrawnTypes

LEMMA ArriveTypes ==
  ASSUME ListInv, TypesFit, NEW r \in requests, Arrive(r)
  PROVE  TypesFit'
<1>1. PICK n, l : n = Finished(list, r.by) /\ l = Answered(list, r)
  OBVIOUS
<1>2. PICK d : d = (disturbed \/ r.late \/ r.answer.version < list.shown)
  OBVIOUS
<1>3. /\ Render(l, requests \ {r}, d)
      /\ section' = section /\ UNCHANGED serverVars /\ calls' = calls /\ left' = left
      /\ raced' = (raced \/ r.late \/ r.sel # Selection(list))
  BY <1>1, <1>2 DEF Arrive, Answered
<1>4. IsList(n) /\ ListTyped(n)
  BY <1>1, FinishedTypes DEF TypesFit, ListInv, Drawable, ListFits
<1>5. RequestTyped(r) /\ RequestFits(r, list)
  BY DEF TypesFit, ListInv
<1>6. l = [n EXCEPT !.items = r.answer.items, !.total = r.answer.total, !.page = r.answer.page,
                    !.size = r.sel.size, !.shown = r.answer.version]
  BY <1>1 DEF Answered
<1>7. /\ IsList(l) /\ l.items = r.answer.items /\ l.total = r.answer.total /\ l.size = r.sel.size
      /\ l.tenants = n.tenants /\ l.tenant = n.tenant /\ l.products = n.products
      /\ l.filter = n.filter /\ l.product = n.product
      /\ l.deleting = n.deleting /\ l.editing = n.editing
  BY <1>4, <1>6 DEF IsList, Fields
<1>8. ListTyped(l)
  BY <1>4, <1>5, <1>7 DEF ListTyped, RequestTyped, SelectionTyped
<1>9. raced' \in BOOLEAN
  BY <1>3, <1>5 DEF TypesFit, RequestFits
<1>10. QED
  BY <1>3, <1>7, <1>8, <1>9, DrawnTypes

LEMMA StutterTypes ==
  ASSUME TypesFit, UNCHANGED listVars
  PROVE  TypesFit'
<1>1. /\ calls' = calls /\ section' = section /\ raced' = raced /\ list' = list /\ left' = left
      /\ rows' = rows /\ version' = version /\ requests' = requests
  BY DEF listVars
<1>2. RowsTyped'
  BY <1>1, RowsLeft DEF TypesFit
<1>3. /\ ListTyped(list') /\ (\A r \in requests' : RequestTyped(r))
      /\ left' \in [{"clicks", "failures", "polls"} -> Nat] /\ raced' \in BOOLEAN
  BY <1>1 DEF TypesFit
<1>4. QED
  BY <1>1, <1>2, <1>3, TypesAssembled

----------------------------------------------------------------------------
(* Every page that is shown exists. *)

LEMMA InitTypes ==
  ASSUME Init
  PROVE  TypesFit
<1>1. PICK o, r : o = list /\ r = IF OfTenant THEN Ask(Selection(o), "tenants") ELSE Ask(Selection(o), "effect")
  OBVIOUS
<1>2. PICK size : size = CHOOSE s \in Sizes : \A t \in Sizes : s >= t
  OBVIOUS
<1>3. /\ requests = {r} /\ calls = {} /\ rows = InitialRows /\ version = 0
      /\ left \in Budgets /\ raced = FALSE
      /\ o = [tenants |-> {}, tenant |-> None, filter |-> None, products |-> {},
              page |-> 1, size |-> size, items |-> <<>>, total |-> 0, shown |-> -1,
              loading |-> ~OfTenant, saving |-> FALSE,
              deleting |-> None, mode |-> "closed", editing |-> None, product |-> None]
  BY <1>1, <1>2 DEF Init
<1>4. size \in Sizes
  <2>1. \E s \in Sizes : \A t \in Sizes : s >= t
    BY ListWorld
  <2>2. QED
    BY <1>2, <2>1, Zenon
<1>5. ListTyped(o)
  BY <1>3, <1>4 DEF ListTyped
<1>6. RequestTyped(r)
  <2>1. r.sel = Selection(o) /\ r.answer = Unanswered
    BY <1>1 DEF Ask
  <2>2. SelectionTyped(r.sel)
    BY <1>5, <2>1 DEF Selection, SelectionTyped, ListTyped
  <2>3. QED
    BY <2>1, <2>2 DEF RequestTyped, Unanswered
<1>7. RowsTyped
  <2>1. PICK k \in Nat : k = Cardinality(InitialRows)
    BY ListWorld, FS_CardinalityType
  <2>2. \A r2 \in rows : r2.id <= k + version /\ r2.tenant # None /\ TenantOf[r2.product] = r2.tenant
    BY <1>3, <2>1, ListWorld
  <2>3. rows \subseteq Row /\ IsFiniteSet(rows) /\ \A a, b \in rows : a.id = b.id => a = b
    BY <1>3, ListWorld DEF Row
  <2>4. QED
    BY <2>1, <2>2, <2>3 DEF RowsTyped
<1>8. left \in [{"clicks", "failures", "polls"} -> Nat]
  BY <1>3, ListWorld
<1>9. QED
  BY <1>1, <1>3, <1>5, <1>6, <1>7, <1>8 DEF TypesFit

LEMMA InitPages ==
  ASSUME Init
  PROVE  PagesFit
<1>1. list.page = 1 /\ list.shown = -1 /\ version = 0 /\ calls = {}
  BY DEF Init
<1>2. PageFits(list, disturbed, raced)
  BY <1>1 DEF PageFits, PageThere
<1>3. ProductsAsked(requests, list)
  BY DEF Init, Ask, ProductsAsked
<1>4. QED
  BY <1>1, <1>2, <1>3 DEF PagesFit, CallsCount

\* Each step keeps the types, and the pages.
LEMMA UserTypes ==
  ASSUME ListInv, TypesFit, User
  PROVE  TypesFit'
<1>1. UserStep
  BY UserSteps
<1>2. QED
  BY <1>1, ChoiceTypes, PageChangeTypes, SubmitTypes, DeleteTypes DEF UserStep

LEMMA UserPages ==
  ASSUME PageInv, User
  PROVE  PagesFit'
<1>1. UserStep
  BY UserSteps DEF PageInv
<1>2. QED
  BY <1>1, ChoicePages, PageChangePages, SubmitPages, DeletePages DEF UserStep

\* What the network does, by the actions it is made of.
NetworkStep ==
    \/ \E c \in Saves : SaveSucceeds(c) \/ \E done \in BOOLEAN : SaveFails(c, done)
    \/ \E c \in Deletions : DeleteSucceeds(c) \/ \E done \in BOOLEAN : DeleteFails(c, done)
    \/ \E r \in requests : ServerAnswers(r) \/ Arrive(r) \/ Fail(r) \/ TenantsArrive(r) \/ ProductsArrive(r)

LEMMA NetworkSteps ==
  ASSUME Network
  PROVE  NetworkStep
<1>1. CASE SaveEnds \/ DeleteEnds
  BY <1>1 DEF SaveEnds, DeleteEnds, NetworkStep
<1>2. CASE \E by \in {"effect", "save", "delete", "poll"} : Answers(by)
  BY <1>2 DEF Answers, NetworkStep
<1>3. CASE \E r \in requests : \/ TenantsArrive(r) \/ ProductsArrive(r)
                               \/ r.by \in {"tenants", "products"} /\ Fail(r)
  BY <1>3 DEF NetworkStep
<1>4. QED
  BY <1>1, <1>2, <1>3 DEF Network

LEMMA NetworkTypes ==
  ASSUME ListInv, TypesFit, Network
  PROVE  TypesFit'
<1>1. NetworkStep
  BY NetworkSteps
<1>2. CASE \E c \in Saves : SaveSucceeds(c) \/ \E done \in BOOLEAN : SaveFails(c, done)
  BY <1>2, SaveSucceedsTypes, SaveFailsTypes
<1>3. CASE \E c \in Deletions : DeleteSucceeds(c) \/ \E done \in BOOLEAN : DeleteFails(c, done)
  BY <1>3, DeleteSucceedsTypes, DeleteFailsTypes
<1>4. CASE \E r \in requests : ServerAnswers(r) \/ Arrive(r) \/ Fail(r) \/ TenantsArrive(r) \/ ProductsArrive(r)
  BY <1>4, ServerAnswersTypes, ArriveTypes, FailTypes, TenantsArriveTypes, ProductsArriveTypes
<1>5. QED
  BY <1>1, <1>2, <1>3, <1>4 DEF NetworkStep

LEMMA NetworkPages ==
  ASSUME PageInv, Network
  PROVE  PagesFit'
<1>1. NetworkStep
  BY NetworkSteps
<1>2. CASE \E c \in Saves : SaveSucceeds(c) \/ \E done \in BOOLEAN : SaveFails(c, done)
  BY <1>2, SaveSucceedsPages, SaveFailsPages
<1>3. CASE \E c \in Deletions : DeleteSucceeds(c) \/ \E done \in BOOLEAN : DeleteFails(c, done)
  BY <1>3, DeleteSucceedsPages, DeleteFailsPages
<1>4. CASE \E r \in requests : ServerAnswers(r) \/ Arrive(r) \/ Fail(r) \/ TenantsArrive(r) \/ ProductsArrive(r)
  BY <1>4, ServerAnswersPages, ArrivePages, FailPages, TenantsArrivePages, ProductsArrivePages
<1>5. QED
  BY <1>1, <1>2, <1>3, <1>4 DEF NetworkStep

LEMMA PagesHold == Spec => []PageInv
<1>1. Init => PageInv
  BY InitFits, InitTypes, InitPages DEF PageInv
<1>2. ListInv /\ TypesFit /\ [Next]_listVars => TypesFit'
  <2>1. SUFFICES ASSUME ListInv, TypesFit, [Next]_listVars
                 PROVE  TypesFit'
    OBVIOUS
  <2>2. CASE UNCHANGED listVars
    BY <2>1, <2>2, StutterTypes
  <2>3. CASE User
    BY <2>1, <2>3, UserTypes
  <2>4. CASE Network
    BY <2>1, <2>4, NetworkTypes
  <2>5. CASE Poll
    BY <2>1, <2>5, PollTypes
  <2>6. QED
    BY <2>1, <2>2, <2>3, <2>4, <2>5 DEF Next
<1>3. PageInv /\ [Next]_listVars => PagesFit'
  <2>1. SUFFICES ASSUME PageInv, [Next]_listVars
                 PROVE  PagesFit'
    OBVIOUS
  <2>2. CASE UNCHANGED listVars
    BY <2>1, <2>2, StutterPages
  <2>3. CASE User
    BY <2>1, <2>3, UserPages
  <2>4. CASE Network
    BY <2>1, <2>4, NetworkPages
  <2>5. CASE Poll
    BY <2>1, <2>5, PollPages
  <2>6. QED
    BY <2>1, <2>2, <2>3, <2>4, <2>5 DEF Next
<1>4. PageInv <=> ListInv /\ TypesFit /\ PagesFit
  BY DEF PageInv
<1>5. QED
  BY <1>1, <1>2, <1>3, <1>4, ListsHold, PTL DEF Spec

\* The page, the server and what is between them are of their types: rows that were
\* listed, saved and deleted included.
THEOREM ListTypeOK == Spec => []TypeOK
<1>1. ASSUME PageInv
      PROVE  TypeOK
  <2>1. ListInv /\ TypesFit
    BY <1>1 DEF PageInv
  <2>2. /\ section \in Sections /\ version \in Nat /\ disturbed \in BOOLEAN
        /\ list.page \in Int /\ list.loading \in BOOLEAN /\ list.saving \in BOOLEAN
        /\ list.mode \in {"closed", "create", "edit"}
    BY <2>1 DEF ListInv, Drawable, ListFits
  <2>3. ShownRows \subseteq Row
    BY <2>1 DEF ShownRows, TypesFit, ListTyped
  <2>4. QED
    BY <2>1, <2>2, <2>3 DEF TypeOK, TypesFit, ListTyped, RowsTyped
<1>2. QED
  BY <1>1, PagesHold, PTL

\* Once everything is answered the page that is shown exists, however many rows were
\* deleted from it and in whatever order the answers came, unless a page was turned or
\* a row deleted while the list was out of date, or a page of another list was taken.
THEOREM ThePageExists == Spec => []PageExists
<1>1. ASSUME PageInv, Settled, ~disturbed, ~raced
      PROVE  list.page <= TotalPages(list.total, list.size)
  <2>1. /\ ListFits(list) /\ ListTyped(list) /\ RowsTyped /\ Comes(list, requests, disturbed)
        /\ PageFits(list, disturbed, raced)
    BY <1>1 DEF PageInv, ListInv, Drawable, TypesFit, PagesFit
  <2>2. Newest(list)
    BY <1>1, <2>1 DEF Comes, Settled
  <2>3. list.total = HowMany(list.tenant, list.filter)
    BY <2>1, <2>2, ListedLength DEF Newest, Shows
  <2>4. PageThere(list.page, list.size, list.total)
    BY <1>1, <2>1, <2>3 DEF PageFits
  <2>5. list.total \in Nat /\ list.size \in Nat \ {0} /\ list.page \in Int
    BY <2>1, ListWorld DEF ListTyped, ListFits
  <2>6. QED
    BY <2>4, <2>5, PagesOf
<1>2. PageInv => PageExists
  BY <1>1 DEF PageExists
<1>3. QED
  BY <1>2, PagesHold, PTL

=============================================================================
