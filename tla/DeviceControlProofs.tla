------------------------ MODULE DeviceControlProofs ------------------------
(***************************************************************************)
(* The device page keeps its selection together, and a command names the   *)
(* services and properties of the device it is sent to.                    *)
(*                                                                         *)
(* The invariant behind the four properties of DeviceControl: a question   *)
(* that is neither under way nor failed has its answer on the page, every  *)
(* question under way is the one the page would ask now, and the forms are *)
(* those of the model on the page.  An effect that draws the page          *)
(* anew keeps this (RenderFits), whatever it changed of the selection.     *)
(***************************************************************************)
EXTENDS DeviceControl, TLAPS, FiniteSetTheorems

\* The lists of devices, with what is shown of their connections.
DeviceLists == UNION {[S -> BOOLEAN] : S \in SUBSET Devices}

PageType ==
    [tenants : SUBSET Tenants, tenant : Tenants \cup {None},
     products : SUBSET Products, filter : Products \cup {None},
     devices : DeviceLists, device : Devices \cup {None},
     model : Products \cup {None}, loading : BOOLEAN,
     form : [Kinds -> Form], busy : [Kinds -> BOOLEAN],
     result : [Kinds -> Devices \cup {None}], strayed : [Kinds -> BOOLEAN]]

\* An effect asked q, and its answer is awaited.
Asked(q, reqs) == \E r \in reqs : r.what = q /\ r.by = "effect"

\* The page p would ask r now.
Apt(r, p) ==
    /\ r.what \in Questions
    /\ r.deps = Deps(r.what, p)
    /\ Asks(r.what, p)
    /\ r.by = "effect" \/ (r.by = "poll" /\ r.what = "devices")

\* What is known of the selection when q was answered last, and not asked since.
ProductsHold(p) == p.products \subseteq ListedProducts(p.tenant) /\ p.filter \in p.products \cup {None}

DevicesHold(p) ==
    /\ \A d \in DOMAIN p.devices : /\ TenantOf[ProductOf[d]] = p.tenant
                                   /\ p.filter # None => ProductOf[d] = p.filter
    /\ DOMAIN p.devices = {} => p.device = None
    /\ DOMAIN p.devices # {} => p.device \in DOMAIN p.devices

ModelHolds(p) ==
    /\ Asks("model", p) => p.model = CurrentModel(p.tenant, SelectedProduct(p))
    /\ ~Asks("model", p) => p.model = None

Holds(q, p) ==
    /\ q = "products" => ProductsHold(p)
    /\ q = "devices" => DevicesHold(p)
    /\ q = "model" => ModelHolds(p)

\* Failed or not, a model that is not asked for is no other product's.
ModelSettled(p) ==
    /\ p.model \in {None, SelectedProduct(p)}
    /\ ~(p.loading /\ Asks("model", p))

Consistent(p, reqs, failed) ==
    /\ \A q \in Questions : q \notin failed /\ ~Asked(q, reqs) => Holds(q, p)
    /\ ~Asked("model", reqs) => ModelSettled(p)

\* Nothing is listed before there is a tenant.
Bare(p) ==
    p.tenant = None => /\ p.products = {} /\ p.filter = None
                       /\ DOMAIN p.devices = {} /\ p.device = None
                       /\ p.model = None

FormsFit(p) ==
    /\ p.form["set"].model = IF p.model \in Writable THEN p.model ELSE None
    /\ p.form["call"].model = p.model
    /\ p.form["call"].service \in ServicesOf(p.model) \cup {None}

ResultsStray(p) == \A k \in Kinds : p.result[k] \notin {None, p.device} => p.strayed[k]

Drawn(p) == p \in PageType /\ Bare(p) /\ FormsFit(p) /\ ResultsStray(p)

\* At most one command of a kind, just while its button is disabled.
OneEach ==
    /\ \A c1, c2 \in commands : c1.kind = c2.kind => c1 = c2
    /\ \A k \in Kinds : page.busy[k] <=> \E c \in commands : c.kind = k

WorldType ==
    /\ commands \subseteq [kind : Kinds, device : Devices, model : Products \cup {None}, pending : BOOLEAN]
    /\ alive \subseteq Devices /\ online \subseteq Devices
    /\ wire \subseteq [device : Devices, online : BOOLEAN]
    /\ left \in [{"clicks", "changes", "failures"} -> Nat]
    /\ stale \subseteq Questions

\* The inductive invariant.
ControlInv ==
    /\ WorldType
    /\ Drawn(page)
    /\ \A r \in requests : Apt(r, page)
    /\ Consistent(page, requests, stale)
    /\ CommandFitsDevice
    /\ OneEach

----------------------------------------------------------------------------
(* The world, and lists. *)

LEMMA NothingIsNone ==
  /\ None \notin Tenants /\ None \notin Products /\ None \notin Devices
  /\ \A p \in Products : None \notin Services[p]
BY ControlWorld

LEMMA WorldMaps ==
  /\ \A p \in Products : TenantOf[p] \in Tenants
  /\ \A d \in Devices : ProductOf[d] \in Products
  /\ Writable \subseteq Products
BY ControlWorld

\* The first of a list is one of it, or none.
LEMMA FirstIsListed ==
  ASSUME NEW S
  PROVE  /\ First(S) \in S \cup {None}
         /\ S # {} => First(S) \in S
         /\ S = {} => First(S) = None
BY DEF First

\* A list of devices: any set of them, each shown in one way or the other.
LEMMA DeviceListsOf ==
  ASSUME NEW f
  PROVE  f \in DeviceLists <=> DOMAIN f \subseteq Devices /\ f \in [DOMAIN f -> BOOLEAN]
<1>1. ASSUME f \in DeviceLists
      PROVE  DOMAIN f \subseteq Devices /\ f \in [DOMAIN f -> BOOLEAN]
  <2>1. PICK S \in SUBSET Devices : f \in [S -> BOOLEAN]
    BY <1>1 DEF DeviceLists
  <2>2. DOMAIN f = S
    BY <2>1
  <2>3. QED
    BY <2>1, <2>2
<1>2. ASSUME DOMAIN f \subseteq Devices, f \in [DOMAIN f -> BOOLEAN]
      PROVE  f \in DeviceLists
  BY <1>2 DEF DeviceLists
<1>3. QED
  BY <1>1, <1>2

\* The fields of a page.
LEMMA PageFields ==
  ASSUME NEW p \in PageType
  PROVE  /\ p.tenants \subseteq Tenants /\ p.tenant \in Tenants \cup {None}
         /\ p.products \subseteq Products /\ p.filter \in Products \cup {None}
         /\ DOMAIN p.devices \subseteq Devices /\ p.devices \in [DOMAIN p.devices -> BOOLEAN]
         /\ p.device \in Devices \cup {None}
         /\ p.model \in Products \cup {None} /\ p.loading \in BOOLEAN
         /\ p.form \in [Kinds -> Form] /\ p.busy \in [Kinds -> BOOLEAN]
         /\ p.result \in [Kinds -> Devices \cup {None}] /\ p.strayed \in [Kinds -> BOOLEAN]
<1>1. p.devices \in DeviceLists
  BY DEF PageType
<1>2. DOMAIN p.devices \subseteq Devices /\ p.devices \in [DOMAIN p.devices -> BOOLEAN]
  BY <1>1, DeviceListsOf
<1>3. QED
  BY <1>2 DEF PageType

LEMMA SelectedIsProduct ==
  ASSUME NEW p \in PageType
  PROVE  SelectedProduct(p) \in Products \cup {None}
BY PageFields, WorldMaps DEF SelectedProduct

\* The model of a product: its own, or none when it is another tenant's.
LEMMA ModelOfProduct ==
  ASSUME NEW t, NEW product
  PROVE  CurrentModel(t, product) \in {None, product}
BY DEF CurrentModel

\* An empty form is a form, whatever the services.
LEMMA FormsOf ==
  ASSUME NEW f, f.model \in Products \cup {None}, f.valid \in BOOLEAN,
         f.service \in (UNION {Services[p] : p \in Products}) \cup {None},
         f = [model |-> f.model, service |-> f.service, valid |-> f.valid]
  PROVE  f \in Form
<1> DEFINE all == UNION {Services[p] : p \in Products}
<1>1. f.service \in all \cup {None}
  OBVIOUS
<1>2. Form = [model : Products \cup {None}, service : all \cup {None}, valid : BOOLEAN]
  BY DEF Form
<1> HIDE DEF all
<1>3. QED
  BY <1>1, <1>2

\* A form whose validity changes keeps what is chosen in it.
LEMMA FlippedFits ==
  ASSUME NEW f \in Form
  PROVE  LET g == [f EXCEPT !.valid = ~f.valid]
         IN  g \in Form /\ g.model = f.model /\ g.service = f.service
<1> DEFINE all == UNION {Services[p] : p \in Products}
<1>1. Form = [model : Products \cup {None}, service : all \cup {None}, valid : BOOLEAN]
  BY DEF Form
<1> HIDE DEF all
<1>2. QED
  BY <1>1

LEMMA ServicesOfType ==
  ASSUME NEW m \in Products \cup {None}
  PROVE  ServicesOf(m) \subseteq UNION {Services[p] : p \in Products}
BY DEF ServicesOf

----------------------------------------------------------------------------
(* What the questions depend on. *)

\* Pages with the same selection ask the same.
LEMMA SameSelection ==
  ASSUME NEW p, NEW o, p.tenant = o.tenant, p.filter = o.filter, p.device = o.device,
         DOMAIN p.devices = DOMAIN o.devices
  PROVE  /\ SelectedProduct(p) = SelectedProduct(o)
         /\ \A q \in Questions : Deps(q, p) = Deps(q, o) /\ (Asks(q, p) <=> Asks(q, o))
<1>1. SelectedProduct(p) = SelectedProduct(o)
  BY DEF SelectedProduct
<1>2. ASSUME NEW q \in Questions
      PROVE  Deps(q, p) = Deps(q, o) /\ (Asks(q, p) <=> Asks(q, o))
  BY <1>1 DEF Questions, Deps, Asks
<1>3. QED
  BY <1>1, <1>2

\* The parts of the dependencies.
LEMMA DepsParts ==
  ASSUME NEW p, NEW o
  PROVE  /\ Deps("tenants", p) = Deps("tenants", o)
         /\ Deps("products", p) = Deps("products", o) <=> p.tenant = o.tenant
         /\ Deps("devices", p) = Deps("devices", o) <=> p.tenant = o.tenant /\ p.filter = o.filter
         /\ Deps("model", p) = Deps("model", o) <=>
              p.tenant = o.tenant /\ SelectedProduct(p) = SelectedProduct(o)
BY DEF Deps

\* Whether there is something to ask follows from what the question depends on.
LEMMA AsksByDeps ==
  ASSUME NEW p, NEW o, NEW q \in Questions, Deps(q, p) = Deps(q, o)
  PROVE  Asks(q, p) <=> Asks(q, o)
BY DepsParts DEF Questions, Asks

LEMMA HoldsWhenSame ==
  ASSUME NEW p, NEW o, p.tenant = o.tenant, p.filter = o.filter, p.device = o.device,
         DOMAIN p.devices = DOMAIN o.devices
  PROVE  /\ p.products = o.products => (ProductsHold(p) <=> ProductsHold(o))
         /\ DevicesHold(p) <=> DevicesHold(o)
         /\ p.model = o.model => (ModelHolds(p) <=> ModelHolds(o))
<1>1. SelectedProduct(p) = SelectedProduct(o) /\ (Asks("model", p) <=> Asks("model", o))
  BY SameSelection DEF Questions
<1>2. QED
  BY <1>1 DEF ProductsHold, DevicesHold, ModelHolds

\* An answer that came settles no other question.
LEMMA AskedWithout ==
  ASSUME NEW reqs, NEW r \in reqs, NEW q, r.what # q \/ r.by # "effect"
  PROVE  Asked(q, reqs \ {r}) <=> Asked(q, reqs)
BY DEF Asked

----------------------------------------------------------------------------
(* Drawing the page. *)

\* Without a model the forms are empty and no result is shown.
LEMMA WithoutModelFits ==
  ASSUME NEW p, p \in PageType, Bare(p), NEW o, o = WithoutModel(p)
  PROVE  /\ Drawn(o) /\ o.model = None
         /\ o.tenants = p.tenants /\ o.tenant = p.tenant /\ o.products = p.products /\ o.filter = p.filter
         /\ o.devices = p.devices /\ o.device = p.device /\ o.loading = p.loading /\ o.busy = p.busy
<1>1. EmptyForm \in Form /\ EmptyForm.model = None /\ EmptyForm.service = None
  <2>1. EmptyForm.model = None /\ EmptyForm.service = None /\ EmptyForm.valid = TRUE
    BY DEF EmptyForm
  <2>2. EmptyForm = [model |-> EmptyForm.model, service |-> EmptyForm.service, valid |-> EmptyForm.valid]
    BY <2>1 DEF EmptyForm
  <2>3. QED
    BY <2>1, <2>2, FormsOf
<1>2. o \in PageType
  <2>1. [set |-> EmptyForm, call |-> EmptyForm] \in [Kinds -> Form]
    BY <1>1 DEF Kinds
  <2>2. /\ [k \in Kinds |-> None] \in [Kinds -> Devices \cup {None}]
        /\ [k \in Kinds |-> FALSE] \in [Kinds -> BOOLEAN]
    OBVIOUS
  <2>3. QED
    BY <2>1, <2>2 DEF WithoutModel, PageType
<1>3. /\ o.model = None
      /\ o.tenants = p.tenants /\ o.tenant = p.tenant /\ o.products = p.products /\ o.filter = p.filter
      /\ o.devices = p.devices /\ o.device = p.device /\ o.loading = p.loading /\ o.busy = p.busy
  BY DEF WithoutModel, PageType
<1>4. /\ o.form = [set |-> EmptyForm, call |-> EmptyForm]
      /\ o.result = [k \in Kinds |-> None]
  BY DEF WithoutModel, PageType
<1>5. Bare(o)
  BY <1>3 DEF Bare
<1>6. FormsFit(o)
  BY <1>1, <1>3, <1>4, NothingIsNone, WorldMaps DEF FormsFit
<1>7. ResultsStray(o)
  BY <1>4 DEF ResultsStray, Kinds
<1>8. QED
  BY <1>2, <1>3, <1>5, <1>6, <1>7 DEF Drawn

\* The loading indicator is no part of what Drawn says.
Loading(p, b) == [p EXCEPT !.loading = b]
ButForLoading(o, p) ==
    /\ o.tenants = p.tenants /\ o.tenant = p.tenant /\ o.products = p.products /\ o.filter = p.filter
    /\ o.devices = p.devices /\ o.device = p.device /\ o.model = p.model /\ o.busy = p.busy

LEMMA LoadingFits ==
  ASSUME NEW p, Drawn(p), NEW b \in BOOLEAN, NEW o, o = Loading(p, b)
  PROVE  Drawn(o) /\ o.loading = b /\ ButForLoading(o, p)
<1>1. o \in PageType
  BY DEF Loading, PageType, Drawn
<1>2. /\ o.loading = b /\ o.form = p.form /\ o.result = p.result /\ o.strayed = p.strayed
      /\ o.tenants = p.tenants /\ o.tenant = p.tenant /\ o.products = p.products /\ o.filter = p.filter
      /\ o.devices = p.devices /\ o.device = p.device /\ o.model = p.model /\ o.busy = p.busy
  BY DEF Loading, PageType, Drawn
<1>3. Bare(o) /\ FormsFit(o) /\ ResultsStray(o)
  BY <1>2 DEF Drawn, Bare, FormsFit, ResultsStray
<1>4. QED
  BY <1>1, <1>2, <1>3 DEF Drawn, ButForLoading

\* The page drawn with the selection p, from the questions that are still awaited
\* and the ones that failed: what p answers it keeps, what changed it asks again,
\* and only a model may be left unasked, when there is no product.
LEMMA RenderFits ==
  ASSUME NEW p, Drawn(p), NEW awaited, NEW failed, failed \subseteq Questions,
         \A r \in awaited : Apt(r, page),
         \A q \in Questions : Deps(q, p) = Deps(q, page) /\ q \notin failed /\ ~Asked(q, awaited) => Holds(q, p),
         Deps("model", p) = Deps("model", page) /\ ~Asked("model", awaited) => ModelSettled(p),
         \A q \in Questions : Deps(q, p) # Deps(q, page) => Asks(q, p) \/ q = "model",
         Render(p, awaited, failed)
  PROVE  /\ Drawn(page') /\ page'.busy = p.busy
         /\ \A r \in requests' : Apt(r, page')
         /\ Consistent(page', requests', stale')
         /\ stale' \subseteq Questions
<1> DEFINE changed == {q \in Questions : Deps(q, p) # Deps(q, page)}
           starts == {q \in changed : Asks(q, p)}
           kept == {r \in awaited : /\ r.by = "effect" => r.what \notin changed
                                    /\ r.by = "poll" => <<p.tenant, p.filter, p.device>> =
                                                        <<page.tenant, page.filter, page.device>>}
           drawn == IF "model" \in changed \ starts THEN WithoutModel(p) ELSE p
<1>1. /\ page' = [drawn EXCEPT !.loading = @ \/ "model" \in starts]
      /\ requests' = kept \cup {Question(q, p, "effect") : q \in starts}
      /\ stale' = failed \ changed
  BY DEF Render
<1>2. /\ Drawn(drawn) /\ drawn.tenant = p.tenant /\ drawn.products = p.products /\ drawn.filter = p.filter
      /\ drawn.devices = p.devices /\ drawn.device = p.device /\ drawn.loading = p.loading /\ drawn.busy = p.busy
      /\ drawn.model = IF "model" \in changed \ starts THEN None ELSE p.model
  <2>1. CASE "model" \in changed \ starts
    <3>1. drawn = WithoutModel(p)
      BY <2>1
    <3>2. QED
      BY <2>1, <3>1, WithoutModelFits DEF Drawn
  <2>2. CASE "model" \notin changed \ starts
    BY <2>2
  <2>3. QED
    BY <2>1, <2>2
<1>3. drawn.loading \in BOOLEAN
  BY <1>2, PageFields DEF Drawn
<1> HIDE DEF drawn, starts, changed, kept
<1>4. /\ Drawn(page') /\ page'.tenant = p.tenant /\ page'.products = p.products /\ page'.filter = p.filter
      /\ page'.devices = p.devices /\ page'.device = p.device /\ page'.busy = p.busy
      /\ page'.loading = (p.loading \/ "model" \in starts)
      /\ page'.model = IF "model" \in changed \ starts THEN None ELSE p.model
  <2> DEFINE loading == drawn.loading \/ "model" \in starts
  <2>1. loading \in BOOLEAN
    OBVIOUS
  <2>2. page' = Loading(drawn, loading)
    BY <1>1 DEF Loading
  <2>3. loading = (p.loading \/ "model" \in starts)
    BY <1>2
  <2> HIDE DEF loading
  <2>4. /\ Drawn(page') /\ page'.loading = loading
        /\ page'.tenants = drawn.tenants /\ page'.tenant = drawn.tenant /\ page'.products = drawn.products
        /\ page'.filter = drawn.filter /\ page'.devices = drawn.devices /\ page'.device = drawn.device
        /\ page'.model = drawn.model /\ page'.busy = drawn.busy
    <3>1. Drawn(page') /\ page'.loading = loading /\ ButForLoading(page', drawn)
      BY <1>2, <2>1, <2>2, LoadingFits
    <3>2. QED
      BY <3>1 DEF ButForLoading
  <2>5. QED
    BY <1>2, <2>3, <2>4
<1>5. /\ SelectedProduct(page') = SelectedProduct(p)
      /\ \A q \in Questions : Deps(q, page') = Deps(q, p) /\ (Asks(q, page') <=> Asks(q, p))
  BY <1>4, SameSelection
<1>6. starts \subseteq changed /\ changed \subseteq Questions
  BY DEF starts, changed
<1>7. ASSUME NEW r \in requests' PROVE Apt(r, page')
  <2>1. CASE r \in kept
    <3>1. r \in awaited /\ Apt(r, page)
      BY <2>1 DEF kept
    <3>2. Deps(r.what, p) = Deps(r.what, page)
      <4>1. CASE r.by = "effect"
        BY <2>1, <3>1, <4>1 DEF kept, changed, Apt
      <4>2. CASE r.by = "poll" /\ r.what = "devices"
        BY <2>1, <4>2, DepsParts DEF kept
      <4>3. QED
        BY <3>1, <4>1, <4>2 DEF Apt
    <3>3. Asks(r.what, p) <=> Asks(r.what, page)
      BY <3>1, <3>2, AsksByDeps DEF Apt
    <3>4. QED
      BY <1>5, <3>1, <3>2, <3>3 DEF Apt
  <2>2. CASE r \in {Question(q, p, "effect") : q \in starts}
    <3>1. PICK q \in starts : r = Question(q, p, "effect")
      BY <2>2
    <3>2. q \in Questions /\ Asks(q, p)
      BY <1>6 DEF starts
    <3>3. r.what = q /\ r.deps = Deps(q, p) /\ r.by = "effect"
      BY <3>1 DEF Question
    <3>4. QED
      BY <1>5, <3>2, <3>3 DEF Apt
  <2>3. QED
    BY <1>1, <1>7, <2>1, <2>2
<1>8. \A q \in starts : Asked(q, requests')
  <2> SUFFICES ASSUME NEW q \in starts
               PROVE  Asked(q, requests')
    OBVIOUS
  <2>1. Question(q, p, "effect") \in requests'
    BY <1>1
  <2>2. Question(q, p, "effect").what = q /\ Question(q, p, "effect").by = "effect"
    BY DEF Question
  <2>3. QED
    BY <2>1, <2>2 DEF Asked
\* A question that is not asked now was not asked before, unless its dependencies changed.
<1>9. ASSUME NEW q \in Questions, ~Asked(q, requests'), q \notin changed
      PROVE  ~Asked(q, awaited)
  <2> SUFFICES ASSUME NEW r \in awaited, r.what = q, r.by = "effect"
               PROVE  FALSE
    BY DEF Asked
  <2>1. r \in kept
    BY <1>9 DEF kept
  <2>2. QED
    BY <1>1, <1>9, <2>1 DEF Asked
<1>10. ASSUME NEW q \in Questions, q \notin stale', ~Asked(q, requests')
       PROVE  Holds(q, page')
  <2>1. CASE q \in changed
    <3>1. q \notin starts
      BY <1>8, <1>10
    <3>2. q = "model" /\ ~Asks("model", p)
      BY <2>1, <3>1 DEF changed, starts
    <3>3. page'.model = None /\ ~Asks("model", page')
      BY <1>4, <1>5, <2>1, <3>1, <3>2
    <3>4. QED
      BY <3>2, <3>3 DEF Holds, ModelHolds
  <2>2. CASE q \notin changed
    <3>1. ~Asked(q, awaited) /\ q \notin failed /\ Deps(q, p) = Deps(q, page)
      BY <1>1, <1>9, <1>10, <2>2 DEF changed
    <3>2. Holds(q, p)
      BY <3>1
    <3>3. q = "model" => page'.model = p.model
      BY <1>4, <2>2
    <3>4. QED
      BY <1>4, <3>2, <3>3, HoldsWhenSame DEF Holds
  <2>3. QED
    BY <2>1, <2>2
<1>11. ASSUME ~Asked("model", requests')
       PROVE  ModelSettled(page')
  <2>1. "model" \notin starts /\ "model" \in Questions
    BY <1>8, <1>11 DEF Questions
  <2>2. CASE "model" \in changed
    <3>1. page'.model = None /\ ~Asks("model", page')
      BY <1>4, <1>5, <2>1, <2>2 DEF changed, starts
    <3>2. QED
      BY <3>1 DEF ModelSettled
  <2>3. CASE "model" \notin changed
    <3>1. ~Asked("model", awaited) /\ Deps("model", p) = Deps("model", page)
      BY <1>9, <1>11, <2>1, <2>3 DEF changed
    <3>2. ModelSettled(p)
      BY <3>1
    <3>3. page'.model = p.model /\ (page'.loading <=> p.loading)
      BY <1>4, <2>1, <2>3
    <3>4. QED
      BY <1>5, <2>1, <3>2, <3>3 DEF ModelSettled
  <2>4. QED
    BY <2>2, <2>3
<1>12. stale' \subseteq Questions
  BY <1>1
<1>13. QED
  BY <1>4, <1>7, <1>10, <1>11, <1>12 DEF Consistent

----------------------------------------------------------------------------
(* Choosing a tenant, a product, a device. *)

\* Without results nothing strays; the rest of the page is as it was.
LEMMA NoResultsFits ==
  ASSUME NEW p, p \in PageType, Bare(p), FormsFit(p), NEW o, o = NoResults(p)
  PROVE  /\ Drawn(o)
         /\ o.tenants = p.tenants /\ o.tenant = p.tenant /\ o.products = p.products /\ o.filter = p.filter
         /\ o.devices = p.devices /\ o.device = p.device /\ o.model = p.model /\ o.loading = p.loading
         /\ o.form = p.form /\ o.busy = p.busy
<1>1. /\ [k \in Kinds |-> None] \in [Kinds -> Devices \cup {None}]
      /\ [k \in Kinds |-> FALSE] \in [Kinds -> BOOLEAN]
  OBVIOUS
<1>2. o \in PageType
  BY <1>1 DEF NoResults, PageType
<1>3. /\ o.tenants = p.tenants /\ o.tenant = p.tenant /\ o.products = p.products /\ o.filter = p.filter
      /\ o.devices = p.devices /\ o.device = p.device /\ o.model = p.model /\ o.loading = p.loading
      /\ o.form = p.form /\ o.busy = p.busy /\ o.result = [k \in Kinds |-> None]
  BY DEF NoResults, PageType
<1>4. Bare(o) /\ FormsFit(o)
  BY <1>3 DEF Bare, FormsFit
<1>5. ResultsStray(o)
  BY <1>3 DEF ResultsStray
<1>6. QED
  BY <1>2, <1>3, <1>4, <1>5 DEF Drawn

\* Drawing the page with the selection p keeps the invariant.
LEMMA SelectKeeps ==
  ASSUME ControlInv, NEW p, Drawn(p), p.busy = page.busy,
         \A q \in Questions : Deps(q, p) = Deps(q, page) /\ q \notin stale /\ ~Asked(q, requests) => Holds(q, p),
         Deps("model", p) = Deps("model", page) /\ ~Asked("model", requests) => ModelSettled(p),
         \A q \in Questions : Deps(q, p) # Deps(q, page) => Asks(q, p) \/ q = "model",
         Select(p)
  PROVE  ControlInv'
<1>1. Render(p, requests, stale) /\ Spend("clicks") /\ UNCHANGED <<commands, alive, online, wire>>
  BY DEF Select, serverVars
<1>2. /\ Drawn(page') /\ page'.busy = p.busy
      /\ \A r \in requests' : Apt(r, page')
      /\ Consistent(page', requests', stale')
      /\ stale' \subseteq Questions
  BY <1>1, RenderFits DEF ControlInv, WorldType
<1>3. left' \in [{"clicks", "changes", "failures"} -> Nat]
  BY <1>1 DEF ControlInv, WorldType, Spend
<1>4. WorldType'
  BY <1>1, <1>2, <1>3 DEF ControlInv, WorldType
<1>5. CommandFitsDevice' /\ OneEach'
  BY <1>1, <1>2 DEF ControlInv, CommandFitsDevice, OneEach
<1>6. QED
  BY <1>2, <1>4, <1>5 DEF ControlInv

LEMMA TenantKeeps ==
  ASSUME ControlInv, NEW t \in Tenants, HandleTenantChange(t)
  PROVE  ControlInv'
<1> DEFINE o == [page EXCEPT !.tenant = t, !.filter = None, !.device = None]
           p == NoResults(o)
<1>1. Select(p) /\ t # page.tenant /\ t # None
  BY NothingIsNone DEF HandleTenantChange
<1>2. page \in PageType /\ FormsFit(page) /\ Consistent(page, requests, stale)
  BY DEF ControlInv, Drawn
<1>3. /\ o \in PageType
      /\ o.tenant = t /\ o.filter = None /\ o.device = None /\ o.products = page.products
      /\ o.devices = page.devices /\ o.model = page.model /\ o.loading = page.loading /\ o.form = page.form
      /\ o.busy = page.busy
  BY <1>2 DEF PageType
<1> HIDE DEF o
<1>4. Bare(o) /\ FormsFit(o)
  BY <1>1, <1>2, <1>3 DEF Bare, FormsFit
<1>5. /\ Drawn(p) /\ p.tenant = t /\ p.filter = None /\ p.device = None /\ p.products = page.products
      /\ p.devices = page.devices /\ p.model = page.model /\ p.loading = page.loading /\ p.busy = page.busy
  <2>1. /\ Drawn(p) /\ p.tenant = o.tenant /\ p.filter = o.filter /\ p.device = o.device
        /\ p.products = o.products /\ p.devices = o.devices /\ p.model = o.model /\ p.loading = o.loading
        /\ p.busy = o.busy
    BY <1>3, <1>4, NoResultsFits
  <2>2. QED
    BY <1>3, <2>1
<1> HIDE DEF p
<1>6. ASSUME NEW q \in Questions
      PROVE  /\ Deps(q, p) = Deps(q, page) => q = "tenants"
             /\ Asks(q, p) \/ q = "model"
  BY <1>1, <1>5, DepsParts DEF Questions, Asks
<1>7. \A q \in Questions : Deps(q, p) = Deps(q, page) /\ q \notin stale /\ ~Asked(q, requests) => Holds(q, p)
  BY <1>6 DEF Holds
<1>8. Deps("model", p) # Deps("model", page)
  BY <1>1, <1>5, DepsParts
<1>9. QED
  BY <1>1, <1>5, <1>6, <1>7, <1>8, SelectKeeps

LEMMA FilterKeeps ==
  ASSUME ControlInv, NEW product \in Products \cup {None}, HandleProductFilterChange(product)
  PROVE  ControlInv'
<1> DEFINE o == [page EXCEPT !.filter = product, !.device = None]
           p == NoResults(o)
<1>1. Select(p) /\ product # page.filter /\ product \in page.products \cup {None}
  BY DEF HandleProductFilterChange
<1>2. page \in PageType /\ FormsFit(page) /\ Consistent(page, requests, stale) /\ Bare(page)
  BY DEF ControlInv, Drawn
<1>3. /\ o \in PageType
      /\ o.tenant = page.tenant /\ o.filter = product /\ o.device = None /\ o.products = page.products
      /\ o.devices = page.devices /\ o.model = page.model /\ o.loading = page.loading /\ o.form = page.form
      /\ o.busy = page.busy
  BY <1>2 DEF PageType
<1> HIDE DEF o
<1>4. page.tenant # None
  BY <1>1, <1>2 DEF Bare
<1>5. Bare(o) /\ FormsFit(o)
  BY <1>2, <1>3, <1>4 DEF Bare, FormsFit
<1>6. /\ Drawn(p) /\ p.tenant = page.tenant /\ p.filter = product /\ p.device = None
      /\ p.products = page.products
      /\ p.devices = page.devices /\ p.model = page.model /\ p.loading = page.loading /\ p.busy = page.busy
  <2>1. /\ Drawn(p) /\ p.tenant = o.tenant /\ p.filter = o.filter /\ p.device = o.device
        /\ p.products = o.products /\ p.devices = o.devices /\ p.model = o.model /\ p.loading = o.loading
        /\ p.busy = o.busy
    BY <1>3, <1>5, NoResultsFits
  <2>2. QED
    BY <1>3, <2>1
<1> HIDE DEF p
<1>7. \A q \in Questions : Deps(q, p) # Deps(q, page) => Asks(q, p) \/ q = "model"
  BY <1>4, <1>6, DepsParts DEF Questions, Asks
<1>8. ASSUME Deps("model", p) = Deps("model", page)
      PROVE  /\ SelectedProduct(p) = SelectedProduct(page)
             /\ Asks("model", p) <=> Asks("model", page)
  BY <1>8, DepsParts, AsksByDeps DEF Questions
<1>9. ASSUME NEW q \in Questions, Deps(q, p) = Deps(q, page), q \notin stale, ~Asked(q, requests)
      PROVE  Holds(q, p)
  <2>1. Holds(q, page)
    BY <1>2, <1>9 DEF Consistent
  <2>2. q = "products" => ProductsHold(p)
    BY <1>1, <1>6, <2>1 DEF Holds, ProductsHold
  <2>3. q # "devices"
    BY <1>1, <1>6, <1>9, DepsParts
  <2>4. q = "model" => ModelHolds(p)
    BY <1>6, <1>8, <1>9, <2>1 DEF Holds, ModelHolds
  <2>5. QED
    BY <2>2, <2>3, <2>4 DEF Holds
<1>10. Deps("model", p) = Deps("model", page) /\ ~Asked("model", requests) => ModelSettled(p)
  BY <1>2, <1>6, <1>8 DEF Consistent, ModelSettled
<1>11. QED
  BY <1>1, <1>6, <1>7, <1>9, <1>10, SelectKeeps

LEMMA DeviceKeeps ==
  ASSUME ControlInv, NEW d \in Devices, HandleDeviceChange(d)
  PROVE  ControlInv'
<1> DEFINE o == [page EXCEPT !.device = d]
           p == NoResults(o)
<1>1. Select(p) /\ d \in DOMAIN page.devices
  BY DEF HandleDeviceChange
<1>2. page \in PageType /\ FormsFit(page) /\ Consistent(page, requests, stale) /\ Bare(page)
  BY DEF ControlInv, Drawn
<1>3. /\ o \in PageType
      /\ o.tenant = page.tenant /\ o.filter = page.filter /\ o.device = d /\ o.products = page.products
      /\ o.devices = page.devices /\ o.model = page.model /\ o.loading = page.loading /\ o.form = page.form
      /\ o.busy = page.busy
  BY <1>2 DEF PageType
<1> HIDE DEF o
<1>4. page.tenant # None
  BY <1>1, <1>2 DEF Bare
<1>5. Bare(o) /\ FormsFit(o)
  BY <1>2, <1>3, <1>4 DEF Bare, FormsFit
<1>6. /\ Drawn(p) /\ p.tenant = page.tenant /\ p.filter = page.filter /\ p.device = d
      /\ p.products = page.products
      /\ p.devices = page.devices /\ p.model = page.model /\ p.loading = page.loading /\ p.busy = page.busy
  <2>1. /\ Drawn(p) /\ p.tenant = o.tenant /\ p.filter = o.filter /\ p.device = o.device
        /\ p.products = o.products /\ p.devices = o.devices /\ p.model = o.model /\ p.loading = o.loading
        /\ p.busy = o.busy
    BY <1>3, <1>5, NoResultsFits
  <2>2. QED
    BY <1>3, <2>1
<1> HIDE DEF p
<1>7. \A q \in Questions : Deps(q, p) # Deps(q, page) => Asks(q, p) \/ q = "model"
  BY <1>4, <1>6, DepsParts DEF Questions, Asks
<1>8. ASSUME Deps("model", p) = Deps("model", page)
      PROVE  /\ SelectedProduct(p) = SelectedProduct(page)
             /\ Asks("model", p) <=> Asks("model", page)
  BY <1>8, DepsParts, AsksByDeps DEF Questions
<1>9. ASSUME NEW q \in Questions, Deps(q, p) = Deps(q, page), q \notin stale, ~Asked(q, requests)
      PROVE  Holds(q, p)
  <2>1. Holds(q, page)
    BY <1>2, <1>9 DEF Consistent
  <2>2. q = "products" => ProductsHold(p)
    BY <1>6, <2>1 DEF Holds, ProductsHold
  <2>3. q = "devices" => DevicesHold(p)
    BY <1>1, <1>6, <2>1 DEF Holds, DevicesHold
  <2>4. q = "model" => ModelHolds(p)
    BY <1>6, <1>8, <1>9, <2>1 DEF Holds, ModelHolds
  <2>5. QED
    BY <2>2, <2>3, <2>4 DEF Holds
<1>10. Deps("model", p) = Deps("model", page) /\ ~Asked("model", requests) => ModelSettled(p)
  BY <1>2, <1>6, <1>8 DEF Consistent, ModelSettled
<1>11. QED
  BY <1>1, <1>6, <1>7, <1>9, <1>10, SelectKeeps

----------------------------------------------------------------------------
(* Composing and sending a command. *)

\* What the page asks, and what it says of the answers, is about its selection.
LEMMA SelectionStays ==
  ASSUME ControlInv, NEW p, p.tenant = page.tenant, p.products = page.products, p.filter = page.filter,
         DOMAIN p.devices = DOMAIN page.devices, p.device = page.device, p.model = page.model,
         p.loading = page.loading
  PROVE  /\ \A r \in requests : Apt(r, p)
         /\ Consistent(p, requests, stale)
<1>1. /\ SelectedProduct(p) = SelectedProduct(page)
      /\ \A q \in Questions : Deps(q, p) = Deps(q, page) /\ (Asks(q, p) <=> Asks(q, page))
  BY SameSelection
<1>2. \A r \in requests : Apt(r, p)
  BY <1>1 DEF ControlInv, Apt
<1>3. \A q \in Questions : Holds(q, page) => Holds(q, p)
  BY HoldsWhenSame DEF Holds
<1>4. ModelSettled(page) => ModelSettled(p)
  BY <1>1 DEF ModelSettled, Questions
<1>5. QED
  BY <1>2, <1>3, <1>4 DEF ControlInv, Consistent

\* The user changes a form, and what is shown of the result below it.
LEMMA ComposeKeeps ==
  ASSUME ControlInv, NEW p, Drawn(p), p.tenant = page.tenant, p.products = page.products,
         p.filter = page.filter, p.devices = page.devices, p.device = page.device,
         p.model = page.model, p.loading = page.loading, p.busy = page.busy, Compose(p)
  PROVE  ControlInv'
<1>1. page' = p /\ Spend("clicks") /\ UNCHANGED <<requests, commands, alive, online, wire, stale>>
  BY DEF Compose, serverVars
<1>2. (\A r \in requests : Apt(r, p)) /\ Consistent(p, requests, stale)
  BY SelectionStays
<1>3. WorldType'
  BY <1>1 DEF ControlInv, WorldType, Spend
<1>4. CommandFitsDevice' /\ OneEach'
  BY <1>1 DEF ControlInv, CommandFitsDevice, OneEach
<1>5. QED
  BY <1>1, <1>2, <1>3, <1>4 DEF ControlInv

\* The page with other forms and results.
Refilled(form, result, strayed) == [page EXCEPT !.form = form, !.result = result, !.strayed = strayed]

\* A page whose forms and results are replaced by ones that fit.
LEMMA FormFits ==
  ASSUME ControlInv, NEW p, NEW form \in [Kinds -> Form], NEW result \in [Kinds -> Devices \cup {None}],
         NEW strayed \in [Kinds -> BOOLEAN],
         p = Refilled(form, result, strayed),
         form["set"].model = page.form["set"].model,
         form["call"].model = page.form["call"].model,
         form["call"].service \in ServicesOf(page.model) \cup {None},
         \A k \in Kinds : \/ result[k] = None
                          \/ result[k] = page.result[k] /\ strayed[k] = page.strayed[k]
  PROVE  /\ Drawn(p)
         /\ p.tenant = page.tenant /\ p.products = page.products /\ p.filter = page.filter
         /\ p.devices = page.devices /\ p.device = page.device /\ p.model = page.model
         /\ p.loading = page.loading /\ p.busy = page.busy
<1>1. page \in PageType /\ Bare(page) /\ FormsFit(page) /\ ResultsStray(page)
  BY DEF ControlInv, Drawn
<1>2. /\ p \in PageType
      /\ p.form = form /\ p.result = result /\ p.strayed = strayed
      /\ p.tenant = page.tenant /\ p.products = page.products /\ p.filter = page.filter
      /\ p.devices = page.devices /\ p.device = page.device /\ p.model = page.model
      /\ p.loading = page.loading /\ p.busy = page.busy
  BY <1>1 DEF PageType, Refilled
<1>3. Bare(p) /\ FormsFit(p)
  BY <1>1, <1>2 DEF Bare, FormsFit
<1>4. ResultsStray(p)
  BY <1>1, <1>2 DEF ResultsStray
<1>5. QED
  BY <1>2, <1>3, <1>4 DEF Drawn

LEMMA ServiceNameKeeps ==
  ASSUME ControlInv, NEW s, HandleServiceNameChange(s)
  PROVE  ControlInv'
<1> DEFINE form == [page.form EXCEPT !["call"] = CallForm(page.model, s)]
           result == [page.result EXCEPT !["call"] = None]
           strayed == [page.strayed EXCEPT !["call"] = FALSE]
           p == [page EXCEPT !.form["call"] = CallForm(page.model, s), !.result["call"] = None,
                             !.strayed["call"] = FALSE]
<1>1. Compose(p) /\ s \in ServicesOf(page.model)
  BY DEF HandleServiceNameChange
<1>2. page \in PageType /\ FormsFit(page)
  BY DEF ControlInv, Drawn
<1>3. /\ page.model \in Products \cup {None} /\ page.form \in [Kinds -> Form]
      /\ page.result \in [Kinds -> Devices \cup {None}] /\ page.strayed \in [Kinds -> BOOLEAN]
  BY <1>2, PageFields
<1>4. CallForm(page.model, s) \in Form /\ CallForm(page.model, s).model = page.model
      /\ CallForm(page.model, s).service = s
  <2>1. /\ CallForm(page.model, s).model = page.model /\ CallForm(page.model, s).service = s
        /\ CallForm(page.model, s).valid = TRUE
        /\ CallForm(page.model, s) = [model |-> page.model, service |-> s, valid |-> TRUE]
    BY DEF CallForm
  <2>2. s \in (UNION {Services[q] : q \in Products}) \cup {None}
    BY <1>1, <1>3, ServicesOfType
  <2>3. QED
    BY <1>3, <2>1, <2>2, FormsOf
<1>5. p = Refilled(form, result, strayed)
  BY <1>2 DEF PageType, Refilled
<1>6. form \in [Kinds -> Form] /\ result \in [Kinds -> Devices \cup {None}] /\ strayed \in [Kinds -> BOOLEAN]
  BY <1>3, <1>4
<1>7. /\ form["set"] = page.form["set"]
      /\ form["call"].model = page.form["call"].model
      /\ form["call"].service \in ServicesOf(page.model) \cup {None}
  BY <1>1, <1>2, <1>3, <1>4 DEF FormsFit, Kinds
<1>8. \A k \in Kinds : \/ result[k] = None
                       \/ result[k] = page.result[k] /\ strayed[k] = page.strayed[k]
  BY <1>3 DEF Kinds
<1> HIDE DEF form, result, strayed, p
<1>9. /\ Drawn(p)
      /\ p.tenant = page.tenant /\ p.products = page.products /\ p.filter = page.filter
      /\ p.devices = page.devices /\ p.device = page.device /\ p.model = page.model
      /\ p.loading = page.loading /\ p.busy = page.busy
  BY <1>5, <1>6, <1>7, <1>8, FormFits
<1>10. QED
  BY <1>1, <1>9, ComposeKeeps

\* A form becomes valid or invalid.
LEMMA ValidityKeeps ==
  ASSUME ControlInv, NEW k \in Kinds, Compose([page EXCEPT !.form[k].valid = ~@])
  PROVE  ControlInv'
<1> DEFINE form == [page.form EXCEPT ![k].valid = ~@]
           p == [page EXCEPT !.form[k].valid = ~@]
<1>1. page \in PageType /\ FormsFit(page)
  BY DEF ControlInv, Drawn
<1>2. /\ page.model \in Products \cup {None} /\ page.form \in [Kinds -> Form]
      /\ page.result \in [Kinds -> Devices \cup {None}] /\ page.strayed \in [Kinds -> BOOLEAN]
  BY <1>1, PageFields
<1>3. p = Refilled(form, page.result, page.strayed)
  BY <1>1 DEF PageType, Refilled
<1>4. /\ form \in [Kinds -> Form]
      /\ \A j \in Kinds : form[j].model = page.form[j].model /\ form[j].service = page.form[j].service
  <2> DEFINE f == page.form[k]
             g == [f EXCEPT !.valid = ~f.valid]
  <2>1. f \in Form /\ f.model \in Products \cup {None} /\ f.valid \in BOOLEAN
    BY <1>2 DEF Form
  <2>2. g \in Form /\ g.model = f.model /\ g.service = f.service
    <3> HIDE DEF f
    <3>1. QED
      BY <2>1, FlippedFits
  <2>3. form = [page.form EXCEPT ![k] = g]
    OBVIOUS
  <2> HIDE DEF f, g, form
  <2>4. form \in [Kinds -> Form] /\ form[k] = g /\ \A j \in Kinds \ {k} : form[j] = page.form[j]
    BY <1>2, <2>2, <2>3
  <2>5. f = page.form[k]
    BY DEF f
  <2>6. QED
    BY <2>2, <2>4, <2>5
<1>5. /\ form["set"].model = page.form["set"].model
      /\ form["call"].model = page.form["call"].model
      /\ form["call"].service \in ServicesOf(page.model) \cup {None}
  BY <1>1, <1>4 DEF FormsFit, Kinds
<1> HIDE DEF form
<1>6. /\ Drawn(p)
      /\ p.tenant = page.tenant /\ p.products = page.products /\ p.filter = page.filter
      /\ p.devices = page.devices /\ p.device = page.device /\ p.model = page.model
      /\ p.loading = page.loading /\ p.busy = page.busy
  <2> HIDE DEF p
  <2>1. QED
    BY <1>2, <1>3, <1>4, <1>5, FormFits
<1>7. QED
  BY <1>6, ComposeKeeps

LEMMA WritableKeeps ==
  ASSUME ControlInv, HandleUseWritableProperty
  PROVE  ControlInv'
<1> DEFINE form == [page.form EXCEPT !["set"] = SetForm(page.model)]
           result == [page.result EXCEPT !["set"] = None]
           strayed == [page.strayed EXCEPT !["set"] = FALSE]
           p == [page EXCEPT !.form["set"] = SetForm(page.model), !.result["set"] = None,
                             !.strayed["set"] = FALSE]
<1>1. Compose(p) /\ page.model \in Writable
  BY DEF HandleUseWritableProperty
<1>2. page \in PageType /\ FormsFit(page)
  BY DEF ControlInv, Drawn
<1>3. /\ page.model \in Products \cup {None} /\ page.form \in [Kinds -> Form]
      /\ page.result \in [Kinds -> Devices \cup {None}] /\ page.strayed \in [Kinds -> BOOLEAN]
  BY <1>2, PageFields
<1>4. SetForm(page.model) \in Form /\ SetForm(page.model).model = page.model
  <2> DEFINE empty == [model |-> None, service |-> None, valid |-> TRUE]
  <2>0. SetForm(page.model) = [empty EXCEPT !.model = page.model]
    BY <1>1 DEF SetForm, EmptyForm
  <2>1. SetForm(page.model) = [model |-> page.model, service |-> None, valid |-> TRUE]
    BY <2>0
  <2>2. SetForm(page.model).model = page.model /\ SetForm(page.model).service = None
        /\ SetForm(page.model).valid = TRUE
    BY <2>1
  <2>3. QED
    BY <1>3, <2>1, <2>2, FormsOf
<1>5. p = Refilled(form, result, strayed)
  BY <1>2 DEF PageType, Refilled
<1>6. form \in [Kinds -> Form] /\ result \in [Kinds -> Devices \cup {None}] /\ strayed \in [Kinds -> BOOLEAN]
  BY <1>3, <1>4
<1>7. /\ form["set"].model = page.form["set"].model
      /\ form["call"].model = page.form["call"].model
      /\ form["call"].service \in ServicesOf(page.model) \cup {None}
  BY <1>1, <1>2, <1>3, <1>4 DEF FormsFit, Kinds
<1>8. \A k \in Kinds : \/ result[k] = None
                       \/ result[k] = page.result[k] /\ strayed[k] = page.strayed[k]
  BY <1>3 DEF Kinds
<1> HIDE DEF form, result, strayed, p
<1>9. /\ Drawn(p)
      /\ p.tenant = page.tenant /\ p.products = page.products /\ p.filter = page.filter
      /\ p.devices = page.devices /\ p.device = page.device /\ p.model = page.model
      /\ p.loading = page.loading /\ p.busy = page.busy
  BY <1>5, <1>6, <1>7, <1>8, FormFits
<1>10. QED
  BY <1>1, <1>9, ComposeKeeps

\* The page with other indicators of what was sent and answered.
Marked(busy, result, strayed) == [page EXCEPT !.busy = busy, !.result = result, !.strayed = strayed]

\* A page whose indicators changed: only a result may be out of place, and then it
\* is known to be.
LEMMA MarkedFits ==
  ASSUME ControlInv, NEW p, NEW busy \in [Kinds -> BOOLEAN], NEW result \in [Kinds -> Devices \cup {None}],
         NEW strayed \in [Kinds -> BOOLEAN], p = Marked(busy, result, strayed),
         \A k \in Kinds : result[k] \notin {None, page.device} => strayed[k]
  PROVE  /\ Drawn(p) /\ p.busy = busy
         /\ \A r \in requests : Apt(r, p)
         /\ Consistent(p, requests, stale)
<1>1. page \in PageType /\ Bare(page) /\ FormsFit(page)
  BY DEF ControlInv, Drawn
<1>2. /\ p \in PageType
      /\ p.form = page.form /\ p.result = result /\ p.strayed = strayed /\ p.busy = busy
      /\ p.tenant = page.tenant /\ p.products = page.products /\ p.filter = page.filter
      /\ p.devices = page.devices /\ p.device = page.device /\ p.model = page.model
      /\ p.loading = page.loading
  BY <1>1 DEF PageType, Marked
<1>3. Bare(p) /\ FormsFit(p)
  BY <1>1, <1>2 DEF Bare, FormsFit
<1>4. ResultsStray(p)
  BY <1>2 DEF ResultsStray
<1>5. (\A r \in requests : Apt(r, p)) /\ Consistent(p, requests, stale)
  BY <1>2, SelectionStays
<1>6. QED
  BY <1>2, <1>3, <1>4, <1>5 DEF Drawn

\* A command is sent from a form that is filled, for a device that is listed.
LEMMA SendKeeps ==
  ASSUME ControlInv, NEW k \in Kinds, Selectable, page.form[k].model \in Products, page.form[k].model = page.model,
         ~page.busy[k], Send(k)
  PROVE  ControlInv'
<1> DEFINE busy == [page.busy EXCEPT ![k] = TRUE]
           c == [kind |-> k, device |-> page.device, model |-> page.form[k].model,
                 pending |-> \E r \in requests : r.what = "model"]
<1>1. /\ page' = [page EXCEPT !.busy[k] = TRUE]
      /\ commands' = commands \cup {c} /\ Spend("clicks")
      /\ UNCHANGED <<requests, alive, online, wire, stale>>
  BY DEF Send, serverVars
<1>2. page \in PageType /\ ResultsStray(page) /\ Consistent(page, requests, stale)
  BY DEF ControlInv, Drawn
<1>3. /\ DOMAIN page.devices \subseteq Devices /\ page.busy \in [Kinds -> BOOLEAN]
      /\ page.result \in [Kinds -> Devices \cup {None}] /\ page.strayed \in [Kinds -> BOOLEAN]
  BY <1>2, PageFields
<1>4. page' = Marked(busy, page.result, page.strayed)
  BY <1>1, <1>2 DEF PageType, Marked
<1>5. /\ Drawn(page') /\ page'.busy = busy
      /\ \A r \in requests : Apt(r, page')
      /\ Consistent(page', requests, stale)
  <2>1. busy \in [Kinds -> BOOLEAN]
    BY <1>3
  <2>2. \A j \in Kinds : page.result[j] \notin {None, page.device} => page.strayed[j]
    BY <1>2 DEF ResultsStray
  <2> HIDE DEF busy
  <2>3. QED
    BY <1>3, <1>4, <2>1, <2>2, MarkedFits
<1>6. page.device \in Devices /\ SelectedProduct(page) = ProductOf[page.device]
  BY <1>3 DEF Selectable, SelectedProduct
<1>7. /\ c.kind = k /\ c.device = page.device /\ c.model = page.form[k].model
      /\ c.pending \in BOOLEAN /\ (c.pending <=> \E r \in requests : r.what = "model")
      /\ c = [kind |-> c.kind, device |-> c.device, model |-> c.model, pending |-> c.pending]
  <2> DEFINE awaited == \E r \in requests : r.what = "model"
  <2>1. awaited \in BOOLEAN
    OBVIOUS
  <2> HIDE DEF awaited
  <2>2. c = [kind |-> k, device |-> page.device, model |-> page.form[k].model, pending |-> awaited]
    BY DEF awaited
  <2>3. c.kind = k /\ c.device = page.device /\ c.model = page.form[k].model /\ c.pending = awaited
    BY <2>2
  <2>4. c = [kind |-> c.kind, device |-> c.device, model |-> c.model, pending |-> c.pending]
    BY <2>2, <2>3
  <2>5. QED
    BY <2>1, <2>3, <2>4 DEF awaited
<1> HIDE DEF c
<1>8. c \in [kind : Kinds, device : Devices, model : Products \cup {None}, pending : BOOLEAN]
  BY <1>6, <1>7
<1>9. WorldType'
  BY <1>1, <1>8 DEF ControlInv, WorldType, Spend
<1>10. c.model # ProductOf[c.device] => c.pending
  <2> SUFFICES ASSUME ~c.pending
               PROVE  c.model = ProductOf[c.device]
    OBVIOUS
  <2>1. ~Asked("model", requests)
    BY <1>7 DEF Asked
  <2>2. page.model \in {None, SelectedProduct(page)}
    BY <1>2, <2>1 DEF Consistent, ModelSettled
  <2>3. page.model # None
    BY NothingIsNone
  <2>4. QED
    BY <1>6, <1>7, <2>2, <2>3
<1>11. CommandFitsDevice'
  BY <1>1, <1>10 DEF ControlInv, CommandFitsDevice
<1>12. \A e \in commands : e.kind # k
  BY DEF ControlInv, OneEach
<1>13. OneEach'
  <2>1. \A c1, c2 \in commands' : c1.kind = c2.kind => c1 = c2
    BY <1>1, <1>7, <1>12 DEF ControlInv, OneEach
  <2>2. ASSUME NEW j \in Kinds
        PROVE  page'.busy[j] <=> \E e \in commands' : e.kind = j
    <3>1. CASE j = k
      BY <1>1, <1>3, <1>5, <1>7, <3>1
    <3>2. CASE j # k
      BY <1>1, <1>3, <1>5, <1>7, <3>2 DEF ControlInv, OneEach
    <3>3. QED
      BY <3>1, <3>2
  <2>3. QED
    BY <2>1, <2>2 DEF OneEach
<1>14. QED
  BY <1>1, <1>5, <1>9, <1>11, <1>13 DEF ControlInv

LEMMA SetPropertiesKeeps ==
  ASSUME ControlInv, HandleSetProperties
  PROVE  ControlInv'
<1>1. Selectable /\ page.model \in Writable /\ ~page.busy["set"] /\ Send("set")
  BY DEF HandleSetProperties, CanSet
<1>2. page.form["set"].model = page.model /\ page.model \in Products
  BY <1>1, WorldMaps DEF ControlInv, Drawn, FormsFit
<1>3. QED
  BY <1>1, <1>2, SendKeeps DEF Kinds

LEMMA CallServiceKeeps ==
  ASSUME ControlInv, HandleCallService
  PROVE  ControlInv'
<1>1. Selectable /\ page.form["call"].service # None /\ ~page.busy["call"] /\ Send("call")
  BY DEF HandleCallService, CanCall
<1>2. page.form["call"].model = page.model /\ page.model # None
  BY <1>1 DEF ControlInv, Drawn, FormsFit, ServicesOf
<1>3. page.model \in Products
  BY <1>2, PageFields DEF ControlInv, Drawn
<1>4. QED
  BY <1>1, <1>2, <1>3, SendKeeps DEF Kinds

\* An answer to a command: the button is enabled again.
LEMMA AnsweredKeeps ==
  ASSUME ControlInv, NEW c \in commands, commands' = commands \ {c},
         NEW result \in [Kinds -> Devices \cup {None}], NEW strayed \in [Kinds -> BOOLEAN],
         \A k \in Kinds : result[k] \notin {None, page.device} => strayed[k],
         page' = Marked([page.busy EXCEPT ![c.kind] = FALSE], result, strayed),
         left' \in [{"clicks", "changes", "failures"} -> Nat],
         UNCHANGED <<requests, alive, online, wire, stale>>
  PROVE  ControlInv'
<1> DEFINE busy == [page.busy EXCEPT ![c.kind] = FALSE]
<1>1. page.busy \in [Kinds -> BOOLEAN] /\ c.kind \in Kinds
  BY PageFields DEF ControlInv, Drawn, WorldType
<1>2. /\ Drawn(page') /\ page'.busy = busy
      /\ \A r \in requests : Apt(r, page')
      /\ Consistent(page', requests, stale)
  <2>1. busy \in [Kinds -> BOOLEAN] /\ page' = Marked(busy, result, strayed)
    BY <1>1
  <2> HIDE DEF busy
  <2>2. QED
    BY <2>1, MarkedFits
<1>3. WorldType' /\ CommandFitsDevice'
  BY DEF ControlInv, WorldType, CommandFitsDevice
<1>4. OneEach'
  <2>1. \A c1, c2 \in commands' : c1.kind = c2.kind => c1 = c2
    BY DEF ControlInv, OneEach
  <2>2. ASSUME NEW j \in Kinds
        PROVE  page'.busy[j] <=> \E e \in commands' : e.kind = j
    <3>1. CASE j = c.kind
      <4>1. page'.busy[j] = FALSE
        BY <1>1, <1>2, <3>1
      <4>2. \A e \in commands' : e \in commands /\ e # c
        OBVIOUS
      <4>3. \A e \in commands' : e.kind # j
        BY <3>1, <4>2 DEF ControlInv, OneEach
      <4>4. QED
        BY <4>1, <4>3
    <3>2. CASE j # c.kind
      BY <1>1, <1>2, <3>2 DEF ControlInv, OneEach
    <3>3. QED
      BY <3>1, <3>2
  <2>3. QED
    BY <2>1, <2>2 DEF OneEach
<1>5. QED
  BY <1>2, <1>3, <1>4 DEF ControlInv

LEMMA AcceptedKeeps ==
  ASSUME ControlInv, NEW c \in commands, Accepted(c)
  PROVE  ControlInv'
<1> DEFINE result == [page.result EXCEPT ![c.kind] = c.device]
           strayed == [page.strayed EXCEPT ![c.kind] = (c.device # page.device)]
<1>1. page \in PageType /\ ResultsStray(page)
  BY DEF ControlInv, Drawn
<1>2. /\ page.result \in [Kinds -> Devices \cup {None}] /\ page.strayed \in [Kinds -> BOOLEAN]
      /\ page.busy \in [Kinds -> BOOLEAN] /\ c.kind \in Kinds /\ c.device \in Devices
  BY <1>1, PageFields DEF ControlInv, WorldType
<1>3. /\ commands' = commands \ {c} /\ UNCHANGED <<requests, alive, online, wire, left, stale>>
      /\ page' = [page EXCEPT !.busy[c.kind] = FALSE, !.result[c.kind] = c.device,
                              !.strayed[c.kind] = c.device # page.device]
  BY DEF Accepted, serverVars
<1>4. page' = Marked([page.busy EXCEPT ![c.kind] = FALSE], result, strayed)
  BY <1>1, <1>3 DEF Marked, PageType
<1>5. result \in [Kinds -> Devices \cup {None}] /\ strayed \in [Kinds -> BOOLEAN]
  BY <1>2
<1>6. \A k \in Kinds : result[k] \notin {None, page.device} => strayed[k]
  BY <1>1, <1>2 DEF ResultsStray
<1>7. left' \in [{"clicks", "changes", "failures"} -> Nat]
  BY <1>3 DEF ControlInv, WorldType
<1> HIDE DEF result, strayed
<1>8. QED
  BY <1>3, <1>4, <1>5, <1>6, <1>7, AnsweredKeeps

LEMMA RejectedKeeps ==
  ASSUME ControlInv, NEW c \in commands, Rejected(c)
  PROVE  ControlInv'
<1>1. page \in PageType /\ ResultsStray(page)
  BY DEF ControlInv, Drawn
<1>2. /\ page.result \in [Kinds -> Devices \cup {None}] /\ page.strayed \in [Kinds -> BOOLEAN]
      /\ page.busy \in [Kinds -> BOOLEAN]
  BY <1>1, PageFields
<1>3. /\ commands' = commands \ {c} /\ UNCHANGED <<requests, alive, online, wire, stale>>
      /\ page' = [page EXCEPT !.busy[c.kind] = FALSE] /\ Spend("failures")
  BY DEF Rejected, serverVars
<1>4. page' = Marked([page.busy EXCEPT ![c.kind] = FALSE], page.result, page.strayed)
  BY <1>1, <1>3 DEF Marked, PageType
<1>5. \A k \in Kinds : page.result[k] \notin {None, page.device} => page.strayed[k]
  BY <1>1 DEF ResultsStray
<1>6. left' \in [{"clicks", "changes", "failures"} -> Nat]
  BY <1>3 DEF ControlInv, WorldType, Spend
<1>7. QED
  BY <1>2, <1>3, <1>4, <1>5, <1>6, AnsweredKeeps

----------------------------------------------------------------------------
(* The server, and realtime. *)

\* A poll asks what the page would ask.
LEMMA PollKeeps ==
  ASSUME ControlInv, Poll
  PROVE  ControlInv'
<1> DEFINE r == Question("devices", page, "poll")
<1>1. /\ page.tenant # None /\ requests' = requests \cup {r} /\ Spend("changes")
      /\ UNCHANGED <<page, commands, alive, online, wire, stale>>
  BY DEF Poll, serverVars
<1>2. r.what = "devices" /\ r.deps = Deps("devices", page) /\ r.by = "poll"
  BY DEF Question
<1> HIDE DEF r
<1>3. Apt(r, page)
  BY <1>1, <1>2 DEF Apt, Asks, Questions
<1>4. \A q \in Questions : Asked(q, requests') <=> Asked(q, requests)
  BY <1>1, <1>2 DEF Asked
<1>5. \A q \in requests' : Apt(q, page')
  BY <1>1, <1>3 DEF ControlInv
<1>6. Consistent(page', requests', stale')
  BY <1>1, <1>4 DEF ControlInv, Consistent, Questions
<1>7. WorldType'
  BY <1>1 DEF ControlInv, WorldType, Spend
<1>8. CommandFitsDevice' /\ OneEach' /\ Drawn(page')
  BY <1>1 DEF ControlInv, CommandFitsDevice, OneEach
<1>9. QED
  BY <1>5, <1>6, <1>7, <1>8 DEF ControlInv

\* What the server knows is not on the page before a question is answered.
LEMMA ServerKeeps ==
  ASSUME ControlInv, NEW d \in Devices, DeviceDeleted(d) \/ ConnectionChanges(d)
  PROVE  ControlInv'
<1>1. /\ UNCHANGED <<page, requests, commands, stale>> /\ Spend("changes")
      /\ alive' \subseteq Devices /\ online' \subseteq Devices
  BY DEF DeviceDeleted, ConnectionChanges, ControlInv, WorldType
<1>2. wire' \subseteq [device : Devices, online : BOOLEAN]
  <2> DEFINE m == [device |-> d, online |-> d \notin online]
  <2>1. m \in [device : Devices, online : BOOLEAN]
    <3> DEFINE b == d \notin online
    <3>1. b \in BOOLEAN
      OBVIOUS
    <3> HIDE DEF b
    <3>2. [device |-> d, online |-> b] \in [device : Devices, online : BOOLEAN]
      BY <3>1
    <3>3. QED
      BY <3>2 DEF b
  <2> HIDE DEF m
  <2>2. wire' = wire \/ wire' = wire \cup {m}
    BY DEF DeviceDeleted, ConnectionChanges, m
  <2>3. QED
    BY <2>1, <2>2 DEF ControlInv, WorldType
<1>3. WorldType'
  BY <1>1, <1>2 DEF ControlInv, WorldType, Spend
<1>4. CommandFitsDevice' /\ OneEach'
  BY <1>1 DEF ControlInv, CommandFitsDevice, OneEach
<1>5. QED
  BY <1>1, <1>3, <1>4 DEF ControlInv

\* A message shows a listed device as connected or not; it lists none.
LEMMA ConnectionShownKeeps ==
  ASSUME ControlInv, NEW m \in wire, OnConnectionChanged(m)
  PROVE  ControlInv'
<1>1. page \in PageType
  BY DEF ControlInv, Drawn
<1>2. UNCHANGED <<requests, commands, alive, online, left, stale>> /\ wire' \subseteq wire
  BY DEF OnConnectionChanged
<1>3. m.device \in Devices /\ m.online \in BOOLEAN
  BY DEF ControlInv, WorldType
<1>4. WorldType' /\ CommandFitsDevice'
  BY <1>2 DEF ControlInv, WorldType, CommandFitsDevice
<1>5. CASE page' = page
  BY <1>2, <1>4, <1>5 DEF ControlInv, OneEach
<1>6. CASE m.device \in DOMAIN page.devices /\ page' = [page EXCEPT !.devices[m.device] = m.online]
  <2> DEFINE devices == [page.devices EXCEPT ![m.device] = m.online]
  <2>1. DOMAIN page.devices \subseteq Devices /\ page.devices \in [DOMAIN page.devices -> BOOLEAN]
    BY <1>1, PageFields
  <2>2. DOMAIN devices = DOMAIN page.devices /\ devices \in [DOMAIN devices -> BOOLEAN]
    BY <1>3, <2>1
  <2>3. page' = [page EXCEPT !.devices = devices]
    BY <1>1, <1>6 DEF PageType
  <2> HIDE DEF devices
  <2>4. devices \in DeviceLists
    BY <2>1, <2>2, DeviceListsOf
  <2>5. /\ page' \in PageType /\ page'.devices = devices
        /\ page'.form = page.form /\ page'.result = page.result /\ page'.strayed = page.strayed
        /\ page'.busy = page.busy /\ page'.tenant = page.tenant /\ page'.products = page.products
        /\ page'.filter = page.filter /\ page'.device = page.device /\ page'.model = page.model
        /\ page'.loading = page.loading
    BY <1>1, <2>3, <2>4 DEF PageType
  <2>6. Drawn(page')
    BY <2>2, <2>5 DEF ControlInv, Drawn, Bare, FormsFit, ResultsStray
  <2>7. (\A r \in requests : Apt(r, page')) /\ Consistent(page', requests, stale)
    BY <2>2, <2>5, SelectionStays
  <2>8. OneEach'
    BY <1>2, <2>5 DEF ControlInv, OneEach
  <2>9. QED
    BY <1>2, <1>4, <2>6, <2>7, <2>8 DEF ControlInv
<1>7. QED
  BY <1>5, <1>6 DEF OnConnectionChanged

----------------------------------------------------------------------------
(* Answers to the questions. *)

\* Drawing the page with an answer, or without it, keeps the invariant.
LEMMA AnswerKeeps ==
  ASSUME ControlInv, NEW p, Drawn(p), p.busy = page.busy, NEW r \in requests, NEW failed,
         failed \subseteq Questions,
         \A q \in Questions :
            Deps(q, p) = Deps(q, page) /\ q \notin failed /\ ~Asked(q, requests \ {r}) => Holds(q, p),
         Deps("model", p) = Deps("model", page) /\ ~Asked("model", requests \ {r}) => ModelSettled(p),
         \A q \in Questions : Deps(q, p) # Deps(q, page) => Asks(q, p) \/ q = "model",
         Render(p, requests \ {r}, failed), UNCHANGED <<commands, alive, online, wire>>,
         left' \in [{"clicks", "changes", "failures"} -> Nat]
  PROVE  ControlInv'
<1>1. \A o \in requests \ {r} : Apt(o, page)
  BY DEF ControlInv
<1>2. /\ Drawn(page') /\ page'.busy = p.busy
      /\ \A o \in requests' : Apt(o, page')
      /\ Consistent(page', requests', stale')
      /\ stale' \subseteq Questions
  <2> DEFINE awaited == requests \ {r}
  <2>1. /\ \A o \in awaited : Apt(o, page)
        /\ \A q \in Questions :
              Deps(q, p) = Deps(q, page) /\ q \notin failed /\ ~Asked(q, awaited) => Holds(q, p)
        /\ Deps("model", p) = Deps("model", page) /\ ~Asked("model", awaited) => ModelSettled(p)
        /\ Render(p, awaited, failed)
    BY <1>1
  <2> HIDE DEF awaited
  <2>2. QED
    BY <2>1, RenderFits
<1>3. WorldType'
  BY <1>2 DEF ControlInv, WorldType
<1>4. CommandFitsDevice' /\ OneEach'
  BY <1>2 DEF ControlInv, CommandFitsDevice, OneEach
<1>5. QED
  BY <1>2, <1>3, <1>4 DEF ControlInv

\* The first tenants bring one; then products and devices are asked for.
LEMMA TenantsArriveKeeps ==
  ASSUME ControlInv, NEW r \in requests, r.what = "tenants", Arrive(r)
  PROVE  ControlInv'
<1> DEFINE t == IF page.tenant # None THEN page.tenant ELSE First(Tenants)
           p == [page EXCEPT !.tenants = Tenants, !.tenant = t]
<1>1. page \in PageType /\ Bare(page) /\ FormsFit(page) /\ ResultsStray(page) /\ Consistent(page, requests, stale)
  BY DEF ControlInv, Drawn
<1>2. t \in Tenants \cup {None}
  BY <1>1, FirstIsListed, PageFields
<1>3. Render(p, requests \ {r}, stale) /\ UNCHANGED <<commands, alive, online, wire, left>>
  BY <1>1 DEF Arrive, Answered, serverVars, PageType
<1>4. page.tenant # None => t = page.tenant
  OBVIOUS
<1> HIDE DEF t
<1>5. /\ p \in PageType /\ p.tenant = t
      /\ p.form = page.form /\ p.result = page.result /\ p.strayed = page.strayed
      /\ p.busy = page.busy /\ p.products = page.products
      /\ p.filter = page.filter /\ p.devices = page.devices /\ p.device = page.device /\ p.model = page.model
      /\ p.loading = page.loading
  BY <1>1, <1>2 DEF PageType
<1> HIDE DEF p
<1>6. Drawn(p)
  <2>1. Bare(p)
    BY <1>1, <1>4, <1>5 DEF Bare
  <2>2. FormsFit(p) /\ ResultsStray(p)
    BY <1>1, <1>5 DEF FormsFit, ResultsStray
  <2>3. QED
    BY <1>5, <2>1, <2>2 DEF Drawn
<1>7. left' \in [{"clicks", "changes", "failures"} -> Nat] /\ stale \subseteq Questions
  BY <1>3 DEF ControlInv, WorldType
<1>8. CASE t = page.tenant
  <2>1. SelectedProduct(p) = SelectedProduct(page) /\ \A q \in Questions : Deps(q, p) = Deps(q, page)
    BY <1>5, <1>8, SameSelection
  <2>2. (Asks("model", p) <=> Asks("model", page))
    BY <1>5, <1>8, SameSelection DEF Questions
  <2>3. \A q \in Questions : Holds(q, page) => Holds(q, p)
    BY <1>5, <1>8, HoldsWhenSame DEF Holds
  <2>4. ASSUME NEW q \in Questions, q \notin stale, ~Asked(q, requests \ {r})
        PROVE  Holds(q, p)
    <3>1. CASE q = "tenants"
      BY <3>1 DEF Holds
    <3>2. CASE q # "tenants"
      BY <1>1, <2>3, <2>4, <3>2, AskedWithout DEF Consistent
    <3>3. QED
      BY <3>1, <3>2
  <2>5. ~Asked("model", requests \ {r}) => ModelSettled(p)
    BY <1>1, <1>5, <2>1, <2>2, AskedWithout DEF Consistent, ModelSettled
  <2>6. QED
    BY <1>3, <1>5, <1>6, <1>7, <2>1, <2>4, <2>5, AnswerKeeps
<1>9. CASE t # page.tenant
  <2>1. page.tenant = None /\ t # None
    BY <1>4, <1>9
  <2>2. ASSUME NEW q \in Questions
        PROVE  /\ Deps(q, p) = Deps(q, page) => q = "tenants"
               /\ Asks(q, p) \/ q = "model"
    BY <1>5, <1>9, <2>1, DepsParts DEF Questions, Asks
  <2>3. \A q \in Questions : Deps(q, p) = Deps(q, page) => Holds(q, p)
    BY <2>2 DEF Holds
  <2>4. Deps("model", p) # Deps("model", page)
    BY <1>5, <1>9, DepsParts
  <2>5. QED
    BY <1>3, <1>5, <1>6, <1>7, <2>2, <2>3, <2>4, AnswerKeeps
<1>10. QED
  BY <1>8, <1>9

LEMMA ProductsArriveKeeps ==
  ASSUME ControlInv, NEW r \in requests, r.what = "products", Arrive(r)
  PROVE  ControlInv'
<1> DEFINE listed == ListedProducts(page.tenant)
           filter == IF page.filter \in listed THEN page.filter ELSE None
           p == [page EXCEPT !.products = listed, !.filter = filter]
<1>1. page \in PageType /\ Bare(page) /\ FormsFit(page) /\ ResultsStray(page) /\ Consistent(page, requests, stale)
  BY DEF ControlInv, Drawn
<1>2. listed \subseteq Products /\ filter \in listed \cup {None}
  BY DEF ListedProducts
<1>3. Render(p, requests \ {r}, stale) /\ UNCHANGED <<commands, alive, online, wire, left>>
  BY <1>1 DEF Arrive, Answered, WithProducts, serverVars, PageType
<1>4. page.tenant # None
  BY DEF ControlInv, Apt, Asks
<1>5. filter \in {page.filter, None}
  OBVIOUS
<1> HIDE DEF filter
<1>6. /\ p \in PageType /\ p.tenant = page.tenant /\ p.products = listed /\ p.filter = filter
      /\ p.form = page.form /\ p.result = page.result /\ p.strayed = page.strayed
      /\ p.busy = page.busy
      /\ p.devices = page.devices /\ p.device = page.device /\ p.model = page.model
      /\ p.loading = page.loading
  <2> HIDE DEF listed
  <2>1. QED
    BY <1>1, <1>2 DEF PageType
<1> HIDE DEF p
<1>7. Drawn(p)
  <2>1. Bare(p)
    BY <1>4, <1>6 DEF Bare
  <2>2. FormsFit(p) /\ ResultsStray(p)
    BY <1>1, <1>6 DEF FormsFit, ResultsStray
  <2>3. QED
    BY <1>6, <2>1, <2>2 DEF Drawn
<1>8. left' \in [{"clicks", "changes", "failures"} -> Nat] /\ stale \subseteq Questions
  BY <1>3 DEF ControlInv, WorldType
<1>9. \A q \in Questions : Deps(q, p) # Deps(q, page) => Asks(q, p) \/ q = "model"
  BY <1>4, <1>6, DepsParts DEF Questions, Asks
<1>10. ASSUME Deps("model", p) = Deps("model", page)
       PROVE  /\ SelectedProduct(p) = SelectedProduct(page)
              /\ Asks("model", p) <=> Asks("model", page)
  BY <1>10, DepsParts, AsksByDeps DEF Questions
<1>11. ASSUME NEW q \in Questions, Deps(q, p) = Deps(q, page), q \notin stale, ~Asked(q, requests \ {r})
       PROVE  Holds(q, p)
  <2>1. q # "products" => Holds(q, page)
    BY <1>1, <1>11, AskedWithout DEF Consistent
  <2>2. ProductsHold(p)
    BY <1>2, <1>6 DEF ProductsHold
  <2>3. q = "devices" => DevicesHold(p)
    <3>1. q = "devices" => p.filter = page.filter
      BY <1>11, DepsParts
    <3>2. QED
      BY <1>6, <2>1, <3>1 DEF Holds, DevicesHold
  <2>4. q = "model" => ModelHolds(p)
    BY <1>6, <1>10, <1>11, <2>1 DEF Holds, ModelHolds
  <2>5. QED
    BY <2>2, <2>3, <2>4 DEF Holds
<1>12. Deps("model", p) = Deps("model", page) /\ ~Asked("model", requests \ {r}) => ModelSettled(p)
  BY <1>1, <1>6, <1>10, AskedWithout DEF Consistent, ModelSettled
<1>13. QED
  BY <1>3, <1>6, <1>7, <1>8, <1>9, <1>11, <1>12, AnswerKeeps

\* An effect or a poll: the list is the one of the tenant and the filter of now.
LEMMA DevicesArriveKeeps ==
  ASSUME ControlInv, NEW r \in requests, r.what = "devices", Arrive(r)
  PROVE  ControlInv'
<1> DEFINE listed == ListedDevices(page.tenant, page.filter)
           chosen == IF page.device \in listed THEN page.device ELSE First(listed)
           devices == [d \in listed |-> d \in online]
           strayed == [k \in Kinds |-> page.strayed[k] \/ page.result[k] \notin {None, chosen}]
           p == [page EXCEPT !.devices = devices, !.device = chosen, !.strayed = strayed]
<1>1. page \in PageType /\ Bare(page) /\ FormsFit(page) /\ ResultsStray(page) /\ Consistent(page, requests, stale)
  BY DEF ControlInv, Drawn
<1>2. page.tenant # None /\ r.deps = <<page.tenant, page.filter>>
  BY DEF ControlInv, Apt, Asks, Deps
<1>3. Render(p, requests \ {r}, stale) /\ UNCHANGED <<commands, alive, online, wire, left>>
  <2>1. r.deps[1] = page.tenant /\ r.deps[2] = page.filter
    BY <1>2
  <2>2. Answered(r) = p
    BY <2>1 DEF Answered, WithDevices
  <2>3. QED
    BY <2>2 DEF Arrive, serverVars
<1>4. /\ listed \subseteq Devices
      /\ \A d \in listed : /\ TenantOf[ProductOf[d]] = page.tenant
                           /\ page.filter # None => ProductOf[d] = page.filter
  BY DEF ListedDevices, ControlInv, WorldType
<1>5. /\ chosen \in listed \cup {None}
      /\ listed = {} => chosen = None
      /\ listed # {} => chosen \in listed
  BY FirstIsListed
<1>6. devices \in DeviceLists /\ DOMAIN devices = listed
  <2> HIDE DEF listed
  <2>1. DOMAIN devices = listed /\ devices \in [DOMAIN devices -> BOOLEAN]
    OBVIOUS
  <2> HIDE DEF devices
  <2>2. QED
    BY <1>4, <2>1, DeviceListsOf
<1>7. /\ strayed \in [Kinds -> BOOLEAN]
      /\ \A k \in Kinds : page.result[k] \notin {None, chosen} => strayed[k]
  <2> HIDE DEF chosen
  <2>1. QED
    OBVIOUS
<1> HIDE DEF listed, chosen, devices, strayed
<1>8. /\ p \in PageType /\ p.tenant = page.tenant /\ p.products = page.products /\ p.filter = page.filter
      /\ p.form = page.form /\ p.result = page.result /\ p.strayed = strayed
      /\ p.busy = page.busy
      /\ p.devices = devices /\ p.device = chosen /\ p.model = page.model
      /\ p.loading = page.loading
  BY <1>1, <1>4, <1>5, <1>6, <1>7 DEF PageType
<1> HIDE DEF p
<1>9. Drawn(p)
  <2>1. Bare(p) /\ FormsFit(p)
    BY <1>1, <1>2, <1>8 DEF Bare, FormsFit
  <2>2. ResultsStray(p)
    BY <1>7, <1>8 DEF ResultsStray
  <2>3. QED
    BY <1>8, <2>1, <2>2 DEF Drawn
<1>10. left' \in [{"clicks", "changes", "failures"} -> Nat] /\ stale \subseteq Questions
  BY <1>3 DEF ControlInv, WorldType
<1>11. \A q \in Questions : Deps(q, p) # Deps(q, page) => q = "model"
  BY <1>8, DepsParts DEF Questions
<1>12. ASSUME Deps("model", p) = Deps("model", page)
       PROVE  /\ SelectedProduct(p) = SelectedProduct(page)
              /\ Asks("model", p) <=> Asks("model", page)
  BY <1>12, DepsParts, AsksByDeps DEF Questions
<1>13. DevicesHold(p)
  BY <1>4, <1>5, <1>6, <1>8 DEF DevicesHold
<1>14. ASSUME NEW q \in Questions, Deps(q, p) = Deps(q, page), q \notin stale, ~Asked(q, requests \ {r})
       PROVE  Holds(q, p)
  <2>1. q # "devices" => Holds(q, page)
    BY <1>1, <1>14, AskedWithout DEF Consistent
  <2>2. q = "products" => ProductsHold(p)
    BY <1>8, <2>1 DEF Holds, ProductsHold
  <2>3. q = "model" => ModelHolds(p)
    BY <1>8, <1>12, <1>14, <2>1 DEF Holds, ModelHolds
  <2>4. QED
    BY <1>13, <2>2, <2>3 DEF Holds
<1>15. Deps("model", p) = Deps("model", page) /\ ~Asked("model", requests \ {r}) => ModelSettled(p)
  BY <1>1, <1>8, <1>12, AskedWithout DEF Consistent, ModelSettled
<1>16. QED
  BY <1>3, <1>8, <1>9, <1>10, <1>11, <1>14, <1>15, AnswerKeeps

\* The forms of a model, the results removed.
LEMMA WithModelFits ==
  ASSUME NEW p, p \in PageType, Bare(p), p.tenant # None, NEW m \in Products \cup {None},
         NEW o, o = WithModel(p, m)
  PROVE  /\ Drawn(o) /\ o.model = m
         /\ o.tenants = p.tenants /\ o.tenant = p.tenant /\ o.products = p.products /\ o.filter = p.filter
         /\ o.devices = p.devices /\ o.device = p.device /\ o.loading = p.loading /\ o.busy = p.busy
<1> DEFINE w == WithoutModel(p)
           forms == [set |-> SetForm(m), call |-> CallForm(m, First(ServicesOf(m)))]
<1>1. /\ Drawn(w)
      /\ w.tenants = p.tenants /\ w.tenant = p.tenant /\ w.products = p.products /\ w.filter = p.filter
      /\ w.devices = p.devices /\ w.device = p.device /\ w.loading = p.loading /\ w.busy = p.busy
  BY WithoutModelFits
<1>2. o = [w EXCEPT !.model = m, !.form = forms]
  BY DEF WithModel
<1>3. SetForm(m) \in Form /\ SetForm(m).model = IF m \in Writable THEN m ELSE None
  <2> DEFINE empty == [model |-> None, service |-> None, valid |-> TRUE]
             written == IF m \in Writable THEN m ELSE None
  <2>1. SetForm(m) = [empty EXCEPT !.model = written]
    BY DEF SetForm, EmptyForm
  <2>2. written \in Products \cup {None}
    OBVIOUS
  <2> HIDE DEF written
  <2>3. SetForm(m) = [model |-> written, service |-> None, valid |-> TRUE]
    BY <2>1
  <2>4. SetForm(m).model = written /\ SetForm(m).service = None /\ SetForm(m).valid = TRUE
    BY <2>3
  <2>5. SetForm(m) \in Form
    BY <2>2, <2>3, <2>4, FormsOf
  <2>6. QED
    BY <2>4, <2>5 DEF written
<1>4. /\ CallForm(m, First(ServicesOf(m))) \in Form
      /\ CallForm(m, First(ServicesOf(m))).model = m
      /\ CallForm(m, First(ServicesOf(m))).service \in ServicesOf(m) \cup {None}
  <2> DEFINE s == First(ServicesOf(m))
  <2>1. s \in ServicesOf(m) \cup {None}
    BY FirstIsListed
  <2> HIDE DEF s
  <2>2. CallForm(m, s) = [model |-> m, service |-> s, valid |-> TRUE]
    BY DEF CallForm
  <2>3. CallForm(m, s).model = m /\ CallForm(m, s).service = s /\ CallForm(m, s).valid = TRUE
    BY <2>2
  <2>4. s \in (UNION {Services[q] : q \in Products}) \cup {None}
    BY <2>1, ServicesOfType
  <2>5. CallForm(m, s) \in Form
    BY <2>2, <2>3, <2>4, FormsOf
  <2>6. QED
    BY <2>1, <2>3, <2>5 DEF s
<1>5. forms \in [Kinds -> Form] /\ forms["set"] = SetForm(m) /\ forms["call"] = CallForm(m, First(ServicesOf(m)))
  BY <1>3, <1>4 DEF Kinds
<1> HIDE DEF w, forms
<1>6. /\ o \in PageType /\ o.model = m /\ o.form = forms /\ o.result = w.result /\ o.strayed = w.strayed
      /\ o.tenants = w.tenants /\ o.tenant = w.tenant /\ o.products = w.products /\ o.filter = w.filter
      /\ o.devices = w.devices /\ o.device = w.device /\ o.loading = w.loading /\ o.busy = w.busy
  BY <1>1, <1>2, <1>5 DEF Drawn, PageType
<1>7. FormsFit(o)
  BY <1>3, <1>4, <1>5, <1>6 DEF FormsFit
<1>8. Bare(o) /\ ResultsStray(o)
  BY <1>1, <1>6 DEF Bare, ResultsStray, Drawn
<1>9. QED
  BY <1>1, <1>6, <1>7, <1>8 DEF Drawn

LEMMA ModelArrivesKeeps ==
  ASSUME ControlInv, NEW r \in requests, r.what = "model", Arrive(r)
  PROVE  ControlInv'
<1> DEFINE m == CurrentModel(page.tenant, SelectedProduct(page))
           o == WithModel(page, m)
           p == [o EXCEPT !.loading = FALSE]
<1>1. page \in PageType /\ Bare(page) /\ Consistent(page, requests, stale)
  BY DEF ControlInv, Drawn
<1>2. Asks("model", page) /\ r.deps = <<page.tenant, SelectedProduct(page)>>
  BY DEF ControlInv, Apt, Deps
<1>3. Render(p, requests \ {r}, stale) /\ UNCHANGED <<commands, alive, online, wire, left>>
  <2>1. r.deps[1] = page.tenant /\ r.deps[2] = SelectedProduct(page)
    BY <1>2
  <2>2. Answered(r) = p
    BY <2>1 DEF Answered
  <2>3. QED
    BY <2>2 DEF Arrive, serverVars
<1>4. m \in Products \cup {None} /\ m \in {None, SelectedProduct(page)}
  BY <1>1, SelectedIsProduct, ModelOfProduct
<1>5. page.tenant # None
  BY <1>2 DEF Asks
<1>6. m = CurrentModel(page.tenant, SelectedProduct(page))
  OBVIOUS
<1> HIDE DEF m
<1>7. /\ Drawn(o) /\ o.model = m
      /\ o.tenant = page.tenant /\ o.products = page.products /\ o.filter = page.filter
      /\ o.devices = page.devices /\ o.device = page.device /\ o.busy = page.busy
  BY <1>1, <1>4, <1>5, WithModelFits
<1> HIDE DEF o
<1>8. /\ Drawn(p) /\ p.loading = FALSE /\ p.model = m
      /\ p.tenant = page.tenant /\ p.products = page.products /\ p.filter = page.filter
      /\ p.devices = page.devices /\ p.device = page.device /\ p.busy = page.busy
  <2>1. FALSE \in BOOLEAN /\ p = [o EXCEPT !.loading = FALSE] /\ Drawn(o)
    BY <1>7
  <2> HIDE DEF p
  <2>2. /\ Drawn(p) /\ p.loading = FALSE
        /\ p.tenant = o.tenant /\ p.products = o.products /\ p.filter = o.filter
        /\ p.devices = o.devices /\ p.device = o.device /\ p.model = o.model /\ p.busy = o.busy
    <3>1. p = Loading(o, FALSE)
      BY <2>1 DEF Loading
    <3>2. Drawn(p) /\ p.loading = FALSE /\ ButForLoading(p, o)
      BY <2>1, <3>1, LoadingFits
    <3>3. QED
      BY <3>2 DEF ButForLoading
  <2>3. QED
    BY <1>7, <2>2
<1> HIDE DEF p
<1>9. left' \in [{"clicks", "changes", "failures"} -> Nat] /\ stale \subseteq Questions
  BY <1>3 DEF ControlInv, WorldType
<1>10. SelectedProduct(p) = SelectedProduct(page) /\ \A q \in Questions : Deps(q, p) = Deps(q, page)
  BY <1>8, SameSelection
<1>11. Asks("model", p)
  BY <1>2, <1>8, SameSelection DEF Questions
<1>12. ModelHolds(p) /\ ModelSettled(p)
  BY <1>4, <1>6, <1>8, <1>10, <1>11 DEF ModelHolds, ModelSettled
<1>13. ASSUME NEW q \in Questions, q \notin stale, ~Asked(q, requests \ {r})
       PROVE  Holds(q, p)
  <2>1. q # "model" => Holds(q, page)
    BY <1>1, <1>13, AskedWithout DEF Consistent
  <2>2. QED
    BY <1>8, <1>12, <2>1, HoldsWhenSame DEF Holds
<1>14. QED
  BY <1>3, <1>8, <1>9, <1>10, <1>12, <1>13, AnswerKeeps

\* A question fails: what it asked is not known, and without its model the forms are
\* empty.
LEMMA FailKeeps ==
  ASSUME ControlInv, NEW r \in requests, Fail(r)
  PROVE  ControlInv'
<1> DEFINE w == WithoutModel(page)
           p == IF r.what = "model" THEN [w EXCEPT !.loading = FALSE] ELSE page
           failed == IF r.by = "effect" THEN stale \cup {r.what} ELSE stale
<1>1. Drawn(page) /\ page \in PageType /\ Bare(page) /\ Consistent(page, requests, stale)
  BY DEF ControlInv, Drawn
<1>2. /\ Render(p, requests \ {r}, failed) /\ UNCHANGED <<commands, alive, online, wire>>
      /\ left' \in [{"clicks", "changes", "failures"} -> Nat]
  BY DEF Fail, serverVars, Spend, ControlInv, WorldType
<1>3. r.what \in Questions /\ (r.by = "effect" \/ r.what = "devices")
  BY DEF ControlInv, Apt
<1>4. failed \subseteq Questions /\ stale \subseteq failed /\ (r.by = "effect" => r.what \in failed)
  BY <1>3 DEF ControlInv, WorldType
<1>5. /\ Drawn(p) /\ p.busy = page.busy
      /\ p.tenant = page.tenant /\ p.products = page.products /\ p.filter = page.filter
      /\ p.devices = page.devices /\ p.device = page.device
      /\ r.what = "model" => p.model = None /\ p.loading = FALSE
      /\ r.what # "model" => p = page
  <2>1. CASE r.what = "model"
    <3>1. p = [w EXCEPT !.loading = FALSE] /\ FALSE \in BOOLEAN
      BY <2>1
    <3>2. /\ Drawn(w) /\ w.model = None
          /\ w.tenant = page.tenant /\ w.products = page.products /\ w.filter = page.filter
          /\ w.devices = page.devices /\ w.device = page.device /\ w.busy = page.busy
      BY <1>1, WithoutModelFits
    <3>3. Drawn(w)
      BY <3>2
    <3> HIDE DEF w, p
    <3>4. /\ Drawn(p) /\ p.loading = FALSE
          /\ p.tenant = w.tenant /\ p.products = w.products /\ p.filter = w.filter
          /\ p.devices = w.devices /\ p.device = w.device /\ p.model = w.model /\ p.busy = w.busy
      <4>1. p = Loading(w, FALSE)
        BY <3>1 DEF Loading
      <4>2. Drawn(p) /\ p.loading = FALSE /\ ButForLoading(p, w)
        BY <3>1, <3>3, <4>1, LoadingFits
      <4>3. QED
        BY <4>2 DEF ButForLoading
    <3>5. QED
      BY <2>1, <3>2, <3>4
  <2>2. CASE r.what # "model"
    BY <1>1, <2>2
  <2>3. QED
    BY <2>1, <2>2
<1> HIDE DEF p, failed
<1>6. SelectedProduct(p) = SelectedProduct(page) /\ \A q \in Questions : Deps(q, p) = Deps(q, page)
  BY <1>5, SameSelection
<1>7. ASSUME NEW q \in Questions, q \notin failed, ~Asked(q, requests \ {r})
      PROVE  Holds(q, p)
  <2>1. r.what # q \/ r.by # "effect"
    BY <1>4, <1>7
  <2>2. Holds(q, page)
    BY <1>1, <1>4, <1>7, <2>1, AskedWithout DEF Consistent
  <2>3. q = "model" => r.what # "model"
    BY <1>3, <2>1
  <2>4. QED
    BY <1>5, <2>2, <2>3, HoldsWhenSame DEF Holds
<1>8. ASSUME ~Asked("model", requests \ {r})
      PROVE  ModelSettled(p)
  <2>1. CASE r.what = "model"
    BY <1>5, <2>1 DEF ModelSettled
  <2>2. CASE r.what # "model"
    BY <1>1, <1>5, <1>8, <2>2, AskedWithout DEF Consistent
  <2>3. QED
    BY <2>1, <2>2
<1>9. QED
  BY <1>2, <1>4, <1>5, <1>6, <1>7, <1>8, AnswerKeeps

----------------------------------------------------------------------------
(* The theorems. *)

LEMMA ControlStarts == Init => ControlInv
<1> SUFFICES ASSUME Init
             PROVE  ControlInv
  OBVIOUS
<1>1. EmptyForm \in Form /\ EmptyForm.model = None /\ EmptyForm.service = None
  <2>1. EmptyForm.model = None /\ EmptyForm.service = None /\ EmptyForm.valid = TRUE
    BY DEF EmptyForm
  <2>2. EmptyForm = [model |-> EmptyForm.model, service |-> EmptyForm.service, valid |-> EmptyForm.valid]
    BY <2>1 DEF EmptyForm
  <2>3. QED
    BY <2>1, <2>2, FormsOf
<1> DEFINE none == [d \in {} |-> FALSE]
<1>2. none \in DeviceLists /\ DOMAIN none = {}
  <2>1. DOMAIN none = {} /\ none \in [DOMAIN none -> BOOLEAN]
    OBVIOUS
  <2> HIDE DEF none
  <2>2. QED
    BY <2>1, DeviceListsOf
<1>3. page = [tenants |-> {}, tenant |-> None, products |-> {}, filter |-> None,
              devices |-> none, device |-> None, model |-> None, loading |-> FALSE,
              form |-> [k \in Kinds |-> EmptyForm], busy |-> [k \in Kinds |-> FALSE],
              result |-> [k \in Kinds |-> None], strayed |-> [k \in Kinds |-> FALSE]]
  BY DEF Init
<1> HIDE DEF none
<1>4. /\ page \in PageType /\ page.tenant = None /\ page.products = {} /\ page.filter = None
      /\ page.devices = none /\ page.device = None /\ page.model = None
      /\ page.form = [k \in Kinds |-> EmptyForm] /\ page.result = [k \in Kinds |-> None]
      /\ page.busy = [k \in Kinds |-> FALSE]
  BY <1>1, <1>2, <1>3 DEF PageType
<1>5. Drawn(page)
  <2>1. FormsFit(page)
    BY <1>1, <1>4, NothingIsNone, WorldMaps DEF FormsFit, Kinds
  <2>2. QED
    BY <1>2, <1>4, <2>1 DEF Drawn, Bare, ResultsStray
<1>6. \A r \in requests : Apt(r, page)
  <2> SUFFICES ASSUME NEW r \in requests
               PROVE  Apt(r, page)
    OBVIOUS
  <2>1. r = [what |-> "tenants", deps |-> <<>>, by |-> "effect"]
    BY DEF Init
  <2>2. r.what = "tenants" /\ r.deps = <<>> /\ r.by = "effect"
    BY <2>1
  <2>3. Deps("tenants", page) = <<>> /\ Asks("tenants", page)
    BY DEF Deps, Asks
  <2>4. QED
    BY <2>2, <2>3 DEF Apt, Questions
<1>7. ~Asks("model", page)
  BY <1>4 DEF Asks
<1>8. SelectedProduct(page) = None
  BY <1>2, <1>4 DEF SelectedProduct
<1>9. Consistent(page, requests, stale)
  <2>1. ProductsHold(page) /\ DevicesHold(page) /\ ModelHolds(page)
    BY <1>2, <1>4, <1>7 DEF ProductsHold, DevicesHold, ModelHolds
  <2>2. ModelSettled(page)
    BY <1>4, <1>7 DEF ModelSettled
  <2>3. QED
    BY <2>1, <2>2 DEF Consistent, Holds
<1>10. WorldType /\ CommandFitsDevice
  BY ControlWorld DEF Init, WorldType, CommandFitsDevice
<1>11. OneEach
  BY <1>4 DEF Init, OneEach
<1>12. QED
  BY <1>5, <1>6, <1>9, <1>10, <1>11 DEF ControlInv

LEMMA ControlStep == ControlInv /\ [Next]_controlVars => ControlInv'
<1> SUFFICES ASSUME ControlInv, [Next]_controlVars
             PROVE  ControlInv'
  OBVIOUS
<1>1. CASE Selects
  BY <1>1, TenantKeeps, FilterKeeps, DeviceKeeps DEF Selects
<1>2. CASE DevicePropertySetPanel
  <2>1. ASSUME OnPropertiesTextChange
        PROVE  ControlInv'
    BY <2>1, ValidityKeeps DEF OnPropertiesTextChange, Kinds
  <2>2. QED
    BY <1>2, <2>1, WritableKeeps, SetPropertiesKeeps DEF DevicePropertySetPanel
<1>3. CASE DeviceServiceCallPanel
  <2>1. ASSUME HandleServiceInputParamChange
        PROVE  ControlInv'
    BY <2>1, ValidityKeeps DEF HandleServiceInputParamChange, Kinds
  <2>2. QED
    BY <1>3, <2>1, ServiceNameKeeps, CallServiceKeeps DEF DeviceServiceCallPanel
<1>4. CASE Network
  <2>1. ASSUME NEW r \in requests, Arrive(r)
        PROVE  ControlInv'
    <3>1. r.what \in {"tenants", "products", "devices", "model"}
      BY <2>1 DEF ControlInv, Apt, Questions
    <3>2. QED
      BY <2>1, <3>1, TenantsArriveKeeps, ProductsArriveKeeps, DevicesArriveKeeps, ModelArrivesKeeps
  <2>2. QED
    BY <1>4, <2>1, FailKeeps, AcceptedKeeps, RejectedKeeps DEF Network
<1>5. CASE Server
  BY <1>5, PollKeeps, ServerKeeps, ConnectionShownKeeps DEF Server
<1>6. CASE UNCHANGED controlVars
  BY <1>6 DEF controlVars, ControlInv, WorldType, CommandFitsDevice, OneEach
<1>7. QED
  BY <1>1, <1>2, <1>3, <1>4, <1>5, <1>6 DEF Next

LEMMA ControlAlways == Spec => []ControlInv
BY ControlStarts, ControlStep, PTL DEF Spec

\* Type correctness: what the page holds is what it can show.
THEOREM TypesOfPage == Spec => []TypeOK
<1>1. ControlInv => TypeOK
  <2> SUFFICES ASSUME ControlInv
               PROVE  TypeOK
    OBVIOUS
  <2>1. page \in PageType /\ WorldType
    BY DEF ControlInv, Drawn
  <2>2. \A d \in DOMAIN page.devices : page.devices[d] \in BOOLEAN
    BY <2>1, PageFields
  <2>3. \A r \in requests : r.what \in Questions /\ r.by \in {"effect", "poll"}
    BY DEF ControlInv, Apt
  <2>4. QED
    BY <2>1, <2>2, <2>3, PageFields DEF TypeOK, WorldType
<1>2. QED
  BY <1>1, ControlAlways, PTL

\* Once every question is answered the selection fits together, in whatever order
\* the answers came and whatever was chosen meanwhile.
THEOREM TheSelectionSettles == Spec => []SelectionSettles
<1>1. ControlInv => SelectionSettles
  <2> SUFFICES ASSUME ControlInv, requests = {}, stale = {}
               PROVE  /\ page.products \subseteq ListedProducts(page.tenant)
                      /\ page.filter \in page.products \cup {None}
                      /\ \A d \in DOMAIN page.devices :
                            /\ TenantOf[ProductOf[d]] = page.tenant
                            /\ page.filter # None => ProductOf[d] = page.filter
                      /\ IF DOMAIN page.devices = {} THEN page.device = None
                         ELSE page.device \in DOMAIN page.devices
                      /\ page.model = SelectedProduct(page)
    BY DEF SelectionSettles
  <2>1. ProductsHold(page) /\ DevicesHold(page) /\ ModelHolds(page)
    BY DEF ControlInv, Consistent, Asked, Holds, Questions
  <2>2. page \in PageType /\ Bare(page)
    BY DEF ControlInv, Drawn
  <2>3. SelectedProduct(page) # None => TenantOf[SelectedProduct(page)] = page.tenant
    BY <2>1, <2>2, PageFields DEF SelectedProduct, ProductsHold, DevicesHold, ListedProducts
  <2>4. page.tenant = None => SelectedProduct(page) = None
    BY <2>2 DEF Bare, SelectedProduct
  <2>5. page.model = SelectedProduct(page)
    BY <2>1, <2>3, <2>4 DEF ModelHolds, Asks, CurrentModel
  <2>6. QED
    BY <2>1, <2>5 DEF ProductsHold, DevicesHold
<1>2. QED
  BY <1>1, ControlAlways, PTL

\* A command names what the device's own product has, unless it was sent while the
\* model of that product was still being loaded.
THEOREM CommandsFitTheirDevice == Spec => []CommandFitsDevice
<1>1. ControlInv => CommandFitsDevice
  BY DEF ControlInv
<1>2. QED
  BY <1>1, ControlAlways, PTL

\* The result of a command to another device is shown only if it came after the
\* selection changed, or if a list of devices replaced the selected one.
THEOREM ResultsAreOfTheSelection == Spec => []ResultIsOfSelection
<1>1. ControlInv => ResultIsOfSelection
  BY DEF ControlInv, Drawn, ResultsStray, ResultIsOfSelection
<1>2. QED
  BY <1>1, ControlAlways, PTL

\* At most one command of a kind is in flight, its button disabled just as long; the
\* forms are locked only while a model is awaited.
THEOREM IndicatorsTellWhatIsAwaited == Spec => []IndicatorsAreAwaited
<1>1. ControlInv => IndicatorsAreAwaited
  <2> SUFFICES ASSUME ControlInv
               PROVE  IndicatorsAreAwaited
    OBVIOUS
  <2>1. ASSUME NEW k \in Kinds
        PROVE  Cardinality({c \in commands : c.kind = k}) = IF page.busy[k] THEN 1 ELSE 0
    <3>1. CASE page.busy[k]
      <4>1. PICK c \in commands : c.kind = k
        BY <3>1 DEF ControlInv, OneEach
      <4>2. {e \in commands : e.kind = k} = {c}
        BY <4>1 DEF ControlInv, OneEach
      <4>3. QED
        BY <3>1, <4>2, FS_Singleton
    <3>2. CASE ~page.busy[k]
      <4>1. {e \in commands : e.kind = k} = {}
        BY <3>2 DEF ControlInv, OneEach
      <4>2. QED
        BY <3>2, <4>1, FS_EmptySet
    <3>3. QED
      BY <3>1, <3>2
  <2>2. page.loading /\ Asks("model", page) => \E r \in requests : r.what = "model"
    BY DEF ControlInv, Consistent, ModelSettled, Asked
  <2>3. QED
    BY <2>1, <2>2 DEF IndicatorsAreAwaited
<1>2. QED
  BY <1>1, ControlAlways, PTL
=============================================================================
