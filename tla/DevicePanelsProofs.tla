------------------------- MODULE DevicePanelsProofs -------------------------
(***************************************************************************)
(* What the panels of the device page hold is what they ask for, whatever  *)
(* order answers and messages come in.                                     *)
(*                                                                         *)
(* The inductive invariant follows a question from the effect that asks it *)
(* to the panel that shows the answer: the answer to an effect or a poll   *)
(* is always about what the page asks for now, any other answer either is  *)
(* so or is known to be late (RequestFits); a panel that has something to  *)
(* load and was not disturbed awaits its effect or holds what it asks for  *)
(* (PanelHolds); and the newest properties are shown, or are on their way  *)
(* by an answer or a message (NewestComes).                                *)
(***************************************************************************)
EXTENDS DevicePanels, TLAPS, FiniteSetTheorems, SequenceTheorems

Args == [filter : SUBSET Names, page : Nat \ {0}]
ViewType == [device : Devices \cup {NoDevice}, tab : Tabs, arg : [Panels -> Args]]
EventType == [device : Devices \cup {NoDevice}, n : Nat]
Reply == [items : Seq(Nat), total : Int]

\* The rows of s differ.
AllDiffer(s) == \A i, j \in DOMAIN s : s[i] = s[j] => i = j

\* An answer that came is what the server held then: of the properties, no more
\* than it holds now.
AnswerFits(r, held) ==
    /\ r.answer = Unanswered \/ r.answer.total \in Nat
    /\ r.panel = "latest" /\ r.answer # Unanswered => \E n \in 0 .. held[r.device] : r.answer.items = <<n>>
    /\ r.panel = "events" => AllDiffer(r.answer.items)

\* A request that is not late is about what the view asks for.  Only the reload of a
\* history and the follow-up of a command may be about another page of it.
RequestFits(r, v) ==
    /\ r.by \in {"effect", "poll"} =>
           ~r.late /\ Loads(r.panel, v) /\ r.page = v.arg[r.panel].page
    /\ ~r.late => r.device = v.device /\ r.filter = v.arg[r.panel].filter
    /\ r.panel \notin Histories => r.page = 1

\* The properties are not filtered, and have no pages; nor has their trend.
PlainArgs(v) == v.arg["latest"] = Everything /\ v.arg["trend"].page = 1

\* What NoForeignData says of contents and a view.
OwnData(c, v) == \A p \in Panels : c[p].device \notin {v.device, NoDevice} => c[p].late

\* Panel p awaits an answer to a request made by one of these.
Awaits(p, reqs, bys) == \E r \in reqs : r.panel = p /\ r.by \in bys

\* The content x is what the view asks panel p for.
Fresh(p, x, v) ==
    /\ x.device = v.device
    /\ x.filter = v.arg[p].filter
    /\ x.page = v.arg[p].page

\* A panel that has something to load and was not disturbed.
PanelHolds(p, v, c, reqs, d) ==
    Loads(p, v) /\ ~d[p] => Awaits(p, reqs, {"effect"}) \/ Fresh(p, c[p], v)

\* The answer to r will be, or is, the newest properties of device e.
AsksNewest(r, e, held) ==
    /\ r.panel = "latest" /\ r.device = e
    /\ r.by \in {"effect", "follow"}
    /\ r.answer = Unanswered \/ r.answer.items = <<held[e]>>

\* The newest properties are shown, or come by an answer or by a message.
NewestComes(v, c, reqs, sent, held, d) ==
    v.device # NoDevice /\ ~d["latest"] =>
        \/ c["latest"].device = v.device /\ c["latest"].items = <<held[v.device]>>
        \/ \E r \in reqs : AsksNewest(r, v.device, held)
        \/ \E m \in sent : m.kind = "property" /\ m.device = v.device

LoadingAwaits(v, l, reqs) == \A p \in Panels : l[p] /\ Loads(p, v) => Awaits(p, reqs, {"effect", "reload"})

\* The inductive invariant: what each panel holds, and what it asks for.
PanelInv ==
    /\ TypeOK
    /\ PlainArgs(view)
    /\ \A r \in requests : AnswerFits(r, stored) /\ RequestFits(r, view)
    /\ OwnData(shown, view)
    /\ LoadingAwaits(view, loading, requests)
    /\ \A p \in Panels : PanelHolds(p, view, shown, requests, disturbed)
    /\ NewestComes(view, shown, requests, wire, stored, disturbed)
    /\ AllDiffer(shown["events"].items)

----------------------------------------------------------------------------
(* Rows and pages. *)

\* Part of a list of different rows.
LEMMA PartDiffers ==
  ASSUME NEW s \in Seq(Nat), AllDiffer(s), NEW a \in Nat \ {0}, NEW n \in Int, n <= Len(s)
  PROVE  SubSeq(s, a, n) \in Seq(Nat) /\ AllDiffer(SubSeq(s, a, n))
<1>1. \A i \in a .. n : s[i] \in Nat
  OBVIOUS
<1>2. CASE n < a
  <2>1. SubSeq(s, a, n) = <<>>
    BY <1>2, SubSeqEmpty
  <2>2. QED
    BY <2>1 DEF AllDiffer
<1>3. CASE a <= n
  <2> DEFINE t == SubSeq(s, a, n)
  <2>1. /\ t \in Seq(Nat) /\ Len(t) = n - a + 1
        /\ \A i \in 1 .. n - a + 1 : t[i] = s[a + i - 1]
    BY <1>1, <1>3, SubSeqProperties
  <2> HIDE DEF t
  <2>2. ASSUME NEW i \in DOMAIN t, NEW j \in DOMAIN t, t[i] = t[j]
        PROVE  i = j
    <3>1. DOMAIN t = 1 .. Len(t)
      BY <2>1
    <3>2. i \in 1 .. n - a + 1 /\ j \in 1 .. n - a + 1
      BY <2>1, <3>1
    <3>3. s[a + i - 1] = s[a + j - 1]
      BY <2>1, <2>2, <3>2
    <3>4. a + i - 1 \in DOMAIN s /\ a + j - 1 \in DOMAIN s
      BY <3>2
    <3>5. a + i - 1 = a + j - 1
      BY <3>3, <3>4 DEF AllDiffer
    <3>6. QED
      BY <3>2, <3>5
  <2>3. QED
    BY <2>1, <2>2 DEF AllDiffer, t
<1>4. QED
  BY <1>2, <1>3

\* Part of a list, of any rows.
LEMMA PartType ==
  ASSUME NEW s \in Seq(Nat), NEW a \in Nat \ {0}, NEW n \in Int, n <= Len(s)
  PROVE  SubSeq(s, a, n) \in Seq(Nat)
<1>1. \A i \in a .. n : s[i] \in Nat
  OBVIOUS
<1>2. QED
  BY <1>1, SubSeqProperties

\* A page of a list of different rows.
LEMMA PageDiffers ==
  ASSUME NEW s \in Seq(Nat), AllDiffer(s), NEW page \in Nat \ {0}
  PROVE  PageOf(s, page, PageSize) \in Seq(Nat) /\ AllDiffer(PageOf(s, page, PageSize))
<1>1. PageSize \in Nat \ {0}
  BY PanelBounds
<1> DEFINE a == (page - 1) * PageSize + 1
           n == AtMost(page * PageSize, Len(s))
<1>2. a \in Nat \ {0}
  BY <1>1
<1>3. n \in Int /\ n <= Len(s)
  <2>1. page * PageSize \in Int
    BY <1>1
  <2>2. QED
    BY <2>1 DEF AtMost
<1> HIDE DEF a, n
<1>4. SubSeq(s, a, n) \in Seq(Nat) /\ AllDiffer(SubSeq(s, a, n))
  BY <1>2, <1>3, PartDiffers
<1>5. QED
  BY <1>4 DEF PageOf, a, n

\* A history lists different rows.
LEMMA RowsDiffer ==
  ASSUME NEW p \in Histories, NEW d \in Devices, NEW filter, logged \in [Histories -> [Devices -> Nat]]
  PROVE  Rows(p, d, filter) \in Seq(Nat) /\ AllDiffer(Rows(p, d, filter))
<1> DEFINE n == logged[p][d]
           s == [i \in 1 .. n |-> n + 1 - i]
<1>1. n \in Nat
  OBVIOUS
<1> HIDE DEF n
<1>2. s \in Seq(Nat) /\ AllDiffer(s)
  BY <1>1 DEF AllDiffer
<1>3. <<>> \in Seq(Nat) /\ AllDiffer(<<>>)
  BY DEF AllDiffer
<1>4. Rows(p, d, filter) = IF filter = {} THEN s ELSE <<>>
  BY DEF Rows, n
<1> HIDE DEF s
<1>5. QED
  BY <1>2, <1>3, <1>4

\* What the server answers.
LEMMA AnswerType ==
  ASSUME TypeOK, NEW q \in Request
  PROVE  /\ Answer(q).items \in Seq(Nat) /\ Answer(q).total \in Nat
         /\ Answer(q) = [items |-> Answer(q).items, total |-> Answer(q).total]
         /\ q.panel = "events" => AllDiffer(Answer(q).items)
         /\ q.panel = "latest" => Answer(q).items = <<stored[q.device]>> /\ stored[q.device] \in Nat
<1>1. q.device \in Devices /\ q.page \in Nat \ {0} /\ q.panel \in Panels
  BY DEF Request
<1>2. stored[q.device] \in Nat
  BY <1>1 DEF TypeOK
<1>3. CASE q.panel \in Histories
  <2> DEFINE rows == Rows(q.panel, q.device, q.filter)
  <2>1. rows \in Seq(Nat) /\ AllDiffer(rows)
    BY <1>1, <1>3, RowsDiffer DEF TypeOK
  <2>2. Answer(q) = [items |-> PageOf(rows, q.page, PageSize), total |-> Len(rows)]
    BY <1>3 DEF Answer
  <2> HIDE DEF rows
  <2>3. PageOf(rows, q.page, PageSize) \in Seq(Nat) /\ AllDiffer(PageOf(rows, q.page, PageSize))
    BY <1>1, <2>1, PageDiffers
  <2>4. Len(rows) \in Nat
    BY <2>1
  <2>5. q.panel # "latest"
    BY <1>3 DEF Histories
  <2>6. Answer(q).items = PageOf(rows, q.page, PageSize) /\ Answer(q).total = Len(rows)
    BY <2>2
  <2>7. QED
    BY <2>2, <2>3, <2>4, <2>5, <2>6
<1>4. CASE q.panel \notin Histories
  <2>1. Answer(q) = [items |-> IF q.panel = "latest" THEN <<stored[q.device]>> ELSE <<>>, total |-> 0]
    BY <1>4 DEF Answer
  <2>2. q.panel # "events"
    BY <1>4 DEF Histories
  <2>3. QED
    BY <1>2, <2>1, <2>2
<1>5. QED
  BY <1>3, <1>4

\* Every page a table leads to has a number.
LEMMA PageTargetsType ==
  ASSUME NEW page \in Nat \ {0}, NEW total \in Nat, NEW b
  PROVE  PageTargets(page, total, PageSize, b) \subseteq Nat \ {0}
<1>1. PageSize \in Nat \ {0}
  BY PanelBounds
<1> DEFINE pages == TotalPages(total, PageSize)
<1>2. pages \in Nat \ {0}
  <2>1. (total + PageSize - 1) \div PageSize \in Int
    BY <1>1
  <2>2. QED
    BY <2>1 DEF TotalPages, AtLeast
<1> HIDE DEF pages
<1>3. \A n \in 1 .. pages + 1 : AtMost(n, pages) \in Nat \ {0}
  BY <1>2 DEF AtMost
<1>4. AtLeast(1, page - 1) \in Nat \ {0} /\ AtMost(pages, page + 1) \in Nat \ {0}
  BY <1>2 DEF AtLeast, AtMost
<1>5. QED
  BY <1>3, <1>4 DEF PageTargets, JumpPage, pages

----------------------------------------------------------------------------
(* What a panel depends on. *)

LEMMA ThePanels ==
  /\ Panels = {"events", "sets", "calls", "latest", "trend"}
  /\ Histories \subseteq Panels
  /\ \A p \in Panels : p \notin Histories => p = "latest" \/ p = "trend"
BY DEF Panels, Histories

\* Nothing is loaded without a device, or where the panel is emptied.
LEMMA LoadsDevice ==
  ASSUME NEW p \in Panels, NEW v, Loads(p, v)
  PROVE  v.device # NoDevice /\ ~Clears(p, v)
BY ThePanels DEF Loads, Clears, LatestLoads, LatestClears, TrendLoads, TrendClears, EventsLoad, EventsClear,
   SetsLoad, SetsClear, CallsLoad, CallsClear

\* The properties are loaded for any device.
LEMMA LatestIsLoaded ==
  ASSUME NEW v, v.device # NoDevice
  PROVE  Loads("latest", v)
BY DEF Loads, LatestLoads

\* What a panel asks for follows from what it depends on.
LEMMA DepsTell ==
  ASSUME NEW p \in Panels, NEW v, NEW w, PlainArgs(v), PlainArgs(w), Deps(p, v) = Deps(p, w)
  PROVE  /\ v.device = w.device /\ v.arg[p] = w.arg[p]
         /\ Loads(p, v) <=> Loads(p, w)
<1>1. CASE p = "latest"
  BY <1>1 DEF Deps, PlainArgs, Loads, LatestLoads
<1>2. CASE p # "latest"
  <2>1. v.tab = w.tab /\ v.device = w.device /\ v.arg[p] = w.arg[p]
    BY <1>2 DEF Deps
  <2>2. QED
    BY <1>2, <2>1, ThePanels DEF Loads, TrendLoads, EventsLoad, SetsLoad, CallsLoad
<1>3. QED
  BY <1>1, <1>2

----------------------------------------------------------------------------
(* An event joins a page. *)

LEMMA JoinsDiffers ==
  ASSUME NEW n \in Nat, NEW s \in Seq(Nat), AllDiffer(s), ~ \E i \in DOMAIN s : s[i] = n
  PROVE  <<n>> \o s \in Seq(Nat) /\ Len(<<n>> \o s) = Len(s) + 1 /\ AllDiffer(<<n>> \o s)
<1> DEFINE t == <<n>> \o s
<1>1. /\ t \in Seq(Nat) /\ Len(t) = Len(s) + 1
      /\ t[1] = n
      /\ \A i \in 1 .. Len(t) : i # 1 => t[i] = s[i - 1] /\ i - 1 \in 1 .. Len(s)
  OBVIOUS
<1> HIDE DEF t
<1>2. ASSUME NEW i \in DOMAIN t, NEW j \in DOMAIN t, t[i] = t[j]
      PROVE  i = j
  <2>1. DOMAIN t = 1 .. Len(t) /\ DOMAIN s = 1 .. Len(s)
    BY <1>1
  <2>2. i \in 1 .. Len(t) /\ j \in 1 .. Len(t)
    BY <2>1
  <2>3. CASE i = 1
    BY <1>1, <1>2, <2>1, <2>2, <2>3
  <2>4. CASE j = 1
    BY <1>1, <1>2, <2>1, <2>2, <2>4
  <2>5. CASE i # 1 /\ j # 1
    <3>1. s[i - 1] = s[j - 1] /\ i - 1 \in DOMAIN s /\ j - 1 \in DOMAIN s
      BY <1>1, <1>2, <2>1, <2>2, <2>5
    <3>2. i - 1 = j - 1
      BY <3>1 DEF AllDiffer
    <3>3. QED
      BY <2>2, <3>2
  <2>6. QED
    BY <2>3, <2>4, <2>5
<1>3. QED
  BY <1>1, <1>2 DEF AllDiffer, t

LEMMA InboxJoins ==
  ASSUME NEW v \in ViewType, NEW event \in EventType, NEW e \in Content, AllDiffer(e.items),
         NEW o, o = WithInbox(v, event, e)
  PROVE  /\ o \in Content /\ AllDiffer(o.items)
         /\ o.filter = e.filter /\ o.page = e.page /\ o.late = e.late
         /\ o.device \in {e.device, v.device}
<1> DEFINE listed == \E i \in DOMAIN e.items : e.items[i] = event.n
           longer == <<event.n>> \o e.items
           items == IF listed THEN e.items ELSE SubSeq(longer, 1, AtMost(PageSize, Len(e.items) + 1))
           device == IF e.items = <<>> THEN event.device ELSE e.device
           total == e.total + 1
<1>1. o = e \/ (o = [e EXCEPT !.items = items, !.total = total, !.device = device] /\ event.device = v.device)
  BY DEF WithInbox, Content
<1>2. e.items \in Seq(Nat) /\ e.total \in Nat /\ event.n \in Nat /\ event.device \in Devices \cup {NoDevice}
      /\ e.device \in Devices \cup {NoDevice}
  BY DEF Content, EventType
<1>3. items \in Seq(Nat) /\ AllDiffer(items)
  <2>1. CASE listed
    BY <1>2, <2>1
  <2>2. CASE ~listed
    <3>1. longer \in Seq(Nat) /\ Len(longer) = Len(e.items) + 1 /\ AllDiffer(longer)
      BY <1>2, <2>2, JoinsDiffers
    <3> DEFINE n == AtMost(PageSize, Len(e.items) + 1)
    <3>2. n \in Int /\ n <= Len(e.items) + 1
      BY <1>2, PanelBounds DEF AtMost
    <3>3. 1 \in Nat \ {0}
      OBVIOUS
    <3> HIDE DEF longer, n
    <3>4. SubSeq(longer, 1, n) \in Seq(Nat) /\ AllDiffer(SubSeq(longer, 1, n))
      BY <3>1, <3>2, <3>3, PartDiffers
    <3>5. QED
      BY <2>2, <3>4 DEF n, longer
  <2>3. QED
    BY <2>1, <2>2
<1>4. total \in Nat /\ device \in Devices \cup {NoDevice} /\ device \in {e.device, event.device}
  BY <1>2
<1> HIDE DEF items, total, device
<1>5. CASE o = e
  BY <1>5
<1>6. CASE o = [e EXCEPT !.items = items, !.total = total, !.device = device] /\ event.device = v.device
  BY <1>3, <1>4, <1>6 DEF Content
<1>7. QED
  BY <1>1, <1>5, <1>6

----------------------------------------------------------------------------
(* Asking. *)

\* What a panel asks is a request about the view.
LEMMA AskFits ==
  ASSUME NEW v \in ViewType, PlainArgs(v), NEW p \in Panels, Loads(p, v) \/ v.device # NoDevice,
         NEW by \in {"effect", "reload", "poll", "follow"}, by \in {"effect", "poll"} => Loads(p, v),
         NEW held, NEW r, r = Ask(p, v, by)
  PROVE  /\ r \in Request
         /\ r.panel = p /\ r.by = by /\ r.answer = Unanswered /\ r.device = v.device
         /\ r.filter = v.arg[p].filter /\ r.page = v.arg[p].page /\ ~r.late
         /\ AnswerFits(r, held) /\ RequestFits(r, v)
<1>1. v.device \in Devices /\ v.arg[p].filter \in SUBSET Names /\ v.arg[p].page \in Nat \ {0}
  BY LoadsDevice DEF ViewType, Args
<1>2. Unanswered \in Reply /\ Unanswered.items = <<>>
  BY DEF Unanswered, Reply
<1> DEFINE filter == v.arg[p].filter
           page == v.arg[p].page
<1>3. r = [panel |-> p, device |-> v.device, filter |-> filter, page |-> page,
           by |-> by, late |-> FALSE, answer |-> Unanswered]
  BY DEF Ask
<1> HIDE DEF filter, page
<1>4. /\ r.panel = p /\ r.by = by /\ r.answer = Unanswered /\ r.device = v.device
      /\ r.filter = filter /\ r.page = page /\ r.late = FALSE
  BY <1>3
<1>5. r \in Request
  BY <1>1, <1>2, <1>3 DEF Request, Reply, filter, page
<1>6. AnswerFits(r, held)
  BY <1>2, <1>4 DEF AnswerFits, AllDiffer
<1>7. p \notin Histories => page = 1
  BY ThePanels DEF page, PlainArgs, Everything
<1>8. RequestFits(r, v)
  BY <1>4, <1>7 DEF RequestFits, filter, page
<1>9. QED
  BY <1>4, <1>5, <1>6, <1>8 DEF filter, page

\* The history of a request.
LEMMA OvertakenFits ==
  ASSUME NEW r \in Request, NEW changed, NEW o, o = Overtaken(r, changed)
  PROVE  /\ o \in Request
         /\ o.panel = r.panel /\ o.device = r.device /\ o.filter = r.filter /\ o.page = r.page
         /\ o.by = r.by /\ o.answer = r.answer
         /\ o.late <=> r.late \/ (r.by \notin {"effect", "poll"} /\ r.panel \in changed)
<1> DEFINE late == r.late \/ (r.by \notin {"effect", "poll"} /\ r.panel \in changed)
<1>1. late \in BOOLEAN
  OBVIOUS
<1>2. o = [r EXCEPT !.late = late]
  BY DEF Overtaken
<1> HIDE DEF late
<1>3. /\ o \in Request /\ o.late = late
      /\ o.panel = r.panel /\ o.device = r.device /\ o.filter = r.filter /\ o.page = r.page
      /\ o.by = r.by /\ o.answer = r.answer
  BY <1>1, <1>2 DEF Request
<1>4. QED
  BY <1>3 DEF late

----------------------------------------------------------------------------
(* Drawing the page. *)

\* The requests of the page drawn with v are about what v asks for.
LEMMA StillTakenFits ==
  ASSUME PlainArgs(view), NEW v \in ViewType, PlainArgs(v), NEW r \in Request,
         AnswerFits(r, stored), RequestFits(r, view),
         NEW changed, changed = {p \in Panels : Deps(p, v) # Deps(p, view)},
         r.by = "effect" => r.panel \notin changed, r.by = "poll" => v = view,
         NEW o, o = Overtaken(r, changed)
  PROVE  o \in Request /\ AnswerFits(o, stored) /\ RequestFits(o, v)
<1>1. /\ o \in Request
      /\ o.panel = r.panel /\ o.device = r.device /\ o.filter = r.filter /\ o.page = r.page
      /\ o.by = r.by /\ o.answer = r.answer
      /\ o.late <=> r.late \/ (r.by \notin {"effect", "poll"} /\ r.panel \in changed)
  BY OvertakenFits
<1>2. AnswerFits(o, stored)
  BY <1>1 DEF AnswerFits
<1>3. r.panel \in Panels
  BY DEF Request
<1>4. r.panel \notin changed =>
        /\ v.device = view.device /\ v.arg[r.panel] = view.arg[r.panel]
        /\ Loads(r.panel, v) <=> Loads(r.panel, view)
  BY <1>3, DepsTell
<1>5. RequestFits(o, v)
  <2>1. CASE r.by = "effect"
    BY <1>1, <1>4, <2>1 DEF RequestFits
  <2>2. CASE r.by = "poll"
    BY <1>1, <2>2 DEF RequestFits
  <2>3. CASE r.by \notin {"effect", "poll"}
    BY <1>1, <1>4, <2>3 DEF RequestFits
  <2>4. QED
    BY <2>1, <2>2, <2>3
<1>6. QED
  BY <1>1, <1>2, <1>5

\* The page is drawn with the view v and the contents c.  A panel whose question did
\* not change keeps what it holds and awaits; any other asks anew, or is emptied.
LEMMA RenderHolds ==
  ASSUME TypeOK, PlainArgs(view),
         NEW v \in ViewType, PlainArgs(v), NEW event \in EventType,
         NEW c \in [Panels -> Content], AllDiffer(c["events"].items),
         NEW l \in [Panels -> BOOLEAN], NEW awaited \in SUBSET Request, NEW d \in [Panels -> BOOLEAN],
         \A r \in awaited : AnswerFits(r, stored) /\ RequestFits(r, view),
         OwnData(c, v),
         \A p \in Panels :
            Deps(p, v) = Deps(p, view) /\ l[p] /\ Loads(p, v) => Awaits(p, awaited, {"effect", "reload"}),
         \A p \in Panels : Deps(p, v) = Deps(p, view) => PanelHolds(p, v, c, awaited, d),
         v.device = view.device => NewestComes(v, c, awaited, wire', stored, d),
         Render(v, event, c, l, awaited, d), UNCHANGED <<stored, logged>>,
         status' \in {"connecting", "open", "reconnecting", "closed"},
         wire' \subseteq [kind : {"property", "event"}, device : Devices, n : Nat],
         left' \in [{"reports", "events", "clicks", "turns"} -> Nat]
  PROVE  PanelInv'
<1> DEFINE changed == {p \in Panels : Deps(p, v) # Deps(p, view)}
           starts == {p \in changed : Loads(p, v)}
           loaded == [p \in Panels |-> IF p \in changed /\ Clears(p, v) THEN Nothing ELSE c[p]]
           taken == StillTaken(awaited, changed, v)
           joined == WithInbox(v, event, loaded["events"])
<1>1. /\ view' = v /\ inbox' = event
      /\ requests' = {Overtaken(r, changed) : r \in taken} \cup {Ask(p, v, "effect") : p \in starts}
      /\ shown' = loaded \/ shown' = [loaded EXCEPT !["events"] = joined]
      /\ loading' = [p \in Panels |-> p \in starts \/ l[p]]
      /\ disturbed' = [p \in Panels |-> p \notin starts /\ d[p]]
  BY DEF Render
<1>2. /\ starts \subseteq changed /\ changed \subseteq Panels
      /\ \A p \in starts : Loads(p, v)
      /\ \A p \in changed : Loads(p, v) => p \in starts
  OBVIOUS
<1>3. ASSUME NEW p \in Panels, p \notin changed
      PROVE  /\ Deps(p, v) = Deps(p, view) /\ v.device = view.device
             /\ Loads(p, v) <=> Loads(p, view)
  BY <1>3, DepsTell
<1>4. /\ taken \subseteq awaited
      /\ \A r \in taken : (r.by = "effect" => r.panel \notin changed) /\ (r.by = "poll" => v = view)
      /\ \A r \in awaited : r.by # "poll" /\ r.panel \notin changed => r \in taken
  BY DEF StillTaken
<1>5. changed = {p \in Panels : Deps(p, v) # Deps(p, view)}
  OBVIOUS
\* The requests.
<1>6. ASSUME NEW o \in requests'
      PROVE  o \in Request /\ AnswerFits(o, stored) /\ RequestFits(o, v)
  <2>1. CASE o \in {Overtaken(r, changed) : r \in taken}
    <3>1. PICK r \in taken : o = Overtaken(r, changed)
      BY <2>1
    <3>2. /\ r \in Request /\ AnswerFits(r, stored) /\ RequestFits(r, view)
          /\ r.by = "effect" => r.panel \notin changed
          /\ r.by = "poll" => v = view
      BY <1>4
    <3> HIDE DEF changed
    <3>3. QED
      BY <1>5, <3>1, <3>2, StillTakenFits
  <2>2. CASE o \in {Ask(p, v, "effect") : p \in starts}
    <3>1. PICK p \in starts : o = Ask(p, v, "effect")
      BY <2>2
    <3>2. p \in Panels /\ Loads(p, v)
      BY <1>2
    <3>3. QED
      BY <3>1, <3>2, AskFits
  <2>3. QED
    BY <1>1, <1>6, <2>1, <2>2
<1>7. ASSUME NEW p \in Panels, NEW bys, bys \subseteq {"effect", "reload", "follow"}, p \notin changed,
             Awaits(p, awaited, bys)
      PROVE  Awaits(p, requests', bys)
  <2>1. PICK r \in awaited : r.panel = p /\ r.by \in bys
    BY <1>7 DEF Awaits
  <2>2. r \in taken
    <3>1. r.by # "poll" /\ r.panel \notin changed
      BY <1>7, <2>1
    <3>2. QED
      BY <1>4, <3>1
  <2>3. Overtaken(r, changed) \in requests'
    BY <1>1, <2>2
  <2>4. r \in Request
    OBVIOUS
  <2>5. Overtaken(r, changed).panel = p /\ Overtaken(r, changed).by \in bys
    BY <2>1, <2>4, OvertakenFits
  <2>6. QED
    BY <2>3, <2>5 DEF Awaits
<1>8. ASSUME NEW p \in starts
      PROVE  /\ Ask(p, v, "effect") \in requests'
             /\ Ask(p, v, "effect").panel = p /\ Ask(p, v, "effect").by = "effect"
             /\ Ask(p, v, "effect").device = v.device /\ Ask(p, v, "effect").answer = Unanswered
  BY <1>1 DEF Ask
\* The contents.
<1>9. /\ Nothing \in Content /\ Nothing.device = NoDevice /\ AllDiffer(Nothing.items)
  <2>1. <<>> \in Seq(Nat) /\ {} \in SUBSET Names
    OBVIOUS
  <2>2. QED
    BY <2>1 DEF Nothing, Content, AllDiffer
<1>10. /\ loaded \in [Panels -> Content]
       /\ \A p \in Panels : loaded[p] = c[p] \/ (loaded[p] = Nothing /\ p \in changed)
  BY <1>9
<1>11. AllDiffer(loaded["events"].items) /\ "events" \in Panels
  BY <1>9, <1>10, ThePanels
<1> HIDE DEF loaded, changed, starts, taken
<1>12. /\ joined \in Content /\ AllDiffer(joined.items)
       /\ joined.filter = loaded["events"].filter /\ joined.page = loaded["events"].page
       /\ joined.late = loaded["events"].late
       /\ joined.device \in {loaded["events"].device, v.device}
  BY <1>10, <1>11, InboxJoins
<1> HIDE DEF joined
<1>13. /\ shown' \in [Panels -> Content] /\ AllDiffer(shown'["events"].items)
       /\ \A p \in Panels : /\ p # "events" => shown'[p] = loaded[p]
                            /\ shown'[p].filter = loaded[p].filter /\ shown'[p].page = loaded[p].page
                            /\ shown'[p].late = loaded[p].late
                            /\ shown'[p].device \in {loaded[p].device, v.device}
  BY <1>1, <1>10, <1>11, <1>12
\* The invariant.
<1>14. TypeOK'
  <2>1. requests' \subseteq Request
    BY <1>6
  <2>2. loading' \in [Panels -> BOOLEAN] /\ disturbed' \in [Panels -> BOOLEAN]
    BY <1>1
  <2>3. view' \in ViewType /\ inbox' \in EventType
    BY <1>1
  <2>4. QED
    BY <1>13, <2>1, <2>2, <2>3 DEF TypeOK, ViewType, EventType, Args
<1>15. PlainArgs(view') /\ \A r \in requests' : AnswerFits(r, stored') /\ RequestFits(r, view')
  BY <1>1, <1>6
<1>16. OwnData(shown', view')
  BY <1>1, <1>9, <1>10, <1>13 DEF OwnData
<1>17. LoadingAwaits(view', loading', requests')
  <2> SUFFICES ASSUME NEW p \in Panels, loading'[p], Loads(p, v)
               PROVE  Awaits(p, requests', {"effect", "reload"})
    BY <1>1 DEF LoadingAwaits
  <2>1. CASE p \in starts
    BY <1>8, <2>1 DEF Awaits
  <2>2. CASE p \notin starts
    <3>1. p \notin changed /\ l[p]
      BY <1>1, <1>2, <2>2
    <3>2. Awaits(p, awaited, {"effect", "reload"})
      BY <1>3, <3>1
    <3>3. QED
      BY <1>7, <3>1, <3>2
  <2>3. QED
    BY <2>1, <2>2
<1>18. \A p \in Panels : PanelHolds(p, view', shown', requests', disturbed')
  <2> SUFFICES ASSUME NEW p \in Panels, Loads(p, v), ~disturbed'[p], ~Awaits(p, requests', {"effect"})
               PROVE  Fresh(p, shown'[p], v)
    BY <1>1 DEF PanelHolds
  <2>1. p \notin starts
    BY <1>8 DEF Awaits
  <2>2. p \notin changed /\ ~d[p]
    BY <1>1, <1>2, <2>1
  <2>3. ~Awaits(p, awaited, {"effect"})
    BY <1>7, <2>2
  <2>4. Fresh(p, c[p], v)
    BY <1>3, <2>2, <2>3 DEF PanelHolds
  <2>5. QED
    BY <1>10, <1>13, <2>2, <2>4 DEF Fresh
<1>19. NewestComes(view', shown', requests', wire', stored', disturbed')
  <2> SUFFICES ASSUME v.device # NoDevice, ~disturbed'["latest"]
               PROVE  \/ shown'["latest"].device = v.device /\ shown'["latest"].items = <<stored[v.device]>>
                      \/ \E r \in requests' : AsksNewest(r, v.device, stored)
                      \/ \E m \in wire' : m.kind = "property" /\ m.device = v.device
    BY <1>1 DEF NewestComes
  <2>1. "latest" \in Panels /\ Loads("latest", v)
    BY ThePanels, LatestIsLoaded
  <2>2. CASE "latest" \in starts
    BY <1>8, <2>2 DEF AsksNewest
  <2>3. CASE "latest" \notin starts
    <3>1. "latest" \notin changed /\ ~d["latest"]
      BY <1>1, <1>2, <2>1, <2>3
    <3>2. NewestComes(v, c, awaited, wire', stored, d)
      BY <1>3, <2>1, <3>1
    <3>3. CASE \E r \in awaited : AsksNewest(r, v.device, stored)
      <4>1. PICK r \in awaited : AsksNewest(r, v.device, stored)
        BY <3>3
      <4>2. r \in taken
        <5>1. r.by # "poll" /\ r.panel \notin changed
          BY <3>1, <4>1 DEF AsksNewest
        <5>2. QED
          BY <1>4, <5>1
      <4>3. Overtaken(r, changed) \in requests'
        BY <1>1, <4>2
      <4>4. r \in Request
        OBVIOUS
      <4>5. AsksNewest(Overtaken(r, changed), v.device, stored)
        BY <4>1, <4>4, OvertakenFits DEF AsksNewest
      <4>6. QED
        BY <4>3, <4>5
    <3>4. CASE ~ \E r \in awaited : AsksNewest(r, v.device, stored)
      <4>1. \/ c["latest"].device = v.device /\ c["latest"].items = <<stored[v.device]>>
            \/ \E m \in wire' : m.kind = "property" /\ m.device = v.device
        BY <3>1, <3>2, <3>4 DEF NewestComes
      <4>2. shown'["latest"] = c["latest"]
        BY <1>10, <1>13, <2>1, <3>1
      <4>3. QED
        BY <4>1, <4>2
    <3>5. QED
      BY <3>3, <3>4
  <2>4. QED
    BY <2>2, <2>3
<1>20. QED
  BY <1>13, <1>14, <1>15, <1>16, <1>17, <1>18, <1>19 DEF PanelInv

----------------------------------------------------------------------------
(* The user. *)

\* The types of what PanelInv is about.
LEMMA TypesOfPanels ==
  ASSUME TypeOK
  PROVE  /\ view \in ViewType /\ inbox \in EventType /\ shown \in [Panels -> Content]
         /\ loading \in [Panels -> BOOLEAN] /\ disturbed \in [Panels -> BOOLEAN]
         /\ requests \in SUBSET Request
BY DEF TypeOK, ViewType, EventType, Args

LEMMA SpendType ==
  ASSUME TypeOK, NEW what, Spend(what)
  PROVE  left' \in [{"reports", "events", "clicks", "turns"} -> Nat]
<1>1. left \in [{"reports", "events", "clicks", "turns"} -> Nat]
  BY DEF TypeOK
<1>2. left' = [left EXCEPT ![what] = left[what] - 1] /\ left[what] > 0
  BY DEF Spend
<1>3. CASE what \in {"reports", "events", "clicks", "turns"}
  <2>1. left[what] - 1 \in Nat
    BY <1>1, <1>2, <1>3
  <2> DEFINE less == left[what] - 1
  <2>2. left' = [left EXCEPT ![what] = less] /\ less \in Nat
    BY <1>2, <2>1
  <2> HIDE DEF less
  <2>3. QED
    BY <1>1, <2>2
<1>4. CASE what \notin {"reports", "events", "clicks", "turns"}
  <2> DEFINE less == left[what] - 1
  <2>1. left' = [left EXCEPT ![what] = less]
    BY <1>2
  <2> HIDE DEF less
  <2>2. left' = left
    BY <1>1, <1>4, <2>1
  <2>3. QED
    BY <1>1, <2>2
<1>5. QED
  BY <1>3, <1>4

\* The empty content.
LEMMA NothingFits == Nothing \in Content /\ Nothing.device = NoDevice /\ Nothing.items = <<>> /\ AllDiffer(<<>>)
<1>1. <<>> \in Seq(Nat) /\ {} \in SUBSET Names
  OBVIOUS
<1>2. QED
  BY <1>1 DEF Nothing, Content, AllDiffer

\* The user, or a list that came, changes the view.
LEMMA ChangeViewHolds ==
  ASSUME PanelInv, NEW v \in ViewType, PlainArgs(v), NEW c \in [Panels -> Content],
         AllDiffer(c["events"].items), OwnData(c, v), v.device = view.device => c = shown,
         ChangeView(v, c), left' \in [{"reports", "events", "clicks", "turns"} -> Nat]
  PROVE  PanelInv'
<1>1. /\ TypeOK /\ PlainArgs(view) /\ LoadingAwaits(view, loading, requests)
      /\ \A r \in requests : AnswerFits(r, stored) /\ RequestFits(r, view)
      /\ \A p \in Panels : PanelHolds(p, view, shown, requests, disturbed)
      /\ NewestComes(view, shown, requests, wire, stored, disturbed)
  BY DEF PanelInv
<1>2. /\ view \in ViewType /\ inbox \in EventType
      /\ loading \in [Panels -> BOOLEAN] /\ disturbed \in [Panels -> BOOLEAN] /\ requests \in SUBSET Request
  BY <1>1, TypesOfPanels
<1>3. Render(v, inbox, c, loading, requests, disturbed) /\ UNCHANGED <<status, wire, stored, logged>>
  BY DEF ChangeView, serverVars
<1>4. ASSUME NEW p \in Panels, Deps(p, v) = Deps(p, view)
      PROVE  /\ loading[p] /\ Loads(p, v) => Awaits(p, requests, {"effect", "reload"})
             /\ PanelHolds(p, v, c, requests, disturbed)
  <2>1. v.device = view.device /\ v.arg[p] = view.arg[p] /\ (Loads(p, v) <=> Loads(p, view))
    BY <1>1, <1>4, DepsTell
  <2>2. c[p] = shown[p]
    BY <2>1
  <2>3. PanelHolds(p, view, shown, requests, disturbed)
    BY <1>1
  <2>4. QED
    BY <1>1, <2>1, <2>2, <2>3 DEF LoadingAwaits, PanelHolds, Fresh
<1>5. v.device = view.device => NewestComes(v, c, requests, wire', stored, disturbed)
  BY <1>1, <1>3 DEF NewestComes
<1>6. /\ status' \in {"connecting", "open", "reconnecting", "closed"}
      /\ wire' \subseteq [kind : {"property", "event"}, device : Devices, n : Nat]
  BY <1>1, <1>3 DEF TypeOK
<1>7. QED
  BY <1>1, <1>2, <1>3, <1>4, <1>5, <1>6, RenderHolds

\* The page is drawn again with the same view: what is asked in addition fits it, and
\* no panel with something to load loses what it holds.
LEMMA RedrawHolds ==
  ASSUME PanelInv, NEW event \in EventType, NEW c \in [Panels -> Content], AllDiffer(c["events"].items),
         OwnData(c, view), \A p \in Panels : Loads(p, view) => c[p] = shown[p],
         NEW l \in [Panels -> BOOLEAN], NEW added \in SUBSET Request,
         \A r \in added : AnswerFits(r, stored) /\ RequestFits(r, view),
         \A p \in Panels : l[p] => loading[p] \/ Awaits(p, added, {"effect", "reload"}),
         Render(view, event, c, l, requests \cup added, disturbed),
         UNCHANGED <<status, stored, logged>>,
         wire' \subseteq [kind : {"property", "event"}, device : Devices, n : Nat],
         \A m \in wire : m.kind = "property" => m \in wire',
         left' \in [{"reports", "events", "clicks", "turns"} -> Nat]
  PROVE  PanelInv'
<1> DEFINE awaited == requests \cup added
<1>1. /\ TypeOK /\ PlainArgs(view) /\ LoadingAwaits(view, loading, requests)
      /\ \A r \in requests : AnswerFits(r, stored) /\ RequestFits(r, view)
      /\ \A p \in Panels : PanelHolds(p, view, shown, requests, disturbed)
      /\ NewestComes(view, shown, requests, wire, stored, disturbed)
  BY DEF PanelInv
<1>2. /\ view \in ViewType /\ disturbed \in [Panels -> BOOLEAN] /\ awaited \in SUBSET Request
  BY <1>1, TypesOfPanels
<1>3. \A r \in awaited : AnswerFits(r, stored) /\ RequestFits(r, view)
  BY <1>1
<1>4. requests \subseteq awaited /\ added \subseteq awaited /\ Render(view, event, c, l, awaited, disturbed)
  OBVIOUS
<1> HIDE DEF awaited
<1>5. \A p \in Panels : l[p] /\ Loads(p, view) => Awaits(p, awaited, {"effect", "reload"})
  BY <1>1, <1>4 DEF LoadingAwaits, Awaits
<1>6. \A p \in Panels : PanelHolds(p, view, c, awaited, disturbed)
  BY <1>1, <1>4 DEF PanelHolds, Awaits
<1>7. NewestComes(view, c, awaited, wire', stored, disturbed)
  <2> SUFFICES ASSUME view.device # NoDevice, ~disturbed["latest"]
               PROVE  \/ c["latest"].device = view.device /\ c["latest"].items = <<stored[view.device]>>
                      \/ \E r \in awaited : AsksNewest(r, view.device, stored)
                      \/ \E m \in wire' : m.kind = "property" /\ m.device = view.device
    BY DEF NewestComes
  <2>1. c["latest"] = shown["latest"]
    BY ThePanels, LatestIsLoaded
  <2>2. QED
    BY <1>1, <1>4, <2>1 DEF NewestComes
<1>8. status' \in {"connecting", "open", "reconnecting", "closed"}
  BY <1>1 DEF TypeOK
<1>9. QED
  BY <1>1, <1>2, <1>3, <1>4, <1>5, <1>6, <1>7, <1>8, RenderHolds

LEMMA ReloadKeeps ==
  ASSUME PanelInv, NEW p \in Panels, Reload(p)
  PROVE  PanelInv'
<1>1. TypeOK /\ PlainArgs(view) /\ OwnData(shown, view) /\ AllDiffer(shown["events"].items)
  BY DEF PanelInv
<1>2. /\ view \in ViewType /\ inbox \in EventType /\ shown \in [Panels -> Content]
      /\ loading \in [Panels -> BOOLEAN]
  BY <1>1, TypesOfPanels
<1>3. UNCHANGED <<status, stored, logged, wire>> /\ left' \in [{"reports", "events", "clicks", "turns"} -> Nat]
  BY <1>1, SpendType DEF Reload, serverVars
<1>4. wire' \subseteq [kind : {"property", "event"}, device : Devices, n : Nat]
  BY <1>1, <1>3 DEF TypeOK
<1>5. CASE view.device = NoDevice
  <2> DEFINE c == [shown EXCEPT ![p] = Nothing]
  <2>1. Render(view, inbox, c, loading, requests \cup {}, disturbed)
    <3>1. requests \cup {} = requests
      OBVIOUS
    <3>2. QED
      BY <1>5, <3>1 DEF Reload
  <2>2. c \in [Panels -> Content] /\ \A q \in Panels : c[q] = shown[q] \/ c[q] = Nothing
    BY <1>2, NothingFits
  <2> HIDE DEF c
  <2>3. AllDiffer(c["events"].items) /\ OwnData(c, view)
    BY <1>1, <2>2, NothingFits, ThePanels DEF OwnData
  <2>4. \A q \in Panels : ~Loads(q, view)
    BY <1>5, LoadsDevice
  <2>5. \A q \in Panels : loading[q] => loading[q] \/ Awaits(q, {}, {"effect", "reload"})
    OBVIOUS
  <2>6. {} \in SUBSET Request /\ \A r \in {} : AnswerFits(r, stored) /\ RequestFits(r, view)
    OBVIOUS
  <2>7. \A m \in wire : m.kind = "property" => m \in wire'
    BY <1>3
  <2>8. QED
    BY <1>2, <1>3, <1>4, <2>1, <2>2, <2>3, <2>4, <2>5, <2>6, <2>7, RedrawHolds
<1>6. CASE view.device # NoDevice
  <2> DEFINE l == [loading EXCEPT ![p] = TRUE]
             ask == Ask(p, view, "reload")
             added == {ask}
  <2>1. Render(view, inbox, shown, l, requests \cup added, disturbed)
    BY <1>6 DEF Reload
  <2>2. /\ ask \in Request /\ ask.panel = p /\ ask.by = "reload"
        /\ AnswerFits(ask, stored) /\ RequestFits(ask, view)
    BY <1>1, <1>2, <1>6, AskFits
  <2>3. l \in [Panels -> BOOLEAN] /\ \A q \in Panels : l[q] => loading[q] \/ q = p
    BY <1>2
  <2> HIDE DEF ask, l
  <2>4. added \in SUBSET Request /\ \A r \in added : AnswerFits(r, stored) /\ RequestFits(r, view)
    BY <2>2
  <2>5. \A q \in Panels : l[q] => loading[q] \/ Awaits(q, added, {"effect", "reload"})
    BY <2>2, <2>3 DEF Awaits
  <2>6. \A m \in wire : m.kind = "property" => m \in wire'
    BY <1>3
  <2> HIDE DEF added
  <2>7. QED
    BY <1>1, <1>2, <1>3, <1>4, <2>1, <2>3, <2>4, <2>5, <2>6, RedrawHolds
<1>7. QED
  BY <1>5, <1>6

LEMMA DeviceChangeKeeps ==
  ASSUME PanelInv, NEW d \in Devices \cup {NoDevice}, HandleDeviceChange(d)
  PROVE  PanelInv'
<1> DEFINE v == Selected(d)
           c == [p \in Panels |-> Nothing]
<1>1. TypeOK /\ PlainArgs(view)
  BY DEF PanelInv
<1>2. view \in ViewType
  BY <1>1, TypesOfPanels
<1>3. ChangeView(v, c) /\ d # view.device /\ left' \in [{"reports", "events", "clicks", "turns"} -> Nat]
  BY <1>1, SpendType DEF HandleDeviceChange
<1>4. Everything \in Args /\ Everything.page = 1 /\ Everything.filter = {}
  BY DEF Everything, Args
<1>5. v \in ViewType /\ v.device = d /\ PlainArgs(v)
  <2> DEFINE arg == [p \in Panels |-> IF p = "trend" THEN Everything ELSE [view.arg[p] EXCEPT !.page = 1]]
  <2>1. v = [view EXCEPT !.device = d, !.arg = arg]
    BY <1>2 DEF Selected, ViewType
  <2>2. arg \in [Panels -> Args]
    <3>1. \A p \in Panels : view.arg[p] \in Args
      BY <1>2 DEF ViewType
    <3>2. \A p \in Panels : [view.arg[p] EXCEPT !.page = 1] \in Args
      BY <3>1 DEF Args
    <3>3. QED
      BY <1>4, <3>2
  <2>3. arg["trend"] = Everything /\ arg["latest"] = [Everything EXCEPT !.page = 1]
    BY <1>1, ThePanels DEF PlainArgs
  <2>4. [Everything EXCEPT !.page = 1] = Everything
    BY DEF Everything
  <2> HIDE DEF arg
  <2>5. v \in ViewType /\ v.device = d /\ v.arg = arg
    BY <1>2, <2>1, <2>2 DEF ViewType
  <2>6. QED
    BY <1>4, <2>3, <2>4, <2>5 DEF PlainArgs
<1>6. /\ c \in [Panels -> Content] /\ \A p \in Panels : c[p] = Nothing
  BY NothingFits
<1> HIDE DEF v, c
<1>7. AllDiffer(c["events"].items) /\ OwnData(c, v)
  BY <1>6, NothingFits, ThePanels DEF OwnData
<1>8. QED
  BY <1>3, <1>5, <1>6, <1>7, ChangeViewHolds

LEMMA SelectedByListKeeps ==
  ASSUME PanelInv, NEW d \in Devices \cup {NoDevice}, SelectedByList(d)
  PROVE  PanelInv'
<1> DEFINE v == [view EXCEPT !.device = d]
           c == [p \in Panels |-> [shown[p] EXCEPT !.late = @ \/ shown[p].device # NoDevice]]
<1>1. TypeOK /\ PlainArgs(view) /\ AllDiffer(shown["events"].items)
  BY DEF PanelInv
<1>2. view \in ViewType /\ shown \in [Panels -> Content]
  BY <1>1, TypesOfPanels
<1>3. ChangeView(v, c) /\ d # view.device /\ left' \in [{"reports", "events", "clicks", "turns"} -> Nat]
  BY <1>1, SpendType DEF SelectedByList
<1>4. v \in ViewType /\ v.device = d /\ PlainArgs(v)
  BY <1>1, <1>2 DEF ViewType, PlainArgs
<1>5. ASSUME NEW p \in Panels
      PROVE  /\ c[p] \in Content /\ c[p].items = shown[p].items
             /\ c[p].device # NoDevice => c[p].late
  <2> DEFINE late == shown[p].late \/ shown[p].device # NoDevice
  <2>1. late \in BOOLEAN /\ shown[p] \in Content
    BY <1>2
  <2>2. c[p] = [shown[p] EXCEPT !.late = late]
    OBVIOUS
  <2>3. shown[p].device # NoDevice => late
    OBVIOUS
  <2> HIDE DEF late, c
  <2>4. /\ c[p] \in Content /\ c[p].items = shown[p].items /\ c[p].late = late
        /\ c[p].device = shown[p].device
    BY <2>1, <2>2 DEF Content
  <2>5. QED
    BY <2>3, <2>4
<1>6. c \in [Panels -> Content]
  BY <1>5
<1> HIDE DEF v, c
<1>7. AllDiffer(c["events"].items) /\ OwnData(c, v)
  BY <1>1, <1>5, ThePanels DEF OwnData
<1>8. QED
  BY <1>3, <1>4, <1>6, <1>7, ChangeViewHolds

\* The panels keep what they hold while the view of the same device changes.
LEMMA SameDeviceKeeps ==
  ASSUME PanelInv, NEW v \in ViewType, PlainArgs(v), v.device = view.device, NEW what, Spend(what),
         ChangeView(v, shown)
  PROVE  PanelInv'
<1>1. TypeOK /\ OwnData(shown, view) /\ AllDiffer(shown["events"].items)
  BY DEF PanelInv
<1>2. shown \in [Panels -> Content]
  BY <1>1, TypesOfPanels
<1>3. left' \in [{"reports", "events", "clicks", "turns"} -> Nat]
  BY <1>1, SpendType
<1>4. OwnData(shown, v)
  BY <1>1 DEF OwnData
<1>5. QED
  BY <1>1, <1>2, <1>3, <1>4, ChangeViewHolds

LEMMA TabKeeps ==
  ASSUME PanelInv, NEW t \in Tabs, OpenTab(t)
  PROVE  PanelInv'
<1> DEFINE v == [view EXCEPT !.tab = t]
<1>1. PlainArgs(view) /\ view \in ViewType
  BY TypesOfPanels DEF PanelInv
<1>2. v \in ViewType /\ v.device = view.device /\ PlainArgs(v)
  BY <1>1 DEF ViewType, PlainArgs
<1>3. ChangeView(v, shown) /\ Spend("clicks")
  BY DEF OpenTab
<1> HIDE DEF v
<1>4. QED
  BY <1>2, <1>3, SameDeviceKeeps

\* What is asked of a panel other than the latest properties changes.
LEMMA ArgKeeps ==
  ASSUME PanelInv, NEW p \in Panels, p # "latest", NEW arg \in Args, p = "trend" => arg.page = 1,
         NEW what, Spend(what), ChangeView([view EXCEPT !.arg[p] = arg], shown)
  PROVE  PanelInv'
<1> DEFINE v == [view EXCEPT !.arg[p] = arg]
<1>1. PlainArgs(view) /\ view \in ViewType
  BY TypesOfPanels DEF PanelInv
<1>2. /\ v \in ViewType /\ v.device = view.device
      /\ v.arg = [view.arg EXCEPT ![p] = arg]
  BY <1>1 DEF ViewType
<1>3. view.arg \in [Panels -> Args]
  BY <1>1 DEF ViewType
<1>4. PlainArgs(v)
  BY <1>1, <1>2, <1>3, ThePanels DEF PlainArgs
<1>5. ChangeView(v, shown)
  OBVIOUS
<1> HIDE DEF v
<1>6. QED
  BY <1>2, <1>4, <1>5, SameDeviceKeeps

\* A trend chooses from a finite set of properties.
LEMMA FirstTwo ==
  ASSUME NEW A \in SUBSET Names
  PROVE  \E S \in SUBSET A : Cardinality(S) = AtMost(2, Cardinality(A))
<1>1. IsFiniteSet(A) /\ Cardinality(A) \in Nat
  BY PanelBounds, FS_Subset, FS_CardinalityType
<1>2. CASE A = {}
  <2>1. Cardinality(A) = 0
    BY <1>2, FS_EmptySet
  <2>2. QED
    BY <2>1 DEF AtMost
<1>3. CASE A # {}
  <2>1. PICK x \in A : TRUE
    BY <1>3
  <2>2. IsFiniteSet({x}) /\ Cardinality({x}) = 1
    BY FS_Singleton
  <2>3. CASE A = {x}
    BY <2>2, <2>3 DEF AtMost
  <2>4. CASE A # {x}
    <3>1. PICK y \in A : y \notin {x}
      BY <2>1, <2>4
    <3>2. Cardinality({x} \cup {y}) = 2
      BY <2>2, <3>1, FS_AddElement
    <3>3. {x} \cup {y} \in SUBSET A
      BY <2>1, <3>1
    <3>4. 2 <= Cardinality(A)
      BY <1>1, <3>2, <3>3, FS_Subset
    <3>5. AtMost(2, Cardinality(A)) = 2
      BY <3>4 DEF AtMost
    <3>6. QED
      BY <3>2, <3>3, <3>5
  <2>5. QED
    BY <2>3, <2>4
<1>4. QED
  BY <1>2, <1>3

\* What is asked of a panel, changed in its filter or its page alone.
LEMMA ArgChanges ==
  ASSUME view \in ViewType, NEW p \in Panels
  PROVE  /\ view.arg[p] \in Args
         /\ \A f \in SUBSET Names : [view.arg[p] EXCEPT !.filter = f] \in Args
         /\ \A n \in Nat \ {0} : [view.arg[p] EXCEPT !.page = n] \in Args
         /\ \A f : [view.arg[p] EXCEPT !.filter = f].page = view.arg[p].page
         /\ \A f : [view EXCEPT !.arg[p].filter = f] = [view EXCEPT !.arg[p] = [view.arg[p] EXCEPT !.filter = f]]
         /\ \A n : [view EXCEPT !.arg[p].page = n] = [view EXCEPT !.arg[p] = [view.arg[p] EXCEPT !.page = n]]
<1>1. view.arg[p] \in Args
  BY DEF ViewType
<1>2. QED
  BY <1>1 DEF Args, ViewType

LEMMA TrendKeeps ==
  ASSUME PanelInv, NEW next \in SUBSET Names, NEW what, Spend(what),
         ChangeView([view EXCEPT !.arg["trend"].filter = next], shown)
  PROVE  PanelInv'
<1>1. view \in ViewType /\ PlainArgs(view) /\ "trend" \in Panels /\ "trend" # "latest"
  BY TypesOfPanels, ThePanels DEF PanelInv
<1> DEFINE arg == [view.arg["trend"] EXCEPT !.filter = next]
<1>2. arg \in Args /\ arg.page = 1
  BY <1>1, ArgChanges DEF PlainArgs
<1>3. ChangeView([view EXCEPT !.arg["trend"] = arg], shown)
  BY <1>1, ArgChanges
<1> HIDE DEF arg
<1>4. QED
  BY <1>1, <1>2, <1>3, ArgKeeps

LEMMA ToggleKeeps ==
  ASSUME PanelInv, NEW n \in Names, ToggleTrendProperty(n)
  PROVE  PanelInv'
<1>1. view \in ViewType /\ "trend" \in Panels
  BY TypesOfPanels, ThePanels DEF PanelInv
<1>2. view.arg["trend"].filter \in SUBSET Names
  BY <1>1 DEF ViewType, Args
<1> DEFINE current == view.arg["trend"].filter
           next == IF n \in current THEN current \ {n}
                   ELSE IF Cardinality(current) >= MaxTrend THEN current ELSE current \cup {n}
<1>3. next \in SUBSET Names
  BY <1>2
<1>4. Spend("clicks") /\ ChangeView([view EXCEPT !.arg["trend"].filter = next], shown)
  BY DEF ToggleTrendProperty
<1> HIDE DEF next
<1>5. QED
  BY <1>3, <1>4, TrendKeeps

LEMMA KeepTrendKeeps ==
  ASSUME PanelInv, NEW available \in SUBSET Names, KeepTrendProperties(available)
  PROVE  PanelInv'
<1> DEFINE kept == view.arg["trend"].filter \cap available
           two == CHOOSE S \in SUBSET available : Cardinality(S) = AtMost(2, Cardinality(available))
           next == IF kept # {} THEN kept ELSE two
<1>1. two \in SUBSET available
  BY FirstTwo
<1>2. next \in SUBSET Names
  BY <1>1
<1>3. Spend("turns") /\ ChangeView([view EXCEPT !.arg["trend"].filter = next], shown)
  BY DEF KeepTrendProperties
<1> HIDE DEF next
<1>4. QED
  BY <1>2, <1>3, TrendKeeps

LEMMA FilterKeeps ==
  ASSUME PanelInv, NEW p \in Histories, NEW f \in SUBSET Names, ChangeFilter(p, f)
  PROVE  PanelInv'
<1>1. p \in Panels /\ p # "latest" /\ p # "trend"
  BY DEF Histories, Panels
<1> DEFINE arg == [filter |-> f, page |-> 1]
<1>2. arg \in Args /\ arg.page = 1
  BY DEF Args
<1>3. Spend("clicks") /\ ChangeView([view EXCEPT !.arg[p] = arg], shown)
  BY DEF ChangeFilter
<1> HIDE DEF arg
<1>4. QED
  BY <1>1, <1>2, <1>3, ArgKeeps

LEMMA PageKeeps ==
  ASSUME PanelInv, NEW p \in Histories, NEW n, ChangePage(p, n)
  PROVE  PanelInv'
<1>1. p \in Panels /\ p # "latest" /\ p # "trend"
  BY DEF Histories, Panels
<1>2. view \in ViewType /\ shown[p] \in Content
  BY <1>1, TypesOfPanels DEF PanelInv
<1>3. n \in Nat \ {0}
  <2>1. n \in PageTargets(view.arg[p].page, shown[p].total, PageSize, loading[p])
    BY DEF ChangePage
  <2>2. view.arg[p].page \in Nat \ {0} /\ shown[p].total \in Nat
    BY <1>1, <1>2 DEF ViewType, Args, Content
  <2>3. QED
    BY <2>1, <2>2, PageTargetsType
<1> DEFINE arg == [view.arg[p] EXCEPT !.page = n]
<1>4. arg \in Args
  BY <1>1, <1>2, <1>3, ArgChanges
<1>5. Spend("clicks") /\ ChangeView([view EXCEPT !.arg[p] = arg], shown)
  BY <1>1, <1>2, ArgChanges DEF ChangePage
<1> HIDE DEF arg
<1>6. QED
  BY <1>1, <1>4, <1>5, ArgKeeps

\* The question that follows up an accepted command: late, if the page asks for
\* something else by now.
LEMMA CommandKeeps ==
  ASSUME PanelInv, NEW p \in {"sets", "calls"}, NEW d \in Devices, NEW f \in SUBSET Names,
         CommandAccepted(p, d, f)
  PROVE  PanelInv'
<1> DEFINE late == <<d, f>> # <<view.device, view.arg[p].filter>>
           ask == [[Ask(p, view, "follow") EXCEPT !.device = d, !.filter = f, !.page = 1] EXCEPT !.late = late]
           added == {ask}
<1>1. TypeOK /\ OwnData(shown, view) /\ AllDiffer(shown["events"].items)
  BY DEF PanelInv
<1>2. /\ view \in ViewType /\ inbox \in EventType /\ shown \in [Panels -> Content]
      /\ loading \in [Panels -> BOOLEAN]
  BY <1>1, TypesOfPanels
<1>3. UNCHANGED <<status, stored, logged, wire>> /\ left' \in [{"reports", "events", "clicks", "turns"} -> Nat]
  BY <1>1, SpendType DEF CommandAccepted, serverVars
<1>4. wire' \subseteq [kind : {"property", "event"}, device : Devices, n : Nat]
  BY <1>1, <1>3 DEF TypeOK
<1>5. Render(view, inbox, shown, loading, requests \cup added, disturbed)
  BY DEF CommandAccepted
<1>6. ask \in Request /\ AnswerFits(ask, stored) /\ RequestFits(ask, view)
  <2>1. p \in Panels /\ p \in Histories /\ p # "latest" /\ p # "events"
    BY DEF Panels, Histories
  <2>2. late \in BOOLEAN /\ (~late => d = view.device /\ f = view.arg[p].filter)
    OBVIOUS
  <2>3. Unanswered \in Reply
    BY DEF Unanswered, Reply
  <2> DEFINE page == view.arg[p].page
             filter == view.arg[p].filter
             e == view.device
             as == Ask(p, view, "follow")
             first == [as EXCEPT !.device = d, !.filter = f, !.page = 1]
  <2>4. as = [panel |-> p, device |-> e, filter |-> filter, page |-> page,
              by |-> "follow", late |-> FALSE, answer |-> Unanswered]
    BY DEF Ask
  <2>5. ask = [first EXCEPT !.late = late]
    OBVIOUS
  <2>6. filter \in SUBSET Names /\ page \in Nat \ {0} /\ e \in Devices \cup {NoDevice}
    BY <1>2, <2>1 DEF ViewType, Args
  <2> HIDE DEF late, page, filter, e, as, ask
  <2>7. /\ as \in [panel : Panels, device : Devices \cup {NoDevice}, filter : SUBSET Names, page : Nat \ {0},
                   by : {"effect", "reload", "poll", "follow"}, late : BOOLEAN, answer : Reply]
        /\ as.panel = p /\ as.by = "follow" /\ as.answer = Unanswered
    BY <2>1, <2>3, <2>4, <2>6
  <2>8. 1 \in Nat \ {0} /\ d \in Devices /\ f \in SUBSET Names
    OBVIOUS
  <2>9. /\ first \in Request /\ first.device = d /\ first.filter = f /\ first.page = 1
        /\ first.panel = p /\ first.by = "follow" /\ first.answer = Unanswered
    BY <2>7, <2>8 DEF Request, Reply
  <2> HIDE DEF first
  <2>10. /\ ask \in Request
         /\ ask.panel = p /\ ask.device = d /\ ask.filter = f /\ ask.page = 1
         /\ ask.by = "follow" /\ ask.late = late /\ ask.answer = Unanswered
    BY <2>2, <2>5, <2>9 DEF Request
  <2>11. AnswerFits(ask, stored)
    BY <2>1, <2>10 DEF AnswerFits
  <2>12. RequestFits(ask, view)
    BY <2>1, <2>2, <2>10 DEF RequestFits
  <2>13. QED
    BY <2>10, <2>11, <2>12
<1> HIDE DEF ask
<1>7. added \in SUBSET Request /\ \A r \in added : AnswerFits(r, stored) /\ RequestFits(r, view)
  BY <1>6
<1>8. \A m \in wire : m.kind = "property" => m \in wire'
  BY <1>3
<1> HIDE DEF added
<1>9. QED
  BY <1>1, <1>2, <1>3, <1>4, <1>5, <1>7, <1>8, RedrawHolds

----------------------------------------------------------------------------
(* The network and the connection, while the page shows the same. *)

\* Requests and messages are lost: what a panel waits for is missing only if the
\* panel is known to be disturbed.
LEMMA QuietHolds ==
  ASSUME PanelInv, TypeOK', UNCHANGED <<view, shown, stored>>, requests' \subseteq requests,
         \A p \in Panels : disturbed[p] => disturbed'[p],
         \A p \in Panels : loading'[p] /\ Loads(p, view) => Awaits(p, requests', {"effect", "reload"}),
         \A r \in requests : r \in requests' \/ r.by \in {"poll", "reload"} \/ disturbed'[r.panel],
         \A m \in wire : \/ m \in wire' \/ m.kind = "event" \/ m.device # view.device
                         \/ disturbed'["latest"]
  PROVE  PanelInv'
<1>1. /\ TypeOK /\ PlainArgs(view) /\ OwnData(shown, view) /\ AllDiffer(shown["events"].items)
      /\ \A r \in requests : AnswerFits(r, stored) /\ RequestFits(r, view)
      /\ \A p \in Panels : PanelHolds(p, view, shown, requests, disturbed)
      /\ NewestComes(view, shown, requests, wire, stored, disturbed)
  BY DEF PanelInv
<1>2. view' = view /\ shown' = shown /\ stored' = stored
  OBVIOUS
<1>3. \A r \in requests' : AnswerFits(r, stored') /\ RequestFits(r, view')
  BY <1>1, <1>2
<1>4. LoadingAwaits(view', loading', requests')
  BY <1>2 DEF LoadingAwaits
<1>5. ASSUME NEW p \in Panels
      PROVE  PanelHolds(p, view', shown', requests', disturbed')
  <2>1. PanelHolds(p, view, shown, requests, disturbed)
    BY <1>1
  <2>2. Awaits(p, requests, {"effect"}) => Awaits(p, requests', {"effect"}) \/ disturbed'[p]
    BY DEF Awaits
  <2>3. QED
    BY <1>2, <2>1, <2>2 DEF PanelHolds
<1>6. NewestComes(view', shown', requests', wire', stored', disturbed')
  <2> SUFFICES ASSUME view.device # NoDevice, ~disturbed'["latest"]
               PROVE  \/ shown["latest"].device = view.device /\ shown["latest"].items = <<stored[view.device]>>
                      \/ \E r \in requests' : AsksNewest(r, view.device, stored)
                      \/ \E m \in wire' : m.kind = "property" /\ m.device = view.device
    BY <1>2 DEF NewestComes
  <2>1. ~disturbed["latest"]
    BY ThePanels
  <2>2. ASSUME NEW r \in requests, AsksNewest(r, view.device, stored)
        PROVE  r \in requests'
    BY <2>2 DEF AsksNewest
  <2>3. ASSUME NEW m \in wire, m.kind = "property", m.device = view.device
        PROVE  m \in wire'
    BY <2>3
  <2>4. QED
    BY <1>1, <2>1, <2>2, <2>3 DEF NewestComes
<1>7. PlainArgs(view') /\ OwnData(shown', view') /\ AllDiffer(shown'["events"].items)
  BY <1>1, <1>2
<1>8. QED
  BY <1>3, <1>4, <1>5, <1>6, <1>7 DEF PanelInv

LEMMA StatusKeeps ==
  ASSUME PanelInv, NEW s \in {"open", "connecting", "reconnecting", "closed"}, StatusChanges(s)
  PROVE  PanelInv'
<1>1. TypeOK /\ LoadingAwaits(view, loading, requests)
  BY DEF PanelInv
<1>2. /\ requests' = {r \in requests : r.by # "poll"} /\ status' = s
      /\ UNCHANGED <<view, shown, loading, inbox, wire, stored, logged, disturbed>>
  BY DEF StatusChanges, serverVars
<1>3. left' \in [{"reports", "events", "clicks", "turns"} -> Nat]
  BY <1>1, SpendType DEF StatusChanges
<1>4. TypeOK'
  BY <1>1, <1>2, <1>3 DEF TypeOK
<1>5. \A p \in Panels : loading'[p] /\ Loads(p, view) => Awaits(p, requests', {"effect", "reload"})
  BY <1>1, <1>2 DEF LoadingAwaits, Awaits
<1>6. QED
  BY <1>2, <1>4, <1>5, QuietHolds

LEMMA EventReportedKeeps ==
  ASSUME PanelInv, NEW d \in Devices, EventReported(d)
  PROVE  PanelInv'
<1>1. TypeOK /\ LoadingAwaits(view, loading, requests)
  BY DEF PanelInv
<1>2. /\ wire' = wire \cup {[kind |-> "event", device |-> d, n |-> logged["events"][d] + 1]}
      /\ logged' = [logged EXCEPT !["events"][d] = logged["events"][d] + 1]
      /\ UNCHANGED <<view, shown, loading, requests, status, inbox, stored, disturbed>>
  BY DEF EventReported
<1>3. left' \in [{"reports", "events", "clicks", "turns"} -> Nat]
  BY <1>1, SpendType DEF EventReported
<1>4. logged \in [Histories -> [Devices -> Nat]] /\ "events" \in Histories
  BY <1>1 DEF TypeOK, Histories
<1>5. logged["events"][d] + 1 \in Nat
  BY <1>4
<1>6. logged' \in [Histories -> [Devices -> Nat]]
  BY <1>2, <1>4, <1>5
<1>7. wire' \subseteq [kind : {"property", "event"}, device : Devices, n : Nat]
  BY <1>1, <1>2, <1>5 DEF TypeOK
<1>8. TypeOK'
  BY <1>1, <1>2, <1>3, <1>6, <1>7 DEF TypeOK
<1>9. \A p \in Panels : loading'[p] /\ Loads(p, view) => Awaits(p, requests', {"effect", "reload"})
  BY <1>1, <1>2 DEF LoadingAwaits
<1>10. QED
  BY <1>2, <1>8, <1>9, QuietHolds

\* The newest properties of the device are on their way.
LEMMA PropertiesReportedKeeps ==
  ASSUME PanelInv, NEW d \in Devices, PropertiesReported(d)
  PROVE  PanelInv'
<1> DEFINE m == [kind |-> "property", device |-> d, n |-> stored[d] + 1]
<1>1. /\ TypeOK /\ PlainArgs(view) /\ OwnData(shown, view) /\ AllDiffer(shown["events"].items)
      /\ LoadingAwaits(view, loading, requests)
      /\ \A r \in requests : AnswerFits(r, stored) /\ RequestFits(r, view)
      /\ \A p \in Panels : PanelHolds(p, view, shown, requests, disturbed)
      /\ NewestComes(view, shown, requests, wire, stored, disturbed)
  BY DEF PanelInv
<1>2. /\ wire' = wire \cup {m}
      /\ stored' = [stored EXCEPT ![d] = stored[d] + 1]
      /\ UNCHANGED <<view, shown, loading, requests, status, inbox, logged, disturbed>>
  BY DEF PropertiesReported
<1>3. left' \in [{"reports", "events", "clicks", "turns"} -> Nat]
  BY <1>1, SpendType DEF PropertiesReported
<1>4. stored \in [Devices -> Nat] /\ stored[d] + 1 \in Nat
  BY <1>1 DEF TypeOK
<1>5. stored' \in [Devices -> Nat] /\ \A e \in Devices : stored[e] <= stored'[e] /\ (e # d => stored'[e] = stored[e])
  BY <1>2, <1>4
<1>6. m \in [kind : {"property", "event"}, device : Devices, n : Nat] /\ m.kind = "property" /\ m.device = d
  BY <1>4
<1> HIDE DEF m
<1>7. wire' \subseteq [kind : {"property", "event"}, device : Devices, n : Nat]
  BY <1>1, <1>2, <1>6 DEF TypeOK
<1>8. TypeOK'
  BY <1>1, <1>2, <1>3, <1>5, <1>7 DEF TypeOK
<1>9. ASSUME NEW r \in requests'
      PROVE  AnswerFits(r, stored') /\ RequestFits(r, view')
  <2>1. r \in requests /\ r \in Request /\ AnswerFits(r, stored) /\ RequestFits(r, view)
    BY <1>1, <1>2, <1>9 DEF TypeOK
  <2>2. r.device \in Devices
    BY <2>1 DEF Request
  <2>3. stored[r.device] \in Nat /\ stored'[r.device] \in Nat /\ stored[r.device] <= stored'[r.device]
    BY <1>4, <1>5, <2>2
  <2>4. 0 .. stored[r.device] \subseteq 0 .. stored'[r.device]
    BY <2>3
  <2>5. AnswerFits(r, stored')
    BY <2>1, <2>4 DEF AnswerFits
  <2>6. QED
    BY <1>2, <2>1, <2>5
<1>10. NewestComes(view', shown', requests', wire', stored', disturbed')
  <2>1. CASE view.device = d
    BY <1>2, <1>6, <2>1 DEF NewestComes
  <2>2. CASE view.device # d
    <3>1. view.device # NoDevice => view.device \in Devices
      BY <1>1 DEF TypeOK
    <3>2. view.device # NoDevice => stored'[view.device] = stored[view.device]
      BY <1>5, <2>2, <3>1
    <3>3. wire \subseteq wire'
      BY <1>2
    <3>4. ASSUME view.device # NoDevice, NEW r \in requests, AsksNewest(r, view.device, stored)
          PROVE  AsksNewest(r, view.device, stored')
      BY <3>2, <3>4 DEF AsksNewest
    <3>5. QED
      BY <1>1, <1>2, <3>2, <3>3, <3>4 DEF NewestComes
  <2>3. QED
    BY <2>1, <2>2
<1>11. /\ PlainArgs(view') /\ OwnData(shown', view') /\ AllDiffer(shown'["events"].items)
       /\ LoadingAwaits(view', loading', requests')
       /\ \A p \in Panels : PanelHolds(p, view', shown', requests', disturbed')
  BY <1>1, <1>2
<1>12. QED
  BY <1>8, <1>9, <1>10, <1>11 DEF PanelInv

\* A request fails: the indicator goes out with the one it tells of.
LEMMA FailKeeps ==
  ASSUME PanelInv, NEW r \in requests, Fail(r)
  PROVE  PanelInv'
<1>1. TypeOK /\ LoadingAwaits(view, loading, requests)
  BY DEF PanelInv
<1>2. r \in Request /\ r.panel \in Panels
  BY <1>1 DEF TypeOK, Request
<1>3. /\ requests' = requests \ {r} /\ loading' = Finished(r)
      /\ disturbed' = [disturbed EXCEPT ![r.panel] = disturbed[r.panel] \/ r.by \in {"effect", "follow"}]
      /\ UNCHANGED <<view, shown, status, inbox, wire, stored, logged, left>>
  BY DEF Fail, serverVars
<1>4. loading \in [Panels -> BOOLEAN] /\ disturbed \in [Panels -> BOOLEAN]
  BY <1>1 DEF TypeOK
<1>5. /\ loading' \in [Panels -> BOOLEAN]
      /\ \A p \in Panels : loading'[p] => loading[p] /\ (r.by \notin {"effect", "reload"} \/ p # r.panel)
  BY <1>2, <1>3, <1>4 DEF Finished
<1> DEFINE b == disturbed[r.panel] \/ r.by \in {"effect", "follow"}
<1>6. b \in BOOLEAN /\ (disturbed[r.panel] => b) /\ (r.by \in {"effect", "follow"} => b)
  OBVIOUS
<1>7. disturbed' = [disturbed EXCEPT ![r.panel] = b]
  BY <1>3
<1> HIDE DEF b
<1>8. /\ disturbed' \in [Panels -> BOOLEAN] /\ \A p \in Panels : disturbed[p] => disturbed'[p]
      /\ r.by \in {"effect", "follow"} => disturbed'[r.panel]
  BY <1>2, <1>4, <1>6, <1>7
<1>9. TypeOK'
  BY <1>1, <1>3, <1>5, <1>8 DEF TypeOK
<1>10. \A p \in Panels : loading'[p] /\ Loads(p, view) => Awaits(p, requests', {"effect", "reload"})
  <2> SUFFICES ASSUME NEW p \in Panels, loading'[p], Loads(p, view)
               PROVE  Awaits(p, requests', {"effect", "reload"})
    OBVIOUS
  <2>1. PICK q \in requests : q.panel = p /\ q.by \in {"effect", "reload"}
    BY <1>1, <1>5 DEF LoadingAwaits, Awaits
  <2>2. q # r
    BY <1>5, <2>1
  <2>3. QED
    BY <1>3, <2>1, <2>2 DEF Awaits
<1>11. r.by \in {"effect", "reload", "poll", "follow"}
  BY <1>2 DEF Request
<1>12. \A q \in requests : q \in requests' \/ q.by \in {"poll", "reload"} \/ disturbed'[q.panel]
  BY <1>3, <1>8, <1>11
<1>13. \A q \in wire : q \in wire'
  BY <1>3
<1>14. view' = view /\ shown' = shown /\ stored' = stored /\ requests' \subseteq requests
  BY <1>3
<1>15. QED
  BY <1>8, <1>9, <1>10, <1>12, <1>13, <1>14, QuietHolds

\* The server answers a request: what it holds now.
LEMMA ServerAnswersKeeps ==
  ASSUME PanelInv, NEW r \in requests, ServerAnswers(r)
  PROVE  PanelInv'
<1> DEFINE a == Answer(r)
           o == [r EXCEPT !.answer = a]
<1>1. /\ TypeOK /\ PlainArgs(view) /\ OwnData(shown, view) /\ AllDiffer(shown["events"].items)
      /\ LoadingAwaits(view, loading, requests)
      /\ \A q \in requests : AnswerFits(q, stored) /\ RequestFits(q, view)
      /\ \A p \in Panels : PanelHolds(p, view, shown, requests, disturbed)
      /\ NewestComes(view, shown, requests, wire, stored, disturbed)
  BY DEF PanelInv
<1>2. /\ requests' = (requests \ {r}) \cup {o} /\ r.answer = Unanswered
      /\ UNCHANGED <<view, shown, loading, status, inbox, wire, stored, logged, left, disturbed>>
  BY DEF ServerAnswers, serverVars
<1>3. r \in Request
  BY <1>1 DEF TypeOK
<1>4. /\ a.items \in Seq(Nat) /\ a.total \in Nat /\ a = [items |-> a.items, total |-> a.total]
      /\ r.panel = "events" => AllDiffer(a.items)
      /\ r.panel = "latest" => a.items = <<stored[r.device]>> /\ stored[r.device] \in Nat
  BY <1>1, <1>3, AnswerType
<1>5. a \in Reply
  <2> DEFINE i == a.items
             t == a.total
  <2>1. i \in Seq(Nat) /\ t \in Int /\ a = [items |-> i, total |-> t]
    BY <1>4
  <2> HIDE DEF i, t, a
  <2>2. QED
    BY <2>1 DEF Reply
<1> HIDE DEF a
<1>6. /\ o \in Request /\ o.answer = a
      /\ o.panel = r.panel /\ o.device = r.device /\ o.filter = r.filter /\ o.page = r.page
      /\ o.by = r.by /\ o.late = r.late
  BY <1>3, <1>5 DEF Request, Reply
<1> HIDE DEF o
<1>7. AnswerFits(r, stored) /\ RequestFits(r, view)
  BY <1>1
<1>8. RequestFits(o, view)
  BY <1>6, <1>7 DEF RequestFits
<1>9. AnswerFits(o, stored)
  <2>1. r.panel = "latest" => \E n \in 0 .. stored[r.device] : a.items = <<n>>
    BY <1>4
  <2>2. QED
    BY <1>4, <1>6, <2>1 DEF AnswerFits
<1>10. TypeOK'
  BY <1>1, <1>2, <1>6 DEF TypeOK
<1>11. \A q \in requests' : AnswerFits(q, stored') /\ RequestFits(q, view')
  BY <1>1, <1>2, <1>8, <1>9
<1>12. ASSUME NEW p, NEW bys, Awaits(p, requests, bys)
       PROVE  Awaits(p, requests', bys)
  BY <1>2, <1>6, <1>12 DEF Awaits
<1>13. LoadingAwaits(view', loading', requests')
  BY <1>1, <1>2, <1>12 DEF LoadingAwaits
<1>14. \A p \in Panels : PanelHolds(p, view', shown', requests', disturbed')
  BY <1>1, <1>2, <1>12 DEF PanelHolds
<1>15. NewestComes(view', shown', requests', wire', stored', disturbed')
  <2>1. ASSUME NEW q \in requests, NEW e, AsksNewest(q, e, stored)
        PROVE  \E x \in requests' : AsksNewest(x, e, stored)
    <3>1. CASE q = r
      <4>1. AsksNewest(o, e, stored)
        BY <1>4, <1>6, <2>1, <3>1 DEF AsksNewest
      <4>2. QED
        BY <1>2, <4>1
    <3>2. CASE q # r
      BY <1>2, <2>1, <3>2
    <3>3. QED
      BY <3>1, <3>2
  <2>2. QED
    BY <1>1, <1>2, <2>1 DEF NewestComes
<1>16. PlainArgs(view') /\ OwnData(shown', view') /\ AllDiffer(shown'["events"].items)
  BY <1>1, <1>2
<1>17. QED
  BY <1>10, <1>11, <1>13, <1>14, <1>15, <1>16 DEF PanelInv

----------------------------------------------------------------------------
(* Polls and messages. *)

LEMMA PollKeeps ==
  ASSUME PanelInv, Poll
  PROVE  PanelInv'
<1> DEFINE loads == {q \in Panels : Loads(q, view)}
           added == {Ask(p, view, "poll") : p \in loads}
           c == [p \in Panels |-> IF Clears(p, view) THEN Nothing ELSE shown[p]]
<1>1. TypeOK /\ PlainArgs(view) /\ OwnData(shown, view) /\ AllDiffer(shown["events"].items)
  BY DEF PanelInv
<1>2. /\ view \in ViewType /\ inbox \in EventType /\ shown \in [Panels -> Content]
      /\ loading \in [Panels -> BOOLEAN]
  BY <1>1, TypesOfPanels
<1>3. UNCHANGED <<status, stored, logged, wire, left>>
  BY DEF Poll, serverVars
<1>4. /\ wire' \subseteq [kind : {"property", "event"}, device : Devices, n : Nat]
      /\ left' \in [{"reports", "events", "clicks", "turns"} -> Nat]
      /\ \A m \in wire : m.kind = "property" => m \in wire'
  BY <1>1, <1>3 DEF TypeOK
<1>5. Render(view, inbox, c, loading, requests \cup added, disturbed)
  BY DEF Poll
<1>6. ASSUME NEW r \in added
      PROVE  r \in Request /\ AnswerFits(r, stored) /\ RequestFits(r, view)
  <2>1. PICK p \in loads : r = Ask(p, view, "poll")
    OBVIOUS
  <2>2. p \in Panels /\ Loads(p, view)
    OBVIOUS
  <2>3. QED
    BY <1>1, <1>2, <2>1, <2>2, AskFits
<1>7. /\ c \in [Panels -> Content]
      /\ \A p \in Panels : c[p] = shown[p] \/ c[p] = Nothing
      /\ \A p \in Panels : ~Clears(p, view) => c[p] = shown[p]
  BY <1>2, NothingFits
<1> HIDE DEF c, added
<1>8. AllDiffer(c["events"].items) /\ OwnData(c, view)
  BY <1>1, <1>7, NothingFits, ThePanels DEF OwnData
<1>9. \A p \in Panels : Loads(p, view) => c[p] = shown[p]
  BY <1>7, LoadsDevice
<1>10. added \in SUBSET Request /\ \A r \in added : AnswerFits(r, stored) /\ RequestFits(r, view)
  BY <1>6
<1>11. \A p \in Panels : loading[p] => loading[p] \/ Awaits(p, added, {"effect", "reload"})
  OBVIOUS
<1>12. QED
  BY <1>2, <1>3, <1>4, <1>5, <1>7, <1>8, <1>9, <1>10, <1>11, RedrawHolds

\* A message is lost.
LEMMA LostKeeps ==
  ASSUME PanelInv, NEW m \in wire, NEW p \in Panels, m.kind = "property" => p = "latest",
         wire' = wire \ {m}, NEW b \in BOOLEAN, disturbed[p] \/ m.device = view.device => b,
         disturbed' = [disturbed EXCEPT ![p] = b],
         UNCHANGED <<view, shown, loading, requests, status, inbox, stored, logged, left>>
  PROVE  PanelInv'
<1>1. TypeOK /\ LoadingAwaits(view, loading, requests)
  BY DEF PanelInv
<1>2. disturbed \in [Panels -> BOOLEAN]
  BY <1>1 DEF TypeOK
<1>3. /\ disturbed' \in [Panels -> BOOLEAN] /\ \A q \in Panels : disturbed[q] => disturbed'[q]
      /\ m.device = view.device => disturbed'[p]
  BY <1>2
<1>4. TypeOK'
  BY <1>1, <1>3 DEF TypeOK
<1>5. \A q \in Panels : loading'[q] /\ Loads(q, view) => Awaits(q, requests', {"effect", "reload"})
  BY <1>1 DEF LoadingAwaits
<1>6. m.kind \in {"property", "event"}
  BY <1>1 DEF TypeOK
<1>7. \A x \in wire : x \in wire' \/ x.kind = "event" \/ x.device # view.device \/ disturbed'["latest"]
  BY <1>3, <1>6
<1>8. requests' \subseteq requests /\ \A r \in requests : r \in requests' \/ r.by \in {"poll", "reload"}
  OBVIOUS
<1>9. QED
  BY <1>3, <1>4, <1>5, <1>7, <1>8, QuietHolds

LEMMA EventReceivedKeeps ==
  ASSUME PanelInv, NEW m \in wire, OnEventReceived(m)
  PROVE  PanelInv'
<1>1. TypeOK /\ OwnData(shown, view) /\ AllDiffer(shown["events"].items)
  BY DEF PanelInv
<1>2. /\ view \in ViewType /\ shown \in [Panels -> Content] /\ loading \in [Panels -> BOOLEAN]
      /\ m \in [kind : {"property", "event"}, device : Devices, n : Nat]
  BY <1>1, TypesOfPanels DEF TypeOK
<1>3. /\ m.kind = "event" /\ wire' = wire \ {m}
      /\ UNCHANGED <<status, stored, logged, left>>
  BY DEF OnEventReceived, serverVars
<1>4. /\ wire' \subseteq [kind : {"property", "event"}, device : Devices, n : Nat]
      /\ left' \in [{"reports", "events", "clicks", "turns"} -> Nat]
      /\ \A x \in wire : x.kind = "property" => x \in wire'
  BY <1>1, <1>3 DEF TypeOK
<1> DEFINE event == [device |-> m.device, n |-> m.n]
           b == disturbed["events"] \/ m.device = view.device
<1>5. CASE Render(view, event, shown, loading, requests, disturbed)
  <2>1. event \in EventType
    BY <1>2 DEF EventType
  <2> HIDE DEF event
  <2>2. Render(view, event, shown, loading, requests \cup {}, disturbed)
    <3>1. requests \cup {} = requests
      OBVIOUS
    <3>2. QED
      BY <1>5, <3>1
  <2>3. {} \in SUBSET Request /\ \A r \in {} : AnswerFits(r, stored) /\ RequestFits(r, view)
    OBVIOUS
  <2>4. \A p \in Panels : loading[p] => loading[p] \/ Awaits(p, {}, {"effect", "reload"})
    OBVIOUS
  <2>5. QED
    BY <1>1, <1>2, <1>3, <1>4, <2>1, <2>2, <2>3, <2>4, RedrawHolds
<1>6. CASE /\ disturbed' = [disturbed EXCEPT !["events"] = disturbed["events"] \/ m.device = view.device]
           /\ UNCHANGED <<view, shown, loading, requests, inbox>>
  <2>1. b \in BOOLEAN /\ (disturbed["events"] \/ m.device = view.device => b)
    OBVIOUS
  <2>2. disturbed' = [disturbed EXCEPT !["events"] = b]
    BY <1>6
  <2> HIDE DEF b
  <2>3. "events" \in Panels
    BY ThePanels
  <2>4. QED
    BY <1>3, <1>6, <2>1, <2>2, <2>3, LostKeeps
<1>7. QED
  BY <1>5, <1>6 DEF OnEventReceived

\* A message is shown at once, and what it tells of is asked for.
LEMMA PropertyChangedKeeps ==
  ASSUME PanelInv, NEW m \in wire, OnPropertyChanged(m)
  PROVE  PanelInv'
<1>1. /\ TypeOK /\ PlainArgs(view) /\ OwnData(shown, view) /\ AllDiffer(shown["events"].items)
      /\ LoadingAwaits(view, loading, requests)
      /\ \A r \in requests : AnswerFits(r, stored) /\ RequestFits(r, view)
      /\ \A p \in Panels : PanelHolds(p, view, shown, requests, disturbed)
      /\ NewestComes(view, shown, requests, wire, stored, disturbed)
  BY DEF PanelInv
<1>2. /\ view \in ViewType /\ inbox \in EventType /\ shown \in [Panels -> Content]
      /\ loading \in [Panels -> BOOLEAN] /\ disturbed \in [Panels -> BOOLEAN] /\ requests \in SUBSET Request
      /\ m \in [kind : {"property", "event"}, device : Devices, n : Nat]
  BY <1>1, TypesOfPanels DEF TypeOK
<1>3. /\ m.kind = "property" /\ wire' = wire \ {m}
      /\ UNCHANGED <<status, stored, logged, left>>
  BY DEF OnPropertyChanged, serverVars
<1>4. /\ wire' \subseteq [kind : {"property", "event"}, device : Devices, n : Nat]
      /\ left' \in [{"reports", "events", "clicks", "turns"} -> Nat]
      /\ status' \in {"connecting", "open", "reconnecting", "closed"}
  BY <1>1, <1>3 DEF TypeOK
<1>5. CASE status = "open" /\ m.device = view.device
  <2> DEFINE x == [Nothing EXCEPT !.device = m.device, !.items = <<m.n>>]
             c == [shown EXCEPT !["latest"] = x]
             ask == Ask("latest", view, "follow")
             awaited == requests \cup {ask}
  <2>1. Render(view, inbox, c, loading, awaited, disturbed)
    BY <1>5 DEF OnPropertyChanged
  <2>2. m.device \in Devices /\ m.n \in Nat /\ view.device # NoDevice /\ "latest" \in Panels
    BY <1>2, <1>5, PanelBounds, ThePanels
  <2>3. x \in Content /\ x.device = view.device /\ x.filter = {} /\ x.page = 1
    <3>1. Nothing \in Content /\ Nothing.filter = {} /\ Nothing.page = 1
      BY NothingFits DEF Nothing
    <3> DEFINE s == <<m.n>>
               e == m.device
    <3>2. s \in Seq(Nat) /\ e \in Devices \cup {NoDevice} /\ e = view.device
      BY <1>5, <2>2
    <3>3. x = [Nothing EXCEPT !.device = e, !.items = s]
      OBVIOUS
    <3> HIDE DEF s, e, x
    <3>4. QED
      BY <3>1, <3>2, <3>3 DEF Content
  <2>4. /\ ask \in Request /\ ask.panel = "latest" /\ ask.by = "follow" /\ ask.answer = Unanswered
        /\ ask.device = view.device /\ AnswerFits(ask, stored) /\ RequestFits(ask, view)
    BY <1>1, <1>2, <2>2, AskFits
  <2> HIDE DEF x, ask
  <2>5. /\ c \in [Panels -> Content] /\ c["latest"] = x
        /\ \A p \in Panels : p # "latest" => c[p] = shown[p]
    BY <1>2, <2>2, <2>3
  <2>6. awaited \in SUBSET Request /\ \A r \in awaited : AnswerFits(r, stored) /\ RequestFits(r, view)
    BY <1>1, <1>2, <2>4
  <2>7. requests \subseteq awaited /\ ask \in awaited
    OBVIOUS
  <2> HIDE DEF c, awaited
  <2>8. AllDiffer(c["events"].items) /\ OwnData(c, view)
    BY <1>1, <2>3, <2>5, ThePanels DEF OwnData
  <2>9. \A p \in Panels : loading[p] /\ Loads(p, view) => Awaits(p, awaited, {"effect", "reload"})
    BY <1>1, <2>7 DEF LoadingAwaits, Awaits
  <2>10. ASSUME NEW p \in Panels
         PROVE  PanelHolds(p, view, c, awaited, disturbed)
    <3>1. CASE p = "latest"
      <4>1. view.arg["latest"].filter = {} /\ view.arg["latest"].page = 1
        BY <1>1 DEF PlainArgs, Everything
      <4>2. Fresh(p, c[p], view)
        BY <2>3, <2>5, <3>1, <4>1 DEF Fresh
      <4>3. QED
        BY <4>2 DEF PanelHolds
    <3>2. CASE p # "latest"
      <4>1. PanelHolds(p, view, shown, requests, disturbed) /\ c[p] = shown[p]
        BY <1>1, <2>5, <3>2
      <4>2. Awaits(p, requests, {"effect"}) => Awaits(p, awaited, {"effect"})
        BY <2>7 DEF Awaits
      <4>3. QED
        BY <4>1, <4>2 DEF PanelHolds
    <3>3. QED
      BY <3>1, <3>2
  <2>11. NewestComes(view, c, awaited, wire', stored, disturbed)
    <3>1. AsksNewest(ask, view.device, stored)
      BY <2>4 DEF AsksNewest
    <3>2. QED
      BY <2>7, <3>1 DEF NewestComes
  <2>12. QED
    BY <1>1, <1>2, <1>3, <1>4, <2>1, <2>5, <2>6, <2>8, <2>9, <2>10, <2>11, RenderHolds
<1>6. CASE ~(status = "open" /\ m.device = view.device)
  <2> DEFINE b == disturbed["latest"] \/ m.device = view.device
  <2>1. b \in BOOLEAN /\ (disturbed["latest"] \/ m.device = view.device => b)
    OBVIOUS
  <2>2. /\ disturbed' = [disturbed EXCEPT !["latest"] = b]
        /\ UNCHANGED <<view, shown, loading, requests, inbox>>
    BY <1>6 DEF OnPropertyChanged
  <2> HIDE DEF b
  <2>3. "latest" \in Panels
    BY ThePanels
  <2>4. QED
    BY <1>3, <2>1, <2>2, <2>3, LostKeeps
<1>7. QED
  BY <1>5, <1>6

----------------------------------------------------------------------------
(* An answer arrives. *)

\* The content of an answer: late, or what the panel asks for.
LEMMA ContentFits ==
  ASSUME TypeOK, PlainArgs(view), NEW r \in requests, AnswerFits(r, stored), RequestFits(r, view),
         r.panel \in Changing => r.answer # Unanswered,
         NEW a, a = IF r.panel \in Changing THEN r.answer ELSE Answer(r),
         NEW x, x = [device |-> r.device, filter |-> r.filter, page |-> r.page,
                     items |-> a.items, total |-> a.total, late |-> r.late]
  PROVE  /\ x \in Content /\ x.late = r.late /\ x.device = r.device
         /\ ~r.late => Fresh(r.panel, x, Answered(r))
         /\ r.panel = "events" => AllDiffer(x.items)
         /\ r.panel = "latest" => \E n \in 0 .. stored[r.device] : r.answer.items = <<n>> /\ x.items = <<n>>
<1>1. r \in Request
  BY DEF TypeOK
<1>2. /\ r.panel \in Panels /\ r.device \in Devices /\ r.filter \in SUBSET Names /\ r.page \in Nat \ {0}
      /\ r.late \in BOOLEAN /\ r.answer.items \in Seq(Nat)
  BY <1>1 DEF Request
<1>3. /\ a.items \in Seq(Nat) /\ a.total \in Nat
      /\ r.panel = "events" => AllDiffer(a.items)
      /\ r.panel = "latest" => \E n \in 0 .. stored[r.device] : r.answer.items = <<n>> /\ a.items = <<n>>
  <2>1. CASE r.panel \in Changing
    BY <1>2, <2>1 DEF AnswerFits
  <2>2. CASE r.panel \notin Changing
    <3>1. r.panel # "events" /\ r.panel # "latest" /\ a = Answer(r)
      BY <2>2 DEF Changing
    <3>2. Answer(r).items \in Seq(Nat) /\ Answer(r).total \in Nat
      BY <1>1, AnswerType
    <3>3. QED
      BY <3>1, <3>2
  <2>3. QED
    BY <2>1, <2>2
<1> DEFINE items == a.items
           total == a.total
<1>4. /\ x = [device |-> r.device, filter |-> r.filter, page |-> r.page,
              items |-> items, total |-> total, late |-> r.late]
      /\ items \in Seq(Nat) /\ total \in Nat
  BY <1>3
<1> HIDE DEF items, total
<1>5. /\ x \in Content /\ x.late = r.late /\ x.device = r.device
      /\ x.filter = r.filter /\ x.page = r.page /\ x.items = items
  BY <1>2, <1>4 DEF Content
<1>6. ASSUME ~r.late
      PROVE  Fresh(r.panel, x, Answered(r))
  <2>1. r.device = view.device /\ r.filter = view.arg[r.panel].filter
    BY <1>6 DEF RequestFits
  <2>2. view \in ViewType
    BY TypesOfPanels
  <2>3. CASE r.panel \in Histories
    <3>1. Answered(r).device = view.device /\ Answered(r).arg[r.panel].filter = view.arg[r.panel].filter
          /\ Answered(r).arg[r.panel].page = r.page
      BY <1>2, <2>2, <2>3 DEF Answered, ViewType, Args
    <3>2. QED
      BY <1>5, <2>1, <3>1 DEF Fresh
  <2>4. CASE r.panel \notin Histories
    <3>1. Answered(r) = view
      BY <2>4 DEF Answered
    <3>2. r.page = 1 /\ view.arg[r.panel].page = 1
      BY <1>2, <2>4, ThePanels DEF RequestFits, PlainArgs, Everything
    <3>3. QED
      BY <1>5, <2>1, <3>1, <3>2 DEF Fresh
  <2>5. QED
    BY <2>3, <2>4
<1>7. QED
  BY <1>3, <1>5, <1>6 DEF items

\* Taking an answer changes what the panel asks for in its page alone.
LEMMA AnsweredFits ==
  ASSUME TypeOK, PlainArgs(view), NEW r \in requests, NEW v, v = Answered(r)
  PROVE  /\ v \in ViewType /\ PlainArgs(v) /\ v.device = view.device /\ v.tab = view.tab
         /\ \A p \in Panels : p # r.panel => v.arg[p] = view.arg[p]
<1>1. view \in ViewType
  BY TypesOfPanels
<1>2. r.panel \in Panels /\ r.page \in Nat \ {0}
  BY DEF TypeOK, Request
<1>3. CASE r.panel \in Histories
  <2> DEFINE arg == [view.arg[r.panel] EXCEPT !.page = r.page]
  <2>1. v = [view EXCEPT !.arg[r.panel] = arg] /\ arg \in Args
    BY <1>1, <1>2, <1>3, ArgChanges DEF Answered
  <2> HIDE DEF arg
  <2>2. /\ v \in ViewType /\ v.device = view.device /\ v.tab = view.tab
        /\ v.arg = [view.arg EXCEPT ![r.panel] = arg]
    BY <1>1, <2>1 DEF ViewType
  <2>3. view.arg \in [Panels -> Args]
    BY <1>1 DEF ViewType
  <2>4. \A p \in Panels : p # r.panel => v.arg[p] = view.arg[p]
    BY <2>2, <2>3
  <2>5. r.panel # "latest" /\ r.panel # "trend"
    BY <1>3 DEF Histories
  <2>6. PlainArgs(v)
    BY <2>4, <2>5, ThePanels DEF PlainArgs
  <2>7. QED
    BY <2>2, <2>4, <2>6
<1>4. CASE r.panel \notin Histories
  BY <1>1, <1>4 DEF Answered
<1>5. QED
  BY <1>3, <1>4

LEMMA ArriveKeeps ==
  ASSUME PanelInv, NEW r \in requests, Arrive(r)
  PROVE  PanelInv'
<1> DEFINE a == IF r.panel \in Changing THEN r.answer ELSE Answer(r)
           x == [device |-> r.device, filter |-> r.filter, page |-> r.page,
                 items |-> a.items, total |-> a.total, late |-> r.late]
           b == disturbed[r.panel] \/ r.late \/ Older(r)
           v == Answered(r)
           c == [shown EXCEPT ![r.panel] = x]
           l == Finished(r)
           awaited == requests \ {r}
           d == [disturbed EXCEPT ![r.panel] = b]
<1>1. /\ TypeOK /\ PlainArgs(view) /\ OwnData(shown, view) /\ AllDiffer(shown["events"].items)
      /\ LoadingAwaits(view, loading, requests)
      /\ \A q \in requests : AnswerFits(q, stored) /\ RequestFits(q, view)
      /\ \A p \in Panels : PanelHolds(p, view, shown, requests, disturbed)
      /\ NewestComes(view, shown, requests, wire, stored, disturbed)
  BY DEF PanelInv
<1>2. /\ view \in ViewType /\ inbox \in EventType /\ shown \in [Panels -> Content]
      /\ loading \in [Panels -> BOOLEAN] /\ disturbed \in [Panels -> BOOLEAN] /\ requests \in SUBSET Request
  BY <1>1, TypesOfPanels
<1>3. r \in Request /\ r.panel \in Panels /\ r.late \in BOOLEAN /\ r.device \in Devices
  BY <1>2 DEF Request
<1>4. /\ r.panel \in Changing => r.answer # Unanswered
      /\ Render(v, inbox, c, l, awaited, d)
      /\ UNCHANGED <<status, wire, stored, logged, left>>
  BY DEF Arrive, serverVars
<1>5. /\ x \in Content /\ x.late = r.late /\ x.device = r.device
      /\ ~r.late => Fresh(r.panel, x, v)
      /\ r.panel = "events" => AllDiffer(x.items)
      /\ r.panel = "latest" => \E n \in 0 .. stored[r.device] : r.answer.items = <<n>> /\ x.items = <<n>>
  BY <1>1, <1>4, ContentFits
<1>6. /\ v \in ViewType /\ PlainArgs(v) /\ v.device = view.device /\ v.tab = view.tab
      /\ \A p \in Panels : p # r.panel => v.arg[p] = view.arg[p]
  BY <1>1, AnsweredFits
<1>7. b \in BOOLEAN /\ (~b => ~disturbed[r.panel] /\ ~r.late /\ ~Older(r))
  <2>1. Older(r) \in BOOLEAN
    BY DEF Older
  <2>2. QED
    BY <1>2, <1>3, <2>1
<1>8. /\ l \in [Panels -> BOOLEAN]
      /\ \A p \in Panels : l[p] => loading[p] /\ (r.by \notin {"effect", "reload"} \/ p # r.panel)
  BY <1>2, <1>3 DEF Finished
<1> HIDE DEF x, b, v, l, a
<1>9. /\ d \in [Panels -> BOOLEAN] /\ \A p \in Panels : p # r.panel => d[p] = disturbed[p]
      /\ d[r.panel] = b
  BY <1>2, <1>3, <1>7
<1>10. /\ c \in [Panels -> Content] /\ \A p \in Panels : p # r.panel => c[p] = shown[p]
       /\ c[r.panel] = x
  BY <1>2, <1>3, <1>5
<1>11. /\ awaited \in SUBSET Request /\ \A q \in awaited : AnswerFits(q, stored) /\ RequestFits(q, view)
       /\ \A q \in requests : q # r => q \in awaited
  BY <1>1, <1>2
<1> HIDE DEF c, d, awaited
<1>12. AllDiffer(c["events"].items)
  BY <1>1, <1>5, <1>10, ThePanels
<1>13. OwnData(c, v)
  <2> SUFFICES ASSUME NEW p \in Panels, c[p].device \notin {v.device, NoDevice}
               PROVE  c[p].late
    BY DEF OwnData
  <2>1. CASE p = r.panel
    <3>1. c[p].device = r.device /\ c[p].late = r.late
      BY <1>5, <1>10, <2>1
    <3>2. ~r.late => r.device = view.device
      BY <1>1 DEF RequestFits
    <3>3. QED
      BY <1>3, <1>6, <3>1, <3>2
  <2>2. CASE p # r.panel
    BY <1>1, <1>6, <1>10, <2>2 DEF OwnData
  <2>3. QED
    BY <2>1, <2>2
<1>14. ASSUME NEW p \in Panels, Deps(p, v) = Deps(p, view)
       PROVE  /\ l[p] /\ Loads(p, v) => Awaits(p, awaited, {"effect", "reload"})
              /\ PanelHolds(p, v, c, awaited, d)
  <2>1. v.arg[p] = view.arg[p] /\ (Loads(p, v) <=> Loads(p, view))
    BY <1>1, <1>6, <1>14, DepsTell
  <2>2. ASSUME l[p], Loads(p, v)
        PROVE  Awaits(p, awaited, {"effect", "reload"})
    <3>1. PICK q \in requests : q.panel = p /\ q.by \in {"effect", "reload"}
      BY <1>1, <1>8, <2>1, <2>2 DEF LoadingAwaits, Awaits
    <3>2. q # r
      BY <1>8, <2>2, <3>1
    <3>3. QED
      BY <1>11, <3>1, <3>2 DEF Awaits
  <2>3. ASSUME Loads(p, v), ~d[p]
        PROVE  Awaits(p, awaited, {"effect"}) \/ Fresh(p, c[p], v)
    <3>1. CASE p = r.panel
      BY <1>5, <1>7, <1>9, <1>10, <2>3, <3>1
    <3>2. CASE p # r.panel
      <4>1. Awaits(p, requests, {"effect"}) \/ Fresh(p, shown[p], view)
        BY <1>1, <1>9, <2>1, <2>3, <3>2 DEF PanelHolds
      <4>2. Awaits(p, requests, {"effect"}) => Awaits(p, awaited, {"effect"})
        BY <1>11, <3>2 DEF Awaits
      <4>3. c[p] = shown[p]
        BY <1>10, <3>2
      <4>4. QED
        BY <1>6, <2>1, <4>1, <4>2, <4>3 DEF Fresh
    <3>3. QED
      BY <3>1, <3>2
  <2>4. QED
    BY <2>2, <2>3 DEF PanelHolds
\* The newest properties: an answer that is not newer than what is shown changes nothing.
<1>15. NewestComes(v, c, awaited, wire', stored, d)
  <2> SUFFICES ASSUME view.device # NoDevice, ~d["latest"]
               PROVE  \/ c["latest"].device = view.device /\ c["latest"].items = <<stored[view.device]>>
                      \/ \E q \in awaited : AsksNewest(q, view.device, stored)
                      \/ \E m \in wire : m.kind = "property" /\ m.device = view.device
    BY <1>4, <1>6 DEF NewestComes
  <2>1. "latest" \in Panels
    BY ThePanels
  <2>2. ~disturbed["latest"]
    BY <1>7, <1>9, <2>1
  <2>3. CASE r.panel # "latest"
    <3>1. c["latest"] = shown["latest"]
      BY <1>10, <2>1, <2>3
    <3>2. \A q \in requests : AsksNewest(q, view.device, stored) => q \in awaited
      BY <1>11, <2>3 DEF AsksNewest
    <3>3. QED
      BY <1>1, <2>2, <3>1, <3>2 DEF NewestComes
  <2>4. CASE r.panel = "latest"
    <3>1. ~r.late /\ ~Older(r) /\ c["latest"] = x
      BY <1>7, <1>9, <1>10, <2>4
    <3>2. r.device = view.device /\ c["latest"].device = view.device
      BY <1>1, <1>5, <3>1 DEF RequestFits
    <3>3. PICK n \in 0 .. stored[view.device] : r.answer.items = <<n>> /\ x.items = <<n>>
      BY <1>5, <2>4, <3>2
    <3>4. stored[view.device] \in Nat
      BY <1>1, <1>3, <3>2 DEF TypeOK
    <3>5. CASE shown["latest"].device = view.device /\ shown["latest"].items = <<stored[view.device]>>
      <4>1. ~(r.answer.items[1] < shown["latest"].items[1])
        BY <2>4, <3>1, <3>2, <3>5 DEF Older
      <4>2. r.answer.items[1] = n /\ shown["latest"].items[1] = stored[view.device]
        BY <3>3, <3>5
      <4>3. n = stored[view.device]
        BY <3>3, <3>4, <4>1, <4>2
      <4>4. QED
        BY <3>1, <3>2, <3>3, <4>3
    <3>6. CASE \E q \in requests : AsksNewest(q, view.device, stored)
      <4>1. PICK q \in requests : AsksNewest(q, view.device, stored)
        BY <3>6
      <4>2. CASE q = r
        <5>1. r.answer # Unanswered
          BY <1>4, <2>4 DEF Changing
        <5>2. r.answer.items = <<stored[view.device]>>
          BY <4>1, <4>2, <5>1 DEF AsksNewest
        <5>3. QED
          BY <3>1, <3>2, <3>3, <5>2
      <4>3. CASE q # r
        BY <1>11, <4>1, <4>3
      <4>4. QED
        BY <4>2, <4>3
    <3>7. CASE \E m \in wire : m.kind = "property" /\ m.device = view.device
      BY <3>7
    <3>8. QED
      BY <1>1, <2>2, <3>5, <3>6, <3>7 DEF NewestComes
  <2>5. QED
    BY <2>3, <2>4
<1>16. /\ wire' \subseteq [kind : {"property", "event"}, device : Devices, n : Nat]
       /\ left' \in [{"reports", "events", "clicks", "turns"} -> Nat]
       /\ status' \in {"connecting", "open", "reconnecting", "closed"}
       /\ UNCHANGED <<stored, logged>>
  BY <1>1, <1>4 DEF TypeOK
<1>17. QED
  BY <1>1, <1>2, <1>4, <1>6, <1>8, <1>9, <1>10, <1>11, <1>12, <1>13, <1>14, <1>15, <1>16, RenderHolds

----------------------------------------------------------------------------
(* The inductive invariant. *)

\* The page opens with a device selected, and asks for its properties.
LEMMA PanelsStart == Init => PanelInv
<1> SUFFICES ASSUME Init
             PROVE  PanelInv
  OBVIOUS
<1>1. PICK e \in Devices : view = Start(e) /\ requests = {Ask("latest", Start(e), "effect")}
  BY DEF Init
<1>2. /\ shown = [p \in Panels |-> Nothing] /\ loading = [p \in Panels |-> p = "latest"]
      /\ status = "connecting" /\ inbox = NoEvent /\ wire = {}
      /\ stored = [d \in Devices |-> 1]
      /\ logged = [p \in Histories |-> [d \in Devices |-> PageSize + 1]]
      /\ left \in Budgets /\ disturbed = [p \in Panels |-> FALSE]
  BY DEF Init
<1>3. e # NoDevice /\ PageSize + 1 \in Nat
  BY PanelBounds
<1>4. Everything \in Args /\ Everything.page = 1
  BY DEF Everything, Args
<1>5. /\ view \in ViewType /\ PlainArgs(view) /\ view.device = e /\ view.tab = "latest"
  <2>1. "latest" \in Tabs
    BY ThePanels DEF Tabs, TabOf
  <2>2. view = [device |-> e, tab |-> "latest", arg |-> [p \in Panels |-> Everything]]
    BY <1>1 DEF Start
  <2> DEFINE arg == [p \in Panels |-> Everything]
  <2>3. arg \in [Panels -> Args] /\ arg["latest"] = Everything /\ arg["trend"] = Everything
    BY <1>4, ThePanels
  <2> HIDE DEF arg
  <2>5. view.device = e /\ view.tab = "latest" /\ view.arg = arg
    BY <2>2 DEF arg
  <2>6. PlainArgs(view)
    BY <1>4, <2>3, <2>5 DEF PlainArgs
  <2>7. view = [device |-> e, tab |-> "latest", arg |-> arg]
    BY <2>2 DEF arg
  <2>8. view \in ViewType
    BY <2>1, <2>3, <2>7 DEF ViewType
  <2>9. QED
    BY <2>5, <2>6, <2>8
<1> DEFINE ask == Ask("latest", view, "effect")
<1>6. requests = {ask}
  BY <1>1
<1>7. "latest" \in Panels /\ Loads("latest", view)
  BY <1>3, <1>5, ThePanels, LatestIsLoaded
<1>8. /\ ask \in Request /\ ask.panel = "latest" /\ ask.by = "effect" /\ ask.answer = Unanswered
      /\ ask.device = e /\ AnswerFits(ask, stored) /\ RequestFits(ask, view)
  BY <1>5, <1>7, AskFits
<1> HIDE DEF ask
<1>9. \A p \in Panels : p # "latest" => ~Loads(p, view)
  BY <1>5, ThePanels DEF Loads, TrendLoads, EventsLoad, SetsLoad, CallsLoad
<1>10. Awaits("latest", requests, {"effect"}) /\ Awaits("latest", requests, {"effect", "reload"})
  BY <1>6, <1>8 DEF Awaits
<1>11. shown \in [Panels -> Content] /\ (\A p \in Panels : shown[p] = Nothing) /\ AllDiffer(shown["events"].items)
  BY <1>2, NothingFits, ThePanels
<1>12. TypeOK
  <2>1. stored \in [Devices -> Nat] /\ logged \in [Histories -> [Devices -> Nat]]
    BY <1>2, <1>3
  <2>2. loading \in [Panels -> BOOLEAN] /\ disturbed \in [Panels -> BOOLEAN]
    BY <1>2
  <2>3. inbox \in EventType
    BY <1>2 DEF NoEvent, EventType
  <2>4. left \in [{"reports", "events", "clicks", "turns"} -> Nat]
    BY <1>2, PanelBounds
  <2>5. requests \subseteq Request
    BY <1>6, <1>8
  <2>6. view \in [device : Devices \cup {NoDevice}, tab : Tabs,
                  arg : [Panels -> [filter : SUBSET Names, page : Nat \ {0}]]]
    BY <1>5 DEF ViewType, Args
  <2>7. QED
    BY <1>2, <1>11, <2>1, <2>2, <2>3, <2>4, <2>5, <2>6 DEF TypeOK, EventType
<1>13. \A r \in requests : AnswerFits(r, stored) /\ RequestFits(r, view)
  BY <1>6, <1>8
<1>14. OwnData(shown, view)
  BY <1>11, NothingFits DEF OwnData
<1>15. LoadingAwaits(view, loading, requests)
  BY <1>9, <1>10 DEF LoadingAwaits
<1>16. \A p \in Panels : PanelHolds(p, view, shown, requests, disturbed)
  BY <1>9, <1>10 DEF PanelHolds
<1>17. NewestComes(view, shown, requests, wire, stored, disturbed)
  BY <1>5, <1>6, <1>8 DEF NewestComes, AsksNewest
<1>18. QED
  BY <1>5, <1>11, <1>12, <1>13, <1>14, <1>15, <1>16, <1>17 DEF PanelInv

\* Nothing changes.
LEMMA PanelsStutter ==
  ASSUME PanelInv, UNCHANGED panelVars
  PROVE  PanelInv'
<1>1. /\ TypeOK /\ PlainArgs(view) /\ OwnData(shown, view) /\ AllDiffer(shown["events"].items)
      /\ LoadingAwaits(view, loading, requests)
      /\ \A q \in requests : AnswerFits(q, stored) /\ RequestFits(q, view)
      /\ \A p \in Panels : PanelHolds(p, view, shown, requests, disturbed)
      /\ NewestComes(view, shown, requests, wire, stored, disturbed)
  BY DEF PanelInv
<1>2. UNCHANGED <<view, shown, loading, requests, status, inbox, wire, stored, logged, left, disturbed>>
  BY DEF panelVars
<1>3. TypeOK'
  BY <1>1, <1>2 DEF TypeOK
<1>4. \A p \in Panels : loading'[p] /\ Loads(p, view) => Awaits(p, requests', {"effect", "reload"})
  BY <1>1, <1>2 DEF LoadingAwaits
<1>5. /\ requests' \subseteq requests /\ \A r \in requests : r \in requests'
      /\ \A m \in wire : m \in wire'
      /\ \A p \in Panels : disturbed[p] => disturbed'[p]
      /\ UNCHANGED <<view, shown, stored>>
  BY <1>2
<1>6. QED
  BY <1>3, <1>4, <1>5, QuietHolds

\* What the user does in a history.
LEMMA HistoryKeeps ==
  ASSUME PanelInv, NEW p \in Histories, HistoryPanel(p)
  PROVE  PanelInv'
<1>1. p \in Panels
  BY ThePanels
<1>2. CASE Reload(p)
  BY <1>1, <1>2, ReloadKeeps
<1>3. CASE \E n \in Names : ChangeFilter(p, {n}) \/ ChangeFilter(p, {})
  <2>1. PICK n \in Names : ChangeFilter(p, {n}) \/ ChangeFilter(p, {})
    BY <1>3
  <2>2. {n} \in SUBSET Names /\ {} \in SUBSET Names
    OBVIOUS
  <2>3. QED
    BY <2>1, <2>2, FilterKeeps
<1>4. CASE \E n \in 0 .. 3 : ChangePage(p, n)
  BY <1>4, PageKeeps
<1>5. QED
  BY <1>2, <1>3, <1>4 DEF HistoryPanel

LEMMA PanelsStep == PanelInv /\ [Next]_panelVars => PanelInv'
<1> SUFFICES ASSUME PanelInv, [Next]_panelVars
             PROVE  PanelInv'
  OBVIOUS
<1>1. CASE User
  <2>1. ASSUME NEW d \in Devices \cup {NoDevice}, HandleDeviceChange(d)
        PROVE  PanelInv'
    BY <2>1, DeviceChangeKeeps
  <2>2. ASSUME NEW t \in Tabs, OpenTab(t)
        PROVE  PanelInv'
    BY <2>2, TabKeeps
  <2>3. CASE LatestPropertiesPanel
    BY <2>3, ReloadKeeps, ThePanels DEF LatestPropertiesPanel
  <2>4. CASE HistoryPropertiesPanel
    <3>1. CASE Reload("trend")
      BY <3>1, ReloadKeeps, ThePanels
    <3>2. ASSUME NEW n \in Names, ToggleTrendProperty(n)
          PROVE  PanelInv'
      BY <3>2, ToggleKeeps
    <3>3. QED
      BY <2>4, <3>1, <3>2 DEF HistoryPropertiesPanel
  <2>5. CASE DeviceEventsPanel \/ DevicePropertySetHistoryPanel \/ DeviceServiceHistoryPanel
    <3>1. "events" \in Histories /\ "sets" \in Histories /\ "calls" \in Histories
      BY DEF Histories
    <3>2. QED
      BY <2>5, <3>1, HistoryKeeps DEF DeviceEventsPanel, DevicePropertySetHistoryPanel, DeviceServiceHistoryPanel
  <2>6. ASSUME NEW p \in {"sets", "calls"}, NEW d \in Devices, NEW f \in SUBSET Names, CommandAccepted(p, d, f)
        PROVE  PanelInv'
    BY <2>6, CommandKeeps
  <2>7. QED
    BY <1>1, <2>1, <2>2, <2>3, <2>4, <2>5, <2>6 DEF User
<1>2. CASE Network
  BY <1>2, ServerAnswersKeeps, ArriveKeeps, FailKeeps DEF Network
<1>3. CASE Realtime
  <2>1. CASE Poll
    BY <2>1, PollKeeps
  <2>2. ASSUME NEW d \in Devices \cup {NoDevice}, SelectedByList(d)
        PROVE  PanelInv'
    BY <2>2, SelectedByListKeeps
  <2>3. ASSUME NEW available \in SUBSET Names, KeepTrendProperties(available)
        PROVE  PanelInv'
    BY <2>3, KeepTrendKeeps
  <2>4. ASSUME NEW s \in {"open", "connecting", "reconnecting", "closed"}, StatusChanges(s)
        PROVE  PanelInv'
    BY <2>4, StatusKeeps
  <2>5. ASSUME NEW d \in Devices, PropertiesReported(d) \/ EventReported(d)
        PROVE  PanelInv'
    BY <2>5, PropertiesReportedKeeps, EventReportedKeeps
  <2>6. ASSUME NEW m \in wire, OnPropertyChanged(m) \/ OnEventReceived(m)
        PROVE  PanelInv'
    BY <2>6, PropertyChangedKeeps, EventReceivedKeeps
  <2>7. QED
    BY <1>3, <2>1, <2>2, <2>3, <2>4, <2>5, <2>6 DEF Realtime
<1>4. CASE UNCHANGED panelVars
  BY <1>4, PanelsStutter
<1>5. QED
  BY <1>1, <1>2, <1>3, <1>4 DEF Next

LEMMA PanelsHold == Spec => []PanelInv
BY PanelsStart, PanelsStep, PTL DEF Spec

----------------------------------------------------------------------------
(* What the panels promise. *)

\* Whatever the user does and whatever comes, the panels, the requests and the
\* server's data have their types.
THEOREM TypesOfTheDevicePage == Spec => []TypeOK
<1>1. PanelInv => TypeOK
  BY DEF PanelInv
<1>2. QED
  BY <1>1, PanelsHold, PTL

\* Effects and polls never show data of a device that is not selected: such data in a
\* panel of the page is that of an answer the code takes without asking whether it
\* still fits (reload, message, command), or of a device the list replaced.
THEOREM ForeignDataIsLate == Spec => []NoForeignData
<1>1. PanelInv => NoForeignData
  BY DEF PanelInv, OwnData, NoForeignData
<1>2. QED
  BY <1>1, PanelsHold, PTL

\* A panel with something to load says that it is loading only while the answer to its
\* effect or its reload button is awaited, however requests are ignored, replaced
\* or fail: the reload button is never disabled for good.
THEOREM LoadingEndsWithItsAnswer == Spec => []LoadingIsAwaited
<1>1. PanelInv => LoadingIsAwaited
  BY DEF PanelInv, LoadingAwaits, Awaits, LoadingIsAwaited, Waits
<1>2. QED
  BY <1>1, PanelsHold, PTL

\* Once nothing is on its way for a panel that lost nothing and took nothing out of
\* order, it shows what the page asks for, and of the properties the newest that
\* the server has.
THEOREM PanelsShowTheSelection == Spec => []SettledShowsSelection
<1>1. ASSUME PanelInv, NEW p \in Panels, Settled(p), Loads(p, view), ~disturbed[p]
      PROVE  /\ shown[p].device = view.device
             /\ shown[p].filter = view.arg[p].filter
             /\ shown[p].page = view.arg[p].page
             /\ p = "latest" => shown[p].items = <<stored[view.device]>>
  <2>1. /\ PanelHolds(p, view, shown, requests, disturbed)
        /\ NewestComes(view, shown, requests, wire, stored, disturbed)
    BY <1>1 DEF PanelInv
  <2>2. (\A r \in requests : r.panel # p)
        /\ (p = "latest" => \A m \in wire : m.kind = "property" => m.device # view.device)
    BY <1>1 DEF Settled
  <2>3. Fresh(p, shown[p], view)
    BY <1>1, <2>1, <2>2 DEF PanelHolds, Awaits
  <2>4. view.device # NoDevice
    BY <1>1, LoadsDevice
  <2>5. p = "latest" => shown[p].items = <<stored[view.device]>>
    BY <1>1, <2>1, <2>2, <2>4 DEF NewestComes, AsksNewest
  <2>6. QED
    BY <2>3, <2>5 DEF Fresh
<1>2. PanelInv => SettledShowsSelection
  BY <1>1 DEF SettledShowsSelection
<1>3. QED
  BY <1>2, PanelsHold, PTL

\* The page of events lists no event twice, in whatever order it is loaded and pushed.
THEOREM NoEventIsListedTwice == Spec => []EventsOnce
<1>1. PanelInv => EventsOnce
  BY DEF PanelInv, AllDiffer, EventsOnce
<1>2. QED
  BY <1>1, PanelsHold, PTL

=============================================================================
