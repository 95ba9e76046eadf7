---------------------------- MODULE DevicePanels ----------------------------
(***************************************************************************)
(* The device page of the web console (pages/Admin/DevicePropertyManage-   *)
(* ment.tsx): what it shows of the selected device.                        *)
(*                                                                         *)
(* Five panels show data of one device: its latest properties, the trend   *)
(* of some of them, its events, and its commands (property sets and        *)
(* service calls).  A panel is filled                                      *)
(*   - by an effect, that asks again whenever something it depends on      *)
(*     changes and ignores the answer to its earlier question;             *)
(*   - by the reload button and by the follow-ups of messages and          *)
(*     commands, whose answers are taken whenever they come;               *)
(*   - by polling while there is no realtime connection;                   *)
(*   - by realtime messages.                                               *)
(* Answers arrive in any order, and each shows what the server held when   *)
(* it answered, not when the answer arrives.                               *)
(***************************************************************************)
EXTENDS Paging, FiniteSets

CONSTANTS
    Devices, NoDevice,
    Names,          \* what a history may be filtered by, and a trend may show
    MaxTrend,       \* most properties a trend shows (8 in the code)
    PageSize,       \* rows on a page of a history
    Budgets,        \* bounds, of which a behaviour has one: how often a device
                    \* reports properties or an event, the user clicks and the
                    \* realtime connection changes its status
    MaxAsks         \* bound: answers awaited at once, beyond which nothing new
                    \* but an effect asks

ASSUME PanelBounds ==
    /\ NoDevice \notin Devices
    /\ IsFiniteSet(Names)
    /\ {MaxTrend, PageSize} \subseteq Nat \ {0}
    /\ MaxAsks \in Nat
    /\ Budgets \subseteq [{"reports", "events", "clicks", "turns"} -> Nat]

VARIABLES
    view,       \* the selected device, the open tab, and what each panel asks for
    shown,      \* what each panel holds
    loading,    \* which panels say that they are loading
    requests,   \* requests of the panels that are not answered yet, or whose
                \* answer is on its way
    status,     \* of the realtime connection
    inbox,      \* the newest event of the console's event inbox
    wire,       \* realtime messages on their way to the console
    stored,     \* the version of each device's latest properties on the server
    logged,     \* the number of rows of each device's histories on the server
    left,       \* what is left of the budget
    disturbed   \* history: the panels that lost a message or an answer, or took
                \* one out of order, since their effect last asked

Histories == {"events", "sets", "calls"}
Panels == Histories \cup {"latest", "trend"}
TabOf == [latest |-> "latest", trend |-> "history", events |-> "eventHistory",
          sets |-> "propertySetHistory", calls |-> "serviceHistory"]
Tabs == {TabOf[p] : p \in Panels} \cup {"set", "services"}

Everything == [filter |-> {}, page |-> 1]
Nothing == [device |-> NoDevice, filter |-> {}, page |-> 1, items |-> <<>>, total |-> 0, late |-> FALSE]
NoEvent == [device |-> NoDevice, n |-> 0]

panelVars == <<view, shown, loading, requests, status, inbox, wire, stored, logged, left, disturbed>>
serverVars == <<stored, logged>>

----------------------------------------------------------------------------
(* Asking and answering. *)

\* A history without a filter lists every row; no row bears a name filtered by.
Rows(p, d, filter) ==
    IF filter = {} THEN [i \in 1 .. logged[p][d] |-> logged[p][d] + 1 - i] ELSE <<>>

\* What the server answers now.
Answer(q) ==
    IF q.panel \in Histories
    THEN LET rows == Rows(q.panel, q.device, q.filter)
         IN  [items |-> PageOf(rows, q.page, PageSize), total |-> Len(rows)]
    ELSE [items |-> IF q.panel = "latest" THEN <<stored[q.device]>> ELSE <<>>, total |-> 0]

Unanswered == [items |-> <<>>, total |-> -1]

\* A request of panel p for what it asks for in view v, sent by its effect, by the
\* reload button, by a poll, or to follow something up.
Ask(p, v, by) ==
    [panel |-> p, device |-> v.device, filter |-> v.arg[p].filter, page |-> v.arg[p].page,
     by |-> by, late |-> FALSE, answer |-> Unanswered]

\* The page with device d selected: its latest properties are asked for.
Start(d) == [device |-> d, tab |-> "latest", arg |-> [p \in Panels |-> Everything]]

Init ==
    /\ \E d \in Devices :
           /\ view = Start(d)
           /\ requests = {Ask("latest", Start(d), "effect")}
    /\ shown = [p \in Panels |-> Nothing]
    /\ loading = [p \in Panels |-> p = "latest"]
    /\ status = "connecting"
    /\ inbox = NoEvent
    /\ wire = {}
    /\ stored = [d \in Devices |-> 1]
    /\ logged = [p \in Histories |-> [d \in Devices |-> PageSize + 1]]
    /\ left \in Budgets
    /\ disturbed = [p \in Panels |-> FALSE]

Waits(p, by) == \E r \in requests : r.panel = p /\ r.by = by

----------------------------------------------------------------------------
(* What a panel depends on, and what its effect does when that changes. *)

LatestLoads(v) == v.device # NoDevice
LatestClears(v) == v.device = NoDevice
TrendLoads(v) == v.tab = "history" /\ v.device # NoDevice /\ v.arg["trend"].filter # {}
TrendClears(v) == v.tab = "history" /\ (v.device = NoDevice \/ v.arg["trend"].filter = {})
EventsLoad(v) == v.tab = "eventHistory" /\ v.device # NoDevice
EventsClear(v) == v.tab = "eventHistory" /\ v.device = NoDevice
SetsLoad(v) == v.tab = "propertySetHistory" /\ v.device # NoDevice
SetsClear(v) == v.tab = "propertySetHistory" /\ v.device = NoDevice
CallsLoad(v) == v.tab = "serviceHistory" /\ v.device # NoDevice
CallsClear(v) == v.tab = "serviceHistory" /\ v.device = NoDevice

Loads(p, v) ==
    CASE p = "latest" -> LatestLoads(v) [] p = "trend" -> TrendLoads(v)
      [] p = "events" -> EventsLoad(v) [] p = "sets" -> SetsLoad(v) [] p = "calls" -> CallsLoad(v)

Clears(p, v) ==
    CASE p = "latest" -> LatestClears(v) [] p = "trend" -> TrendClears(v)
      [] p = "events" -> EventsClear(v) [] p = "sets" -> SetsClear(v) [] p = "calls" -> CallsClear(v)

Deps(p, v) == IF p = "latest" THEN <<v.device>> ELSE <<v.tab, v.device, v.arg[p]>>

\* Variants with a bug, that show what the properties detect.
StillTakenUncancelled(awaited, changed, v) == awaited

\* The answers that are still taken, out of those awaited, after the panels in
\* changed ask anew: not those of their effects, nor those of a poll made for
\* another view.
StillTaken(awaited, changed, v) ==
    {r \in awaited : /\ r.by = "effect" => r.panel \notin changed
                     /\ r.by = "poll" => v = view}

\* History: an answer that was asked for before the panel asked anew.
Overtaken(r, changed) ==
    [r EXCEPT !.late = @ \/ (r.by \notin {"effect", "poll"} /\ r.panel \in changed)]

\* Mutant: a pushed event joins any page, also one that lists it already.
WithInboxTwice(v, event, e) ==
    IF event = NoEvent \/ v.tab # "eventHistory" \/ event.device # v.device THEN e
    ELSE [e EXCEPT !.items = SubSeq(<<event.n>> \o @, 1, AtMost(PageSize, Len(@) + 1)),
                   !.total = @ + 1, !.device = event.device]

\* The newest event of the inbox joins the first page of the events of its
\* device.  The total counts it even when the page lists it already.
WithInbox(v, event, e) ==
    IF \/ event = NoEvent
       \/ v.tab # "eventHistory"
       \/ v.arg["events"].page # 1
       \/ event.device # v.device
       \/ v.arg["events"].filter # {}
    THEN e
    ELSE [e EXCEPT !.items = IF \E i \in DOMAIN e.items : e.items[i] = event.n THEN @
                             ELSE SubSeq(<<event.n>> \o @, 1, AtMost(PageSize, Len(@) + 1)),
                   !.total = @ + 1,
                   !.device = IF e.items = <<>> THEN event.device ELSE @]

\* The page is drawn again with the view v and the event at the head of the
\* inbox, after the panels were given the contents c and the indicators l and
\* while the answers in awaited are outstanding.  The effects whose dependencies
\* changed run; d is the history up to then.
Render(v, event, c, l, awaited, d) ==
    LET changed == {p \in Panels : Deps(p, v) # Deps(p, view)}
        starts == {p \in changed : Loads(p, v)}
        loaded == [p \in Panels |-> IF p \in changed /\ Clears(p, v) THEN Nothing ELSE c[p]]
    IN  /\ view' = v
        /\ inbox' = event
        /\ requests' = {Overtaken(r, changed) : r \in StillTaken(awaited, changed, v)}
                           \cup {Ask(p, v, "effect") : p \in starts}
        /\ shown' = IF "events" \in changed \/ event # inbox
                    THEN [loaded EXCEPT !["events"] = WithInbox(v, event, @)]
                    ELSE loaded
        /\ loading' = [p \in Panels |-> p \in starts \/ l[p]]
        /\ disturbed' = [p \in Panels |-> p \notin starts /\ d[p]]

----------------------------------------------------------------------------
(* What the panels let the user do. *)

Spend(what) == left[what] > 0 /\ left' = [left EXCEPT ![what] = @ - 1]
CanAsk == Cardinality(requests) < MaxAsks

\* The reload button of each panel.
LatestReloadable == view.device # NoDevice /\ ~loading["latest"]
TrendReloadable == view.tab = "history" /\ ~loading["trend"] /\ view.arg["trend"].filter # {}
EventsReloadable == view.tab = "eventHistory" /\ ~loading["events"]
SetsReloadable == view.tab = "propertySetHistory" /\ ~loading["sets"]
CallsReloadable == view.tab = "serviceHistory" /\ ~loading["calls"]

Reloadable(p) ==
    CASE p = "latest" -> LatestReloadable [] p = "trend" -> TrendReloadable
      [] p = "events" -> EventsReloadable [] p = "sets" -> SetsReloadable [] p = "calls" -> CallsReloadable

\* The reload button: without a device the panel is emptied.
Reload(p) ==
    /\ Spend("clicks") /\ CanAsk
    /\ Reloadable(p)
    /\ IF view.device = NoDevice
       THEN Render(view, inbox, [shown EXCEPT ![p] = Nothing], loading, requests, disturbed)
       ELSE Render(view, inbox, shown, [loading EXCEPT ![p] = TRUE],
                   requests \cup {Ask(p, view, "reload")}, disturbed)
    /\ UNCHANGED <<status, wire, serverVars>>

ChangeView(v, c) ==
    /\ Render(v, inbox, c, loading, requests, disturbed)
    /\ UNCHANGED <<status, wire, serverVars>>

\* The view once another device, or none, is selected.
Selected(d) ==
    [view EXCEPT !.device = d,
                 !.arg = [p \in Panels |-> IF p = "trend" THEN Everything ELSE [@[p] EXCEPT !.page = 1]]]

HandleDeviceChange(d) ==
    /\ Spend("clicks")
    /\ d # view.device
    /\ ChangeView(Selected(d), [p \in Panels |-> Nothing])

\* The list of devices came without the selected one: its first device, if any,
\* is selected, and the panels keep what they hold until their effects end.
SelectedByList(d) ==
    /\ Spend("turns")
    /\ d # view.device
    /\ ChangeView([view EXCEPT !.device = d],
                  [p \in Panels |-> [shown[p] EXCEPT !.late = @ \/ shown[p].device # NoDevice]])

OpenTab(t) ==
    /\ Spend("clicks")
    /\ t # view.tab
    /\ ChangeView([view EXCEPT !.tab = t], shown)

\* A trend shows at most MaxTrend properties: one more is not taken.
ToggleTrendProperty(n) ==
    LET current == view.arg["trend"].filter
        next == IF n \in current THEN current \ {n}
                ELSE IF Cardinality(current) >= MaxTrend THEN current ELSE current \cup {n}
    IN  /\ Spend("clicks")
        /\ view.tab = "history"
        /\ ChangeView([view EXCEPT !.arg["trend"].filter = next], shown)

\* The properties there are become these, with another model or report.  The trend
\* keeps those it has of them or, if it loses all, shows the first two.
KeepTrendProperties(available) ==
    LET current == view.arg["trend"].filter
        kept == current \cap available
        next == IF kept # {} THEN kept
                ELSE CHOOSE S \in SUBSET available : Cardinality(S) = AtMost(2, Cardinality(available))
    IN  /\ Spend("turns")
        /\ kept # current
        /\ ChangeView([view EXCEPT !.arg["trend"].filter = next], shown)

\* A name, a page size or an acknowledgement deadline: the history starts over
\* at its first page.
ChangeFilter(p, f) ==
    /\ Spend("clicks")
    /\ view.tab = TabOf[p]
    /\ f # view.arg[p].filter
    /\ ChangeView([view EXCEPT !.arg[p] = [filter |-> f, page |-> 1]], shown)

ChangePage(p, n) ==
    /\ Spend("clicks")
    /\ view.tab = TabOf[p]
    /\ n \in PageTargets(view.arg[p].page, shown[p].total, PageSize, loading[p])
    /\ n # view.arg[p].page
    /\ ChangeView([view EXCEPT !.arg[p].page = n], shown)

\* A command to device d was accepted: the first page of the history is asked
\* for, as the page was when the command was sent.
CommandAccepted(p, d, f) ==
    LET ask == [Ask(p, view, "follow") EXCEPT !.device = d, !.filter = f, !.page = 1]
    IN  /\ Spend("clicks") /\ CanAsk
        /\ Render(view, inbox, shown, loading,
                  requests \cup {[ask EXCEPT !.late = <<d, f>> # <<view.device, view.arg[p].filter>>]},
                  disturbed)
        /\ UNCHANGED <<status, wire, serverVars>>

----------------------------------------------------------------------------
(* Answers. *)

\* The server answers.  Its command histories do not change here, so for them
\* (and for the trend) the moment does not matter and is that of the arrival.
Changing == {"latest", "events"}

ServerAnswers(r) ==
    /\ r.answer = Unanswered
    /\ r.panel \in Changing
    /\ requests' = (requests \ {r}) \cup {[r EXCEPT !.answer = Answer(r)]}
    /\ UNCHANGED <<view, shown, loading, status, inbox, wire, serverVars, left, disturbed>>

\* An answer about the properties that is older than what is shown of the device.
Older(r) ==
    /\ r.panel = "latest"
    /\ shown["latest"].device = r.device
    /\ r.answer.items[1] < shown["latest"].items[1]

\* Mutant: the answer of the reload button leaves the indicator on.
FinishedByEffect(r) == IF r.by = "effect" THEN [loading EXCEPT ![r.panel] = FALSE] ELSE loading

\* The indicator goes out with the answer of the effect or of the reload button.
Finished(r) == IF r.by \in {"effect", "reload"} THEN [loading EXCEPT ![r.panel] = FALSE] ELSE loading

\* The answer of a history brings the page it is about.
Answered(r) == IF r.panel \in Histories THEN [view EXCEPT !.arg[r.panel].page = r.page] ELSE view

Arrive(r) ==
    /\ r.panel \in Changing => r.answer # Unanswered
    /\ LET answer == IF r.panel \in Changing THEN r.answer ELSE Answer(r)
           content == [device |-> r.device, filter |-> r.filter, page |-> r.page,
                       items |-> answer.items, total |-> answer.total, late |-> r.late]
       IN Render(Answered(r), inbox, [shown EXCEPT ![r.panel] = content],
                 Finished(r), requests \ {r},
                 [disturbed EXCEPT ![r.panel] = @ \/ r.late \/ Older(r)])
    /\ UNCHANGED <<status, wire, serverVars, left>>

\* An error is notified, unless the panel has asked anew since or the request
\* was silent; what the panel holds stays.
Fail(r) ==
    /\ r.answer = Unanswered
    /\ requests' = requests \ {r}
    /\ loading' = Finished(r)
    /\ disturbed' = [disturbed EXCEPT ![r.panel] = @ \/ r.by \in {"effect", "follow"}]
    /\ UNCHANGED <<view, shown, status, inbox, wire, serverVars, left>>

----------------------------------------------------------------------------
(* The realtime connection, and the polling that stands in for it. *)

Fallback == status \in {"reconnecting", "closed"}

\* Every ten seconds: the latest properties and the panel of the open tab.  A trend
\* of no property is emptied.
Poll ==
    /\ Fallback /\ CanAsk
    /\ view.device # NoDevice
    /\ Render(view, inbox, [p \in Panels |-> IF Clears(p, view) THEN Nothing ELSE shown[p]], loading,
              requests \cup {Ask(p, view, "poll") : p \in {q \in Panels : Loads(q, view)}}, disturbed)
    /\ UNCHANGED <<status, wire, serverVars, left>>

StatusSteps == {<<"connecting", "open">>, <<"connecting", "reconnecting">>, <<"connecting", "closed">>,
                <<"open", "reconnecting">>, <<"open", "closed">>, <<"reconnecting", "connecting">>}

\* A poll's answers are not taken once the status changes.
StatusChanges(s) ==
    /\ <<status, s>> \in StatusSteps
    /\ Spend("turns")
    /\ status' = s
    /\ requests' = {r \in requests : r.by # "poll"}
    /\ UNCHANGED <<view, shown, loading, inbox, wire, serverVars, disturbed>>

\* The device reports its properties, or an event: stored, then sent on.
PropertiesReported(d) ==
    /\ Spend("reports")
    /\ stored' = [stored EXCEPT ![d] = @ + 1]
    /\ wire' = wire \cup {[kind |-> "property", device |-> d, n |-> stored[d] + 1]}
    /\ UNCHANGED <<view, shown, loading, requests, status, inbox, logged, disturbed>>

EventReported(d) ==
    /\ Spend("events")
    /\ logged' = [logged EXCEPT !["events"][d] = @ + 1]
    /\ wire' = wire \cup {[kind |-> "event", device |-> d, n |-> logged["events"][d] + 1]}
    /\ UNCHANGED <<view, shown, loading, requests, status, inbox, stored, disturbed>>

\* Mutant: the pushed value is shown as it is.
OnPropertyChangedTrusted(m) ==
    /\ m.kind = "property"
    /\ wire' = wire \ {m}
    /\ IF status = "open" /\ m.device = view.device
       THEN Render(view, inbox,
                   [shown EXCEPT !["latest"] = [Nothing EXCEPT !.device = m.device, !.items = <<m.n>>]],
                   loading, requests, disturbed)
       ELSE /\ disturbed' = [disturbed EXCEPT !["latest"] = @ \/ m.device = view.device]
            /\ UNCHANGED <<view, shown, loading, requests, inbox>>
    /\ UNCHANGED <<status, serverVars, left>>

\* A change of the selected device's properties is shown at once, and the stored
\* properties are asked for.  Without a connection the message is lost.
OnPropertyChanged(m) ==
    /\ m.kind = "property"
    /\ wire' = wire \ {m}
    /\ IF status = "open" /\ m.device = view.device
       THEN Render(view, inbox,
                   [shown EXCEPT !["latest"] = [Nothing EXCEPT !.device = m.device, !.items = <<m.n>>]],
                   loading, requests \cup {Ask("latest", view, "follow")}, disturbed)
       ELSE /\ disturbed' = [disturbed EXCEPT !["latest"] = @ \/ m.device = view.device]
            /\ UNCHANGED <<view, shown, loading, requests, inbox>>
    /\ UNCHANGED <<status, serverVars, left>>

\* An event reaches the inbox over a connection of the console's own.
OnEventReceived(m) ==
    /\ m.kind = "event"
    /\ wire' = wire \ {m}
    /\ \/ Render(view, [device |-> m.device, n |-> m.n], shown, loading, requests, disturbed)
       \/ /\ disturbed' = [disturbed EXCEPT !["events"] = @ \/ m.device = view.device]
          /\ UNCHANGED <<view, shown, loading, requests, inbox>>
    /\ UNCHANGED <<status, serverVars, left>>

----------------------------------------------------------------------------
\* What the user can do in each panel.
LatestPropertiesPanel == Reload("latest")
HistoryPropertiesPanel == Reload("trend") \/ \E n \in Names : ToggleTrendProperty(n)

HistoryPanel(p) ==
    \/ Reload(p)
    \/ \E n \in Names : ChangeFilter(p, {n}) \/ ChangeFilter(p, {})
    \/ \E n \in 0 .. 3 : ChangePage(p, n)

DeviceEventsPanel == HistoryPanel("events")
DevicePropertySetHistoryPanel == HistoryPanel("sets")
DeviceServiceHistoryPanel == HistoryPanel("calls")

User ==
    \/ \E d \in Devices \cup {NoDevice} : HandleDeviceChange(d)
    \/ \E t \in Tabs : OpenTab(t)
    \/ LatestPropertiesPanel \/ HistoryPropertiesPanel
    \/ DeviceEventsPanel \/ DevicePropertySetHistoryPanel \/ DeviceServiceHistoryPanel
    \/ \E p \in {"sets", "calls"}, d \in Devices, f \in SUBSET Names : CommandAccepted(p, d, f)

Network == \E r \in requests : ServerAnswers(r) \/ Arrive(r) \/ Fail(r)

Realtime ==
    \/ Poll
    \/ \E d \in Devices \cup {NoDevice} : SelectedByList(d)
    \/ \E available \in SUBSET Names : KeepTrendProperties(available)
    \/ \E s \in {"open", "connecting", "reconnecting", "closed"} : StatusChanges(s)
    \/ \E d \in Devices : PropertiesReported(d) \/ EventReported(d)
    \/ \E m \in wire : OnPropertyChanged(m) \/ OnEventReceived(m)

Next == User \/ Network \/ Realtime

Spec == Init /\ [][Next]_panelVars

----------------------------------------------------------------------------
Request ==
    [panel : Panels, device : Devices, filter : SUBSET Names, page : Nat \ {0},
     by : {"effect", "reload", "poll", "follow"}, late : BOOLEAN, answer : [items : Seq(Nat), total : Int]]

Content ==
    [device : Devices \cup {NoDevice}, filter : SUBSET Names, page : Nat \ {0}, items : Seq(Nat),
     total : Nat, late : BOOLEAN]

\* Type correctness of what the page and the server hold.
TypeOK ==
    /\ view \in [device : Devices \cup {NoDevice}, tab : Tabs,
                 arg : [Panels -> [filter : SUBSET Names, page : Nat \ {0}]]]
    /\ shown \in [Panels -> Content]
    /\ loading \in [Panels -> BOOLEAN]
    /\ requests \subseteq Request
    /\ status \in {"connecting", "open", "reconnecting", "closed"}
    /\ inbox \in [device : Devices \cup {NoDevice}, n : Nat]
    /\ wire \subseteq [kind : {"property", "event"}, device : Devices, n : Nat]
    /\ stored \in [Devices -> Nat]
    /\ logged \in [Histories -> [Devices -> Nat]]
    /\ left \in [{"reports", "events", "clicks", "turns"} -> Nat]
    /\ disturbed \in [Panels -> BOOLEAN]

\* A panel holds data of a device that is not selected only when an answer that
\* does not belong to an effect or a poll (of the reload button, of a message or
\* of a command) came after another device was selected, or when the list of
\* devices replaced the selected device.  Effects and polls never mix up devices,
\* however their answers are delayed.
NoForeignData ==
    \A p \in Panels : shown[p].device \notin {view.device, NoDevice} => shown[p].late

Settled(p) ==
    /\ \A r \in requests : r.panel # p
    /\ p = "latest" => \A m \in wire : m.kind = "property" => m.device # view.device

\* Once nothing is on its way for a panel it holds what it asks for: data of the
\* selected device, under the chosen filter, at the page the pager names, and of
\* the properties the newest the server has; unless a message or an answer was
\* lost or came out of order.  A message that overtook a newer one is made good
\* by the question that follows it up.
SettledShowsSelection ==
    \A p \in Panels :
        Settled(p) /\ Loads(p, view) /\ ~disturbed[p] =>
            /\ shown[p].device = view.device
            /\ shown[p].filter = view.arg[p].filter
            /\ shown[p].page = view.arg[p].page
            /\ p = "latest" => shown[p].items = <<stored[view.device]>>

\* A panel that has something to load says that it is loading only while the
\* answer to its effect or to the reload button is awaited: the indicator, which
\* also disables the reload button, never stays on for good.
LoadingIsAwaited ==
    \A p \in Panels : loading[p] /\ Loads(p, view) => Waits(p, "effect") \/ Waits(p, "reload")

\* No event is listed twice: an event that was loaded and is pushed as well, in
\* either order, is one row.
EventsOnce ==
    LET items == shown["events"].items
    IN  \A i, j \in DOMAIN items : items[i] = items[j] => i = j

=============================================================================
