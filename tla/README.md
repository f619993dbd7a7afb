# SupplyGuard: specifications and proofs

The repository is a logistics demonstrator: a C++ process that answers a JSON API over an
SQLite database (`src/backend`), a dashboard for administrators (`src/frontend/index.html`,
`js/dashboard.js`) and a page for drivers (`src/frontend/driver.html`). Paths below are relative
to the repository's own `src/` unless they start with `docs/`.

## The parts of the system

| Part | State | Operations | Hard behaviour | What makes it correct |
|---|---|---|---|---|
| HTTP server, `backend/main.cpp` | one connection at a time | accept, receive until the headers and `Content-Length` are complete or 5 s pass, route, dispatch, answer | slow clients hold the only thread; bodies cut short; patterns that match the same path | every connection is closed in the end; what is sent in time is read whole; nothing is made of half a body; the endpoint that is meant answers |
| Database, `backend/database/database.cpp` | 15 tables, in memory unless `--db` names a file | schema, seed, `resetToSeedState`, `exec`, `query` | no transaction spans two statements; a restart seeds over what the file holds | after a start or a reset the tables are the seed |
| Driver request API, `backend/api/api_handler.cpp:476-679` | `driver_requests`, `notifications` | submit, list, approve, reject, list and mark notifications | ids from `COUNT(*)`; several statements per handler; decisions that do not look at the status | ids are fresh; the driver is told what was decided, and nothing else |
| Dashboard, driver requests, `frontend/js/dashboard.js` | fetched list, drawn cards, reject dialog | 5 s poll, section, filter, approve, reject, reset | stale cards, overtaking answers, lost calls, several tabs | what the screen says is decided is; a decision hits the request on its card; lists converge |
| Driver portal, `frontend/driver.html` | selected driver, notifications, requests, form | select, load, 5 s poll, submit, mark read | drivers switched during a load, retries, an overlapping timer | the page follows the selection; one form is one request; the button comes back |
| Cold chain, `backend/services/cold_chain_service.cpp` | `sensor_readings`, `cold_chain_config` | alert, readings, add reading | one-pass run detection, thresholds, missing data | no excursion is missed or rated too low |
| Scenarios, `backend/services/simulation_service.cpp` | disruptions, route and carrier flags, delays, fleet, readings | eight scenarios, reset | scenarios that are repeated, combined or cut short by a failing statement | what is closed or late is explained by a disruption on the list; reset restores the seed |
| Route and carrier advice, `services/route_service.cpp`, `carrier_service.cpp`, `recommendation_service.cpp` | `routes`, `carriers` | recommend, generate all | fallbacks written out a second time, packed scores, flags beside the disruption table | advice is in service, fits the goods, and reaches who is in trouble |
| Shipment impact, `services/shipment_service.cpp`, `disruption_service.cpp` | `shipments`, `disruptions` | impact score, affected list, add a disruption, close, recall | thresholds; two tables that say the same thing | a scenario never takes a shipment off the list or lowers its score |
| Fleet, `services/fleet_service.cpp` | `fleet_assets` | utilisation, idle assets, redeployment | status is read as text here and as an enumeration there | the counts agree |
| Dashboard decisions, `frontend/js/dashboard.js` | list, decisions, detail panel: page memory only | open a panel, approve, reject, simulate, refresh, reload | a recommendation that arrives in another panel; refreshes that overwrite patched rows | a decision stays with its shipment and is final |
| Reroute handler, Bob query, timelines, location, verification, rendering | a row per reroute | a handler no page calls; queries | - | - |

The pages talk to the server over one connection per call. The server executes handlers one
after the other; all concurrency comes from several pages, from calls of one page that are in
flight together, and from processes that end between two statements.

## Modules

```
HttpServer                connections, receive loops, route table, dispatch
  `-- HttpServerProofs
RequestService            the promise: every handler is one atomic step
  |-- RequestServer       the code: a handler is a sequence of statements, with crashes
  |     `-- Service == INSTANCE RequestService      (refinement)
  |-- AdminConsole        dashboards working on fetched lists, over the atomic service
  |     `-- AdminConsoleProofs
  |-- DriverPortal        a driver page, over the atomic service
  |     `-- DriverPortalProofs
  |-- RequestServiceProofs, RequestServerProofs
Network                   the logistics tables and the impact analysis
  `-- Advice              routes, carriers, fleet moves and the list of recommendations
        `-- Scenarios     the scenarios, statement by statement
              |-- ScenariosProofs
              `-- MCScenarios, with SeedData, the seeded rows
DashboardDecisions        a tab deciding on route recommendations
  `-- DashboardDecisionsProofs
ColdChain                 excursion detector and what changes its readings
  `-- ColdChainProofs
MCHttpServer, MCRequestServer, MCAdminConsole, MCDriverPortal, MCDashboardDecisions,
MCColdChain               instances for TLC
```

**HttpServer** is `main.cpp` down to the socket. A request is a number of units, `Header` of them
headers and the rest its body; `Send` puts any further part of it on the wire, and a client may stop
or hang up (`HangUp`) anywhere. The two receive loops are `RecvHead` and `RecvBody`, as the code has
them: the first stops at the end of the headers, with whatever part of the body came in the same
`recv`; what that is (`have`, the code's `body_have`) is all that the second goes by, which asks for no
more than is missing and tests its condition (`BodyLoop`) before every `recv`. `got` is `total`.
`RecvEnds` is a `recv` that returns nothing, for a closed connection and for the five-second timeout
alike, which is how the code treats them. `inTime` is history: the clients whose last unit was on the
wire while the server had not given up on them. `Routes` is the whole table that the constructors
register, in their order, because the first pattern that matches wins. A handler is one step here and
is known by what it does with its body: "needs" it to act, "can" act without (approve and reject have a
default text), "acts" without ever looking at it (marking a notification read, for which
`driver.html:909` sends `{}` all the same), and so on; `Handled` lists its answers and effects, of
which a failing statement may leave a part.

**RequestService** keeps the two tables as functions from keys to rows, with the columns that
decide something later: driver, status, reply; driver, type, related request, text, read flag.
Timestamps, titles and message wording are left out. A request id is a number (`"REQ006"` is 6,
generated ids start after 1000); a notification id is its prefix and number. `Submit`, `Decide`,
`MarkRead` and `Reset` are the handlers; approve and reject are one action with a verdict
because the two functions differ in nothing else. `Submit` is bounded by `MaxRequests`.

**RequestServer** runs the same handlers statement by statement: `job` is the program counter of
the only thread. `resetToSeedState` deletes all tables first and `seedData` then clears and fills
each one, so `Reset` becomes six statements. `Crash` may fall between any two statements and keeps
the tables (a file database) or loses them (`:memory:`); `Boot` is the constructor's `seedData`.
Nothing serves a request before `Boot` has ended, because the socket is opened after the database.
`StatementFails`, only in `FaultySpec`, is an exception from `Database::exec`: the rest of the handler
is skipped. `torn` is a history variable: a reset failed after it had emptied `driver_requests`.

**AdminConsole** gives each tab `cached` (`state.driverRequests`), `shown` (the list the cards were
drawn from), `active` (is the section on screen), `dialog` and `flight`, the calls under way. A
call is sent, served and answered in three steps, so answers overtake each other, and
`CallLost` drops a call before or after the server acted. `epoch` and the driver on a card are
history: they let the properties say which request a card was about. A filter shows a subset of
the cards, which is left out.

**DriverPortal** follows the async functions of the page from `await` to `await`; each keeps the
driver that was selected when it started. Shipments and timelines are left out.

RequestServer's refinement (`ImplementsService`) is what allows AdminConsole and DriverPortal to use
the atomic handlers.

**ColdChain** has temperatures in tenths of a degree. `Scan` is the body of the counting loop, folded
over the readings; `Classify`, `IsCritical` and `IsHigh` are the thresholds in the order of the code.
`AddReading` is `addReading`, whose only caller is a test; the scenario replaces the readings, and
`ExcursionHalfApplied` is its DELETE without its INSERT.

**Network, Advice, Scenarios.** The tables are functions from ids to rows with the columns that the
analysis reads. `Affected`, `ImpactScore`, `RouteAdvice`, `CarrierAdvice`, `Idle`, `Redeployments`
and `GenerateAll` are the services' queries as operators over them; where SQL or `std::sort` leaves the
order of equals open, the advice is the set of what may come out. The fleet's status is read twice, as in
the code: `Idle` selects by the text in the table, `Utilisation` counts what `rowToAsset` makes of that
text (`Enumerated`). In Scenarios `job` holds the
statements of the running handler that are left: `EventJob` is "enter the disruption, close each
route, delay the shipments", `ResetJob` is `resetToSeedState` and `seedData`. Nobody reads the tables
between two statements, since one thread serves all, so properties are about tables between handlers and
about what `StatementFails` leaves. `before` is `affected_before`; `failed` and `begun` are history and
bound. `temperature_excursion` is in ColdChain. SeedData has the seeded disruptions, routes, carriers
and assets and the first twenty-five of the seventy-five shipments, which use every route of the table
and one that is not in it, as the others do.

**DashboardDecisions** is one tab: `list` is `state.allShipments`, `decisions` is `state.decisions`,
`panel` the detail panel, whose body is filled when the recommendation arrives. `DetailAnswered`
draws into the panel as it is *then*, because `dashboard.js:514` looks the element up after its
`await`. `gone` records the shipments that a refresh has taken off the list.

## What TLC checks

| Run | Question | Bounds |
|---|---|---|
| `request_server` | Are the multi-statement handlers, with crashes and restarts, atomic to every client (`ImplementsService`)? Do the tables agree between requests (`TablesAgreeWhenIdle`), and is a decision never withdrawn (`DecisionsStand`)? | 2 drivers, 2 seeded requests and up to 1 submitted, both verdicts |
| `request_faults` | What survives failing statements: fresh ids, no notice of a decision that was not made | 1 driver, 1 seeded and 1 submitted request; any number of failures, resets and crashes |
| `admin_console` | `DecidedOnScreenIsDecided`, `DecisionsHitTheirCard` with stale lists and open dialogs | 2 tabs with 1 call each, 2 clicks, 1 reset, 1 submission |
| `admin_converge` | `TabsConverge` (liveness), `DecidedOnScreenIsDecided` with overtaken and lost answers | 1 tab with 2 overlapping calls, 2 clicks, 1 reset, 1 lost call |
| `driver_page` | `PageFollowsSelection` (liveness) | 2 drivers, 2 selections, 2 overlapping calls, 1 decision or reset, 1 lost call |
| `driver_form` | `OneRequestPerForm`, `ButtonReturns` (liveness) | 1 driver, 1 form, 2 lost calls, up to 3 submissions |
| `cold_chain` | Counting equals its definition (`ScanIsReference`), heat is rated at least as documented, alerts only escalate | every history of up to 5 of 3 or 4 temperatures, two configurations |
| `http_server` | Is what arrives in time read whole, however it is cut into pieces (`SentInTimeIsReadWhole`)? What does a request cut short change (`NothingIsMadeOfHalfABody`)? Does the right handler get each request (`RoutedAsIntended`), is every connection closed (`EveryCallEnds`, liveness)? | 2 clients with one call each, 11 requests: one per kind of handler, the overlapping paths, OPTIONS and an unknown path; 2 units of headers, bodies of up to 2, backlog of 1 |
| `scenarios` | What do the tables still say together (`ClosuresExplained`, `DelaysExplained`, `ScenariosOnlyWorsen`, `ResetRestores`), and what is advised on them (`SimulatedAreAvoided`, `AdviceIsSafest`, `ReroutesAreOffered`, `CarrierAdviceIsUsable`, `HighRisksAreAdvised`, `UtilisationAddsUp`)? | the seeded network with 25 shipments, every order of up to 3 scenarios between resets, targets C06 and T215, any statement may fail, any number of resets |
| `dashboard_decisions` | `OnlyApprovedRoutes`, `ApprovedWasAdvised`, `DecisionIsFinal` with panels and lists replaced under way | a seeded shipment and one that comes and goes with `demand_increase` and reset; 2 calls in flight, reordered or lost |
| `cold_below` | violation, see below | as `cold_chain` |
| `delays_documented` | violation, see below | as `scenarios`, one scenario |

The bounds are small because the hazards are: a stale list needs one other actor, an overtaken
answer needs two calls, an id conflict needs a second row in a table whose count went wrong. Two
tabs with one call each cover conflicting decisions, and one tab with two calls covers reordering.
Five readings are enough for three separate excursions, the largest count a threshold names. The
bound `MaxRequests` does not hide an id conflict: the proofs hold for every value. Three scenarios
let any two meet and one of them be sent again; the run uses the seeded rows because the advice
depends on them, and the proofs cover any other rows. A body of two units can be cut before, within
and after; the headers too. `http_server` has CHECK_DEADLOCK FALSE because the two calls end and the
server then waits in `accept`.

What the results say, with the limits that come out of the code:

* A decision can be replaced by another decision (two dashboards with stale lists), and then both
  notifications exist; it is never withdrawn. No handler looks at the status.
* If a statement fails, a request may exist without its notice, or be decided without anyone
  being told. The reverse does not happen, because the request is always written first; only
  a reset that failed between its two DELETEs leaves old notices about ids that are given again
  (`torn`).
* A card never hides a waiting request, whatever the order of the answers, except across a reset,
  when the same id may name another request. The call carries nothing by which the server could
  tell; the properties say "of the same epoch".
* A driver duplicates a request only by submitting again after an error.
* What a client puts on the wire before the server gives up on it is read whole, in whatever pieces.
* A request whose body is cut by a timeout is dispatched all the same. Approve and reject act on it with
  their default text, because they alone catch the parse error and go on; and a notification is
  marked read, as by the whole request, because that handler never reads its body. Nothing else is
  done.
* A scenario that fails half way may leave a disruption without its delays, never a closed route
  without its disruption; sent again it is added again. Its caller reads "Invalid request body".
* A carrier advised after a recall is always in service and cooled where needed; when no other carrier has the
  capacity, capacity is what is given up.
* The number of idle assets on the dashboard and the list of idle assets agree, also for V303, which is
  seeded DELAYED, a status the enumeration does not have: it is counted as active and not on the list.
  A redeployment takes an asset out of maintenance if that is what it is in; the handler does not look.
* A high risk of the dashboard may be left without any recommendation, in exactly one case: the
  route is disrupted and no other is left. After a port strike, which closes both routes out of Chennai, these are
  SH1020 on R09 and, of the seeded rows the run leaves out, SH1053 on R14; the others there are cold
  or critical and have the advice to prioritise them.
* The detail panel of one shipment may show the recommendation, with its buttons, of another that
  was opened before. They decide the shipment they were drawn for, so decisions stay right and the title
  is wrong. A lost answer leaves "Loading" in the panel.
* A decision is final until the page is loaded again, except for a surge shipment that a reset takes
  off the list: its panel keeps its buttons, since the redraw that would lock them finds no shipment.
  Decisions survive a reset of the server.

Fairness. `FairConsoleSpec`: each tab keeps polling, the server serves each call, the
browser runs each continuation; users are not fair and bounds stop them. It is justified by
`setInterval(..., 5000)`, by the sequential accept loop and by the browser's event loop; it does
assume that no other client holds the server for ever. `PortalSpec`: the same, with strong fairness
of polling, because in the model a poll needs one of the bounded `Calls` and clicks may keep taking
them, while the real timer fires regardless. Calls may be lost, at most `MaxLosses` times, so
fairness is of what happens after. HttpServer assumes weak fairness of the server's own steps
and nothing of its clients: the accept loop runs, and `SO_RCVTIMEO` makes `recv` return. It is what
the pages' fairness rests on. Scenarios and DashboardDecisions state safety only: nothing polls the
shipment list, so a stale answer that arrives last stays on screen until the next action.

### Disagreements between the code and its documents

* `cold_below`: `docs/architecture.md:129` measures an excursion by `peak_temp - max_temp (or
  min_temp - temp)`. The code takes the highest reading for both (`cold_chain_service.cpp:77`, `:179`),
  so goods that froze are rated by the warmest reading. TLC shows -3.0 degrees (CRITICAL for a range
  of 2 to 8) become HIGH by one more, normal, reading of 5.0. For histories that never fall below
  the minimum the documented severity is reached (`HeatAtLeastDocumented`).
* `delays_documented`: `docs/src-documentation.md:343-345` lists what the events change: weather "delay+=24;
  C02 carrier shipments AT_RISK; Ahmedabad fleet MAINTENANCE", a road closure "status=DISRUPTED,
  delay+=12; R10 delay+=4; Delhi fleet utilisation +20%", a port strike "delay+=72; R15 AT_RISK; Chennai
  fleet IDLE". The code (`simulation_service.cpp:112`, `:129`, `:147`) adds 18, 6 and 48 hours, sets DELAYED for a
  closure, touches only the shipments on the routes of the disruption, and no carrier's shipments and
  no asset. `docs/solution-overview.md:141` has the 72 hours and the idle fleet, too. TLC shows a road
  closure: SH1007 on R06 gets 6 hours and the shipments on R10 none. `DelaysExplained` states
  the hours of the code.

Seen while modelling, without a run of their own:

* `route_service.cpp:114` tells the caller that the recommended route "avoids the active disruption". What
  it avoids is `routes.is_disrupted`; the seeded R04, R05 and R06 are named by open disruptions
  and not flagged, so that SH1013 is sent to R04. `SimulatedAreAvoided` holds of the scenarios'
  disruptions, which set both.
* `docs/src-documentation.md:882` has "cold-chain routes are refrigerated-capable"; the query does
  ask for it, the fallback after it does not. `CarrierAdviceIsUsable` states the carriers' side, where
  the fallback keeps the condition.
* `docs/src-documentation.md:288`: the carrier service "skips disrupted carriers and those below required
  capacity". It does so at first; if none has the capacity, `carrier_service.cpp:82-89` asks again
  without it, and `CarrierAdviceIsUsable` states just that. The score above that line, `:282-287`, is not the
  code's either: `carrier_service.cpp:98` takes reliability times 50, less 5 per hour of delay and half the cost
  per kilometre (twice the cost, says the comment above it).
* `database.cpp:485` announces a WARNING excursion for SH1001; three readings outside the range are 90
  minutes, three times what is allowed, and CRITICAL. SH1009, "HIGH excursion" in `:502`, is
  CRITICAL as well, with a peak of 11.1 degrees.
* `docs/src-documentation.md:524`: decisions and patched shipment state last "for the browser session". Any
  refresh, also the one after a driver request is decided, replaces the patched list; the
  decisions stay.
* SH1012 is seeded AT_RISK with a delay of 4 hours, scores 0 and is not on the affected list.

## What TLAPS proves

Every safety invariant and action property of the passing runs is a theorem here, for every value of
the constants that satisfies the assumptions named in the modules; no bound but those of the
specifications (`MaxRequests`, `MaxScenarios`, `MaxReadings`), themselves arbitrary. The assumptions
are about the seeded rows and the requests that are made; TLC evaluates each of them on the rows that
`database.cpp` seeds or on the requests of the runs.

* **RequestServiceProofs.** `Invariant`: `Spec => []IInv`. The properties are not inductive one by one.
  That an id from `COUNT(*)` is fresh needs `IdsBelowNext`: generated ids are below the next one,
  which holds because rows leave the table only all at once. That a fresh request has a
  free notification key, and that a decision notice is about a decided request, need
  `KeysNameRequests`: a generated notification key names the request the row is about. There is one
  lemma per handler and one theorem per consequence: `TypeCorrect`, `SubmitIsFresh`, `NoDanglingNotice`,
  `EveryDecisionAnnounced`, `NoNoticeBeforeDecision`.
* **RequestServerProofs.** `ServerInvariant` says what holds between two statements (which keys the tables
  have at each statement, and where in a handler the count may be behind). `ServerTypeCorrect`
  follows from it, and `DecisionsAreFinal`: among all statements only the seeding INSERT can turn
  a decided request back, since a fresh id is never one that is in the table.
  `ServerImplementsService` is the refinement: accepting a call stutters, the first statement of
  a handler is the atomic step, later ones stutter, and a crash is a `Reset`. `TablesAgree` then
  carries the atomic service's properties to the server by instantiating the theorems of
  RequestServiceProofs under the same mapping. With failing statements that invariant is gone; two
  weaker ones are left. `CountedIds`, for `InsertNeverConflicts`, is that the generated ids
  are below the next one, whatever the notifications say. `FaultInv`, for `NothingUnmadeIsTold`, adds that
  a notice of a decision is about a decided request while the tables are not being reset, that
  a handler past its UPDATE has a decided request, and that a reset past its second DELETE has no
  notices, so that it may fail there.
* **AdminConsoleProofs.** The invariant `ConsoleInv` follows the lists: wherever one is, drawn, kept or in
  an answer under way, what it says of a request was true in its epoch, and no step but a reset, which
  begins another, can undo it (`Faithful`); the same for the card of a dialog or of a call
  (`Addressed`). Resets under way are counted, since the epoch is bounded by their number. `ScreenIsTrue`
  and `CardsAreHit` follow for any number of tabs and calls.
* **DriverPortalProofs.** `PortalInv`: while the button is disabled one submission, or the load after it,
  is under way, and no other; the form has produced as many requests as submissions of it have
  failed, and one more once the last one is answered. That gives `OneRequest`, over the invariant
  of the atomic service, for any number of calls and losses.
* **HttpServerProofs**, from `HttpAssumption`, `NobodyAssumption` (nobody is not a client) and, for `Routed`
  only, `EndpointAssumption`; what the pages send is not assumed. The invariant has types and
  phases, what was sent and received by whom, and `Loops`: how `have`, `got` and the phase go together, in
  particular that the header loop hands over exactly the part of the body it has received. With it
  `CutIsHarmless` (`NothingIsMadeOfHalfABody`) follows for any requests, clients and backlog.
  `InTimeIsWhole` (`SentInTimeIsReadWhole`) needs `Timely` besides: who waits is not served, nobody waits
  twice (`Queue`), all that a client in time has asked is on the wire, and it has been received when
  it is handled, since `recv` ends neither loop while something is on the wire and each loop stops only
  where its condition says so. `Routed` is about
  the table of forty routes: the first that matches a path is the most literal one that does.
  `EndpointAssumption` says only that this is what a caller means, whatever the order of the
  table. The argument is a decision on method, length and segments (`Slot`), which finds for any path
  the one route it can fit, but for a path of the alerts, which fits two (`SlotOf`); of these the
  order puts the literal one first. `RoutedFirst` carries it to the outcomes.
* **ScenariosProofs**, from `ScenarioAssumption` (types of the seeded rows). The invariant says which
  statements may be left in `job` for each state of the tables: a `close` is only left after its `enter`, a
  reset's tail clears before it seeds. Hence `Closures`, `Avoided` and `Restores`, for any seed, any
  targets and any number of scenarios, and the theorems about the advice, `Offered` and `Usable`, which hold
  of whatever tables these are. `AddsUp` needs `FleetKept` (assets are lost only within a reset, and a
  status is the seeded one or what a scenario or a redeployment writes), and that the enumeration and
  the SQL text pick the same idle assets. `Worsens` (`ScenariosOnlyWorsen`) needs
  `WorseInv` besides: the score is not monotone from statement to statement, since a road closure turns
  DISRUPTED into DELAYED and so takes five points. A `delay` that is left therefore has thirty points
  to lose, those of its disruption, or has the `enter` that gives them still before it (`Cushioned`).
  `Explained` needs `DelayInv`: an event enters its disruption first and delays its shipments last
  (`EventShape`), so between the two, and for ever when a statement between them fails, the shipments
  on its routes are owed hours that the list already has (`Owed`, `Settled`). A failure may keep
  hours owed, hence the inequality; only after a whole reset and without failures is it an
  equality. Delivered shipments are passed over by the code and by the equality.
  `SurgeAssumption` is that the shipments demand_increase adds are on no route of an event.
  `Safest` needs `KeptRows` (no code writes the risk or hours of a route, or puts a carrier out of
  service that no caller names) and `RiskAssumption`: the code compares one weighted sum of risk and hours,
  which is the documented order only because in the seeded table no difference in hours outweighs
  one in risk. `AdvisedInService` says that a high risk is advised on as long as some carrier is in
  service; `Advised` turns that into `HighRisksAreAdvised` under the hypothesis that one of the
  carriers seeded in service is never named in a carrier_unavailable (the code's default is C07,
  the run's target C06). Without it a caller could put all of them out of service, and then
  there is none left to advise.
* **DashboardDecisionsProofs**, from `DecisionAssumption`: buttons on screen and answers in flight are for
  routes advised for their shipment, and a row whose route is not the table's is the approved one.
  `OnlyApproved`, `Advised` and `Final` follow for any shipments, events and number of calls.
* **ColdChainProofs**, from the configurations' types and `MarginAssumption` (margins and allowed minutes
  are positive, as seeded). The counting loop is a fold, and the theorems are about histories of any
  length, without an induction principle: `FoldDefined` shows that the equation by which the library
  defines a fold has a solution, and what the loop has counted after n readings (`Counted`) is shown
  by taking the least n for which it would be wrong, since the naturals are well founded
  (`CountedFirst`, `CountedNext`). `SpecScan` follows: the loop computes the reference, minutes and
  maximal runs. `SpecHeat` compares the severity with the documented one for histories that never
  undercut the minimum; without that condition it is false, which the run `cold_below` shows.
  `SpecEscalate` combines `CountsGrow` and `LongerIsWorse` (a longer history has no lower peak, no
  fewer minutes and no fewer excursions) with `ClassifyMonotone` (a worse excursion is never
  classified lower).

Only model-checked is liveness: `TabsConverge`, `PageFollowsSelection`, `ButtonReturns` and `EveryCallEnds`
rest on fairness and ENABLED, which tlapm does not treat. The two runs that expect a violation refute
what they check.

## Not modelled

Message wording, timestamps (submitted requests all carry one of six fixed hours, so their
order in the lists is not meaningful), rendering, charts, sorting, the Bob query, timelines, and other
handlers that only read. SQLite and the JSON library are taken as they are: one statement is atomic. Of
the seeded tables seven are left out, which are cleared and filled like the others and only
displayed. Of the HTTP server: buffer limits, and `send` to a client that does not read or has gone,
which may block or raise a signal depending on the platform. The reroute handler has no
caller in the pages; its ids come from a row count as those of requests do. Decisions on carriers
have no buttons. The driver page's shipment lists are loaded at selection only and nothing repairs
a lost or late load; since no property holds of them they are left out. PROJECT.json lists
these and further hazards without a property, each with the reason.

## Plan

In the order in which it was planned, all but the last are done: the atomic request service and its
statement-level server; the two pages; cold chain; HttpServer; Network, Advice and Scenarios;
DashboardDecisions; the proofs of all their safety properties. What is left:

1. The driver page's shipment list and its remembered selection, with the property that the list
   belongs to the driver who was selected when it was asked for.
2. A scenario and a dashboard in one composition: DashboardDecisions over Scenarios' tables in place
   of its own two columns, to state what the panel says about the advice at the time it is drawn.
3. The reroute handler, if a page comes to call it.
