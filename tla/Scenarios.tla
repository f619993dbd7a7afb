------------------------------ MODULE Scenarios ------------------------------
(***************************************************************************)
(* The what-if scenarios, statement by statement.  One thread serves the   *)
(* requests, so nobody reads the tables between two statements of a        *)
(* scenario; but a statement may throw, and then the rest of the scenario  *)
(* is not run, what has been written stays, and the caller is told that    *)
(* its request was invalid.  A caller may send any scenario again.         *)
(***************************************************************************)
EXTENDS Advice

CONSTANTS
    SeedDisruptions, SeedRoutes, SeedCarriers, SeedShipments, SeedAssets,
    Surge,          \* the rows that demand_increase adds
    CarrierTargets, \* carriers and
    AssetTargets,   \* assets a caller names as targets
    MaxScenarios    \* bound: scenarios begun between two whole resets

RouteRow ==
    [origin : STRING, destination : STRING, hours : Nat, risk : Nat, cost : Nat,
     down : BOOLEAN, cooled : BOOLEAN]

CarrierRow ==
    [capacity : Nat, reliability : Nat, cost : Nat, delay : Nat, cold : BOOLEAN, down : BOOLEAN]

ShipmentRow ==
    [origin : STRING, destination : STRING, route : STRING, carrier : STRING,
     status : {"ON_TIME", "AT_RISK", "DELAYED", "DISRUPTED", "DELIVERED"},
     priority : STRING, cold : BOOLEAN, delay : Nat]

AssetStatuses == {"MAINTENANCE", "IN_TRANSIT"} \cup {SeedAssets[a].status : a \in DOMAIN SeedAssets}

AssetRow ==
    [type : STRING, location : STRING, status : AssetStatuses, used : Nat, cooled : BOOLEAN]

ASSUME ScenarioAssumption ==
    /\ \A i \in DOMAIN SeedDisruptions : SeedDisruptions[i].status \in {"ACTIVE", "MONITORING"}
    /\ SeedDisruptions \in Seq(Range(SeedDisruptions))
    /\ SeedRoutes \in [DOMAIN SeedRoutes -> RouteRow]
    /\ SeedCarriers \in [DOMAIN SeedCarriers -> CarrierRow]
    /\ SeedShipments \in [DOMAIN SeedShipments -> ShipmentRow]
    /\ Surge \in [DOMAIN Surge -> ShipmentRow]
    /\ SeedAssets \in [DOMAIN SeedAssets -> AssetRow]
    /\ IsFiniteSet(DOMAIN SeedCarriers) /\ IsFiniteSet(DOMAIN SeedAssets)
    /\ MaxScenarios \in Nat

\* A route of less risk is not longer by as much as the weight of the risk. So it
\* is in the seeded table, and no code writes these two columns afterwards.
ASSUME RiskAssumption ==
    \A q, r \in DOMAIN SeedRoutes :
        SeedRoutes[q].risk < SeedRoutes[r].risk =>
            SeedRoutes[q].hours \div 10 - SeedRoutes[r].hours \div 10
                < 100 * (SeedRoutes[r].risk - SeedRoutes[q].risk)

VARIABLES
    job,        \* the statements of the running scenario that are left
    before,     \* affected_before of the running scenario: shipment -> score
    failed,     \* since the last whole reset: "nothing", a "scenario" or a "reset"
                \* has been left half done
    begun       \* the scenarios begun since then

vars == <<tables, job, before, failed, begun>>

-----------------------------------------------------------------------------
(* The scenarios *)

Statement(op, on) == [op |-> op, on |-> on]

Weather == [routes |-> <<"R05", "R13">>, severity |-> "HIGH", status |-> "DISRUPTED", hours |-> 18]
RoadClosure == [routes |-> <<"R06">>, severity |-> "MEDIUM", status |-> "DELAYED", hours |-> 6]
PortStrike == [routes |-> <<"R09", "R14">>, severity |-> "HIGH", status |-> "DISRUPTED", hours |-> 48]

\* No row that demand_increase adds is on a route that an event closes.
ASSUME SurgeAssumption ==
    \A s \in DOMAIN Surge, x \in {Weather, RoadClosure, PortStrike} :
        Surge[s].route \notin Range(x.routes)

\* Mutant of EventJob: the routes are closed before the disruption is entered.
EventJobSwapped(x) ==
    [i \in 1..Len(x.routes) |-> Statement("close", x.routes[i])]
    \o <<Statement("enter", x), Statement("delay", x)>>

\* The disruption, each of its routes, then the shipments on them.
EventJob(x) ==
    <<Statement("enter", x)>>
    \o [i \in 1..Len(x.routes) |-> Statement("close", x.routes[i])]
    \o <<Statement("delay", x)>>

RecallJob(c) == <<Statement("recall", c), Statement("risk", c)>>
GroundJob(a) == <<Statement("ground", a)>>
SurgeJob == <<Statement("surge", "shipments")>>
MoveJob(a) == <<Statement("move", a)>>

TableNames == <<"disruptions", "routes", "carriers", "shipments", "assets">>

\* Mutant of SeedJob: seedData without seedFleetAssets.
SeedJobShort ==
    [i \in 1..8 |-> Statement(IF i % 2 = 1 THEN "clear" ELSE "seed", TableNames[(i + 1) \div 2])]

\* seedData: every table is cleared and filled in turn.
SeedJob ==
    [i \in 1..10 |-> Statement(IF i % 2 = 1 THEN "clear" ELSE "seed", TableNames[(i + 1) \div 2])]

\* resetToSeedState: every table is cleared, then seedData.
ResetJob == [i \in 1..5 |-> Statement("clear", TableNames[i])] \o SeedJob

-----------------------------------------------------------------------------
Seeded ==
    /\ disruptions = SeedDisruptions /\ routes = SeedRoutes /\ carriers = SeedCarriers
    /\ shipments = SeedShipments /\ assets = SeedAssets

Init == Seeded /\ job = <<>> /\ before = <<>> /\ failed = "nothing" /\ begun = 0

\* The handler starts on the statements of j.
Begin(j) == job = <<>> /\ job' = j /\ UNCHANGED <<tables, failed>>

\* applyScenario takes its first snapshot.
BeginScenario(j) ==
    /\ Begin(j) /\ begun < MaxScenarios
    /\ before' = Impact /\ begun' = begun + 1

ApplyEvent == \E x \in {Weather, RoadClosure, PortStrike} : BeginScenario(EventJob(x))
ApplyCarrierUnavailable == \E c \in CarrierTargets : BeginScenario(RecallJob(c))
ApplyFleetUnavailable == \E a \in AssetTargets : BeginScenario(GroundJob(a))
ApplyDemandIncrease == BeginScenario(SurgeJob)

\* POST /api/fleet/redeploy, for an asset in whatever state.
Redeploy == \E a \in AssetTargets : BeginScenario(MoveJob(a))

\* Of a reset the snapshot is not kept.
Reset == Begin(ResetJob) /\ UNCHANGED <<before, begun>>

\* The statement of the job that is executed, and what follows it.
Doing(op) == job # <<>> /\ Head(job).op = op
On == Head(job).on

Done ==
    /\ job' = Tail(job)
    /\ before' = IF Len(job) = 1 THEN <<>> ELSE before

\* Only a reset clears and fills tables.
Resetting == job # <<>> /\ job[Len(job)].op = "seed"

\* DisruptionService::addDisruption
Enter ==
    /\ Doing("enter") /\ Done
    /\ disruptions' = Append(disruptions,
                             [routes |-> Range(On.routes), severity |-> On.severity,
                              status |-> "ACTIVE"])
    /\ UNCHANGED <<routes, carriers, shipments, assets, failed, begun>>

\* Mutant of Close: a route that is not in the table is written into it.
CloseWrites ==
    /\ Doing("close") /\ Done
    /\ routes' = [r \in DOMAIN routes \cup {On} |->
                     IF r = On THEN [SeedRoutes[r] EXCEPT !.down = TRUE] ELSE routes[r]]
    /\ UNCHANGED <<disruptions, carriers, shipments, assets, failed, begun>>

\* DisruptionService::setRouteDisrupted
Close ==
    /\ Doing("close") /\ Done
    /\ routes' = [r \in DOMAIN routes |->
                     IF r = On THEN [routes[r] EXCEPT !.down = TRUE] ELSE routes[r]]
    /\ UNCHANGED <<disruptions, carriers, shipments, assets, failed, begun>>

\* Mutant of Delay: the delay is set where it should be added.
DelaySet ==
    /\ Doing("delay") /\ Done
    /\ shipments' =
           [s \in DOMAIN shipments |->
               IF shipments[s].route \in Range(On.routes) /\ shipments[s].status # "DELIVERED"
               THEN [shipments[s] EXCEPT !.status = On.status, !.delay = On.hours]
               ELSE shipments[s]]
    /\ UNCHANGED <<disruptions, routes, carriers, assets, failed, begun>>

\* The row of a shipment that the event delays.
Delayed(row) == [row EXCEPT !.status = On.status, !.delay = @ + On.hours]

\* The shipments on the routes of the event.
Delay ==
    /\ Doing("delay") /\ Done
    /\ shipments' =
           [s \in DOMAIN shipments |->
               IF shipments[s].route \in Range(On.routes) /\ shipments[s].status # "DELIVERED"
               THEN Delayed(shipments[s]) ELSE shipments[s]]
    /\ UNCHANGED <<disruptions, routes, carriers, assets, failed, begun>>

\* Mutant of Recall: a second recall of a carrier takes the first one back.
RecallToggles ==
    /\ Doing("recall") /\ Done
    /\ carriers' = [c \in DOMAIN carriers |->
                       IF c = On THEN [carriers[c] EXCEPT !.down = ~@] ELSE carriers[c]]
    /\ UNCHANGED <<disruptions, routes, shipments, assets, failed, begun>>

\* DisruptionService::setCarrierDisrupted
Recall ==
    /\ Doing("recall") /\ Done
    /\ carriers' = [c \in DOMAIN carriers |->
                       IF c = On THEN [carriers[c] EXCEPT !.down = TRUE] ELSE carriers[c]]
    /\ UNCHANGED <<disruptions, routes, shipments, assets, failed, begun>>

Risk ==
    /\ Doing("risk") /\ Done
    /\ shipments' =
           [s \in DOMAIN shipments |->
               IF shipments[s].carrier = On /\ shipments[s].status = "ON_TIME"
               THEN [shipments[s] EXCEPT !.status = "AT_RISK"] ELSE shipments[s]]
    /\ UNCHANGED <<disruptions, routes, carriers, assets, failed, begun>>

Ground ==
    /\ Doing("ground") /\ Done
    /\ assets' = [a \in DOMAIN assets |->
                     IF a = On THEN [assets[a] EXCEPT !.status = "MAINTENANCE", !.used = 0]
                     ELSE assets[a]]
    /\ UNCHANGED <<disruptions, routes, carriers, shipments, failed, begun>>

\* FleetService::updateStatus
Move ==
    /\ Doing("move") /\ Done
    /\ assets' = [a \in DOMAIN assets |->
                     IF a = On THEN [assets[a] EXCEPT !.status = "IN_TRANSIT"] ELSE assets[a]]
    /\ UNCHANGED <<disruptions, routes, carriers, shipments, failed, begun>>

\* INSERT OR IGNORE: a row that is there already stays as it is.
AddSurge ==
    /\ Doing("surge") /\ Done
    /\ shipments' = [s \in DOMAIN shipments \cup DOMAIN Surge |->
                        IF s \in DOMAIN shipments THEN shipments[s] ELSE Surge[s]]
    /\ UNCHANGED <<disruptions, routes, carriers, assets, failed, begun>>

\* Table t becomes as rows say, when the statement is about it.
Becomes(t, table, rows) == IF On = t THEN rows ELSE table

ClearTable ==
    /\ Doing("clear") /\ Done
    /\ disruptions' = Becomes("disruptions", disruptions, <<>>)
    /\ routes' = Becomes("routes", routes, <<>>)
    /\ carriers' = Becomes("carriers", carriers, <<>>)
    /\ shipments' = Becomes("shipments", shipments, <<>>)
    /\ assets' = Becomes("assets", assets, <<>>)
    /\ UNCHANGED <<failed, begun>>

SeedTable ==
    /\ Doing("seed") /\ Done
    /\ disruptions' = Becomes("disruptions", disruptions, SeedDisruptions)
    /\ routes' = Becomes("routes", routes, SeedRoutes)
    /\ carriers' = Becomes("carriers", carriers, SeedCarriers)
    /\ shipments' = Becomes("shipments", shipments, SeedShipments)
    /\ assets' = Becomes("assets", assets, SeedAssets)
    /\ failed' = IF Len(job) = 1 THEN "nothing" ELSE failed
    /\ begun' = IF Len(job) = 1 THEN 0 ELSE begun

\* A statement throws: the handler answers and drops the rest.
StatementFails ==
    /\ job # <<>>
    /\ job' = <<>> /\ before' = <<>>
    /\ failed' = IF Resetting \/ failed = "reset" THEN "reset" ELSE "scenario"
    /\ UNCHANGED <<tables, begun>>

Begun ==
    \/ ApplyEvent \/ ApplyCarrierUnavailable \/ ApplyFleetUnavailable
    \/ ApplyDemandIncrease \/ Redeploy \/ Reset

Executed ==
    \/ Enter \/ Close \/ Delay \/ Recall \/ Risk \/ Ground \/ Move \/ AddSurge
    \/ ClearTable \/ SeedTable

Next == Begun \/ Executed \/ StatementFails

Spec == Init /\ [][Next]_vars

-----------------------------------------------------------------------------
(* Properties *)

\* Every variable has its type; a row keeps the id it was seeded with.
ScenariosTypeOK ==
    /\ \A i \in DOMAIN disruptions : disruptions[i].status \in {"ACTIVE", "MONITORING"}
    /\ DOMAIN routes \in {{}, DOMAIN SeedRoutes}
    /\ \A r \in DOMAIN routes : routes[r].down \in BOOLEAN
    /\ DOMAIN shipments \subseteq DOMAIN SeedShipments \cup DOMAIN Surge
    /\ failed \in {"nothing", "scenario", "reset"}
    /\ job = <<>> => before = <<>>

\* No reset is running or has been left half done.
Whole == failed # "reset" /\ ~Resetting

\* A route that is closed although it was seeded open is closed by a disruption
\* that is on the list: a scenario that fails half way never takes a route out
\* of service without the event that explains it.
ClosuresExplained ==
    Whole => \A r \in DOMAIN routes :
                routes[r].down => SeedRoutes[r].down \/ Naming(r) # {}

\* The simulated disruptions are those after the seeded ones.
Simulated == Len(SeedDisruptions) + 1 .. Len(disruptions)

\* The hours that the simulated disruptions of event x have added to a shipment
\* on one of its routes.
Added(s, x) ==
    IF shipments[s].route \in Range(x.routes)
    THEN x.hours * Cardinality({i \in Simulated : disruptions[i].routes = Range(x.routes)})
    ELSE 0

Lag(s) == Added(s, Weather) + Added(s, RoadClosure) + Added(s, PortStrike)

SeededDelay(s) == IF s \in DOMAIN SeedShipments THEN SeedShipments[s].delay ELSE Surge[s].delay

\* The hours of delay of a shipment are its seeded ones and those of every
\* simulated event on its route, an event that was sent twice twice; with
\* statements that failed they are never more. Delivered goods are not delayed.
\* The hours are those of the UPDATE statements of simulation_service.cpp, 18, 6
\* and 48; docs/src-documentation.md:343-345 has others, see DelaysAsDocumented.
DelaysExplained ==
    Whole => \A s \in DOMAIN shipments :
        /\ shipments[s].delay <= SeededDelay(s) + Lag(s)
        /\ failed = "nothing" /\ job = <<>> /\ shipments[s].status # "DELIVERED" =>
               shipments[s].delay = SeededDelay(s) + Lag(s)

\* The hours that the document counts for the simulated disruptions on route r: a
\* road closure delays R10, too.
DocumentedLag(r) ==
    LET Times(x) == Cardinality({i \in Simulated : disruptions[i].routes = Range(x.routes)})
    IN  Points(24, r \in Range(Weather.routes)) * Times(Weather)
        + (Points(12, r \in Range(RoadClosure.routes)) + Points(4, r = "R10")) * Times(RoadClosure)
        + Points(72, r \in Range(PortStrike.routes)) * Times(PortStrike)

\* What docs/src-documentation.md:343-345 says of the delays: 24 hours for the
\* weather, 12 for a road closure and 4 on R10, 72 for a port strike. The code
\* adds other hours, and none on R10.
DelaysAsDocumented ==
    failed = "nothing" /\ job = <<>> =>
        \A s \in DOMAIN shipments :
            shipments[s].status # "DELIVERED" =>
                shipments[s].delay = SeededDelay(s) + DocumentedLag(shipments[s].route)

\* No scenario, whole or cut short by a failing statement, takes a shipment off
\* the list of the affected or lowers its score: only a reset does.
ScenariosOnlyWorsen ==
    [][job # <<>> /\ job' = <<>> /\ ~Resetting =>
           \A s \in DOMAIN before : s \in Affected' /\ ImpactScore(s)' >= before[s]]_vars

\* A reset that runs to its end leaves the seeded tables, whatever scenarios and
\* failures came before it.
ResetRestores == [][Resetting /\ job' = <<>> /\ failed' = "nothing" => Seeded']_vars

\* After whole scenarios the advice leads onto no route of a simulated
\* disruption, although it looks at routes.is_disrupted only, and the
\* disruptions are in another table.
SimulatedAreAvoided ==
    failed = "nothing" /\ job = <<>> =>
        \A s \in DOMAIN shipments : \A r \in RouteAdvice(s) : Naming(r) \cap Simulated = {}

\* What is advised has the lowest risk of all that was considered and, among
\* equals, the least time up to the hour: the weighted score is that order.
AdviceIsSafest ==
    job = <<>> => \A s \in DOMAIN shipments : \A r \in RouteAdvice(s), q \in Candidates(s) :
        \/ routes[r].risk < routes[q].risk
        \/ routes[r].risk = routes[q].risk /\ routes[r].hours \div 10 <= routes[q].hours \div 10

\* A shipment on the route of a simulated disruption is on the list of the
\* affected, and there is a recommendation to reroute it unless no route is
\* left for it.
ReroutesAreOffered ==
    Whole /\ job = <<>> /\ Simulated # {} =>
        LET affected == Affected
            rerouted == {a.target : a \in Reroutes}
        IN  \A i \in Simulated : \A s \in ShipmentsOf(i) :
                /\ s \in affected
                /\ RouteAdvice(s) # {} => s \in rerouted

\* A carrier that is advised is in service and cooled where that is needed,
\* also when the required capacity had to be given up, and it never is given up
\* while another carrier has it. This is what the relaxed query of
\* carrier_service.cpp:82-89 does; docs/src-documentation.md:288 says instead that
\* carriers below the required capacity are skipped.
CarrierAdviceIsUsable ==
    job = <<>> => \A s \in DOMAIN shipments, required \in {5000, 200000} :
        LET row == shipments[s]
        IN  \A c \in CarrierAdvice(row.carrier, row.cold, required) :
                /\ ~carriers[c].down
                /\ c # row.carrier /\ row.cold => carriers[c].cold
                /\ \/ carriers[c].capacity >= required
                   \/ \A d \in Able(row.carrier, row.cold) : carriers[d].capacity < required

\* Two readings of the fleet agree: the dashboard's number of idle assets, counted
\* by the enumerated status, is the length of the list selected by its text,
\* whatever text a row holds. No scenario or redeployment, whole or cut short,
\* loses an asset from the counts, and one that has been sent away or has broken
\* down is not advised again before a reset.
UtilisationAddsUp ==
    LET u == Utilisation
    IN  /\ Kpi.idle_assets = Cardinality(Idle)
        /\ Whole => /\ u.active + u.idle + u.maintenance = Cardinality(DOMAIN SeedAssets)
                    /\ \A a \in Redeployable : SeedAssets[a].status \in {"IDLE", "AVAILABLE"}

\* A high or critical risk of the dashboard for which nothing is recommended is
\* on a disrupted route from which no other is left; whoever suffers from a
\* carrier alone, or needs priority, always has a recommendation.
HighRisksAreAdvised ==
    Whole /\ job = <<>> =>
        LET targets == {a.target : a \in GenerateAll}
        IN  \A s \in HighRisks \ targets :
                RouteAdvice(s) = {} /\ Naming(shipments[s].route) # {}
=============================================================================
