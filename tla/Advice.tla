------------------------------- MODULE Advice --------------------------------
(***************************************************************************)
(* What the services advise, given the tables: routes, carriers, fleet     *)
(* moves, and the list of recommendations the dashboard shows.             *)
(*                                                                         *)
(* Where a query leaves the order of equal rows to SQLite, or std::sort    *)
(* that of equal scores, the advice is the set of what may be chosen.      *)
(* Hours of routes and costs of carriers are in tenths, reliability in     *)
(* hundredths, so that the scores the code compares are whole numbers.     *)
(***************************************************************************)
EXTENDS Network, TLC

-----------------------------------------------------------------------------
(* RouteService *)

\* Mutant of Free: routes.is_disrupted is not looked at.
FreeAny(current) == DOMAIN routes \ {current}

\* The routes a recommendation may name at all.
Free(current) == {r \in DOMAIN routes \ {current} : ~routes[r].down}

\* Routes that serve the corridor of s, given its route; refrigerated for cold
\* chain.
SameCorridor(s) ==
    LET row == shipments[s]
        current == routes[row.route]
    IN  {r \in Free(row.route) :
            /\ row.cold => routes[r].cooled
            /\ routes[r].origin \in {row.origin, current.origin}
            /\ routes[r].destination \in {row.destination, current.destination}}

\* Routes that share an end with s, three of the least risk, then of the least
\* cost; whether they are refrigerated is not asked.
Nearby(s) ==
    LET row == shipments[s]
        close == {r \in Free(row.route) :
                     \/ routes[r].origin = row.origin
                     \/ routes[r].destination = row.destination}
        Sooner(q, r) == \/ routes[q].risk < routes[r].risk
                        \/ routes[q].risk = routes[r].risk /\ routes[q].cost < routes[r].cost
    IN  {r \in close : Cardinality({q \in close : Sooner(q, r)}) < 3}

\* None if the current route is not in the table, as for many seeded shipments.
Candidates(s) ==
    IF shipments[s].route \notin DOMAIN routes THEN {}
    ELSE LET same == SameCorridor(s) IN IF same # {} THEN same ELSE Nearby(s)

\* Mutant of RouteKey: hours weigh as much as risk.
RouteKeyEven(r) == routes[r].risk + routes[r].hours \div 10

RouteKey(r) == routes[r].risk * 100 + routes[r].hours \div 10

\* RouteService::recommend: the best of the candidates, if there are any.
RouteAdvice(s) ==
    LET candidates == Candidates(s)
    IN  {r \in candidates : \A q \in candidates : RouteKey(r) <= RouteKey(q)}

-----------------------------------------------------------------------------
(* CarrierService *)

\* Carriers that may take over from c: up, and cooled for a cold shipment.
Able(c, cold) ==
    {d \in DOMAIN carriers \ {c} : ~carriers[d].down /\ (cold => carriers[d].cold)}

\* Three of the largest capacity, then of the greatest reliability.
Largest(set) ==
    LET Larger(d, e) ==
            \/ carriers[d].capacity > carriers[e].capacity
            \/ /\ carriers[d].capacity = carriers[e].capacity
               /\ carriers[d].reliability > carriers[e].reliability
    IN  {d \in set : Cardinality({e \in set : Larger(e, d)}) < 3}

CarrierScore(d) ==
    50 * carriers[d].reliability - 500 * carriers[d].delay - 5 * carriers[d].cost

\* Mutant of CarrierChoice: the capacity is relaxed together with the recall.
CarrierChoiceRelaxed(c, cold, required) ==
    LET fit == {d \in Able(c, cold) : carriers[d].capacity >= required}
    IN  IF fit # {} THEN fit ELSE Largest(DOMAIN carriers \ {c})

\* Those with the capacity, or whichever are largest if none has it.
CarrierChoice(c, cold, required) ==
    LET fit == {d \in Able(c, cold) : carriers[d].capacity >= required}
    IN  IF fit # {} THEN fit ELSE Largest(Able(c, cold))

\* CarrierService::recommend: the present carrier if it can do it, else the
\* best of the others.
CarrierAdvice(c, cold, required) ==
    IF c \in DOMAIN carriers /\ ~carriers[c].down /\ carriers[c].capacity >= required THEN {c}
    ELSE LET choice == CarrierChoice(c, cold, required)
         IN  {d \in choice : \A e \in choice : CarrierScore(d) >= CarrierScore(e)}

-----------------------------------------------------------------------------
(* FleetService *)

\* getIdleAssets selects by the text of the status.
Idle == {a \in DOMAIN assets : assets[a].status \in {"IDLE", "AVAILABLE"}}

\* Mutant of Enumerated: a status that is not known is the last enumerator.
EnumeratedOpen(a) ==
    IF assets[a].status \in {"ACTIVE", "IN_TRANSIT", "IDLE", "MAINTENANCE"}
    THEN assets[a].status ELSE "AVAILABLE"

\* rowToAsset: the enumeration takes every other text for ACTIVE.
Enumerated(a) ==
    IF assets[a].status \in {"IN_TRANSIT", "IDLE", "AVAILABLE", "MAINTENANCE"}
    THEN assets[a].status ELSE "ACTIVE"

Enumerating(statuses) == {a \in DOMAIN assets : Enumerated(a) \in statuses}

\* The shipments in trouble at a destination: the demand there.
Troubled(place) ==
    {s \in DOMAIN shipments :
        /\ shipments[s].destination = place
        /\ shipments[s].status \in {"DISRUPTED", "AT_RISK", "DELAYED"}}

Demand ==
    [p \in {shipments[s].destination : s \in DOMAIN shipments} |-> Cardinality(Troubled(p))]

Suits(a, place) ==
    /\ assets[a].location # place
    /\ (\E s \in Troubled(place) : shipments[s].cold) => assets[a].cooled
    /\ assets[a].type = "VESSEL" => place \in {"Mumbai", "Chennai", "Kolkata", "JNPT"}

\* getRedeploymentRecommendations: where each idle asset may be sent, of the
\* five destinations in the greatest demand.
RedeployTo ==
    LET demand == Demand
        wanting == {p \in DOMAIN demand : demand[p] > 0}
        hotspots == {p \in wanting : Cardinality({q \in wanting : demand[q] > demand[p]}) < 5}
        Fit(a) == {p \in hotspots : Suits(a, p)}
    IN  [a \in Idle |-> {p \in Fit(a) : \A q \in Fit(a) : demand[p] >= demand[q]}]

\* The idle assets with a place to go.
Redeployable ==
    LET to == RedeployTo IN {a \in Idle : to[a] # {}}

\* getUtilisation counts the enumeration, whatever getIdleAssets selects.
Utilisation ==
    [total |-> Cardinality(DOMAIN assets),
     active |-> Cardinality(Enumerating({"ACTIVE", "IN_TRANSIT"})),
     idle |-> Cardinality(Enumerating({"IDLE", "AVAILABLE"})),
     maintenance |-> Cardinality(Enumerating({"MAINTENANCE"})),
     opportunities |-> Cardinality(Redeployable)]

-----------------------------------------------------------------------------
(* RecommendationService *)

Recommendation(type, target, priority) ==
    [type |-> type, target |-> target, priority |-> priority]

\* Mutant of Urgent: the threshold of the label CRITICAL.
UrgentCritical == {s \in Affected : ImpactScore(s) >= 75}

\* The shipments generateAll looks at.
Urgent == {s \in Affected : ImpactScore(s) >= 25}

Grade(score, low) == IF score >= 75 THEN "CRITICAL" ELSE IF score >= 50 THEN "HIGH" ELSE low

Reroutes ==
    {Recommendation("REROUTE_SHIPMENT", s, Grade(ImpactScore(s), "MEDIUM")) :
        s \in {u \in Urgent : RouteAdvice(u) # {}}}

CarrierChanges ==
    {Recommendation("CHANGE_CARRIER", s, Grade(ImpactScore(s), "HIGH")) :
        s \in {u \in Urgent : /\ CarrierDown(shipments[u].carrier)
                              /\ CarrierAdvice(shipments[u].carrier, shipments[u].cold, 5000) # {}}}

Priorities ==
    {Recommendation("PRIORITISE_SHIPMENT", s, "HIGH") :
        s \in {u \in Urgent : shipments[u].priority = "CRITICAL" \/ shipments[u].cold}}

Redeployments ==
    {Recommendation("REDEPLOY_FLEET", a, "MEDIUM") : a \in Redeployable}

Monitors ==
    {Recommendation("MONITOR_DISRUPTION", "Disruption-" \o ToString(i),
                    IF disruptions[i].severity = "CRITICAL" THEN "HIGH" ELSE "MEDIUM") :
        i \in Active}

\* generateAll without the cold-chain reviews, which are those of ColdChain.
GenerateAll == Reroutes \cup CarrierChanges \cup Priorities \cup Redeployments \cup Monitors

HighRisks == {s \in Affected : ImpactScore(s) >= 50}

\* The numbers of handleDashboard.
Kpi ==
    [active_disruptions |-> Cardinality(Active), affected_shipments |-> Cardinality(Affected),
     idle_assets |-> Utilisation.idle, high_critical_risks |-> Cardinality(HighRisks)]
=============================================================================
