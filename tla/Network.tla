------------------------------- MODULE Network -------------------------------
(***************************************************************************)
(* The logistics network as the database holds it, and the impact analysis *)
(* that is recomputed from it on every query: which disruptions are open,  *)
(* which shipments they affect, and how badly.                             *)
(*                                                                         *)
(* Tables are functions from row ids to rows; disruptions is the table in  *)
(* the order of its ids.  Only the columns that the analysis, the advice   *)
(* and the scenarios read or write are kept.                               *)
(***************************************************************************)
EXTENDS Integers, Sequences, FiniteSets, FiniteSetsExt, Functions

VARIABLES
    disruptions,    \* rows [routes, severity, status], in the order of their ids
    routes,         \* id -> [origin, destination, hours, risk, cost, down, cooled]
    carriers,       \* id -> [capacity, reliability, cost, delay, cold, down]
    shipments,      \* id -> [origin, destination, route, carrier, status, priority, cold, delay]
    assets          \* id -> [type, location, status, used, cooled]

tables == <<disruptions, routes, carriers, shipments, assets>>

-----------------------------------------------------------------------------
(* DisruptionService *)

\* getActiveDisruptions, as positions in the table.
Active == {i \in DOMAIN disruptions : disruptions[i].status \in {"ACTIVE", "MONITORING"}}

\* The open disruptions that name route r.
Naming(r) == {i \in Active : r \in disruptions[i].routes}

\* getAffectedShipmentIds
ShipmentsOf(i) ==
    {s \in DOMAIN shipments :
        shipments[s].route \in disruptions[i].routes /\ shipments[s].status # "DELIVERED"}

-----------------------------------------------------------------------------
(* ShipmentService *)

CarrierDown(c) == c \in DOMAIN carriers /\ carriers[c].down

\* The points that computeImpactScore gives for the delay, ...
DelayPoints(h) == IF h >= 48 THEN 20 ELSE IF h >= 24 THEN 12 ELSE IF h >= 6 THEN 6 ELSE 0

\* ... and for the priority.
PriorityPoints(p) == IF p = "CRITICAL" THEN 15 ELSE IF p = "HIGH" THEN 10 ELSE 0

Points(points, condition) == IF condition THEN points ELSE 0

\* computeImpactScore, capped at 100.
ImpactScore(s) ==
    LET row == shipments[s]
        sum == Points(20, CarrierDown(row.carrier)) + 30 * Cardinality(Naming(row.route))
               + DelayPoints(row.delay) + PriorityPoints(row.priority)
               + Points(10, row.cold) + Points(5, row.status = "DISRUPTED")
    IN  IF sum > 100 THEN 100 ELSE sum

\* getAffectedShipments, without its order.
Affected ==
    {s \in DOMAIN shipments :
        /\ shipments[s].status # "DELIVERED"
        /\ \/ Naming(shipments[s].route) # {}
           \/ CarrierDown(shipments[s].carrier)
           \/ shipments[s].delay > 0
        /\ ImpactScore(s) > 0}

\* The affected shipments with their scores, as they are reported.
Impact == [s \in Affected |-> ImpactScore(s)]
=============================================================================
