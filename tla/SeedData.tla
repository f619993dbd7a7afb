------------------------------ MODULE SeedData -------------------------------
(***************************************************************************)
(* The rows that seedData writes and demand_increase adds, in the columns  *)
(* of Network.  Of the shipments these are the first twenty-five, which    *)
(* use every route of the table and one that is not in it, as the other    *)
(* fifty do.                                                               *)
(***************************************************************************)
EXTENDS Integers

DisruptionRows == <<
    [routes |-> {"R01", "R02", "R08"}, severity |-> "CRITICAL", status |-> "ACTIVE"],
    [routes |-> {"R03", "R09"}, severity |-> "HIGH", status |-> "ACTIVE"],
    [routes |-> {"R01", "R04"}, severity |-> "MEDIUM", status |-> "ACTIVE"],
    [routes |-> {"R05", "R06"}, severity |-> "HIGH", status |-> "MONITORING"],
    [routes |-> {"R07"}, severity |-> "MEDIUM", status |-> "MONITORING"]>>

Route(origin, destination, hours, risk, cost, down, cooled) ==
    [origin |-> origin, destination |-> destination, hours |-> hours, risk |-> risk,
     cost |-> cost, down |-> down, cooled |-> cooled]

RouteRows == [
    R01 |-> Route("Mumbai", "Delhi", 180, 45, 850, TRUE, FALSE),
    R02 |-> Route("Mumbai", "Chennai", 520, 70, 600, TRUE, TRUE),
    R03 |-> Route("JNPT", "Kolkata", 960, 80, 900, TRUE, TRUE),
    R04 |-> Route("Pune", "Mumbai", 35, 10, 120, FALSE, FALSE),
    R05 |-> Route("Mumbai", "Ahmedabad", 80, 12, 320, FALSE, FALSE),
    R06 |-> Route("Delhi", "Jaipur", 55, 8, 180, FALSE, FALSE),
    R07 |-> Route("Mumbai", "Dubai", 1200, 35, 1800, TRUE, TRUE),
    R08 |-> Route("Mumbai", "Goa", 120, 55, 380, TRUE, FALSE),
    R09 |-> Route("Chennai", "JNPT", 600, 60, 750, TRUE, TRUE),
    R10 |-> Route("Delhi", "Kolkata", 220, 15, 920, FALSE, FALSE),
    R11 |-> Route("Mumbai", "Delhi", 240, 8, 680, FALSE, TRUE),
    R12 |-> Route("Pune", "Delhi", 200, 18, 930, FALSE, FALSE),
    R13 |-> Route("Ahmedabad", "Mumbai", 90, 10, 340, FALSE, FALSE),
    R14 |-> Route("Chennai", "Bangalore", 60, 9, 220, FALSE, FALSE),
    R15 |-> Route("Mumbai", "Chennai", 220, 7, 700, FALSE, TRUE)]

Carrier(capacity, reliability, cost, delay, cold, down) ==
    [capacity |-> capacity, reliability |-> reliability, cost |-> cost, delay |-> delay,
     cold |-> cold, down |-> down]

CarrierRows == [
    C01 |-> Carrier(85000, 92, 45, 1, FALSE, FALSE),
    C02 |-> Carrier(30000, 78, 38, 3, FALSE, TRUE),
    C03 |-> Carrier(200000, 88, 12, 4, TRUE, TRUE),
    C04 |-> Carrier(8000, 97, 250, 0, TRUE, FALSE),
    C05 |-> Carrier(180000, 91, 21, 2, TRUE, FALSE),
    C06 |-> Carrier(40000, 94, 62, 1, TRUE, FALSE),
    C07 |-> Carrier(70000, 89, 51, 2, FALSE, FALSE),
    C08 |-> Carrier(25000, 85, 70, 1, FALSE, FALSE),
    C09 |-> Carrier(280000, 86, 10, 6, TRUE, TRUE),
    C10 |-> Carrier(35000, 82, 40, 3, FALSE, FALSE)]

Shipment(origin, destination, route, carrier, status, priority, cold, delay) ==
    [origin |-> origin, destination |-> destination, route |-> route, carrier |-> carrier,
     status |-> status, priority |-> priority, cold |-> cold, delay |-> delay]

ShipmentRows == [
    SH1001 |-> Shipment("Mumbai", "Delhi", "R01", "C01", "DISRUPTED", "CRITICAL", TRUE, 30),
    SH1002 |-> Shipment("JNPT", "Kolkata", "R03", "C03", "DISRUPTED", "HIGH", FALSE, 60),
    SH1003 |-> Shipment("Mumbai", "Chennai", "R02", "C03", "DISRUPTED", "HIGH", FALSE, 54),
    SH1004 |-> Shipment("Pune", "Mumbai", "R04", "C01", "ON_TIME", "MEDIUM", FALSE, 0),
    SH1005 |-> Shipment("Mumbai", "Ahmedabad", "R05", "C02", "DELAYED", "HIGH", FALSE, 3),
    SH1006 |-> Shipment("Mumbai", "Goa", "R08", "C01", "DISRUPTED", "MEDIUM", FALSE, 15),
    SH1007 |-> Shipment("Delhi", "Jaipur", "R06", "C07", "ON_TIME", "LOW", FALSE, 0),
    SH1008 |-> Shipment("Mumbai", "Dubai", "R07", "C03", "DELAYED", "HIGH", FALSE, 192),
    SH1009 |-> Shipment("Chennai", "JNPT", "R09", "C03", "DISRUPTED", "CRITICAL", TRUE, 42),
    SH1010 |-> Shipment("Delhi", "Kolkata", "R10", "C07", "ON_TIME", "MEDIUM", FALSE, 0),
    SH1011 |-> Shipment("Mumbai", "Delhi", "R11", "C05", "ON_TIME", "HIGH", TRUE, 0),
    SH1012 |-> Shipment("Pune", "Delhi", "R12", "C07", "AT_RISK", "MEDIUM", FALSE, 4),
    SH1013 |-> Shipment("Ahmedabad", "Mumbai", "R13", "C01", "ON_TIME", "LOW", FALSE, 0),
    SH1014 |-> Shipment("Chennai", "Bangalore", "R14", "C06", "ON_TIME", "MEDIUM", TRUE, 0),
    SH1015 |-> Shipment("Mumbai", "Chennai", "R15", "C05", "ON_TIME", "HIGH", FALSE, 0),
    SH1016 |-> Shipment("Mumbai", "Delhi", "R01", "C02", "DISRUPTED", "CRITICAL", TRUE, 39),
    SH1017 |-> Shipment("JNPT", "Kolkata", "R03", "C09", "DISRUPTED", "HIGH", FALSE, 48),
    SH1018 |-> Shipment("Mumbai", "Goa", "R08", "C01", "DELAYED", "LOW", FALSE, 15),
    SH1019 |-> Shipment("Mumbai", "Delhi", "R01", "C07", "DISRUPTED", "HIGH", TRUE, 33),
    SH1020 |-> Shipment("Chennai", "JNPT", "R09", "C06", "DISRUPTED", "MEDIUM", FALSE, 42),
    SH1021 |-> Shipment("Delhi", "Kolkata", "R10", "C05", "ON_TIME", "LOW", FALSE, 0),
    SH1022 |-> Shipment("Pune", "Mumbai", "R04", "C08", "ON_TIME", "HIGH", FALSE, 0),
    SH1023 |-> Shipment("Mumbai", "Ahmedabad", "R05", "C02", "DELAYED", "MEDIUM", FALSE, 3),
    SH1024 |-> Shipment("Mumbai", "Chennai", "R02", "C03", "DISRUPTED", "CRITICAL", TRUE, 54),
    SH1025 |-> Shipment("Hyderabad", "Mumbai", "R16", "C06", "ON_TIME", "LOW", FALSE, 0)]

SurgeRows == [
    SH2001 |-> Shipment("Mumbai", "Delhi", "R01", "C01", "DISRUPTED", "HIGH", FALSE, 34),
    SH2002 |-> Shipment("Mumbai", "Delhi", "R01", "C07", "DISRUPTED", "HIGH", TRUE, 34),
    SH2003 |-> Shipment("Mumbai", "Delhi", "R11", "C05", "ON_TIME", "CRITICAL", TRUE, 0),
    SH2004 |-> Shipment("Mumbai", "Delhi", "R01", "C02", "DISRUPTED", "MEDIUM", FALSE, 34),
    SH2005 |-> Shipment("Mumbai", "Delhi", "R11", "C05", "ON_TIME", "HIGH", FALSE, 0)]

Asset(type, location, status, used, cooled) ==
    [type |-> type, location |-> location, status |-> status, used |-> used, cooled |-> cooled]

AssetRows == [
    T201 |-> Asset("TRUCK", "Mumbai", "IN_TRANSIT", 85, FALSE),
    T202 |-> Asset("TRUCK", "Pune", "IN_TRANSIT", 60, FALSE),
    T203 |-> Asset("TRUCK", "Mumbai", "IN_TRANSIT", 70, FALSE),
    T204 |-> Asset("TRUCK", "Mumbai", "IDLE", 0, FALSE),
    T205 |-> Asset("TRUCK", "Delhi", "IN_TRANSIT", 55, FALSE),
    T206 |-> Asset("TRUCK", "Delhi", "IN_TRANSIT", 75, FALSE),
    T207 |-> Asset("TRUCK", "Pune", "IN_TRANSIT", 40, FALSE),
    T208 |-> Asset("TRUCK", "Ahmedabad", "IN_TRANSIT", 50, FALSE),
    T209 |-> Asset("TRUCK", "Chennai", "IN_TRANSIT", 80, TRUE),
    T210 |-> Asset("TRUCK", "Mumbai", "IN_TRANSIT", 90, TRUE),
    T211 |-> Asset("TRUCK", "Mumbai", "IDLE", 0, FALSE),
    T212 |-> Asset("TRUCK", "Mumbai", "IN_TRANSIT", 85, FALSE),
    T213 |-> Asset("TRUCK", "Pune", "IN_TRANSIT", 65, FALSE),
    T214 |-> Asset("TRUCK", "Mumbai", "IN_TRANSIT", 45, FALSE),
    T215 |-> Asset("TRUCK", "Delhi", "IDLE", 0, FALSE),
    T216 |-> Asset("TRUCK", "Bangalore", "AVAILABLE", 0, TRUE),
    T217 |-> Asset("TRUCK", "Hyderabad", "IDLE", 0, FALSE),
    V301 |-> Asset("VESSEL", "JNPT", "IN_TRANSIT", 70, FALSE),
    V302 |-> Asset("VESSEL", "Mumbai", "IN_TRANSIT", 65, TRUE),
    V303 |-> Asset("VESSEL", "Mumbai", "DELAYED", 40, FALSE),
    V304 |-> Asset("VESSEL", "Chennai", "IN_TRANSIT", 80, TRUE),
    V305 |-> Asset("VESSEL", "JNPT", "IN_TRANSIT", 75, FALSE),
    V306 |-> Asset("VESSEL", "Chennai", "IN_TRANSIT", 55, FALSE),
    V307 |-> Asset("VESSEL", "Mumbai", "IN_TRANSIT", 90, TRUE),
    V308 |-> Asset("VESSEL", "Kolkata", "IDLE", 0, FALSE),
    CN401 |-> Asset("CONTAINER", "Mumbai", "IN_TRANSIT", 80, TRUE),
    CN402 |-> Asset("CONTAINER", "Mumbai", "IN_TRANSIT", 75, FALSE),
    CN403 |-> Asset("CONTAINER", "Delhi", "IN_TRANSIT", 60, FALSE),
    CN404 |-> Asset("CONTAINER", "Pune", "IDLE", 0, TRUE),
    CN405 |-> Asset("CONTAINER", "Chennai", "AVAILABLE", 0, FALSE)]
=============================================================================
