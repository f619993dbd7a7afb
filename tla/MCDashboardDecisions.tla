----------------------- MODULE MCDashboardDecisions ------------------------
(* A seeded shipment on the route that road_closure closes, and one that    *)
(* comes and goes with demand_increase and reset.                           *)
EXTENDS DashboardDecisions, TLC

MCSeeded == {"SH1007"}
MCSurge == {"SH2001"}
MCOwn == [SH1007 |-> "R06", SH2001 |-> "R01"]
MCAdvice == [SH1007 |-> {"R10"}, SH2001 |-> {"R11"}]
MCDelayed == [road_closure |-> {"SH1007"}]
MCMarked == [road_closure |-> {"R06", "R10", "R12"}]
MCSymmetry == Permutations(Calls)
=============================================================================
