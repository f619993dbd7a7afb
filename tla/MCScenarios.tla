---------------------------- MODULE MCScenarios -----------------------------
(* The seeded network.  The carrier that is recalled carries cold          *)
(* shipments and one on a route of the port strike; the asset is the one   *)
(* the scenario defaults to.                                               *)
EXTENDS Scenarios, SeedData

MCCarrierTargets == {"C06"}
MCAssetTargets == {"T215"}
=============================================================================
