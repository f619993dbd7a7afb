\* One scenario is enough.
CONSTANTS
    SeedDisruptions <- DisruptionRows
    SeedRoutes <- RouteRows
    SeedCarriers <- CarrierRows
    SeedShipments <- ShipmentRows
    SeedAssets <- AssetRows
    Surge <- SurgeRows
    CarrierTargets <- MCCarrierTargets
    AssetTargets <- MCAssetTargets
    MaxScenarios = 1
SPECIFICATION Spec
INVARIANTS
    DelaysAsDocumented
