\* Every order of up to three scenarios between resets; any statement may fail.
CONSTANTS
    SeedDisruptions <- DisruptionRows
    SeedRoutes <- RouteRows
    SeedCarriers <- CarrierRows
    SeedShipments <- ShipmentRows
    SeedAssets <- AssetRows
    Surge <- SurgeRows
    CarrierTargets <- MCCarrierTargets
    AssetTargets <- MCAssetTargets
    MaxScenarios = 3
SPECIFICATION Spec
INVARIANTS
    ScenariosTypeOK
    ClosuresExplained
    DelaysExplained
    SimulatedAreAvoided
    AdviceIsSafest
    ReroutesAreOffered
    CarrierAdviceIsUsable
    UtilisationAddsUp
    HighRisksAreAdvised
PROPERTIES
    ScenariosOnlyWorsen
    ResetRestores
