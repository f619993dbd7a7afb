\* Every history of up to five readings, and the series of the scenario.
CONSTANTS
    SH1002 = SH1002
    SH1011 = SH1011
    Shipments <- MCShipments
    Config <- MCConfig
    Delay <- MCDelay
    SeedReadings <- MCSeedReadings
    Sensed <- MCSensed
    MaxReadings = 5
SPECIFICATION Spec
INVARIANTS
    ScanIsReference
    HeatAtLeastDocumented
PROPERTIES
    AlertsOnlyEscalate
