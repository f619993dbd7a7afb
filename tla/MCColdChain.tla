---------------------------- MODULE MCColdChain ----------------------------
(* SH1011 as it is seeded (15 to 25 degrees, 60 minutes allowed), and      *)
(* SH1002, which has neither limits of its own nor seeded readings.        *)
EXTENDS ColdChain

CONSTANTS SH1002, SH1011

MCShipments == {SH1002, SH1011}

Within(min, max, warning, critical, allowed) ==
    [min |-> min, max |-> max, warning |-> warning, critical |-> critical, allowed |-> allowed]

MCConfig == [s \in {SH1011} |-> Within(150, 250, 20, 50, 60)]

\* The other rows of seedColdChainConfig, from SH1001 to SH1024.
OtherRows ==
    {Within(20, 80, 10, 30, 30), Within(20, 80, 10, 30, 20), Within(-180, -150, 10, 30, 15),
     Within(20, 100, 15, 40, 45), Within(20, 60, 5, 20, 10)}

\* MarginAssumption holds of them, too.
ASSUME SeededMargins ==
    \A row \in OtherRows : row.warning > 0 /\ row.critical > 0 /\ row.allowed > 0

MCDelay == [s \in MCShipments |-> IF s = SH1011 THEN 0 ELSE 60]

MCSeedReadings ==
    [s \in MCShipments |->
        IF s = SH1011 THEN <<195, 201, 208, 212, 215, 220, 223, 219>> ELSE <<>>]

MCSensed == [s \in MCShipments |-> IF s = SH1011 THEN {90, 200, 295} ELSE {-30, 50, 90, 105}]
=============================================================================
