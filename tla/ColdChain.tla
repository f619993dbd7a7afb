----------------------------- MODULE ColdChain -----------------------------
(***************************************************************************)
(* Cold-chain alerts: the excursion detector, recomputed from the stored   *)
(* sensor readings on every query, and the operations that change those    *)
(* readings.                                                               *)
(*                                                                         *)
(* Temperatures are integers in tenths of a degree.  The code compares     *)
(* doubles; with limits and margins that are multiples of half a degree,   *)
(* as all seeded ones are, the comparisons come out the same.              *)
(***************************************************************************)
EXTENDS Integers, Sequences, SequencesExt, FiniteSetsExt

CONSTANTS
    Shipments,      \* the shipments asked about
    Config,         \* rows of cold_chain_config, by shipment
    Delay,          \* expected_delay_hours, by shipment in table shipments
    SeedReadings,   \* rows of seedSensorReadings, by shipment
    Sensed,         \* temperatures a sensor may add, by shipment
    MaxReadings     \* bound: readings are added while a shipment has fewer

Limits == [min : Int, max : Int, warning : Int, critical : Int, allowed : Int]

ASSUME ColdChainAssumption ==
    /\ DOMAIN Config \subseteq Shipments /\ Config \in [DOMAIN Config -> Limits]
    /\ DOMAIN Delay \subseteq Shipments /\ Delay \in [DOMAIN Delay -> Nat]
    /\ SeedReadings \in [Shipments -> Seq(Int)]
    /\ Sensed \in [Shipments -> SUBSET Int]
    /\ MaxReadings \in Nat

\* Margins and allowed durations are positive in every row that is seeded, and
\* nothing else writes the table.
ASSUME MarginAssumption ==
    \A s \in DOMAIN Config :
        Config[s].warning > 0 /\ Config[s].critical > 0 /\ Config[s].allowed > 0

VARIABLE readings   \* table sensor_readings: per shipment, ordered by timestamp

-----------------------------------------------------------------------------
(* The detector *)

NORMAL == 0
WARNING == 1
HIGH == 2
CRITICAL == 3

\* The limits of a shipment; a shipment without a row gets the defaults.
ConfigOf(s) ==
    IF s \in DOMAIN Config THEN Config[s]
    ELSE [min |-> 20, max |-> 80, warning |-> 10, critical |-> 30, allowed |-> 30]

\* Zero for a shipment that is not in the table, otherwise at least 3 hours.
MinutesToDelivery(s) == IF s \in DOMAIN Delay THEN 180 + 60 * Delay[s] ELSE 0

Outside(cfg, t) == t < cfg.min \/ t > cfg.max

\* One turn of the loop over the readings.
Scan(cfg, acc, t) ==
    IF Outside(cfg, t)
    THEN [acc EXCEPT !.count = IF acc.open THEN @ ELSE @ + 1,
                     !.current = IF acc.open THEN @ + 30 ELSE 30,
                     !.open = TRUE]
    ELSE [acc EXCEPT !.minutes = IF acc.open THEN @ + acc.current ELSE @,
                     !.open = FALSE]

\* The loop.
Scanned(cfg, history) ==
    FoldLeft(LAMBDA acc, t : Scan(cfg, acc, t),
             [minutes |-> 0, count |-> 0, open |-> FALSE, current |-> 0], history)

\* Mutant of Excursions: an excursion that is still open is not added.
ExcursionsClosed(cfg, history) ==
    LET acc == Scanned(cfg, history)
    IN  [minutes |-> acc.minutes, count |-> acc.count]

\* excursion_minutes and excursion_count.
Excursions(cfg, history) ==
    LET acc == Scanned(cfg, history)
    IN  [minutes |-> acc.minutes + IF acc.open THEN acc.current ELSE 0,
         count   |-> acc.count]

\* Mutant of Peak: the last reading, current_temp, taken for the peak.
PeakCurrent(history) == Last(history)

\* The highest reading, also where the limits were undercut.
Peak(history) == Max(ToSet(history))

Magnitude(cfg, peak) ==
    IF peak > cfg.max THEN peak - cfg.max ELSE IF peak < cfg.min THEN cfg.min - peak ELSE 0

IsCritical(cfg, peak, minutes, count, due) ==
    \/ Magnitude(cfg, peak) >= cfg.critical
    \/ minutes >= 3 * cfg.allowed
    \/ minutes > cfg.allowed /\ (count >= 3 \/ due < 120)

\* Mutant of IsHigh: the margin not doubled to the HIGH threshold but tripled.
IsHighTripled(cfg, peak, minutes, count) ==
    \/ Magnitude(cfg, peak) >= 3 * cfg.warning
    \/ minutes >= cfg.allowed
    \/ count >= 2

IsHigh(cfg, peak, minutes, count) ==
    \/ Magnitude(cfg, peak) >= 2 * cfg.warning
    \/ minutes >= cfg.allowed
    \/ count >= 2

\* Once minutes are counted, the least answer is WARNING.
Classify(cfg, peak, minutes, count, due) ==
    IF minutes = 0 THEN NORMAL
    ELSE IF IsCritical(cfg, peak, minutes, count, due) THEN CRITICAL
    ELSE IF IsHigh(cfg, peak, minutes, count) THEN HIGH
    ELSE WARNING

\* The severity getAlert answers for shipment s with this history.
SeverityOf(s, history) ==
    IF history = <<>> THEN NORMAL
    ELSE LET cfg == ConfigOf(s)
             seen == Excursions(cfg, history)
         IN  Classify(cfg, Peak(history), seen.minutes, seen.count, MinutesToDelivery(s))

Severity(s) == SeverityOf(s, readings[s])

-----------------------------------------------------------------------------
(* What changes the readings *)

\* The series of the scenario temperature_excursion.
ExcursionSeries == <<42, 55, 89, 125, 168, 184, 172, 156, 131, 105, 82, 65>>

Init == readings = SeedReadings

\* The new row has the time of its insertion and so the last timestamp.
AddReading(s, t) ==
    /\ Len(readings[s]) < MaxReadings
    /\ readings' = [readings EXCEPT ![s] = Append(@, t)]

\* Replaces whatever readings the target had.
ApplyTemperatureExcursion(s) == readings' = [readings EXCEPT ![s] = ExcursionSeries]

\* The DELETE succeeds, the INSERT throws.
ExcursionHalfApplied(s) == readings' = [readings EXCEPT ![s] = <<>>]

ResetToSeedState == readings' = SeedReadings

Next ==
    \/ \E s \in Shipments :
          \/ \E t \in Sensed[s] : AddReading(s, t)
          \/ ApplyTemperatureExcursion(s)
          \/ ExcursionHalfApplied(s)
    \/ ResetToSeedState

Spec == Init /\ [][Next]_readings

-----------------------------------------------------------------------------
(* Properties *)

Index(s) == DOMAIN readings[s]

OutsideAt(s, i) == Outside(ConfigOf(s), readings[s][i])

\* The single pass over the readings counts 30 minutes for every reading
\* outside the limits, the open excursion at the end included, and one
\* excursion for each maximal run of such readings.
ScanIsReference ==
    \A s \in Shipments :
        LET out == {i \in Index(s) : OutsideAt(s, i)}
            starts == {i \in out : i = 1 \/ i - 1 \notin out}
        IN  Excursions(ConfigOf(s), readings[s]) =
                [minutes |-> 30 * Cardinality(out), count |-> Cardinality(starts)]

\* How far a reading is outside the limits.
Excess(cfg, t) == Max({0, t - cfg.max, cfg.min - t})

\* The severity docs/architecture.md derives from a history: the magnitude
\* is the distance of a reading above the maximum "or" below the minimum.
DocumentedSeverity(s) ==
    LET cfg == ConfigOf(s)
        magnitude == Max({Excess(cfg, readings[s][i]) : i \in Index(s)})
        duration == 30 * Cardinality({i \in Index(s) : OutsideAt(s, i)})
    IN  IF magnitude >= cfg.critical \/ duration >= 3 * cfg.allowed THEN CRITICAL
        ELSE IF magnitude >= 2 * cfg.warning \/ duration >= cfg.allowed THEN HIGH
        ELSE IF magnitude >= cfg.warning THEN WARNING
        ELSE NORMAL

NeverBelow(s) == \A i \in Index(s) : readings[s][i] >= ConfigOf(s).min

\* An alert is at least as severe as the documented classification says.
AtLeastDocumented ==
    \A s \in Shipments : readings[s] # <<>> => Severity(s) >= DocumentedSeverity(s)

\* It is where no reading undercut the minimum: every history of too high
\* temperatures gets the documented severity or a higher one.
HeatAtLeastDocumented ==
    \A s \in Shipments :
        readings[s] # <<>> /\ NeverBelow(s) => Severity(s) >= DocumentedSeverity(s)

\* A new reading never lowers an alert, however normal it is, once some
\* reading was not below the minimum: what happened to the goods stays in
\* the alert until the readings are replaced.
AlertsOnlyEscalate ==
    [][\A s \in Shipments :
          /\ readings[s] # <<>>
          /\ readings'[s] # readings[s] /\ IsPrefix(readings[s], readings'[s])
          /\ Peak(readings[s]) >= ConfigOf(s).min
          => SeverityOf(s, readings'[s]) >= SeverityOf(s, readings[s])]_readings
=============================================================================
