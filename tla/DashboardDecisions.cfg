\* Two calls in flight, answered in any order or lost.
CONSTANTS
    Seeded <- MCSeeded
    Surge <- MCSurge
    Own <- MCOwn
    Advice <- MCAdvice
    Events = {"road_closure"}
    Delayed <- MCDelayed
    Marked <- MCMarked
    Calls = {c1, c2}
    c1 = c1
    c2 = c2
SYMMETRY MCSymmetry
SPECIFICATION Spec
INVARIANTS
    DecisionsTypeOK
    OnlyApprovedRoutes
    ApprovedWasAdvised
PROPERTY
    DecisionIsFinal
