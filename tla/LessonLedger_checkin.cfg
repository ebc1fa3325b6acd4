\* Check-ins of one student race over two cards, while leave, check-out, PATCH of
\* validity and status, cancellation and the clock interleave.
CONSTANTS
    s1 = s1
    s2 = s2
    k1 = k1
    k2 = k2
    c1 = c1
    c2 = c2
    r1 = r1
    r2 = r2
    r3 = r3
    Students = {s1}
    Schedules = {k1}
    Cards = {c1, c2}
    Requests = {r1, r2}
    NoSchedule = NoSchedule
    Keep = Keep
    Enrolled <- AllEnrolled
    DeductAmount <- TwoLessons
    GraceEnd <- AtZero
    EndsAt <- AtOne
    Horizon = 2
    NewCards <- MixedCards
    Deltas = {}
    Patches <- Freezing
SPECIFICATION Spec
SYMMETRY Symmetry
CHECK_DEADLOCK FALSE
INVARIANTS ChargedAtMostOnce DeductedAnswersAreUnique
PROPERTIES NoFreeRide ChargeIsAttended
