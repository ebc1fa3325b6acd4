\* Check-ins and manual adjustments, with and without a scheduleId, share a card that
\* changes hands between two students and has its balance set (a PATCH of studentId and
\* remainingLessons) while they are in flight.
CONSTANTS
    s1 = s1
    s2 = s2
    k1 = k1
    k2 = k2
    c1 = c1
    c2 = c2
    r1 = r1
    r2 = r2
    r3 = r3
    Students = {s1, s2}
    Schedules = {k1}
    Cards = {c1}
    Requests = {r1, r2, r3}
    NoSchedule = NoSchedule
    Keep = Keep
    Enrolled <- AllEnrolled
    DeductAmount <- TwoLessons
    GraceEnd <- AtZero
    EndsAt <- AtZero
    Horizon = 0
    NewCards <- TwoLeft
    Deltas <- UpAndDown
    Patches <- TransferAndSet
SPECIFICATION Spec
SYMMETRY Symmetry
CHECK_DEADLOCK FALSE
INVARIANTS NoOverdraft OneAdjustmentPerVersion
PROPERTIES OnlyPatchIsSilent ImplementsAccount
