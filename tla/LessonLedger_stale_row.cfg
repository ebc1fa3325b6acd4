\* A check-in commits between the read and the UPDATE of adjust-lessons.
CONSTANTS
    s1 = s1
    s2 = s2
    k1 = k1
    k2 = k2
    c1 = c1
    c2 = c2
    r1 = r1
    r2 = r2
    r3 = r3
    Students = {s1}
    Schedules = {k1}
    Cards = {c1}
    Requests = {r1, r2}
    NoSchedule = NoSchedule
    Keep = Keep
    Enrolled <- AllEnrolled
    DeductAmount <- TwoLessons
    GraceEnd <- AtZero
    EndsAt <- AtOne
    Horizon = 0
    NewCards <- ThreeLeft
    Deltas = {1}
    Patches <- NoPatches
SPECIFICATION Spec
SYMMETRY Symmetry
CHECK_DEADLOCK FALSE
PROPERTIES RowsRecordTheBalance
