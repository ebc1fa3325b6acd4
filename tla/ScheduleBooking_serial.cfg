\* Two bookings compete for two coaches and two rooms; each has one PATCH in flight at
\* a time, and the PATCHes of the two interleave with creates, deletes and a cascade.
CONSTANTS
    b1 = b1
    b2 = b2
    k1 = k1
    k2 = k2
    coach1 = coach1
    coach2 = coach2
    room1 = room1
    room2 = room2
    Schedules = {b1, b2}
    Classes = {k1}
    Coaches = {coach1, coach2}
    Venues = {room1, room2}
    Times <- Minutes
    Keep = Keep
    Bodies <- OneField
    EditsOverlap = FALSE
SPECIFICATION Spec
SYMMETRY Symmetry
CHECK_DEADLOCK FALSE
INVARIANTS NoDoubleBooking LiveBookingsHoldTheirSlots
PROPERTIES CancellingFreesTheSlots
