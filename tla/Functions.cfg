\* Bookings within a little more than four slots, amounts on both sides of one yuan.
CONSTANTS
    None = None
    LastMinute = 61
    LastCent = 250
SPECIFICATION Spec
INVARIANTS KeysAreTheTouchedSlots CheckInsAgeOneWay StartsAreSafe BlacklistOutlivesTokens StudentsManageNothing AdminWritesAreAudited AmountsRoundTrip
