------------------------------ MODULE TimeSlots ------------------------------
(***************************************************************************)
(* The 15-minute slots a booking covers (courses/schedule-resource-lock).  *)
(* Times are minutes since the epoch; the code counts milliseconds.        *)
(***************************************************************************)
EXTENDS Integers

SlotMinutes == 15

SlotOf(t) == (t \div SlotMinutes) * SlotMinutes

\* Fault: the loop starts at startsAt itself instead of the slot it falls in.
TimeSlotKeysUnaligned(startsAt, endsAt) ==
    {k \in startsAt..(endsAt - 1) : (k - startsAt) % SlotMinutes = 0}

\* The slot starts from the one startsAt falls in to the last one before endsAt.
TimeSlotKeys(startsAt, endsAt) ==
    {k \in SlotOf(startsAt)..(endsAt - 1) : k % SlotMinutes = 0}

\* Half-open intervals with a minute in common.
Overlap(from1, to1, from2, to2) == from1 < to2 /\ from2 < to1
=============================================================================
