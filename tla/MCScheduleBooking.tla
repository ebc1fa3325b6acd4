------------------------- MODULE MCScheduleBooking -------------------------
(* Small instances of ScheduleBooking for TLC. *)
EXTENDS ScheduleBooking, TLC

CONSTANTS b1, b2, k1, k2, coach1, coach2, room1, room2

Empty == [class |-> Keep, coach |-> Keep, venue |-> Keep,
          startsAt |-> Keep, endsAt |-> Keep, status |-> Keep]

\* One field at a time, which is where a PATCH meets what it left out.
OneField ==
    {[Empty EXCEPT !.coach = c] : c \in Coaches} \cup
    {[Empty EXCEPT !.venue = v] : v \in Venues} \cup
    {[Empty EXCEPT !.startsAt = t] : t \in Times} \cup
    {[Empty EXCEPT !.endsAt = t] : t \in Times} \cup
    {[Empty EXCEPT !.status = x] : x \in Status}

MoveOnly == {[Empty EXCEPT !.startsAt = t] : t \in Times} \cup {[Empty EXCEPT !.coach = c] : c \in Coaches}

\* 10 and 20 share the slot of 0 and of 15; 30 begins a slot.
Minutes == {0, 10, 20, 30}

Symmetry == Permutations(Schedules)
=============================================================================
