--------------------------- MODULE MCLessonLedger ---------------------------
(* Small instances of LessonLedger for TLC. *)
EXTENDS LessonLedger, TLC

CONSTANTS s1, s2, k1, k2, c1, c2, r1, r2, r3

AllEnrolled == Students \X Schedules
OneLesson == [sch \in Schedules |-> 1]
TwoLessons == [sch \in Schedules |-> 2]
AtZero == [sch \in Schedules |-> 0]
AtOne == [sch \in Schedules |-> 1]

New(st, status, left, from, until) ==
    [student |-> st, status |-> status, remaining |-> left, validFrom |-> from, validTo |-> until]

\* Cards that cannot pay, can pay once, expire first, start late, or are frozen.
MixedCards ==
    {New(s1, "ACTIVE", left, 0, until) : left \in {1, 3}, until \in 0..2} \cup
    {New(s1, "ACTIVE", 2, 1, 1), New(s1, "INACTIVE", 2, 0, 2)}
TwoLeft == {New(s1, "ACTIVE", 2, 0, 0)}
ThreeLeft == {New(s1, "ACTIVE", 3, 0, 0)}

Body(st, status, until, left) ==
    [student |-> st, status |-> status, remaining |-> left, validFrom |-> Keep, validTo |-> until]

UpAndDown == {-2, 1}

NoPatches == {}
\* A card is frozen, or made active until 1.
Freezing == {Body(Keep, "INACTIVE", Keep, Keep), Body(Keep, "ACTIVE", 1, Keep)}
\* The card changes hands and its balance is set, in one PATCH.
TransferAndSet == {Body(s2, Keep, Keep, 1)}
Symmetry == Permutations(Requests) \cup Permutations(Cards)
=============================================================================
