------------------------ MODULE ScheduleBookingProofs ------------------------
(***************************************************************************)
(* Proofs about TimeSlots and ScheduleBooking: what the unique index on    *)
(* slots guarantees, for every set of bookings, coaches, venues and times, *)
(* when two PATCHes of one booking are never in flight at once.            *)
(***************************************************************************)
EXTENDS ScheduleBooking, TLAPS

----------------------------------------------------------------------------
(* Slots.                                                                  *)

\* A minute lies in its slot.
LEMMA SlotOfMinute ==
    ASSUME NEW t \in Nat
    PROVE  /\ SlotOf(t) \in Nat
           /\ SlotOf(t) % SlotMinutes = 0
           /\ SlotOf(t) <= t
           /\ t < SlotOf(t) + SlotMinutes
BY SMT DEF SlotOf, SlotMinutes

\* Earlier minutes lie in earlier slots.
LEMMA SlotsAreOrdered ==
    ASSUME NEW t \in Nat, NEW u \in Nat, t <= u
    PROVE  SlotOf(t) <= SlotOf(u)
BY SMT DEF SlotOf, SlotMinutes

\* Two bookings of the same coach or venue that overlap meet in a slot, so one of them
\* violates the unique index.
THEOREM OverlappingBookingsShareASlot ==
    ASSUME NEW from1 \in Nat, NEW to1 \in Nat, from1 < to1,
           NEW from2 \in Nat, NEW to2 \in Nat, from2 < to2,
           Overlap(from1, to1, from2, to2)
    PROVE  TimeSlotKeys(from1, to1) \cap TimeSlotKeys(from2, to2) # {}
<1>1. ASSUME NEW a \in Nat, NEW b \in Nat, NEW c \in Nat, NEW d \in Nat,
             a <= c, c < b, c < d
      PROVE  SlotOf(c) \in TimeSlotKeys(a, b) /\ SlotOf(c) \in TimeSlotKeys(c, d)
  <2>1. /\ SlotOf(c) \in Nat /\ SlotOf(a) \in Nat
        /\ SlotOf(a) <= SlotOf(c) /\ SlotOf(c) <= c /\ SlotOf(c) % SlotMinutes = 0
    BY <1>1, SlotOfMinute, SlotsAreOrdered
  <2>2. SlotOf(c) <= b - 1 /\ SlotOf(c) <= d - 1
    BY <1>1, <2>1
  <2> QED
    BY <2>1, <2>2 DEF TimeSlotKeys
<1>2. CASE from1 <= from2
  BY <1>1, <1>2 DEF Overlap
<1>3. CASE from2 <= from1
  BY <1>1, <1>3 DEF Overlap
<1> QED
  BY <1>2, <1>3

----------------------------------------------------------------------------
(* Types.                                                                  *)

\* The rows of a booking are ScheduleResourceLock rows.
LEMMA LockRowsTyped ==
    ASSUME NEW s \in Schedules, NEW coach \in Coaches, NEW venue \in Venues,
           NEW startsAt \in Times, NEW endsAt \in Times
    PROVE  /\ LockRows(s, coach, venue, startsAt, endsAt) \subseteq Lock
           /\ \A l \in LockRows(s, coach, venue, startsAt, endsAt) : l.schedule = s
<1>1. TimeSlotKeys(startsAt, endsAt) \subseteq Int
  BY SlotOfMinute, TimesAssumption DEF TimeSlotKeys
<1>2. {<<"COACH", coach>>, <<"VENUE", venue>>} \subseteq Resources
  BY DEF Resources
<1> QED
  BY <1>1, <1>2 DEF LockRows, Lock

\* A field of a PATCH replaces the current value by one of the same type.
LEMMA GivenTyped ==
    ASSUME NEW S, NEW field \in Optional(S), NEW current \in S
    PROVE  Given(field, current) \in S
BY DEF Given, Optional

\* The row an UPDATE leaves is a Schedule row that still exists.
LEMMA UpdatedTyped ==
    ASSUME NEW row \in Schedule, row.status \in Status, NEW body \in Bodies
    PROVE  Updated(row, body) \in Schedule /\ Updated(row, body).status \in Status
<1>1. /\ body.class \in Optional(Classes) /\ body.coach \in Optional(Coaches)
      /\ body.venue \in Optional(Venues) /\ body.startsAt \in Optional(Times)
      /\ body.endsAt \in Optional(Times) /\ body.status \in Optional(Status)
  BY BodiesAssumption
<1>2. /\ row.class \in Classes /\ row.coach \in Coaches /\ row.venue \in Venues
      /\ row.startsAt \in Times /\ row.endsAt \in Times
  BY DEF Schedule
<1>3. /\ Given(body.class, row.class) \in Classes /\ Given(body.coach, row.coach) \in Coaches
      /\ Given(body.venue, row.venue) \in Venues /\ Given(body.startsAt, row.startsAt) \in Times
      /\ Given(body.endsAt, row.endsAt) \in Times /\ Given(body.status, row.status) \in Status
  BY <1>1, <1>2, GivenTyped
<1> QED
  BY <1>3 DEF Updated, Schedule

\* A schedule that is live or cancelled is a well-typed row.
LEMMA InitTyped == Init => TypeOK
<1> SUFFICES ASSUME Init PROVE TypeOK
  OBVIOUS
<1>1. /\ (CHOOSE k \in Classes : TRUE) \in Classes /\ (CHOOSE c \in Coaches : TRUE) \in Coaches
      /\ (CHOOSE v \in Venues : TRUE) \in Venues /\ (CHOOSE t \in Times : TRUE) \in Times
  BY ClassesAssumption
<1> QED
  BY <1>1 DEF Init, TypeOK, Schedule

LEMMA NextTyped == TypeOK /\ [Next]_vars => TypeOK'
<1> SUFFICES ASSUME TypeOK, [Next]_vars PROVE TypeOK'
  OBVIOUS
<1>1. ASSUME NEW s \in Schedules,
             NEW row \in [class : Classes, coach : Coaches, venue : Venues,
                          startsAt : Times, endsAt : Times, status : Status],
             CreateSchedule(s, row)
      PROVE  TypeOK'
  <2>1. row \in Schedule
    BY DEF Schedule
  <2>2. LockRows(s, row.coach, row.venue, row.startsAt, row.endsAt) \subseteq Lock
    BY LockRowsTyped
  <2> QED
    BY <1>1, <2>1, <2>2 DEF CreateSchedule, TypeOK
<1>2. ASSUME NEW s \in Schedules, NEW body \in Bodies, ReadUpdate(s, body)
      PROVE  TypeOK'
  <2>1. /\ schedules[s].coach \in Coaches /\ schedules[s].venue \in Venues
        /\ schedules[s].startsAt \in Times /\ schedules[s].endsAt \in Times
    BY DEF TypeOK, Schedule
  <2>2. /\ body.coach \in Optional(Coaches) /\ body.venue \in Optional(Venues)
        /\ body.startsAt \in Optional(Times) /\ body.endsAt \in Optional(Times)
    BY BodiesAssumption
  <2>3. /\ Given(body.coach, schedules[s].coach) \in Coaches
        /\ Given(body.venue, schedules[s].venue) \in Venues
        /\ Given(body.startsAt, schedules[s].startsAt) \in Times
        /\ Given(body.endsAt, schedules[s].endsAt) \in Times
    BY <2>1, <2>2, GivenTyped
  <2>4. edits' \subseteq Edit
    BY <1>2, <2>3 DEF ReadUpdate, TypeOK, Edit
  <2> QED
    BY <1>2, <2>4 DEF ReadUpdate, TypeOK
<1>3. ASSUME NEW e \in edits, CommitUpdate(e)
      PROVE  TypeOK'
  <2>1. e \in Edit
    BY DEF TypeOK
  <2>2. /\ e.schedule \in Schedules /\ e.body \in Bodies /\ e.coach \in Coaches
        /\ e.venue \in Venues /\ e.startsAt \in Times /\ e.endsAt \in Times
    BY <2>1 DEF Edit
  <2> DEFINE row == Updated(schedules[e.schedule], e.body)
  <2>3. row \in Schedule
    BY <1>3, <2>2, UpdatedTyped DEF CommitUpdate, Exists, TypeOK
  <2>4. RowsToInsert(e, row) \subseteq Lock
    BY <2>2, LockRowsTyped DEF RowsToInsert
  <2> HIDE DEF row
  <2>5. /\ schedules' = [schedules EXCEPT ![e.schedule] = row]
        /\ locks' = (locks \ LocksOf(e.schedule)) \cup RowsToInsert(e, row)
        /\ edits' = edits \ {e} /\ classes' = classes
    BY <1>3 DEF CommitUpdate, row
  <2> QED
    BY <2>2, <2>3, <2>4, <2>5 DEF TypeOK
<1>4. ASSUME NEW e \in edits, RefuseUpdate(e)
      PROVE  TypeOK'
  BY <1>4 DEF RefuseUpdate, TypeOK
<1>5. ASSUME NEW s \in Schedules, DeleteSchedule(s)
      PROVE  TypeOK'
  <2>1. [schedules[s] EXCEPT !.status = "CANCELLED"] \in Schedule
    BY DEF TypeOK, Schedule, Status
  <2> QED
    BY <1>5, <2>1 DEF DeleteSchedule, TypeOK
<1>6. ASSUME NEW k \in Classes, DeleteClass(k)
      PROVE  TypeOK'
  <2>1. \A s \in Schedules : [schedules[s] EXCEPT !.status = "REMOVED"] \in Schedule
    BY DEF TypeOK, Schedule
  <2> QED
    BY <1>6, <2>1 DEF DeleteClass, TypeOK
<1>7. CASE UNCHANGED vars
  BY <1>7 DEF vars, TypeOK
<1> QED
  BY <1>1, <1>2, <1>3, <1>4, <1>5, <1>6, <1>7 DEF Next

\* Every reachable state of the booking tables is well typed.
THEOREM BookingTypeCorrect == Spec => []TypeOK
BY InitTyped, NextTyped, PTL DEF Spec

----------------------------------------------------------------------------
(* No double booking.  The unique index keeps every slot to one schedule,  *)
(* live bookings hold their slots, and overlapping bookings share a slot.  *)
(* That live bookings hold their slots is where updateSchedule's early     *)
(* read matters: the row and the slots agree as long as what a PATCH read  *)
(* is still current when it commits.                                       *)

\* What the unique index means.
SlotsAreExclusive ==
    \A l, m \in locks : l.resource = m.resource /\ l.slot = m.slot => l.schedule = m.schedule

LocksBelongToRows == \A l \in locks : Exists(l.schedule)

TablesInv ==
    /\ SlotsAreExclusive
    /\ LocksBelongToRows
    /\ LiveBookingsHoldTheirSlots
    /\ BookingsHaveDuration

\* What a PATCH computed from its read is what its body makes of the row now.
Current(e) ==
    LET row == schedules[e.schedule] IN
    /\ row.status # "ABSENT"
    /\ e.coach = Given(e.body.coach, row.coach)
    /\ e.venue = Given(e.body.venue, row.venue)
    /\ e.startsAt = Given(e.body.startsAt, row.startsAt)
    /\ e.endsAt = Given(e.body.endsAt, row.endsAt)

EditsInv ==
    /\ \A e, f \in edits : e.schedule = f.schedule => e = f
    /\ \A e \in edits : Current(e) /\ e.startsAt < e.endsAt

\* A transaction that gives one schedule a row, releases its slots and takes new ones, none
\* of them held by another schedule, keeps the tables consistent.
LEMMA RebookingKeepsTables ==
    ASSUME TypeOK, TypeOK', TablesInv,
           NEW s \in Schedules, NEW row \in Schedule, NEW rows \in SUBSET Lock,
           row.status \in Status,
           row.startsAt < row.endsAt,
           \A l \in rows : l.schedule = s,
           row.status = "SCHEDULED" =>
               rows = LockRows(s, row.coach, row.venue, row.startsAt, row.endsAt),
           Insertable(rows, locks \ LocksOf(s)),
           schedules' = [schedules EXCEPT ![s] = row],
           locks' = (locks \ LocksOf(s)) \cup rows
    PROVE  TablesInv'
<1>1. schedules'[s] = row /\ \A t \in Schedules \ {s} : schedules'[t] = schedules[t]
  BY DEF TypeOK
<1>2. \A l \in locks \ LocksOf(s) : l \in locks /\ l.schedule # s /\ l.schedule \in Schedules
  BY DEF LocksOf, TypeOK, Lock
<1>3. SlotsAreExclusive'
  <2> SUFFICES ASSUME NEW l \in locks', NEW m \in locks', l.resource = m.resource, l.slot = m.slot
               PROVE  l.schedule = m.schedule
    BY DEF SlotsAreExclusive
  <2>1. CASE l \in rows /\ m \in rows
    BY <2>1
  <2>2. CASE l \in locks \ LocksOf(s) /\ m \in locks \ LocksOf(s)
    BY <1>2, <2>2 DEF TablesInv, SlotsAreExclusive
  <2>3. ASSUME NEW x \in rows, NEW y \in locks \ LocksOf(s), x.resource = y.resource, x.slot = y.slot
        PROVE  FALSE
    BY <2>3 DEF Insertable
  <2> QED
    BY <2>1, <2>2, <2>3
<1>4. LocksBelongToRows'
  BY <1>1, <1>2 DEF TablesInv, LocksBelongToRows, Exists
<1>5. LiveBookingsHoldTheirSlots'
  <2> SUFFICES ASSUME NEW t \in Schedules, schedules'[t].status = "SCHEDULED"
               PROVE  {l \in locks' : l.schedule = t} =
                          LockRows(t, schedules'[t].coach, schedules'[t].venue,
                                   schedules'[t].startsAt, schedules'[t].endsAt)
    BY DEF LiveBookingsHoldTheirSlots, Live, LocksOf
  <2>1. CASE t = s
    BY <1>1, <1>2, <2>1
  <2>2. CASE t # s
    <3>1. {l \in locks' : l.schedule = t} = LocksOf(t)
      BY <2>2 DEF LocksOf
    <3> QED
      BY <1>1, <2>2, <3>1 DEF TablesInv, LiveBookingsHoldTheirSlots, Live
  <2> QED
    BY <2>1, <2>2
<1>6. BookingsHaveDuration'
  BY <1>1 DEF TablesInv, BookingsHaveDuration, Exists
<1> QED
  BY <1>3, <1>4, <1>5, <1>6 DEF TablesInv

\* A PATCH whose reads are current writes a row and slots that agree.
LEMMA UpdateKeepsTables ==
    ASSUME TypeOK, TypeOK', TablesInv, EditsInv, NEW e \in edits, CommitUpdate(e)
    PROVE  TablesInv'
<1> DEFINE s == e.schedule
           row == Updated(schedules[s], e.body)
           rows == RowsToInsert(e, row)
<1>1. /\ s \in Schedules /\ e.body \in Bodies /\ e.coach \in Coaches /\ e.venue \in Venues
      /\ e.startsAt \in Times /\ e.endsAt \in Times
  BY DEF TypeOK, Edit
<1>2. row \in Schedule /\ row.status \in Status
  BY <1>1, UpdatedTyped DEF CommitUpdate, Exists, TypeOK
<1>3. /\ row.coach = e.coach /\ row.venue = e.venue
      /\ row.startsAt = e.startsAt /\ row.endsAt = e.endsAt
  BY DEF EditsInv, Current, Updated
<1>4. row.startsAt < row.endsAt
  BY <1>3 DEF EditsInv
<1>5. rows \subseteq Lock /\ \A l \in rows : l.schedule = s
  BY <1>1, LockRowsTyped DEF RowsToInsert
<1>6. row.status = "SCHEDULED" =>
          rows = LockRows(s, row.coach, row.venue, row.startsAt, row.endsAt)
  BY <1>3 DEF RowsToInsert
<1>7. /\ Insertable(rows, locks \ LocksOf(s))
      /\ schedules' = [schedules EXCEPT ![s] = row]
      /\ locks' = (locks \ LocksOf(s)) \cup rows
  BY DEF CommitUpdate
<1> HIDE DEF s, row, rows
<1> QED
  BY <1>1, <1>2, <1>4, <1>5, <1>6, <1>7, RebookingKeepsTables

\* A new booking takes slots nobody holds.
LEMMA CreateKeepsTables ==
    ASSUME TypeOK, TypeOK', TablesInv, NEW s \in Schedules,
           NEW row \in [class : Classes, coach : Coaches, venue : Venues,
                        startsAt : Times, endsAt : Times, status : Status],
           CreateSchedule(s, row)
    PROVE  TablesInv'
<1> DEFINE rows == LockRows(s, row.coach, row.venue, row.startsAt, row.endsAt)
<1>1. row \in Schedule /\ row.status \in Status
  BY DEF Schedule
<1>2. rows \subseteq Lock /\ \A l \in rows : l.schedule = s
  BY LockRowsTyped
<1>3. locks \ LocksOf(s) = locks
  BY DEF CreateSchedule, TablesInv, LocksBelongToRows, Exists, LocksOf, Status
<1>4. /\ row.startsAt < row.endsAt
      /\ Insertable(rows, locks \ LocksOf(s))
      /\ schedules' = [schedules EXCEPT ![s] = row]
      /\ locks' = (locks \ LocksOf(s)) \cup rows
  BY <1>3 DEF CreateSchedule, Lasts
<1> HIDE DEF rows
<1>5. row.status = "SCHEDULED" =>
          rows = LockRows(s, row.coach, row.venue, row.startsAt, row.endsAt)
  BY DEF rows
<1> QED
  BY <1>1, <1>2, <1>4, <1>5, RebookingKeepsTables

\* A cancelled booking lets its slots go.
LEMMA DeleteKeepsTables ==
    ASSUME TypeOK, TypeOK', TablesInv, NEW s \in Schedules, DeleteSchedule(s)
    PROVE  TablesInv'
<1> DEFINE row == [schedules[s] EXCEPT !.status = "CANCELLED"]
<1>1. row \in Schedule /\ row.status = "CANCELLED"
      /\ row.startsAt = schedules[s].startsAt /\ row.endsAt = schedules[s].endsAt
  BY DEF TypeOK, Schedule, Status
<1>2. row.startsAt < row.endsAt
  BY <1>1 DEF DeleteSchedule, TablesInv, BookingsHaveDuration
<1>3. /\ schedules' = [schedules EXCEPT ![s] = row]
      /\ locks' = (locks \ LocksOf(s)) \cup {}
  BY DEF DeleteSchedule
<1> HIDE DEF row
<1>4. PICK none \in SUBSET Lock : none = {}
  OBVIOUS
<1>5. /\ Insertable(none, locks \ LocksOf(s))
      /\ \A l \in none : l.schedule = s
      /\ locks' = (locks \ LocksOf(s)) \cup none
      /\ row.status \in Status /\ row.status # "SCHEDULED"
  BY <1>1, <1>3, <1>4 DEF Insertable, Status
<1> QED
  BY <1>1, <1>2, <1>3, <1>5, RebookingKeepsTables

\* A deleted class takes its bookings and their slots with it.
LEMMA CascadeKeepsTables ==
    ASSUME TypeOK, TablesInv, NEW k \in Classes, DeleteClass(k)
    PROVE  TablesInv'
<1> DEFINE gone == {s \in Schedules : Exists(s) /\ schedules[s].class = k}
<1>1. /\ \A t \in Schedules \ gone : schedules'[t] = schedules[t]
      /\ \A t \in gone : schedules'[t].status = "REMOVED"
      /\ locks' = {l \in locks : l.schedule \notin gone}
  BY DEF DeleteClass, TypeOK, Schedule
<1> HIDE DEF gone
<1>2. SlotsAreExclusive'
  BY <1>1 DEF TablesInv, SlotsAreExclusive
<1>3. LocksBelongToRows'
  BY <1>1 DEF TablesInv, LocksBelongToRows, Exists, TypeOK, Lock
<1>4. LiveBookingsHoldTheirSlots'
  <2> SUFFICES ASSUME NEW t \in Schedules, schedules'[t].status = "SCHEDULED"
               PROVE  {l \in locks' : l.schedule = t} =
                          LockRows(t, schedules'[t].coach, schedules'[t].venue,
                                   schedules'[t].startsAt, schedules'[t].endsAt)
    BY DEF LiveBookingsHoldTheirSlots, Live, LocksOf
  <2>1. t \notin gone /\ schedules'[t] = schedules[t]
    BY <1>1
  <2>2. {l \in locks' : l.schedule = t} = LocksOf(t)
    BY <1>1, <2>1 DEF LocksOf
  <2> QED
    BY <2>1, <2>2 DEF TablesInv, LiveBookingsHoldTheirSlots, Live
<1>5. BookingsHaveDuration'
  BY <1>1 DEF TablesInv, BookingsHaveDuration, Exists, Status
<1> QED
  BY <1>2, <1>3, <1>4, <1>5 DEF TablesInv

\* While PATCHes of one booking do not overlap, no step makes what a PATCH read stale.
LEMMA EditsStayCurrent ==
    ASSUME ~EditsOverlap, TypeOK, TypeOK', EditsInv, [Next]_vars
    PROVE  EditsInv'
<1> DEFINE SameFields(s) ==
        /\ schedules'[s].status # "ABSENT"
        /\ schedules'[s].coach = schedules[s].coach /\ schedules'[s].venue = schedules[s].venue
        /\ schedules'[s].startsAt = schedules[s].startsAt
        /\ schedules'[s].endsAt = schedules[s].endsAt
<1>1. ASSUME edits' \subseteq edits, \A e \in edits' : SameFields(e.schedule)
      PROVE  EditsInv'
  BY <1>1 DEF EditsInv, Current
<1>2. ASSUME NEW s \in Schedules,
             NEW row \in [class : Classes, coach : Coaches, venue : Venues,
                          startsAt : Times, endsAt : Times, status : Status],
             CreateSchedule(s, row)
      PROVE  EditsInv'
  <2>1. \A e \in edits : e.schedule \in Schedules /\ e.schedule # s
    BY <1>2 DEF CreateSchedule, EditsInv, Current, TypeOK, Edit
  <2>2. \A e \in edits : SameFields(e.schedule)
    BY <1>2, <2>1 DEF CreateSchedule, TypeOK, EditsInv, Current
  <2> QED
    BY <1>1, <1>2, <2>2 DEF CreateSchedule
<1>3. ASSUME NEW s \in Schedules, NEW body \in Bodies, ReadUpdate(s, body)
      PROVE  EditsInv'
  <2>1. /\ \A other \in edits : other.schedule # s
        /\ schedules' = schedules /\ schedules[s].status # "ABSENT"
    BY <1>3 DEF ReadUpdate, Exists, Status
  <2>2. PICK edit :
          /\ edits' = edits \cup {edit}
          /\ edit.schedule = s
          /\ edit.coach = Given(edit.body.coach, schedules[s].coach)
          /\ edit.venue = Given(edit.body.venue, schedules[s].venue)
          /\ edit.startsAt = Given(edit.body.startsAt, schedules[s].startsAt)
          /\ edit.endsAt = Given(edit.body.endsAt, schedules[s].endsAt)
          /\ edit.startsAt < edit.endsAt
    BY <1>3 DEF ReadUpdate, Lasts
  <2>3. Current(edit)' /\ \A e \in edits : Current(e)' /\ e.startsAt < e.endsAt
    BY <2>1, <2>2 DEF EditsInv, Current
  <2>4. \A e, f \in edits' : e.schedule = f.schedule => e = f
    BY <2>1, <2>2 DEF EditsInv
  <2> QED
    BY <2>2, <2>3, <2>4 DEF EditsInv
<1>4. ASSUME NEW e \in edits, CommitUpdate(e)
      PROVE  EditsInv'
  <2>1. \A f \in edits' : f \in edits /\ f.schedule \in Schedules /\ f.schedule # e.schedule
    BY <1>4 DEF CommitUpdate, EditsInv, TypeOK, Edit
  <2>2. \A f \in edits' : SameFields(f.schedule)
    BY <1>4, <2>1 DEF CommitUpdate, TypeOK, EditsInv, Current
  <2> QED
    BY <1>1, <2>1, <2>2
<1>5. ASSUME NEW e \in edits, RefuseUpdate(e)
      PROVE  EditsInv'
  <2>1. edits' \subseteq edits /\ \A f \in edits' : SameFields(f.schedule)
    BY <1>5 DEF RefuseUpdate, EditsInv, Current
  <2> QED
    BY <1>1, <2>1
<1>6. ASSUME NEW s \in Schedules, DeleteSchedule(s)
      PROVE  EditsInv'
  <2>1. \A f \in edits : SameFields(f.schedule)
    BY <1>6 DEF DeleteSchedule, TypeOK, Schedule, EditsInv, Current, Edit
  <2> QED
    BY <1>1, <1>6, <2>1 DEF DeleteSchedule
<1>7. ASSUME NEW k \in Classes, DeleteClass(k)
      PROVE  EditsInv'
  <2>1. \A f \in edits : SameFields(f.schedule)
    BY <1>7 DEF DeleteClass, TypeOK, Schedule, EditsInv, Current, Edit
  <2> QED
    BY <1>1, <1>7, <2>1 DEF DeleteClass
<1>8. CASE UNCHANGED vars
  BY <1>8 DEF vars, EditsInv, Current
<1> QED
  BY <1>2, <1>3, <1>4, <1>5, <1>6, <1>7, <1>8 DEF Next

\* The tables stay consistent while PATCHes of one booking do not overlap.
LEMMA BookingInvariant ==
    ASSUME ~EditsOverlap PROVE Spec => [](TablesInv /\ EditsInv)
<1>1. Init => TablesInv /\ EditsInv
  BY DEF Init, TablesInv, SlotsAreExclusive, LocksBelongToRows, LiveBookingsHoldTheirSlots,
         BookingsHaveDuration, EditsInv, Live, Exists, Status
<1>2. TypeOK /\ TypeOK' /\ TablesInv /\ EditsInv /\ [Next]_vars => TablesInv'
  <2> SUFFICES ASSUME TypeOK, TypeOK', TablesInv, EditsInv, [Next]_vars PROVE TablesInv'
    OBVIOUS
  <2>1. CASE schedules' = schedules /\ locks' = locks
    BY <2>1 DEF TablesInv, SlotsAreExclusive, LocksBelongToRows, LiveBookingsHoldTheirSlots,
                BookingsHaveDuration, Live, Exists, LocksOf
  <2> QED
    BY <2>1, CreateKeepsTables, UpdateKeepsTables, DeleteKeepsTables, CascadeKeepsTables
       DEF Next, vars, ReadUpdate, RefuseUpdate
<1>3. TypeOK /\ TypeOK' /\ EditsInv /\ [Next]_vars => EditsInv'
  BY EditsStayCurrent
<1> QED
  BY <1>1, <1>2, <1>3, BookingTypeCorrect, PTL DEF Spec

\* Consistent tables admit no double booking: overlapping bookings of one coach or venue
\* would hold one slot twice.
LEMMA ConsistentTablesAreExclusive == TypeOK /\ TablesInv => NoDoubleBooking
<1> SUFFICES ASSUME TypeOK, TablesInv, NEW s \in Schedules, NEW t \in Schedules, s # t,
                    Live(s), Live(t), Share(s, t),
                    Overlap(schedules[s].startsAt, schedules[s].endsAt,
                            schedules[t].startsAt, schedules[t].endsAt)
             PROVE  FALSE
  BY DEF NoDoubleBooking
<1>1. /\ schedules[s].startsAt \in Nat /\ schedules[s].endsAt \in Nat
      /\ schedules[t].startsAt \in Nat /\ schedules[t].endsAt \in Nat
      /\ schedules[s].startsAt < schedules[s].endsAt
      /\ schedules[t].startsAt < schedules[t].endsAt
  BY TimesAssumption DEF TypeOK, Schedule, TablesInv, BookingsHaveDuration, Live, Exists, Status
<1>2. PICK k : /\ k \in TimeSlotKeys(schedules[s].startsAt, schedules[s].endsAt)
               /\ k \in TimeSlotKeys(schedules[t].startsAt, schedules[t].endsAt)
  BY <1>1, OverlappingBookingsShareASlot
<1>3. PICK r : /\ r \in {<<"COACH", schedules[s].coach>>, <<"VENUE", schedules[s].venue>>}
               /\ r \in {<<"COACH", schedules[t].coach>>, <<"VENUE", schedules[t].venue>>}
  BY DEF Share
<1>4. /\ [resource |-> r, slot |-> k, schedule |-> s] \in LocksOf(s)
      /\ [resource |-> r, slot |-> k, schedule |-> t] \in LocksOf(t)
  BY <1>2, <1>3 DEF TablesInv, LiveBookingsHoldTheirSlots, LockRows
<1> QED
  BY <1>4 DEF TablesInv, SlotsAreExclusive, LocksOf

\* No coach and no venue is booked twice at one time, for any number of bookings, coaches,
\* venues and concurrent requests, if two PATCHes of one booking never overlap.
THEOREM NoDoubleBookingHolds ==
    ASSUME ~EditsOverlap PROVE Spec => []NoDoubleBooking
BY BookingInvariant, BookingTypeCorrect, ConsistentTablesAreExclusive, PTL

\* Under the same condition a live booking holds exactly its own slots.
THEOREM SlotsFollowTheBookings ==
    ASSUME ~EditsOverlap PROVE Spec => []LiveBookingsHoldTheirSlots
<1>1. TablesInv => LiveBookingsHoldTheirSlots
  BY DEF TablesInv
<1> QED
  BY <1>1, BookingInvariant, PTL

----------------------------------------------------------------------------
\* A booking that a step turns from SCHEDULED to CANCELLED loses its slots in that step: a
\* cancelling PATCH takes none back and a DELETE releases them, whatever PATCHes of the same
\* booking are in flight.
LEMMA CancellingStep ==
    ASSUME TypeOK, [Next]_vars, NEW s \in Schedules, Live(s), schedules'[s].status = "CANCELLED"
    PROVE  \A l \in locks' : l.schedule # s
<1>1. schedules'[s].status # schedules[s].status
  BY DEF Live
<1>2. ASSUME NEW t \in Schedules,
             NEW row \in [class : Classes, coach : Coaches, venue : Venues,
                          startsAt : Times, endsAt : Times, status : Status],
             CreateSchedule(t, row)
      PROVE  FALSE
  BY <1>1, <1>2 DEF CreateSchedule, TypeOK, Live
<1>3. ASSUME NEW e \in edits, CommitUpdate(e)
      PROVE  \A l \in locks' : l.schedule # s
  <2> DEFINE row == Updated(schedules[e.schedule], e.body)
  <2>1. /\ e.schedule \in Schedules
        /\ schedules' = [schedules EXCEPT ![e.schedule] = row]
        /\ locks' = (locks \ LocksOf(e.schedule)) \cup RowsToInsert(e, row)
    BY <1>3 DEF CommitUpdate, TypeOK, Edit
  <2> HIDE DEF row
  <2>2. e.schedule = s /\ row.status = "CANCELLED"
    BY <1>1, <2>1 DEF TypeOK
  <2>3. RowsToInsert(e, row) = {}
    BY <2>2 DEF RowsToInsert
  <2> QED
    BY <2>1, <2>2, <2>3 DEF LocksOf
<1>4. ASSUME NEW t \in Schedules, DeleteSchedule(t)
      PROVE  \A l \in locks' : l.schedule # s
  <2>1. t = s
    BY <1>1, <1>4 DEF DeleteSchedule, TypeOK
  <2> QED
    BY <1>4, <2>1 DEF DeleteSchedule, LocksOf
<1>5. ASSUME NEW k \in Classes, DeleteClass(k)
      PROVE  FALSE
  BY <1>1, <1>5 DEF DeleteClass, TypeOK, Schedule
<1> QED
  BY <1>1, <1>2, <1>3, <1>4, <1>5 DEF Next, vars, ReadUpdate, RefuseUpdate

\* Cancelling a booking frees all its slots in the same step, also when PATCHes overlap.
THEOREM CancelledBookingsFreeTheirSlots == Spec => CancellingFreesTheSlots
<1>1. ASSUME TypeOK, [Next]_vars
      PROVE  \A s \in Schedules :
                Live(s) /\ schedules'[s].status = "CANCELLED" =>
                    \A l \in locks' : l.schedule # s
  BY <1>1, CancellingStep
<1> QED
  BY <1>1, BookingTypeCorrect, PTL DEF Spec, CancellingFreesTheSlots
=============================================================================
