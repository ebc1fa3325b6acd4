--------------------------- MODULE ScheduleBooking ---------------------------
(***************************************************************************)
(* Booking coaches and venues: create, PATCH and DELETE of /schedules, and *)
(* the cascade of DELETE /classes/:id (modules/courses).                   *)
(*                                                                         *)
(* The guarantee is the unique index on (resourceType, resourceId,         *)
(* timeSlotKey) of ScheduleResourceLock: a booking inserts one row per     *)
(* 15-minute slot for its coach and one for its venue.  Create and update  *)
(* write inside a SERIALIZABLE transaction, one atomic step each, and      *)
(* delete conflicts with both on the rows it writes.  But updateSchedule   *)
(* reads the current row BEFORE its transaction and before the Redis       *)
(* locks, and computes the slots from what it read (ReadUpdate), while the *)
(* transaction writes only the fields of the body (CommitUpdate).          *)
(*                                                                         *)
(* The Redis locks on coach and venue only reduce contention: busy is      *)
(* answered 409 and changes nothing, and the read comes before them.  A    *)
(* refused request (400, 404, 409, a conflict in the unique index, which   *)
(* rolls back) changes no table.                                           *)
(***************************************************************************)
EXTENDS Integers, TimeSlots

CONSTANTS
    Schedules, Classes, Coaches, Venues,
    Times,         \* the minutes a booking may start or end at: bounds a run
    Keep,          \* a field absent from a PATCH body
    Bodies,        \* bodies of PATCH /schedules/:id
    EditsOverlap   \* may two PATCHes of one schedule be in flight at once?

\* COMPLETED stands with SCHEDULED: the code only tells CANCELLED apart.
Status == {"SCHEDULED", "CANCELLED"}

Optional(S) == S \cup {Keep}

ASSUME TimesAssumption == Times \subseteq Nat
ASSUME KeepAssumption ==
    /\ Keep \notin Classes /\ Keep \notin Coaches /\ Keep \notin Venues
    /\ Keep \notin Times /\ Keep \notin Status
ASSUME BodiesAssumption ==
    Bodies \subseteq [class : Optional(Classes), coach : Optional(Coaches), venue : Optional(Venues),
                      startsAt : Optional(Times), endsAt : Optional(Times), status : Optional(Status)]
ASSUME EditsAssumption == EditsOverlap \in BOOLEAN
ASSUME ClassesAssumption == Classes # {} /\ Coaches # {} /\ Venues # {} /\ Times # {}

VARIABLES
    schedules,  \* Schedule rows; ABSENT before creation, REMOVED by a cascade
    locks,      \* ScheduleResourceLock rows
    classes,    \* the classes that exist
    edits       \* PATCHes between their read and their transaction

vars == <<schedules, locks, classes, edits>>

Schedule == [class : Classes, coach : Coaches, venue : Venues, startsAt : Times, endsAt : Times,
             status : Status \cup {"ABSENT", "REMOVED"}]
Resources == ({"COACH"} \X Coaches) \cup ({"VENUE"} \X Venues)
Lock == [resource : Resources, slot : Int, schedule : Schedules]
Edit == [schedule : Schedules, body : Bodies, coach : Coaches, venue : Venues,
         startsAt : Times, endsAt : Times]

TypeOK ==
    /\ schedules \in [Schedules -> Schedule]
    /\ locks \subseteq Lock
    /\ classes \subseteq Classes
    /\ edits \subseteq Edit

Init ==
    /\ schedules = [s \in Schedules |->
            [class |-> CHOOSE k \in Classes : TRUE, coach |-> CHOOSE c \in Coaches : TRUE,
             venue |-> CHOOSE v \in Venues : TRUE, startsAt |-> CHOOSE t \in Times : TRUE,
             endsAt |-> CHOOSE t \in Times : TRUE, status |-> "ABSENT"]]
    /\ locks = {}
    /\ classes = Classes
    /\ edits = {}

----------------------------------------------------------------------------
Exists(s) == schedules[s].status \in Status
Live(s) == schedules[s].status = "SCHEDULED"

LockRows(s, coach, venue, startsAt, endsAt) ==
    [resource : {<<"COACH", coach>>, <<"VENUE", venue>>},
     slot : TimeSlotKeys(startsAt, endsAt), schedule : {s}]

LocksOf(s) == {l \in locks : l.schedule = s}

\* The rows the unique index admits next to the rows kept.
Insertable(rows, kept) ==
    \A l \in rows, other \in kept : <<l.resource, l.slot>> # <<other.resource, other.slot>>

Lasts(startsAt, endsAt) == startsAt < endsAt

\* Also a booking created CANCELLED takes its slots.
CreateSchedule(s, row) ==
    LET rows == LockRows(s, row.coach, row.venue, row.startsAt, row.endsAt) IN
    /\ schedules[s].status = "ABSENT"
    /\ Lasts(row.startsAt, row.endsAt)
    /\ row.class \in classes
    /\ Insertable(rows, locks)
    /\ schedules' = [schedules EXCEPT ![s] = row]
    /\ locks' = locks \cup rows
    /\ UNCHANGED <<classes, edits>>

Given(field, current) == IF field = Keep THEN current ELSE field

\* The read of updateSchedule and the values computed from it.
ReadUpdate(s, body) ==
    LET current == schedules[s]
        edit == [schedule |-> s, body |-> body,
                 coach |-> Given(body.coach, current.coach),
                 venue |-> Given(body.venue, current.venue),
                 startsAt |-> Given(body.startsAt, current.startsAt),
                 endsAt |-> Given(body.endsAt, current.endsAt)]
    IN
    /\ Exists(s)
    /\ EditsOverlap \/ \A other \in edits : other.schedule # s
    /\ Lasts(edit.startsAt, edit.endsAt)
    /\ edits' = edits \cup {edit}
    /\ UNCHANGED <<schedules, locks, classes>>

\* What the UPDATE statement leaves in the row: only the fields of the body change.
Updated(row, body) ==
    [class |-> Given(body.class, row.class), coach |-> Given(body.coach, row.coach),
     venue |-> Given(body.venue, row.venue), startsAt |-> Given(body.startsAt, row.startsAt),
     endsAt |-> Given(body.endsAt, row.endsAt), status |-> Given(body.status, row.status)]

\* Fault: a cancelling PATCH takes its slots back, like any other.
RowsToInsertAlways(e, row) == LockRows(e.schedule, e.coach, e.venue, e.startsAt, e.endsAt)

\* Fault: the slots are taken again only when the PATCH moves the booking.
RowsToInsertWhenMoved(e, row) ==
    IF row.status = "CANCELLED" \/ (e.body.startsAt = Keep /\ e.body.endsAt = Keep
                                    /\ e.body.coach = Keep /\ e.body.venue = Keep) THEN {}
    ELSE LockRows(e.schedule, e.coach, e.venue, e.startsAt, e.endsAt)

\* Fault: the venue of the body is ignored, as if only the coach could clash.
RowsToInsertForCoach(e, row) ==
    IF row.status = "CANCELLED" THEN {}
    ELSE {l \in LockRows(e.schedule, e.coach, e.venue, e.startsAt, e.endsAt) :
            l.resource[1] = "COACH"}

RowsToInsert(e, row) ==
    IF row.status = "CANCELLED" THEN {}
    ELSE LockRows(e.schedule, e.coach, e.venue, e.startsAt, e.endsAt)

CommitUpdate(e) ==
    LET row == Updated(schedules[e.schedule], e.body)
        kept == locks \ LocksOf(e.schedule)
    IN
    /\ Exists(e.schedule)
    /\ row.class \in classes
    /\ Insertable(RowsToInsert(e, row), kept)
    /\ schedules' = [schedules EXCEPT ![e.schedule] = row]
    /\ locks' = kept \cup RowsToInsert(e, row)
    /\ edits' = edits \ {e}
    /\ UNCHANGED classes

\* The transaction rolls back (a conflict, a deadlock, a missing row), the Redis lock is
\* busy, or the process dies.
RefuseUpdate(e) ==
    /\ edits' = edits \ {e}
    /\ UNCHANGED <<schedules, locks, classes>>

DeleteSchedule(s) ==
    /\ Exists(s)
    /\ schedules' = [schedules EXCEPT ![s].status = "CANCELLED"]
    /\ locks' = locks \ LocksOf(s)
    /\ UNCHANGED <<classes, edits>>

\* The foreign keys remove the class's schedules and their locks.
DeleteClass(k) ==
    LET gone == {s \in Schedules : Exists(s) /\ schedules[s].class = k} IN
    /\ k \in classes
    /\ classes' = classes \ {k}
    /\ schedules' = [s \in Schedules |->
            IF s \in gone THEN [schedules[s] EXCEPT !.status = "REMOVED"] ELSE schedules[s]]
    /\ locks' = {l \in locks : l.schedule \notin gone}
    /\ UNCHANGED edits

Next ==
    \/ \E s \in Schedules, row \in [class : Classes, coach : Coaches, venue : Venues,
                                   startsAt : Times, endsAt : Times, status : Status] :
            CreateSchedule(s, row)
    \/ \E s \in Schedules, body \in Bodies : ReadUpdate(s, body)
    \/ \E e \in edits : CommitUpdate(e)
    \/ \E e \in edits : RefuseUpdate(e)
    \/ \E s \in Schedules : DeleteSchedule(s)
    \/ \E k \in Classes : DeleteClass(k)

Spec == Init /\ [][Next]_vars

----------------------------------------------------------------------------
(* Properties.                                                             *)

Share(s, t) ==
    \/ schedules[s].coach = schedules[t].coach
    \/ schedules[s].venue = schedules[t].venue

\* No coach and no venue is booked twice at one time, whatever creates, PATCHes, deletes and
\* re-openings interleave (ScheduleResourceLock's comment in schema.prisma).
NoDoubleBooking ==
    \A s, t \in Schedules :
        /\ s # t /\ Live(s) /\ Live(t)
        /\ Share(s, t)
        => ~Overlap(schedules[s].startsAt, schedules[s].endsAt,
                    schedules[t].startsAt, schedules[t].endsAt)

\* A live booking holds exactly the slots of its own coach, venue and time: a re-opened one
\* has them again, a moved one has let the old ones go.
LiveBookingsHoldTheirSlots ==
    \A s \in Schedules : Live(s) =>
        LocksOf(s) = LockRows(s, schedules[s].coach, schedules[s].venue,
                              schedules[s].startsAt, schedules[s].endsAt)

\* Every booking ends after it starts, although a PATCH may give one end of it only.
BookingsHaveDuration ==
    \A s \in Schedules : Exists(s) => schedules[s].startsAt < schedules[s].endsAt

\* Cancelling a booking, by PATCH or DELETE, frees all its slots in the same step.
CancellingFreesTheSlots ==
    [][\A s \in Schedules :
          Live(s) /\ schedules'[s].status = "CANCELLED" =>
              \A l \in locks' : l.schedule # s]_vars
=============================================================================
