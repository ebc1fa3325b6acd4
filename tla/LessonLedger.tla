---------------------------- MODULE LessonLedger ----------------------------
(***************************************************************************)
(* Lesson balances of membership cards and the ledger that explains them:  *)
(* check-in, leave, check-out and cancellation (modules/attendance), and   *)
(* the create, PATCH and adjust-lessons operations (modules/memberships).  *)
(*                                                                         *)
(* The database is MySQL.  A check-in writes inside a SERIALIZABLE         *)
(* transaction: its reads take shared locks, so the transaction is one     *)
(* atomic step (CommitCheckIn) that may also roll back (AbortRequest).     *)
(* What a check-in decides BEFORE that transaction opens (leave, clock,    *)
(* schedule status) is read in a step of its own (ReadCheckIn) and may be  *)
(* stale when the transaction commits.  adjust-lessons runs under the      *)
(* default REPEATABLE READ: its read of the card is a step (ReadAdjust)    *)
(* separate from the guarded UPDATE and INSERT (ApplyAdjust), which hold   *)
(* the card's row lock from the UPDATE to the commit.                      *)
(*                                                                         *)
(* The Redis lock around a check-in is advisory (it can expire while its   *)
(* holder runs, and an in-flight transaction survives the 408): it is not  *)
(* assumed here.  A request that is refused before it writes anything      *)
(* (404, 403, 400, 409 busy, a failed QR or GPS check) changes no state    *)
(* and is a stuttering step.                                               *)
(***************************************************************************)
EXTENDS Integers, FiniteSets

CONSTANTS
    Students, Schedules, Cards,
    Requests,          \* request identities, each used at most once: bounds a run
    NoSchedule,        \* adjust-lessons without a scheduleId
    Keep,              \* a field absent from a PATCH body
    Enrolled,          \* the <<student, schedule>> whose class the student is in
    DeductAmount,      \* per schedule: class.courseType.defaultLessonDeduct
    GraceEnd, EndsAt,  \* per schedule: startsAt + lateGraceMinutes, and endsAt
    Horizon,           \* the clock stops there: bounds a run
    NewCards,          \* bodies of POST /memberships
    Deltas,            \* delta in the body of POST /memberships/:id/adjust-lessons
    Patches            \* bodies of PATCH /memberships/:id

CardStatus == {"ACTIVE", "INACTIVE"}  \* INACTIVE: EXPIRED or FROZEN
CardBody == [student : Students, status : CardStatus, remaining : Nat,
             validFrom : Nat, validTo : Nat]
Reasons == {"CLASS_CHECK_IN", "OTHER"}

ASSUME StudentsAssumption == Students # {}
ASSUME NamesAssumption == NoSchedule \notin Schedules /\ Keep \notin Students /\ Keep \notin CardStatus
ASSUME EnrolledAssumption == Enrolled \subseteq Students \X Schedules
ASSUME TimetableAssumption ==
    /\ DeductAmount \in [Schedules -> Nat]
    /\ GraceEnd \in [Schedules -> Nat]
    /\ EndsAt \in [Schedules -> Nat]
    /\ Horizon \in Nat
ASSUME BodiesAssumption ==
    /\ NewCards \subseteq CardBody
    /\ Deltas \subseteq Int
    /\ Patches \subseteq [student : Students \cup {Keep}, status : CardStatus \cup {Keep},
                          remaining : Nat \cup {Keep}, validFrom : Nat \cup {Keep},
                          validTo : Nat \cup {Keep}]

VARIABLES
    now,         \* the clock
    cards,       \* MembershipCard rows; status ABSENT before the row exists
    ledger,      \* LessonTransaction rows
    attendance,  \* AttendanceRecord per <<student, schedule>>; status NONE before
    leaves,      \* the <<student, schedule>> with an APPROVED LeaveRequest
    cancelled,   \* the schedules whose status is CANCELLED
    checkIns,    \* what every check-in request read before its transaction
    adjusts,     \* what every adjust request read at the start of its transaction
    running,     \* the requests whose transaction has not ended
    answer       \* what each request's client has been told

vars == <<now, cards, ledger, attendance, leaves, cancelled, checkIns, adjusts, running, answer>>

----------------------------------------------------------------------------
Pairs == Students \X Schedules
AttendanceStatus == {"PRESENT", "LATE", "ABSENT", "LEAVE"}
Answers == {"idle", "none", "timeout", "deducted", "not_deducted", "adjusted",
            "insufficient", "version_conflict", "failed"}

Keys == ({"checkin"} \X Students \X Schedules) \cup ({"adjust"} \X Cards \X Requests)

Card == [student : Students, status : CardStatus \cup {"ABSENT"}, remaining : Int,
         version : Nat, validFrom : Nat, validTo : Nat]
Row == [key : Keys, card : Cards, student : Students, schedule : Schedules \cup {NoSchedule},
        delta : Int, reason : Reasons, before : Int, after : Int]
CheckIn == [id : Requests, student : Students, schedule : Schedules,
            status : AttendanceStatus, amount : Nat]
Adjust == [id : Requests, card : Cards, student : Students, delta : Int, reason : Reasons,
           schedule : Schedules \cup {NoSchedule}, version : Nat, before : Int]

TypeOK ==
    /\ now \in 0..Horizon
    /\ cards \in [Cards -> Card]
    /\ ledger \subseteq Row
    /\ attendance \in [Pairs -> [status : AttendanceStatus \cup {"NONE"}, out : BOOLEAN]]
    /\ leaves \subseteq Pairs
    /\ cancelled \subseteq Schedules
    /\ checkIns \subseteq CheckIn
    /\ adjusts \subseteq Adjust
    /\ running \subseteq Requests
    /\ answer \in [Requests -> Answers]

Init ==
    /\ now = 0
    /\ cards = [c \in Cards |-> [student |-> CHOOSE s \in Students : TRUE, status |-> "ABSENT",
                                 remaining |-> 0, version |-> 0, validFrom |-> 0, validTo |-> 0]]
    /\ ledger = {}
    /\ attendance = [p \in Pairs |-> [status |-> "NONE", out |-> FALSE]]
    /\ leaves = {}
    /\ cancelled = {}
    /\ checkIns = {}
    /\ adjusts = {}
    /\ running = {}
    /\ answer = [r \in Requests |-> "idle"]

----------------------------------------------------------------------------
(* Requests: a client is answered once; a 408 may precede the end.         *)

Start(r) ==
    /\ answer[r] = "idle"
    /\ running' = running \cup {r}
    /\ answer' = [answer EXCEPT ![r] = "none"]

Finish(r, a) ==
    /\ r \in running
    /\ running' = running \ {r}
    /\ answer' = IF answer[r] = "timeout" THEN answer ELSE [answer EXCEPT ![r] = a]

\* A transaction rolls back: deadlock, transaction timeout, a crash of the process, or an
\* exception thrown inside it (the unique index refused a row and no winner explains it).
AbortRequest(r) ==
    /\ Finish(r, "failed")
    /\ UNCHANGED <<now, cards, ledger, attendance, leaves, cancelled, checkIns, adjusts>>

----------------------------------------------------------------------------
(* The ledger table and its unique indexes.                                *)

CheckInKey(st, sch) == <<"checkin", st, sch>>
AdjustKey(c, r) == <<"adjust", c, r>>  \* the request stands for the random UUID

\* A row the unique indexes on businessKey and on (membershipId, scheduleId) admit.
\* MySQL's unique index admits any number of NULL schedules.
Insertable(row) ==
    \A other \in ledger :
        /\ other.key # row.key
        /\ row.schedule # NoSchedule => <<other.card, other.schedule>> # <<row.card, row.schedule>>

\* findFirst on businessKey OR (scheduleId, reason, studentId): the lookup before the
\* loop and, after a unique violation, the lookup of the winner.
AlreadyDeducted(st, sch) ==
    \E row \in ledger :
        \/ row.key = CheckInKey(st, sch)
        \/ row.schedule = sch /\ row.reason = "CLASS_CHECK_IN" /\ row.student = st

----------------------------------------------------------------------------
(* Check-in.                                                               *)

DecidedStatus(st, sch) ==
    IF <<st, sch>> \in leaves THEN "LEAVE"
    ELSE IF now > EndsAt[sch] THEN "ABSENT"
    ELSE IF now > GraceEnd[sch] THEN "LATE"
    ELSE "PRESENT"

\* LEAVE and ABSENT skip the deduction.
AmountDue(st, sch) ==
    IF DecidedStatus(st, sch) \in {"PRESENT", "LATE"} THEN DeductAmount[sch] ELSE 0

\* The reads of checkIn, taken at one instant: none of them is in the transaction.
ReadCheckIn(r, st, sch) ==
    /\ sch \notin cancelled
    /\ <<st, sch>> \in Enrolled
    /\ Start(r)
    /\ checkIns' = checkIns \cup
            {[id |-> r, student |-> st, schedule |-> sch,
              status |-> DecidedStatus(st, sch), amount |-> AmountDue(st, sch)]}
    /\ UNCHANGED <<now, cards, ledger, attendance, leaves, cancelled, adjusts>>

\* Fault: the card query forgets the status filter.
UsableCardsAnyStatus(st) ==
    {c \in Cards : cards[c].student = st /\ cards[c].validFrom <= now /\ cards[c].validTo >= now}

\* The student's usable cards at this moment.
UsableCards(st) ==
    {c \in Cards :
        /\ cards[c].student = st
        /\ cards[c].status = "ACTIVE"
        /\ cards[c].validFrom <= now
        /\ cards[c].validTo >= now}

\* Fault: the decrement is guarded by remaining > 0 instead of remaining >= amount.
CanPaySomething(c, amount) == cards[c].remaining > 0

CanPay(c, amount) == cards[c].remaining >= amount

\* Fault: `break` instead of `continue` after a card that cannot pay.
SoonestOnly(st, amount) ==
    {c \in UsableCards(st) :
        CanPay(c, amount) /\ \A d \in UsableCards(st) : cards[c].validTo <= cards[d].validTo}

\* The loop over cards in validTo order stops at the first one that can pay; cards with
\* equal validTo come in an order the database chooses.
FirstPayers(st, amount) ==
    {c \in UsableCards(st) :
        /\ CanPay(c, amount)
        /\ \A d \in UsableCards(st) : CanPay(d, amount) => cards[c].validTo <= cards[d].validTo}

\* Fault: the row is written the way adjustLessons writes it, keyed by the request and the
\* card and with a free reason.
CheckInRowLikeManual(ci, c) ==
    [key |-> <<"checkin", c, ci.id>>, card |-> c, student |-> ci.student,
     schedule |-> ci.schedule, delta |-> -ci.amount, reason |-> "OTHER",
     before |-> cards[c].remaining, after |-> cards[c].remaining - ci.amount]

CheckInRow(ci, c) ==
    [key |-> CheckInKey(ci.student, ci.schedule), card |-> c, student |-> ci.student,
     schedule |-> ci.schedule, delta |-> -ci.amount, reason |-> "CLASS_CHECK_IN",
     before |-> cards[c].remaining, after |-> cards[c].remaining - ci.amount]

NeedsDeduct(ci) == ci.amount > 0

\* Fault: a refused ledger row is swallowed and the lessons are not put back.
DeductWithoutCompensation(ci) ==
    \E c \in FirstPayers(ci.student, ci.amount) :
        LET row == CheckInRow(ci, c) IN
        /\ cards' = [cards EXCEPT ![c].remaining = @ + row.delta]
        /\ ledger' = IF Insertable(row) THEN ledger \cup {row} ELSE ledger

\* tryDecrement, then the ledger row.  A row the indexes refuse makes the code put the
\* lessons back and rethrow, which rolls the transaction back: only AbortRequest is left.
Deduct(ci) ==
    \E c \in FirstPayers(ci.student, ci.amount) :
        LET row == CheckInRow(ci, c) IN
        /\ Insertable(row)
        /\ cards' = [cards EXCEPT ![c].remaining = @ + row.delta]
        /\ ledger' = ledger \cup {row}

\* The upsert overwrites the status and keeps checkOutAt.
UpsertAttendance(ci) ==
    attendance' = [attendance EXCEPT ![<<ci.student, ci.schedule>>].status = ci.status]

\* upsertAttendance: the record and the deduction commit together.
CommitCheckIn(ci) ==
    /\ UpsertAttendance(ci)
    /\ \/ /\ NeedsDeduct(ci)
          /\ ~AlreadyDeducted(ci.student, ci.schedule)
          /\ Deduct(ci)
          /\ Finish(ci.id, "deducted")
       \/ /\ \/ ~NeedsDeduct(ci)
             \/ AlreadyDeducted(ci.student, ci.schedule)
             \/ FirstPayers(ci.student, ci.amount) = {}
          /\ Finish(ci.id, "not_deducted")
          /\ UNCHANGED <<cards, ledger>>
    /\ UNCHANGED <<now, leaves, cancelled, checkIns, adjusts>>

\* The lock's operation timeout answers 408 while the transaction goes on.
TimeoutCheckIn(ci) ==
    /\ NeedsDeduct(ci)
    /\ ci.id \in running
    /\ answer[ci.id] = "none"
    /\ answer' = [answer EXCEPT ![ci.id] = "timeout"]
    /\ UNCHANGED <<now, cards, ledger, attendance, leaves, cancelled, checkIns, adjusts, running>>

CheckOut(st, sch) ==
    /\ attendance[<<st, sch>>].status # "NONE"
    /\ attendance' = [attendance EXCEPT ![<<st, sch>>].out = TRUE]
    /\ UNCHANGED <<now, cards, ledger, leaves, cancelled, checkIns, adjusts, running, answer>>

CreateLeaveRequest(st, sch) ==
    /\ leaves' = leaves \cup {<<st, sch>>}
    /\ UNCHANGED <<now, cards, ledger, attendance, cancelled, checkIns, adjusts, running, answer>>

CancelSchedule(sch) ==
    /\ cancelled' = cancelled \cup {sch}
    /\ UNCHANGED <<now, cards, ledger, attendance, leaves, checkIns, adjusts, running, answer>>

----------------------------------------------------------------------------
(* Membership cards.                                                       *)

\* create: the opening balance has no ledger row.
CreateCard(c, body) ==
    /\ cards[c].status = "ABSENT"
    /\ cards' = [cards EXCEPT ![c] =
            [student |-> body.student, status |-> body.status, remaining |-> body.remaining,
             version |-> 0, validFrom |-> body.validFrom, validTo |-> body.validTo]]
    /\ UNCHANGED <<now, ledger, attendance, leaves, cancelled, checkIns, adjusts, running, answer>>

Patched(value, field) == IF field = Keep THEN value ELSE field

\* update: every field of the body, remainingLessons included; version is left alone.
PatchCard(c, body) ==
    /\ cards[c].status # "ABSENT"
    /\ cards' = [cards EXCEPT ![c] =
            [student |-> Patched(@.student, body.student), status |-> Patched(@.status, body.status),
             remaining |-> Patched(@.remaining, body.remaining), version |-> @.version,
             validFrom |-> Patched(@.validFrom, body.validFrom),
             validTo |-> Patched(@.validTo, body.validTo)]]
    /\ UNCHANGED <<now, ledger, attendance, leaves, cancelled, checkIns, adjusts, running, answer>>

ReadAdjust(r, c, delta, reason, sch) ==
    /\ delta # 0
    /\ cards[c].status # "ABSENT"
    /\ Start(r)
    /\ adjusts' = adjusts \cup
            {[id |-> r, card |-> c, student |-> cards[c].student, delta |-> delta, reason |-> reason,
              schedule |-> sch, version |-> cards[c].version, before |-> cards[c].remaining]}
    /\ UNCHANGED <<now, cards, ledger, attendance, leaves, cancelled, checkIns>>

AdjustRow(aj) ==
    [key |-> AdjustKey(aj.card, aj.id), card |-> aj.card, student |-> aj.student,
     schedule |-> aj.schedule, delta |-> aj.delta, reason |-> aj.reason,
     before |-> aj.before, after |-> aj.before + aj.delta]

\* Fault: the version is not part of the WHERE clause.
GuardWithoutVersion(aj) == aj.delta < 0 => CanPay(aj.card, -aj.delta)

\* Fault: the balance is tested on the row read at the start of the transaction.
GuardOnStaleBalance(aj) ==
    /\ cards[aj.card].version = aj.version
    /\ aj.delta < 0 => aj.before >= -aj.delta

\* The WHERE clause of the guarded UPDATE, evaluated on the current row.
GuardHolds(aj) ==
    /\ cards[aj.card].version = aj.version
    /\ aj.delta < 0 => CanPay(aj.card, -aj.delta)

ApplyAdjust(aj) ==
    /\ GuardHolds(aj)
    /\ Insertable(AdjustRow(aj))
    /\ cards' = [cards EXCEPT ![aj.card].remaining = @ + aj.delta, ![aj.card].version = @ + 1]
    /\ ledger' = ledger \cup {AdjustRow(aj)}
    /\ Finish(aj.id, "adjusted")
    /\ UNCHANGED <<now, attendance, leaves, cancelled, checkIns, adjusts>>

\* The UPDATE matched no row.  The re-read that picks the answer sees the transaction's
\* snapshot or, for a tenant-scoped caller (the Prisma extension re-routes findUnique to
\* the base client), the latest committed row.
RefuseAdjust(aj) ==
    /\ ~GuardHolds(aj)
    /\ \E seen \in {[version |-> aj.version, remaining |-> aj.before],
                    [version |-> cards[aj.card].version, remaining |-> cards[aj.card].remaining]} :
            Finish(aj.id, IF aj.delta < 0 /\ seen.version = aj.version /\ seen.remaining < -aj.delta
                          THEN "insufficient" ELSE "version_conflict")
    /\ UNCHANGED <<now, cards, ledger, attendance, leaves, cancelled, checkIns, adjusts>>

Tick ==
    /\ now < Horizon
    /\ now' = now + 1
    /\ UNCHANGED <<cards, ledger, attendance, leaves, cancelled, checkIns, adjusts, running, answer>>

----------------------------------------------------------------------------
CheckInStep ==
    \/ \E r \in Requests, st \in Students, sch \in Schedules : ReadCheckIn(r, st, sch)
    \/ \E ci \in checkIns : CommitCheckIn(ci)
    \/ \E ci \in checkIns : TimeoutCheckIn(ci)
    \/ \E st \in Students, sch \in Schedules : CheckOut(st, sch)
    \/ \E st \in Students, sch \in Schedules : CreateLeaveRequest(st, sch)
    \/ \E sch \in Schedules : CancelSchedule(sch)

CardStep ==
    \/ \E c \in Cards, body \in NewCards : CreateCard(c, body)
    \/ \E c \in Cards, body \in Patches : PatchCard(c, body)
    \/ \E r \in Requests, c \in Cards, delta \in Deltas, reason \in Reasons,
          sch \in Schedules \cup {NoSchedule} : ReadAdjust(r, c, delta, reason, sch)
    \/ \E aj \in adjusts : ApplyAdjust(aj)
    \/ \E aj \in adjusts : RefuseAdjust(aj)

Next ==
    \/ CheckInStep
    \/ CardStep
    \/ \E r \in Requests : AbortRequest(r)
    \/ Tick

Spec == Init /\ [][Next]_vars

----------------------------------------------------------------------------
(* Properties.                                                             *)

CheckInRows == {row \in ledger : row.key[1] = "checkin"}
Charged(st, sch) == \E row \in CheckInRows : row.student = st /\ row.schedule = sch

\* What a card must be to pay for a student's lesson now.
ValidCardOf(c, st) ==
    /\ cards[c].student = st
    /\ cards[c].status = "ACTIVE"
    /\ cards[c].validFrom <= now
    /\ cards[c].validTo >= now

Account == INSTANCE LessonAccount WITH
    open <- {c \in Cards : cards[c].status # "ABSENT"},
    balance <- [c \in Cards |-> cards[c].remaining],
    charged <- {<<row.student, row.schedule>> : row \in CheckInRows}

\* The tables behave as accounts of lessons (LessonAccount): every transaction of attendance
\* and memberships opens, charges or adjusts one account, or moves none.
ImplementsAccount == Account!Spec

\* A card never goes below zero, whatever check-ins, adjustments and retries interleave
\* (tryDecrementMembershipLessons tests and decrements in one statement).
NoOverdraft == \A c \in Cards : cards[c].remaining >= 0

\* A student is charged at most once for a class, on whichever card, under concurrent,
\* repeated and timed-out check-ins (deductLessonsForCheckIn).
ChargedAtMostOnce ==
    \A x, y \in CheckInRows : x.student = y.student /\ x.schedule = y.schedule => x = y

\* Of the adjustments that read the same version of a card at most one commits: the others
\* are told version_conflict, so no adjustment is computed from a balance that another one
\* replaced (applyMembershipLessonDelta).
OneAdjustmentPerVersion ==
    \A x, y \in adjusts :
        /\ x.card = y.card
        /\ x.version = y.version
        /\ answer[x.id] = "adjusted"
        /\ answer[y.id] = "adjusted"
        => x = y

\* A client told "deducted" owns the one charge for that class: the row exists, and no
\* other request for the same student and class was told the same (checkIn's answer).
DeductedAnswersAreUnique ==
    \A ci \in checkIns : answer[ci.id] = "deducted" =>
        /\ Charged(ci.student, ci.schedule)
        /\ \A other \in checkIns :
              /\ answer[other.id] = "deducted"
              /\ other.student = ci.student
              /\ other.schedule = ci.schedule
              => other = ci

\* Card c keeps its balance and gets no row, or gets one row and moves by that row's delta.
Journaled(c) ==
    LET written == {row \in ledger' \ ledger : row.card = c} IN
    \/ written = {} /\ cards'[c].remaining = cards[c].remaining
    \/ \E row \in written :
          written = {row} /\ cards'[c].remaining = cards[c].remaining + row.delta

\* Card c took its balance from the remainingLessons of a PATCH, the one write without a row.
SetByPatch(c) ==
    /\ ledger' = ledger
    /\ \E body \in Patches : body.remaining # Keep /\ PatchCard(c, body)

JournaledStep ==
    /\ ledger \subseteq ledger'
    /\ \A c \in Cards : cards[c].status # "ABSENT" => Journaled(c) \/ SetByPatch(c)

\* Nothing but a PATCH of remainingLessons (memberships.service.ts, update) moves a balance
\* behind the ledger's back: every other change of an existing card is one row of that card
\* and moves it by the row's delta, a refused row included (the compensation of
\* deductLessonsForCheckIn); written rows are never changed or removed.  LESSON_TRANSACTION.md
\* knows no exception: the PATCH is one the code makes.
OnlyPatchIsSilent == [][JournaledStep]_vars

\* A check-in answered deducted = false rode free only because the class was already
\* charged or no usable card of the student held enough lessons when it committed: a card
\* that cannot pay does not hide a later one that can (the loop's `continue`).
NoFreeRide ==
    [][\A ci \in checkIns :
          /\ NeedsDeduct(ci)
          /\ answer[ci.id] # "not_deducted"
          /\ answer'[ci.id] = "not_deducted"
          => \/ AlreadyDeducted(ci.student, ci.schedule)
             \/ \A c \in Cards : ValidCardOf(c, ci.student) => cards[c].remaining < ci.amount]_vars

\* A charge and its attendance commit together: when a check-in row appears, the student is
\* PRESENT or LATE in that very state, the class had not ended when that was decided, and the
\* card belongs to the student and is usable at the commit, even if it was transferred, frozen
\* or expired after the request started.
ChargeIsAttended ==
    [][\A row \in CheckInRows' \ CheckInRows :
          /\ attendance'[<<row.student, row.schedule>>].status \in {"PRESENT", "LATE"}
          /\ ValidCardOf(row.card, row.student)]_vars

\* beforeRemaining and afterRemaining of a row are the card's balance around the change, as
\* docs/LESSON_TRANSACTION.md says of the two columns (adjustLessons takes them from its
\* first read).
RowsRecordTheBalance ==
    [][\A row \in ledger' \ ledger :
          /\ row.before = cards[row.card].remaining
          /\ row.after = cards'[row.card].remaining]_vars
=============================================================================
