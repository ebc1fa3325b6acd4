# mib-server: verification project

TLA+ models of the lesson-card booking server in `src/` (NestJS and Prisma on MySQL, with
Redis), checked with TLC and, where it matters most, proved with TLAPS for every size of the
system. Paths below are relative to the repository (`src/modules/...` is the server's code,
`docs/` its documents).

## Inventory

| Component | State | Operations | What is hard | What makes it correct |
|---|---|---|---|---|
| Attendance and check-in (`src/modules/attendance`) | `AttendanceRecord`, `LeaveRequest`, `ScheduleQrToken` | `checkIn`, `checkOut`, `createLeaveRequest`, `issueQrToken` | reads before the serializable transaction; retries; a 408 while the transaction goes on; advisory lock; the order of its time tests | one charge per student and class; the charge and the record commit together; a card that cannot pay hides no other; a later check-in never records a better status |
| Memberships and the lesson ledger (`src/modules/memberships`, `src/common/prisma`) | `MembershipCard` (balance, `version`), `LessonTransaction` | `create`, `update`, `adjustLessons`, decrement, guarded delta | REPEATABLE READ with an optimistic version that check-ins do not bump | no overdraft; no lost update; the ledger explains every balance |
| Schedules and slot locks (`src/modules/courses`) | `Schedule`, `ScheduleResourceLock` | `createSchedule`, `updateSchedule`, `deleteSchedule`, `deleteClass` | an update computed from a row read outside its transaction | no coach or venue is booked twice; the slots follow the bookings |
| Students, coaches, course types, venues, classes, enrolment (`src/modules/students`, `coaches`, `courses`) | their tables and link tables | create, find, update, remove, tag, group, enroll | a look and a write with other requests between them; rows that name each other across tenants; cascades | a write meets only rows the caller may reach; an answer holds no row of another tenant but one that an own row names |
| Tenant isolation, roles and data scope (`src/common/rbac`, `src/infrastructure/prisma/tenant`) | the caller's context (AsyncLocalStorage), profiles, `UserTenant`, `Role` | context, header, filters on reads and writes, `RolesGuard` | the context is built from rows that others change; two filters of different strength | users without a common tenant find no common row; the header only narrows; a lost profile widens nothing but what has no data scope |
| Billing and payment callbacks (`src/modules/billing`) | `Order` | `createOrder`, paid and refunded callbacks | duplicated, reordered, concurrent callbacks; one trade number on two orders | an order is paid once, by one trade; refunds only after payment; replays get the same answer |
| Business locks (`src/infrastructure/redis/redis-business.service.ts`) | Redis keys with TTL and owner token | acquire, renew, run, release | expiry while the holder runs, partial acquisition | mutual exclusion while no lock has expired; only the owner releases |
| Request idempotency (`src/common/idempotency`) | processing and result records in Redis | reserve, wait, replay, take over, complete, fail | TTLs under long handlers, failed completion, a SET and a DEL that compare nothing | one handler at a time per key; one result told; nobody waits for ever; reservations end |
| Login guard and tokens (`src/modules/auth`) | `User` (hash, `tokenVersion`), windows, strikes, lock, blacklist | `login`, `register`, `changePassword`, `logout`, `validate` | checks before counts; INCR then EXPIRE; a password changed between comparison and signature | bounded attempts; no valid token for an old password; logging out is final |
| Redis primitives | counters, keys | `setNx`, `set`, `del`, `incr`, `rateLimit`, lock scripts | lost replies, commands sent twice | part of the three components above |
| Configuration, API documents (`src/common/config`, `src/swagger.ts`) | the environment | defaults, production checks, guards of the documents, token lifetimes | two places that decide the same thing | no start in production with a weak secret or open documents |
| Logging (`src/common/interceptors`, `logger`, `errors`) | channels, page-visit counters | records of a request | two branches for one obligation | an administrator's writes that are executed are audited |
| Money (`src/common/money`) | none | cents to text and back | signs and short fractions | an amount survives |
| Statistics, audit columns, placeholders | none of their own | read-only aggregates, column defaults | | |

How they interact: controllers pass the guards (token, role, idempotency interceptor), then a
service; services talk to each other only through MySQL rows and Redis keys. Attendance takes
a business lock, then opens a transaction that touches memberships' cards and ledger;
`adjustLessons` and PATCH touch the same cards without the lock; `updateSchedule` cancels what a
check-in has read. So the interleavings that matter are those of database transactions and of
the reads made before them, and that is what the modules keep.

## Plan

Done, in the order of importance: 1. `LessonLedger` with `LessonAccount` (the balances are the
product). 2. `TimeSlots` and `ScheduleBooking`. 3. `Billing` with `PaymentBook`. 4. `BusinessLock`.
5. `RequestIdempotency` with `OneExecution`. 6. `Authentication`. 7. `Roster`. 8. The parts without a state: `CheckInGate`,
`Startup`, `RouteAccess`, `RequestLog`, `Money`.

Left, in order:

9. A composition of `BusinessLock` with `LessonLedger`'s check-in: what the lock adds (fewer
   aborted transactions) and what it cannot (the once-only charge is the index's).
10. A composition of `RequestIdempotency` with `Billing`: which of the lapses of a key the unique
    columns of `Order` make harmless.
11. The theorems of these compositions, `OneExecution` in the place of `RequestIdempotency` in 10.

## Modules

| Module | Models |
|---|---|
| `LessonAccount` | the abstract promise: accounts that never go below zero, one charge per student and class |
| `LessonLedger` | attendance and memberships over their tables |
| `MCLessonLedger` | small instances |
| `LessonLedgerProofs` | theorems |
| `TimeSlots` | `buildTimeSlotKeys` in minutes |
| `ScheduleBooking` | schedules and their slot-lock rows |
| `MCScheduleBooking` | small instances |
| `ScheduleBookingProofs` | theorems |
| `PaymentBook` | the abstract promise of billing: opened once per key, paid once by one trade, refunded once |
| `Billing` | orders, `createOrder` and the payment callbacks |
| `MCBilling` | small instances |
| `BillingProofs` | theorems |
| `BusinessLock` | advisory locks in Redis: acquire, renew, time out, release, over passing time |
| `MCBusinessLock` | small instances |
| `BusinessLockProofs` | theorems |
| `OneExecution` | the abstract promise of an idempotency key: one execution at a time, until one succeeds and settles it |
| `RequestIdempotency` | the idempotency interceptor over its records in Redis |
| `MCRequestIdempotency`, `RequestIdempotencyProofs` | a small instance, theorems |
| `Authentication` | accounts, login guard, tokens and blacklist |
| `MCAuthentication`, `AuthenticationProofs` | a small instance, theorems |
| `Roster` | students, coaches, courses and classes behind the access context, the tenant filter and the data scope |
| `MCRoster`, `RosterProofs` | a small instance, theorems |
| `CheckInGate` | what a check-in passes before its transaction: leave, end, code, geofence, grace |
| `Startup` | secrets, production checks, guards of the API documents, token lifetimes |
| `RouteAccess` | the annotations of the controllers, the seeded permissions, `RolesGuard` |
| `RequestLog` | the records a request leaves |
| `Money` | cents and decimal amounts |
| `MCFunctions` | the modules without a state over bounded inputs, with `TimeSlots` |
| `FunctionsProofs` | theorems about them, for every input |

Definitions called a *fault* in a comment are no part of the model: each is the code with a
plausible bug, and `PROJECT.json` pairs it with the property that notices it.

### LessonLedger

*State.* `cards` and `ledger` are the `MembershipCard` and `LessonTransaction` tables,
`attendance` the `AttendanceRecord` table, `leaves` the approved leave requests, `cancelled` the
cancelled schedules. `checkIns` and `adjusts` are what the requests in flight have read, `running`
the open transactions, `answer` what each client was told. Enrolment and timetable are constants.

*Steps.* `$transaction` with `Serializable` takes shared locks on what it reads, so a check-in's
transaction is one atomic step (`CommitCheckIn`) or a rollback (`AbortRequest`), after a separate
step for everything `checkIn` reads before it (`ReadCheckIn`: all of these reads are taken at one
instant). `adjustLessons` opens a transaction at MySQL's default REPEATABLE READ: a read of the
snapshot (`ReadAdjust`) and a guarded `UPDATE ... WHERE` on the current row, which from then to the
commit holds the row lock, with the ledger row (`ApplyAdjust`). Its re-read after a refused update
sees the snapshot or, because the tenant extension sends `findUnique` to the base client, the
latest committed row (`RefuseAdjust`). The lock's operation timeout answers 408 and leaves the
transaction running (`TimeoutCheckIn`). `PatchCard` writes every field the body carries, `remainingLessons` included: the one
way a balance moves without a ledger row, which the bodies of run `adjust` contain (`TransferAndSet`).
The loop over cards ordered by `validTo` that skips the ones that cannot pay is the set
`FirstPayers`; ties are left to the database.

*Abstracted.* A refused request (404, 403, 400, failed QR or GPS gate, lock busy) changes no
state and is a stutter. EXPIRED and FROZEN cards are INACTIVE (the code only tests for ACTIVE),
a COMPLETED schedule counts as SCHEDULED (the code only tests for CANCELLED). Times are small
integers. The random UUID in an adjustment's business key is the request. The Redis lock is not
assumed: `REDIS_LOCKS.md` says that it must not be the only guarantee of correctness, and the
theorems show that it is not. Deleting students or classes cascades over these tables and is not
modelled here.

### TimeSlots and ScheduleBooking

`TimeSlots` is the loop that lists a booking's 15-minute slots, in minutes. `ScheduleBooking`
has the `Schedule` rows, the `ScheduleResourceLock` rows and the PATCHes in flight.
`updateSchedule` reads the row before the Redis locks and before its transaction (`ReadUpdate`)
and writes later (`CommitUpdate`): the body's fields go to the row as it is now, the slots are
computed from the row as it was read. The unique index on slot rows is `Insertable`. A PATCH that
fails (busy lock, taken slot, rollback) leaves only `edits` changed (`RefuseUpdate`). `deleteSchedule`
conflicts with an update on the same rows, so it is one step. `EditsOverlap` says whether two PATCHes of
one booking may be in flight together: the code allows it; with FALSE the model shows what holds
when a client waits for its answer.

### Billing

`orders` is the `Order` table, `creates` and `callbacks` the requests and what they know, `answer`
what each client was told (an order, or a verdict). `createOrder` has no transaction, so its look-up
by key (`ReadKey`), its INSERT (`InsertOrder`, with a random order number that may be taken) and
the look-up after a unique violation (`FindWinner`) are three steps, and the look-ups see only the
caller's tenants. A callback's transaction is a read that fixes the snapshot (`ReadPaid`,
`ReadRefund`: the early answers are given there) and a conditional UPDATE on the current row
(`ApplyPaid`, `ApplyRefund`), or its refusal, whose second read sees the snapshot again
(`RefusePaid`, `RefuseRefund`). A commit may be followed by a crash before the client hears of it
(`FinishCommitted`). Signatures, amounts, titles and dates decide nothing once the request is accepted and
are left out; CANCELLED is written by no code. The Redis replay in front of the handlers is not assumed
(`IDEMPOTENCY.md` says the database decides); it is `RequestIdempotency`.

### BusinessLock

`locks` is what Redis has under each key, the owner's token and the ticks left; the rest is the
local state of each `runWithBusinessLocks`: `held` its array, `working` whether `fn` runs, `since`
and `elapsed` its timers. SET NX EX, the renewal script and the release script are atomic
(`Taken`, `Extended`, `Freed`); between any two commands of a call everything else may happen. The
loop takes the resources in sorted order (`Wanted`), never waits, and gives back in reverse
(`Release`). The operation timeout ends the call, not `fn`: `Settle` may come later. Up to `MaxFaults`
times, any command may fail, a reply may be lost after the SET took effect (the client, configured in
`redis.config.ts`, sends it again or gives up: `LoseReply`), and a process may die at any point,
which a rejected renewal, handled by nobody, brings about by itself. A call's own crash stands for
its process's: several calls may crash one after the other.

Time is `Tick`. `Slack` says how many ticks late an acquisition loop, a renewal or a timeout may be;
`Tick` waits for what is overdue, and nothing else is bounded: releases come arbitrarily late, and
`fn` may never settle. `PromptEnough` relates the slack to the TTL and is tight: TLC finds
`Exclusion` violated one tick beyond it.

### RequestIdempotency

`store` is the Redis record of each scoped key (who wrote it and the ticks it has left), `stage` where each
request is in the interceptor. `prepare` is one step per command: SET NX (`Reserve`), GET (`Look`), the second
SET NX when nothing was found (`Retry`), then the handler, the wait loop (`Poll`, `GiveUp`), or after it the
whole of `beginRequestIdempotency` again (`again`). A handler ends by `Succeed` or `Throw`; the SET of the
result (`Complete`) and the DEL of a failure (`Fail`) compare nothing, so they hit whatever record is there.
`Tick` ages the records whether or not their handler has ended. Faults, up to `MaxFaults`: a command fails, a
command whose reply was lost is sent again (`ReserveTwice`, `FailTwice`), the process dies.
`lapsed` is a history variable: the keys whose reservation ran out under a handler, whose result ran out, or whose record a
fault made disappear. For these the interceptor promises nothing and the unique keys of the handlers decide
(`Billing`, `LessonLedger`); for all other keys the safety properties hold although SET and DEL check nothing.
The mapping to `OneExecution` shows of a key its record (without its age), who executes under it and which executions were told (`KeyState`);
a lapsed key is void, which nothing leaves.
A response is the request that executed; scope and fields of a key are one model value.

### Authentication

`accounts` are the `User` rows (hash and `tokenVersion`), `counters`, `locked` and `blacklist` the keys of the
login guard and of logged-out tokens in Redis, `tokens` the token each request was given. A request goes from
command to command: lock, window of the address, window of the name, row, comparison, and on failure both windows
again, the strike and the lock; `changePassword` and `logout` begin behind `JwtStrategy.validate`. The INSERT and
the UPDATE of `tokenVersion` work on the row as it is, the token is signed for the row as it was read or written. `Crash` stands
for a failing command or a process that dies at any of these points, with or without the effect of its last command;
`CrashCounting` falls between INCR and EXPIRE. Windows and locks run out by themselves; tokens and blacklist entries are
compared with each other and so count ticks. Tenants other than one, and the `LoginEvent` rows, are left out.

### Roster

`live`, `rows` and `links` are the tables of students, coaches, course types, venues, classes, tags and groups
and the link tables; a row is its tenant, its user and the rows its foreign keys name. `Arrive` builds the access context as
`AccessContextService` and the interceptor do, `Look` is the read by which `findOne`, `getClass`, `ensureVenue` and
the like answer 404, and `Create`, `Update`, `Remove`, `Attach`, `Detach` are the writes, with the foreign keys,
`onDelete` rules and unique indexes of the schema. Between these steps other requests run. The tenant filter is on
the look and on the UPDATE or DELETE, not on the rows that an answer includes (`Included`: the coach and students of a class, the
class, room and coach of a booking, a student's tags), so what a user is handed is more than what it finds (`Handed`, `Finds`) (Prisma is taken to accept the conjunction of the id and the tenant as the unique filter of an update); the data
scope is on the look only. The primary tenant of a user with several and no home is left open (`Homes`). Users, permissions
and schedules are constants or initial rows here; names, phones and times are left out.

### The modules without a state

They have operators only. `CheckInGate.Verdict` is `checkIn` from its first read to the call of
`upsertAttendance`, with its early answers in the code's order; a code is the instant at which it expires, a
position its distance. `Startup` abstracts a secret to its quality (missing, on the list of `env.constants.ts`, short, in the repository's
files but not on the list, strong) and keeps which
variables are required and how defaults, checks and guards meet. `RouteAccess` is the table of annotations, one element for the
routes of a resource that have the same ones; the routes that ask for a token only (own profile, password, session) are in it,
those without a guard are not. `RequestLog` gives the set of records by channel and type, for a
request that the guards refuse, one that the idempotency interceptor answers in front of the log, and one that comes to its handler.
`Money` has decimal amounts as sign, whole part and digits. `MCFunctions` makes one state of every input, or pair of
inputs, of every topic; `FunctionsProofs` proves of all inputs, bounded or not, what the run checks of these.

## Runs

| Run | Configuration | Expected | Properties | What it shows |
|---|---|---|---|---|
| `checkin` | `LessonLedger_checkin.cfg` | pass | `ChargedAtMostOnce`, `DeductedAnswersAreUnique`, `NoFreeRide`, `ChargeIsAttended` | Two check-ins of one student race over two cards (too poor, expiring, not yet valid, frozen) while leave, PATCH, cancellation, check-out, 408s, rollbacks and the clock interleave: one charge, told to one client, from a card of the student valid at the commit, never a free ride. |
| `adjust` | `LessonLedger_adjust.cfg` | pass | `NoOverdraft`, `OneAdjustmentPerVersion`, `OnlyPatchIsSilent`, `ImplementsAccount` | Three check-ins or manual adjustments, with and without a scheduleId, share one card that changes hands and has its balance set by PATCH: no overdraft, no lost update, no silent change but the PATCH's own, and the tables implement LessonAccount. |
| `stale_row` | `LessonLedger_stale_row.cfg` | violation | `RowsRecordTheBalance` | A check-in commits between the read and the UPDATE of an adjustment, which then records balances the card never had. |
| `booking` | `ScheduleBooking_serial.cfg` | pass | `NoDoubleBooking`, `LiveBookingsHoldTheirSlots`, `CancellingFreesTheSlots` | Two bookings compete for two coaches and two rooms under creates, PATCHes of single fields, cancellations, re-openings, deletes and a cascade; each has one PATCH in flight at a time. |
| `double_booking` | `ScheduleBooking_double.cfg` | violation | `NoDoubleBooking` | Two PATCHes of one booking in flight at once: the second locks the slots of the coach it read, not of the coach the booking has, and that coach is booked twice. |
| `orders` | `Billing_orders.cfg` | pass | `SameKeySameOrder`, `RepliesStayInTheTenant`, `AcknowledgedCallbacksHold`, `ImplementsBook` | Up to four requests, POST /orders of a tenant's staff and of an administrator over two keys and paid and refunded callbacks of two trades, race, are duplicated, reordered and lose their answers: one order per key, nobody is handed another tenant's, the table implements PaymentBook, and every acknowledged callback stays true. |
| `repeated_payment` | `Billing_repeat.cfg` | violation | `RepeatedPaymentIsAccepted` | Two deliveries of one paid callback whose transactions overlap: the later one is answered 409 though its own trade has paid the order. |
| `locks` | `BusinessLock_calls.cfg` | pass | `Exclusion`, `SomebodyGetsIn`, `NobodyIsRobbed`, `EveryCallReturns`, `EveryKeyIsFreed` | Two calls for one pair of resources, timers up to a tick late, releases arbitrarily late, fn that may hang, an error, a lost reply or a crash anywhere: two calls that count on their keys share no resource, nobody's key is taken, not all are turned away, every call returns and its keys go for good. |
| `idempotency` | `RequestIdempotency.cfg` | pass | `OneRunsAtATime`, `ImplementsOneExecution`, `NobodyWaitsForEver`, `ReservationsEnd` | Three requests with one key (in the header or the body) over records that run out, handlers that may hang, and one fault (a failed or repeated command, a dead process): while the record lives one of them runs at a time, the key goes from hand to hand as OneExecution says and all successes are of one execution, nobody waits for ever and every reservation ends. |
| `auth` | `Authentication.cfg` | pass | `AttemptsAreBounded`, `TokensKnowThePassword`, `LoggedOutForGood`, `BlocksEnd` | Three calls of login, register, changePassword or logout, command by command, with one fault, windows, locks and tokens that run out: a window lets no more attempts pass than its limit, no valid token stands for an old password, logging out is final, and without a fault every block ends. |
| `roster` | `Roster.cfg` | pass | `WithoutProfileOnlyClasses`, `OnlyNamedRowsCross`, `HeadersOnlyNarrow`, `WritesStayInTenants` | Three calls among two tenants (students, coaches, classes and what names them; a cross-tenant administrator, staff of one, the other and both, a coach, a student): rows move, vanish and change hands between a request's look and its write, yet a user that loses its profile is left with classes and whom they name, a foreign row arrives only inside an own row that names it, the header shows nothing more, and no write leaves its context's tenants. |
| `functions` | `Functions.cfg` | pass | `KeysAreTheTouchedSlots`, `CheckInsAgeOneWay`, `StartsAreSafe`, `BlacklistOutlivesTokens`, `StudentsManageNothing`, `AdminWritesAreAudited`, `AmountsRoundTrip` | The parts of the program that keep no state, over every input within the bounds: slot keys of bookings, the verdict on two check-ins of one class at two instants, environments, token lifetimes, the route table against every role and grant, the records of a request, amounts. |

`CHECK_DEADLOCK FALSE` in the ledger, booking, billing, authentication and roster runs: requests, clocks and rows to create are bounded, so a
behaviour really may come to an end when everything has been used.
There is no fairness in the ledger, the bookings, billing and the roster: they make no liveness claim. (A
request that never finishes is what a crash looks like, and the properties hold all the same.)
`BusinessLock`'s `FairSpec` assumes that time passes, that Redis answers the acquisition loop and the
release, and that Node's timers fire, each weakly fair; a call that is answered by an error or whose
process dies has ended. Nothing is assumed of `fn`. Its `Tick` never stops, so deadlock is checked there.
`RequestIdempotency`'s assumes the same of time, of the commands of `prepare` and after the handler, and of
the deadline of the wait loop, and nothing of handlers; deadlock is checked too. `Authentication`'s assumes only that Redis
expires the keys that have a TTL.

**Bounds and why they suffice.** Each `Requests` value is one HTTP request; the races are between
two writers and the row between them, so two check-ins and two cards (which differ in balance,
validity and status) or three requests on one card that may change hands are the smallest instances in which all of
double charge, lost update, compensation and the `continue` of the card loop occur. One class
suffices for the charge properties, because keys of different classes never meet. `Horizon` 2 covers on time, late and over. Bookings have two coaches,
two rooms and times on both sides of a slot boundary; every booking within four slots is compared with the
loop in `functions`. In billing, two orders and two trades are
what one trade on two orders and two callbacks on one order need. Locks have two calls for the same two resources, one
fault and one tick of slack; a tick stands for the renewal interval, so the code's TTL of 15 s, interval of
5 s and timeout of 14 s (30, 10 and 28 for schedules) are 3, 1 and 3, stretched where a slack or a
timeout beyond the TTL is wanted. Three requests of one key are a holder, one that waits for it and one that comes later; records of two and three
ticks run out under a handler, under a waiter and after a result. Three calls of `auth` are two that race and one that sees
what they left; tokens and blacklist entries last one tick (longer lives are the theorem's); a limit of two and a lock after two strikes are passed by races. The roster has two tenants, three
calls and every kind of row that another names. `functions` takes bookings within a little more than
four slots (so that starts and ends fall on, before and after slot boundaries), instants on both sides of each limit of a class, and amounts
on both sides of one yuan. The mutants in `PROJECT.json` show that each property can fail
within these bounds.

**Disagreements between code and documents** (runs that expect a violation):

- `stale_row` (src/modules/memberships/memberships.service.ts:80): adjustLessons records beforeRemaining from its first read; a check-in that commits between that read and the UPDATE changes the balance and leaves version alone, so the version guard passes and the row holds balances the card did not have; docs/LESSON_TRANSACTION.md:12 says "`beforeRemaining` / `afterRemaining` | 变更前后卡内剩余课时".
- `double_booking` (src/modules/courses/courses.service.ts:229): updateSchedule reads the current row before the Redis locks and the transaction, computes the slots from it and lets the UPDATE write only the fields of the body; after another PATCH of the same booking committed in between, the locks held are those of a coach, venue or time the row no longer has (and the row may end before it starts), so a second booking of the real coach is accepted; prisma/schema.prisma:331 says "Discrete time-slot locks for coach/venue; unique (resourceType, resourceId, timeSlotKey) prevents overlapping bookings.".
- `repeated_payment` (src/modules/billing/billing.service.ts:266): resolvePaidCallbackAfterRace re-reads the order with a plain SELECT inside the same REPEATABLE READ transaction (MySQL's default), whose snapshot still shows PENDING, so isSamePaidCallback is false and the duplicate is answered 409 instead of the paid order; src/modules/billing/billing.swagger-examples.ts:90 says "**幂等**：同一 `orderNo` + `provider` + `providerTradeNo` 重复回调返回已支付订单，不会重复记账。" The Redis replay in front hides this while both deliveries carry the same key and its record lives.

Others need no search: a passing property says how far the documented promise goes, and the code's exception to it is in the model.

- `OnlyPatchIsSilent`: docs/LESSON_TRANSACTION.md:3 says "每次课时余额变更对应一条流水，便于对账与排查。" and memberships.controller.ts:62
  "不直接改剩余课时（请用 adjust-lessons）", but `UpdateMembershipDto` keeps `remainingLessons` and `update` (memberships.service.ts:57) writes it
  without a ledger row. The property, and its theorem for any bodies, say that nothing else does.
- `OnlyNamedRowsCross`: docs/TENANT.md:66 says "租户之间绝对不能互见", but the coach and students that `getClass` includes (courses.service.ts:113), the
  student of `enrollStudent` (:139) and the coach and room of `getSchedule` (:222) pass no tenant filter, and nothing keeps a coach or
  student of another tenant out of a class.
- `WithoutProfileOnlyClasses`: docs/RBAC.md:23 gives a coach "仅本人 `coachId` 的排课/班级/关联学员", but `listClasses` and `getClass` have no data
  scope (`classDataScopeWhere` has no caller; the document's last section names schedules only): every coach, with or without a
  profile, reads all classes of its tenants with their students.
- `WritesStayInTenants` speaks of updates and deletions. docs/TENANT.md:73 says "显式传 `tenantId` 时须属于当前用户可访问租户。", but a `tenantId` in the
  body of a creation (students.service.ts:17) or of a PATCH is compared with nothing and may put a row into any tenant (`TenantFor`, `Patched`).
- `StartsAreSafe` speaks of the values listed in env.constants.ts:2-25. docs/SECRETS.md:5 says "**生产环境禁止**使用仓库内置的 dev 默认值" and :16
  "`.env.example` | 开发变量说明，无可用默认密钥", but the passwords of .env.example:46, 60 and 63, the `JWT_SECRET` of ci.yml:36 and the
  `DATABASE_URL` of docker-compose.yml:55 are not on the list and long enough (`Insecure`).
- `AdminWritesAreAudited` speaks of requests that reach their handler. docs/AUTH_SECURITY.md:20 says "带 `@AuditAction` 的请求写入 `audit` 通道", but
  `IdempotencyInterceptor` is bound before `AccessBehaviorInterceptor` (app.module.ts:23-24), so its 400, its 409 and its replays (idempotency.interceptor.ts:58,
  110, 144) leave no audit record, also for the annotated check-in (attendance.controller.ts:31, 38).

## Proofs

| Theorem | Module | Property | What it establishes |
|---|---|---|---|
| `TypeCorrect` | `LessonLedgerProofs` |  | Every reachable state is well typed. |
| `BalancesStayNonNegative` | `LessonLedgerProofs` | `NoOverdraft` | No interleaving of check-ins, adjustments and PATCHes takes a card below zero. |
| `AtMostOneCharge` | `LessonLedgerProofs` | `ChargedAtMostOnce` | The business key makes the charge of a student for a class unique for any number of concurrent, repeated and timed-out check-ins, without the Redis lock. |
| `AdjustmentsDoNotCollide` | `LessonLedgerProofs` | `OneAdjustmentPerVersion` | Of the adjustments that read one version of a card at most one commits. |
| `DeductedAnswersOwnTheCharge` | `LessonLedgerProofs` | `DeductedAnswersAreUnique` | At most one client is told that its check-in deducted, and then the charge exists. |
| `BalancesAreExplained` | `LessonLedgerProofs` | `OnlyPatchIsSilent` | Every change of a card's balance is exactly one new ledger row of that card or the remainingLessons of a PATCH, for any bodies of PATCH. |
| `LedgerImplementsAccount` | `LessonLedgerProofs` | `ImplementsAccount` | The tables implement the abstract accounts of LessonAccount, for any bodies of PATCH. |
| `ChargesAreAttended` | `LessonLedgerProofs` | `ChargeIsAttended` | In any step that writes a check-in row, the same transaction records PRESENT or LATE for that student and class and the card is the student's, active and valid at the class. |
| `NobodyRidesFree` | `LessonLedgerProofs` | `NoFreeRide` | A check-in that is to deduct is answered "not deducted" only if the class is charged already or none of the student's valid cards, however many there are, holds the amount. |
| `BookingTypeCorrect` | `ScheduleBookingProofs` |  | Every reachable state of the booking tables is well typed. |
| `NoDoubleBookingHolds` | `ScheduleBookingProofs` | `NoDoubleBooking` | No coach and no venue is booked twice, for any number of bookings and concurrent requests, if two PATCHes of one booking never overlap. |
| `SlotsFollowTheBookings` | `ScheduleBookingProofs` | `LiveBookingsHoldTheirSlots` | Under the same condition a live booking holds exactly its own slots. |
| `OverlappingBookingsShareASlot` | `ScheduleBookingProofs` |  | Any two overlapping bookings share a 15-minute slot, so the unique index sees every overlap. |
| `CancelledBookingsFreeTheirSlots` | `ScheduleBookingProofs` | `CancellingFreesTheSlots` | A step that cancels a booking leaves none of its slot rows, also when PATCHes of one booking overlap. |
| `BillingTypeCorrect` | `BillingProofs` |  | Every reachable state of orders and requests is well typed. |
| `BillingImplementsBook` | `BillingProofs` | `ImplementsBook` | For any number of orders, trades, keys, callbacks and retries the Order table implements PaymentBook: one order per key, one payment per order and per trade, one refund per payment. |
| `SameKeySameOrderHolds` | `BillingProofs` | `SameKeySameOrder` | However requests race and answers are lost, one key yields one order. |
| `RepliesStayInTheTenantHolds` | `BillingProofs` | `RepliesStayInTheTenant` | No reply of POST /orders names an order outside the caller's tenants, its own new order aside. |
| `AcknowledgedCallbacksHoldAlways` | `BillingProofs` | `AcknowledgedCallbacksHold` | An acknowledged callback stays true: the order was paid by its trade and, after a refund, is REFUNDED. |
| `LocksTypeCorrect` | `BusinessLockProofs` |  | Every reachable state of keys, calls and timers is well typed. |
| `NobodyIsRobbedHolds` | `BusinessLockProofs` | `NobodyIsRobbed` | Whatever the delays and faults, a key leaves its owner only by expiry or the owner's release. |
| `ExclusionHolds` | `BusinessLockProofs` | `Exclusion` | With PromptEnough, no two calls that have not timed out share a resource, whatever fails or crashes. |
| `SomebodyGetsInHolds` | `BusinessLockProofs` | `SomebodyGetsIn` | As long as no fault has happened, calls competing for any sets of resources are never all turned away. |
| `IdempotencyTypeCorrect` | `RequestIdempotencyProofs` |  | Every reachable state of keys and requests is well typed. |
| `OneRunsAtATimeHolds` | `RequestIdempotencyProofs` | `OneRunsAtATime` | For any number of requests and keys, TTLs and faults, a key whose record has not lapsed has at most one request in its handler. |
| `AnswersAgreeHolds` | `RequestIdempotencyProofs` |  | Under the same condition all successes told for one key are of one execution. |
| `InterceptorImplementsOneExecution` | `RequestIdempotencyProofs` | `ImplementsOneExecution` | The interceptor over its records implements OneExecution: while a key's record lasts, the key changes hands only when nobody executes, and a result once recorded is neither overwritten nor erased, although SET and DEL compare nothing. |
| `AuthTypeCorrect` | `AuthenticationProofs` |  | Every reachable state of accounts, counters, tokens and requests is well typed. |
| `AttemptsAreBoundedHolds` | `AuthenticationProofs` | `AttemptsAreBounded` | However many attempts run at once and whatever fails, a counter lets no more than its limit pass in one life. |
| `TokensKnowThePasswordHolds` | `AuthenticationProofs` | `TokensKnowThePassword` | A valid token was signed for the password the account has now. |
| `LoggedOutForGoodHolds` | `AuthenticationProofs` | `LoggedOutForGood` | With RevocationsLast, a token that was logged out never validates again. |
| `NamesAreGivenOnceHolds` | `AuthenticationProofs` |  | Concurrent registrations never hand one name to two callers. |
| `RosterTypeCorrect` | `RosterProofs` |  | Every reachable state of rows, links and requests is well typed. |
| `WithoutProfileOnlyClassesHolds` | `RosterProofs` | `WithoutProfileOnlyClasses` | A coach or student account without its profile is handed students, coaches and schedules only with the classes of its tenants, whatever happened to the profile. |
| `OnlyNamedRowsCrossHolds` | `RosterProofs` | `OnlyNamedRowsCross` | For any rows and requests, two users without a common tenant never find the same row: one of them is handed it, if at all, inside a row of its own tenants that names it. |
| `HeadersOnlyNarrowHolds` | `RosterProofs` | `HeadersOnlyNarrow` | No value of X-Tenant-Id hands a user a row, found or included, that it is not handed without the header. |
| `WritesStayInTenantsHolds` | `RosterProofs` | `WritesStayInTenants` | Whatever other requests do between look and write, a write meets only rows of the context's tenants. |
| `KeysOfABooking` | `FunctionsProofs` |  | The keys of a booking from any minute to any later one are the slot starts whose quarter of an hour it touches. |
| `KeysAreTheTouchedSlotsHolds` | `FunctionsProofs` | `KeysAreTheTouchedSlots` | For any LastMinute, the code's loop collects those keys and no others. |
| `VerdictsAgeOneWay` | `FunctionsProofs` |  | For any class, grace, fence, code and position, and any two instants, the later of two recorded check-ins ranks no better. |
| `CheckInsAgeOneWayHolds` | `FunctionsProofs` | `CheckInsAgeOneWay` | The same of the run's inputs. |
| `AcceptedEnvironmentsAreSafe` | `FunctionsProofs` |  | Whatever the quality of every secret at once, an accepted production start has no missing, listed or short secret, and guarded documents. |
| `StartsAreSafeHolds` | `FunctionsProofs` | `StartsAreSafe` | The same of the run's environments. |
| `BlacklistCoversTheToken` | `FunctionsProofs` |  | For any lifetime in seconds, or any amount of s, m, h or d, the blacklist entry lasts at least as long as the token. |
| `BlacklistOutlivesTokensHolds` | `FunctionsProofs` | `BlacklistOutlivesTokens` | The same of the run's lifetimes. |
| `StudentsManageNothingHolds` | `FunctionsProofs` | `StudentsManageNothing` | A student with the seeded permissions may call reads, check-in and check-out, and what concerns the own password and session, and nothing else. |
| `AdminWritesAreAuditedHolds` | `FunctionsProofs` | `AdminWritesAreAudited` | Every write of an administrator that reaches its handler leaves an audit record, whatever else is true of the request. |
| `DisplayedAmountsAreRead` | `FunctionsProofs` |  | Any integer amount of cents, negative ones included, survives formatting and parsing, also with one digit only. |
| `AmountsRoundTripHolds` | `FunctionsProofs` | `AmountsRoundTrip` | For any LastCent, the run's amounts do. |

**Assumptions.** The named ASSUMEs of the state-machine modules (names are distinct, times are numbers, timetables,
bodies and inputs are well typed, `Roster`'s first rows keep their foreign keys, the bounds of `MCFunctions` are numbers), which TLC evaluates in every run. `LoggedOutForGoodHolds` assumes `RevocationsLast`, that
a blacklist entry lasts as long as the token; `BlacklistCoversTheToken` proves that for the forms of `JWT_EXPIRES_IN`
that `getJwtExpiresInSeconds` parses (for others, such as `2w`, it is false). The two safety theorems of bookings
assume `~EditsOverlap` (run `double_booking` shows why). `ExclusionHolds` assumes `PromptEnough`.

**The arguments.** *Ledger.* `NoOverdraft` follows from the guard and the decrement being one
statement. `ChargedAtMostOnce` is not inductive alone: it needs that a row's key names the student and
class it is for and that keys are unique, which the index gives; `DeductedAnswersAreUnique` adds that
every request marked deducted owns such a row. `OneAdjustmentPerVersion` needs that a card's
version only grows and that an adjustment that committed read a version now passed. Only one kind of step writes a check-in row
(`ChargeStep`), and it holds card, attendance and row together, so `ChargesAreAttended` is read off it; it also needs
that a request to deduct decided PRESENT or LATE before (`CheckInsDue`). `OnlyPatchIsSilent` needs that whatever else moves a balance
appends a row by the same amount, and that a PATCH sets the balance to what its body says (`PatchedCard`). `NobodyRidesFree` needs that among the cards that can pay one expires first, however many there are
(`SomePayerIsFirst`, from the well-foundedness of the numbers), and that a request in flight has its own identity. The refinement maps
each commit to one `Charge` or `Adjust`, each PATCH and refusal to a stutter or an `Adjust`.
*Bookings.* Overlapping intervals share the slot of the later start (`OverlappingBookingsShareASlot`);
the invariant says that a live booking's lock rows are exactly its slots and that a PATCH in flight
computed its slots from the row as it still is, apart from its status; so two overlapping bookings would need two rows with one key.
`CancelledBookingsFreeTheirSlots` needs no such condition: whoever writes CANCELLED removes the booking's rows in the same step.
*Billing.* Rows only advance (`RowsAdvance`) and stay unique by key and trade (`Rows`); a request's
identity and answer are its own (`RequestsAgree`); so what an answer said of a row stays true.
*Locks.* What a call holds it still owns, with at least TTL minus `Age` ticks left; the timers bound the
age below the TTL (`LockInv`). For `SomebodyGetsIn`: a call turned away at a resource was stopped by one
that is past it or was itself turned away further up, so beyond every key of a refused call there is a
call that was not refused (`SomeoneBeyond`, `SomeoneStoppedIt`).
*Idempotency.* While a key has not lapsed, a request in its handler owns the reservation that Redis still has,
so nobody else's SET NX succeeds; once a record holds a result, no one is in a handler and every success
told is that result. `InterceptorImplementsOneExecution` reads off these facts how a record may move (`RecordMoves`: only its holder,
while it executes, turns it into a result) and who may begin (`RequestsMove`), and maps each of the moves to one abstract step of the key.
*Authentication.* A counter counts at least the attempts it let pass, because INCR and the comparison are of one
reply. A token is valid only while it carries the account's version, versions only grow, and each is given to
one password. What was revoked is on the blacklist for as long as it lives. Each name has one creator, the index's.
*Roster.* Only the rows and the user's links enter a context, so what two users find is separated by the tenant
column alone, whatever the foreign keys name: a row that both are handed is included for one of them, in a row of its
own tenants. A context without a profile has no row to own, so only the classes, which have no data scope, are left; and the
tenant of a header is one of the context's or is dropped. `WritesStayInTenantsHolds` needs that a request's context is
never changed once it is built and that an UPDATE carries the filter itself.
*Functions.* Each property is proved of every input of the code first (`VerdictsAgeOneWay`, `AcceptedEnvironmentsAreSafe`, ...)
and then of the inputs of the run, for which the invariant `Inputs` says that a gate is asked twice about one check-in, at
two instants. `LoopCollectsTheKeys` takes the start nearest the end at which loop and set would differ: the step of the loop moves it
one slot further.

## What is only model-checked, and what is not modelled

Every safety invariant and every action property of the passing runs is the statement of a theorem. Liveness and ENABLED are out
of the prover's reach: `EveryCallReturns`, `EveryKeyIsFreed`, `NobodyWaitsForEver`, `ReservationsEnd` and `BlocksEnd` are checked by TLC
only, on the bounds above. The conditions that some theorems carry (`~EditsOverlap`, `RevocationsLast`,
`PromptEnough`; see "Assumptions") are those under which the runs of the same properties are set up; outside them the
code need not keep the property, and for `~EditsOverlap` the run `double_booking` shows that it does not.
The other way round, type correctness of every state machine, `AnswersAgree` and `NamesAreGivenOnce`
are theorems and in no run: what is proved for every instance needs no small one. The library's induction theorems take an operator
as a parameter, which no installed prover instantiates; the one recursive function, the loop of `buildTimeSlotKeys`, is
compared with its set by a least counterexample instead (`LoopCollectsTheKeys`).

Not modelled: statistics (read-only aggregates without a definition of what they mean), audit columns (no control depends on
them), DTO shapes and API descriptions (data), the transports and fields of the logs, page-visit counters, migrations, seeds and
scripts, and the empty placeholders for queues, storage and jobs. `issueQrToken`'s row is an instant in `CheckInGate`.

**What the code does and no property forbids.** "hazards" in `PROJECT.json` lists what can go wrong and which properties
watch it. These are left over, because no document or test says what is right, or because the models show the case and
promise nothing for it:

- Ledger: a leave approved between a check-in's reads and its transaction does not stop the charge, although
  `attendance.controller.ts:52` says it will; a manual adjustment with a `scheduleId` takes
  the slot of the unique index and makes a later check-in by that card fail; one whose reason is `CLASS_CHECK_IN` counts as
  the deduction; a repeated check-in can turn PRESENT into ABSENT or LEAVE after the class was charged; deleting a student takes the ledger along.
- Courses: a booking created CANCELLED holds its slots; `maxStudents` is never compared; `findUnique` leaves the
  transaction that issues it (`prisma-tenant.extension.ts:71`).
- Tenants: the ids that a body names (coach, venue, class, student) are not compared with the caller's tenants; a null tenant leaves a row nobody finds; the data scope is tested before a write, not by it; links are removed without a look; an emptied role
  falls back to the built-in permissions.
- Login: attempts that passed the lock before it was set are all tried, so only the windows bound a burst; a process that dies between
  INCR and EXPIRE leaves a counter for good (`CrashCounting`; `BlocksEnd` is claimed without faults); a failure counts twice in each window; a success erases strikes and locks of concurrent failures; counters are per name, not
  per tenant and name. Token lifetimes such as `2w` outlive their place on the blacklist.
- Redis: an error in the acquisition loop leaves the first key to its TTL, and one in the `finally` hides a committed result. An
  idempotency key's scope has neither caller nor route parameters; the derived key of a callback leaves out the order.
- The rest: the environment file is loaded over the process's variables; `REDIS_MAX_RETRIES_PER_REQUEST=null` becomes the default; records of
  failed requests carry the status from before the exception filter, and client errors fall below their logger's level; page-visit counters go
  with a crash; revenue is filtered on `paidAt` only; a statistics range ends at midnight of its last day.
