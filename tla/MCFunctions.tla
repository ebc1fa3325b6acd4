---------------------------- MODULE MCFunctions ----------------------------
(***************************************************************************)
(* The modules without a state, over every input within the bounds: a      *)
(* topic and two inputs of it, which a step exchanges.                     *)
(***************************************************************************)
EXTENDS TimeSlots, RouteAccess, Startup, CheckInGate, RequestLog, Money, FiniteSets

CONSTANT LastMinute, LastCent  \* bound the run

ASSUME BoundsAssumption == LastMinute \in Nat /\ LastCent \in Nat

VARIABLES topic, x, y

Bookings == {b \in [from : 0..LastMinute, to : 0..LastMinute] : b.from < b.to}

\* A class from 0 to 60, with a grace that ends within it and one that does not.
Classes ==
    [cancelled : BOOLEAN, startsAt : {0}, endsAt : {60}, grace : {10, 70}, fence : {None, 50}]
FreshCode == ExpiryOf([startsAt |-> 0, endsAt |-> 60])
CheckIns ==
    [method : {"MANUAL"}, code : {None}, distance : {None}]
      \cup [method : {"QR"}, code : {None, 5, FreshCode}, distance : {None}]
      \cup [method : {"GPS"}, code : {None}, distance : {None, 50, 51}]
Instants == {-1, 0, 5, 10, 11, 60, 61, 70, 71, 90, 91}

Strong == [n \in Secrets |-> "strong"]
Environments ==
    [NODE_ENV : {"unset", "development", "test", "production"},
     secrets : {[Strong EXCEPT ![n] = q, ![m] = r] :
                  n \in Secrets, m \in Defaulted, q \in Qualities, r \in {"unset", "strong"}},
     docs : {"unset", "yes", "no", "maybe"}, internal : {"unset", "yes", "no"},
     user : {"unset", "listed", "strong"}, password : Qualities]

Expiries == [amount : 1..40, unit : {"none", "s", "m", "h", "d"}]

Grants == (SUBSET {"schedules:read", "schedules:write"}) \cup {Seeded(r) : r \in Everybody}

\* The routes with an idempotency key are POSTs.
Requests ==
    {q \in [role : Everybody \cup {"nobody"}, method : Mutations \cup {"GET"}, health : BOOLEAN,
            described : BOOLEAN, explicit : BOOLEAN, slow : BOOLEAN,
            reached : {"guards", "idempotency", "handler"},
            outcome : {"done", "client_error", "server_error"}] :
        q.reached = "idempotency" => q.method = "POST" /\ ~ q.health}

Init ==
    \/ topic = "slots" /\ x \in Bookings /\ y = x
    \/ /\ topic = "gate"
       /\ x \in {[class |-> c, leave |-> l, request |-> q, now |-> t] :
                   c \in Classes, l \in BOOLEAN, q \in CheckIns, t \in Instants}
       /\ y \in {[x EXCEPT !.now = t] : t \in Instants}
    \/ topic = "startup" /\ x \in Environments /\ y = x
    \/ topic = "tokens" /\ x \in Expiries /\ y = x
    \/ topic = "access" /\ x \in [role : Everybody, permissions : Grants, route : Routes] /\ y = x
    \/ topic = "log" /\ x \in Requests /\ y = x
    \/ topic = "money" /\ x \in (- LastCent)..LastCent /\ y = x

Next == x' = y /\ y' = x /\ UNCHANGED topic

Spec == Init /\ [][Next]_<<topic, x, y>>

Keys(b) == TimeSlotKeys(b.from, b.to)

\* The loop of buildTimeSlotKeys, which adds a slot at a time.
Loop(b) ==
    LET from[k \in 0..(LastMinute + SlotMinutes)] ==
            IF k < b.to THEN {k} \cup from[k + SlotMinutes] ELSE {}
    IN from[SlotOf(b.from)]

\* The loop collects a key exactly when the booking has a minute in that slot: bookings that
\* overlap share a key, and the index refuses none that touch no common slot. TimeSlotKeys is
\* that loop (buildTimeSlotKeys rounds the start down and stops at the end).
KeysAreTheTouchedSlots ==
    topic = "slots" =>
        /\ Keys(x) = Loop(x)
        /\ \A k \in 0..(LastMinute + SlotMinutes) :
              k \in Keys(x) <=> k % SlotMinutes = 0 /\ Overlap(x.from, x.to, k, k + SlotMinutes)

Says(input) == Verdict(input.class, input.leave, input.request, input.now)
Rank(status) ==
    CASE status = "PRESENT" -> 0 [] status = "LATE" -> 1 [] status = "ABSENT" -> 2
      [] status = "LEAVE" -> 3

\* A repeated check-in never improves on the first, however long the grace and whatever the
\* gate: of two accepted ones the later records no better status (checkIn).
CheckInsAgeOneWay ==
    topic = "gate" /\ x.now <= y.now /\ {Says(x), Says(y)} \subseteq Statuses
        => Rank(Says(x)) <= Rank(Says(y))

\* The secrets of an environment that are missing, listed or short; MYSQL_PASSWORD may be unset.
Weak(env) ==
    {n \in Secrets : \/ Secret(env, n) \in {"listed", "short"}
                     \/ Secret(env, n) = "unset" /\ n # "MYSQL_PASSWORD"}

\* An environment that passes validation never stops at the documents. If it is production's,
\* no secret is missing, short or on the list of env.constants.ts, whatever the others are, and
\* the documents are behind a password and, unless that is switched off, the internal network
\* (validateEnvConfig against applySwaggerGuards).  A "shipped" value passes: the list has not
\* all that the repository's files hold.
StartsAreSafe ==
    topic = "startup" /\ Accepted(x) =>
        /\ DocsMount(x)
        /\ Production(x) =>
              /\ Weak(x) = {}
              /\ DocsEnabled(x) =>
                    "password" \in Guards(x) /\ (x.internal # "no" => "network" \in Guards(x))

\* A logged-out token expires no later than its place on the blacklist, for lifetimes given
\* in seconds or as an amount of s, m, h or d (getJwtExpiresIn, getJwtExpiresInSeconds).
BlacklistOutlivesTokens ==
    topic = "tokens" => BlacklistSeconds(x) >= TokenSeconds(x)

Admits(input) == Allowed(input.route, input.role, input.permissions)

\* With the permissions they are seeded with, students manage nothing: a route that a student
\* may call lists or reads, checks somebody in or out (the body names the student, and nothing
\* compares it with the caller), or is about the own password and session (RolesGuard, the
\* controllers).
StudentsManageNothing ==
    topic = "access" /\ x.role = "STUDENT" /\ x.permissions = Seeded("STUDENT") /\ Admits(x)
        => x.route.does \in {"list", "read", "check_in", "check_out", "change_password", "logout"}

\* What an administrator's write did to the system can be read in the audit channel, if it
\* came to its handler, whether or not the handler describes itself and however it ended
\* (AccessBehaviorInterceptor; AUTH_SECURITY.md).  Answers of IdempotencyInterceptor, also to
\* annotated requests, leave no record.
AdminWritesAreAudited ==
    topic = "log" /\ x.role = "ADMIN" /\ x.method \in {"POST", "PATCH", "DELETE"}
        /\ x.reached = "handler" /\ ~ x.health
        => <<"audit", "admin_audit">> \in Records(x)

\* An amount survives its display, and a shorter way to write it is the same amount
\* (formatAmountFromCents, yuanStringToCents).
AmountsRoundTrip ==
    topic = "money" =>
        LET amount == Format(x)
        IN /\ Parse(amount) = x
           /\ x % 10 = 0 => Parse([amount EXCEPT !.digits = <<@[1]>>]) = x
=============================================================================
