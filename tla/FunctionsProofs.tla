--------------------------- MODULE FunctionsProofs ---------------------------
(***************************************************************************)
(* Proofs about the modules without a state: slots, the check-in gate, the *)
(* start of the server, the lifetime of tokens, the routes, the records of *)
(* a request, and money.  Each property is proved of every input first,    *)
(* and then of the inputs of MCFunctions.                                  *)
(***************************************************************************)
EXTENDS MCFunctions, TLAPS, WellFoundedInduction

vars == <<topic, x, y>>

\* A check-in asked for at an instant.
Asked(class, leave, request, t) ==
    [class |-> class, leave |-> leave, request |-> request, now |-> t]

\* The same check-in at two instants.
AskedTwice(v, w) ==
    \E class \in Classes, leave \in BOOLEAN, request \in CheckIns, t, u \in Instants :
        v = Asked(class, leave, request, t) /\ w = Asked(class, leave, request, u)

\* The gate is asked twice about one check-in, every other topic about one input.
Inputs ==
    /\ topic = "gate" => AskedTwice(x, y)
    /\ topic # "gate" => Init /\ x = y

\* Exchanging the two inputs keeps them inputs of their topic.
LEMMA InputsStay == Spec => []Inputs
<1>1. Init => Inputs
  <2> SUFFICES ASSUME Init, topic = "gate" PROVE AskedTwice(x, y)
    BY DEF Init, Inputs
  <2>1. PICK class \in Classes, leave \in BOOLEAN, request \in CheckIns, t \in Instants, u \in Instants :
           x = Asked(class, leave, request, t) /\ y = [x EXCEPT !.now = u]
    BY DEF Init, Asked
  <2>2. y = Asked(class, leave, request, u)
    BY <2>1 DEF Asked
  <2> QED
    BY <2>1, <2>2 DEF AskedTwice
<1>2. Inputs /\ [Next]_vars => Inputs'
  <2> SUFFICES ASSUME Inputs, [Next]_vars PROVE Inputs'
    OBVIOUS
  <2>1. CASE topic = "gate"
    <3>1. topic' = topic /\ AskedTwice(x', y')
      BY <2>1 DEF Inputs, Next, vars, AskedTwice
    <3> QED
      BY <2>1, <3>1 DEF Inputs, AskedTwice
  <2>2. CASE topic # "gate"
    <3>1. x' = x /\ y' = y /\ topic' = topic /\ Init /\ x = y
      BY <2>2 DEF Inputs, Next, vars
    <3> QED
      BY <2>2, <3>1 DEF Inputs, Init
  <2> QED
    BY <2>1, <2>2
<1> QED
  BY <1>1, <1>2, PTL DEF Spec, vars

----------------------------------------------------------------------------
(* Slots.                                                                  *)

\* The keys of a booking are the starts of exactly the slots it has a minute in: every
\* booking that touches a slot holds its key, and none that does not.
THEOREM KeysOfABooking ==
    ASSUME NEW startsAt \in Nat, NEW endsAt \in Nat, startsAt < endsAt, NEW k \in Nat
    PROVE  k \in TimeSlotKeys(startsAt, endsAt) <=>
               k % SlotMinutes = 0 /\ Overlap(startsAt, endsAt, k, k + SlotMinutes)
<1>1. /\ SlotOf(startsAt) \in Nat /\ SlotOf(startsAt) <= startsAt
      /\ startsAt < SlotOf(startsAt) + SlotMinutes
  BY SMT DEF SlotOf, SlotMinutes
<1>2. SlotOf(startsAt) % SlotMinutes = 0
  BY SMT DEF SlotOf, SlotMinutes
<1>3. ASSUME k % SlotMinutes = 0, startsAt < k + SlotMinutes
      PROVE  SlotOf(startsAt) <= k
  BY <1>3, SMT DEF SlotOf, SlotMinutes
<1>4. k \in TimeSlotKeys(startsAt, endsAt) <=>
          SlotOf(startsAt) <= k /\ k < endsAt /\ k % SlotMinutes = 0
  BY <1>1 DEF TimeSlotKeys
<1>5. SlotOf(startsAt) <= k => startsAt < k + SlotMinutes
  BY <1>1 DEF SlotMinutes
<1> QED
  BY <1>3, <1>4, <1>5 DEF Overlap

\* A nonempty set of numbers has a least one.
LEMMA LeastNumber ==
    ASSUME NEW T, T \subseteq Nat, T # {}
    PROVE  \E m \in T : \A n \in T : m <= n
<1> DEFINE Less == OpToRel(<, Nat)
<1>1. \A m, n \in Nat : <<n, m>> \in Less <=> n < m
  BY DEF OpToRel
<1>2. IsWellFoundedOn(Less, Nat)
  BY NatLessThanWellFounded
<1> HIDE DEF Less
<1>3. PICK m \in T : \A n \in T : <<n, m>> \notin Less
  BY <1>2, WFMin
<1>4. \A n \in T : ~(n < m)
  BY <1>1, <1>3
<1>5. \A n \in T : m <= n
  BY <1>4
<1> QED
  BY <1>5

\* The loop that adds a slot at a time collects the keys of TimeSlotKeys.
LEMMA LoopCollectsTheKeys ==
    ASSUME NEW b \in Bookings
    PROVE  Loop(b) = Keys(b)
<1> DEFINE Last == LastMinute + SlotMinutes
           Starts == 0..Last
           Steps(f) == [k \in Starts |-> IF k < b.to THEN {k} \cup f[k + SlotMinutes] ELSE {}]
           ahead == [k \in Starts |-> {j \in k..(b.to - 1) : (j - k) % SlotMinutes = 0}]
           from[k \in Starts] == IF k < b.to THEN {k} \cup from[k + SlotMinutes] ELSE {}
<1>1. /\ LastMinute \in Nat /\ b.from \in 0..LastMinute /\ b.to \in 0..LastMinute
      /\ b.from < b.to
  BY BoundsAssumption DEF Bookings
<1>2. Loop(b) = from[SlotOf(b.from)]
  BY DEF Loop
<1>3. ahead = Steps(ahead)
  <2> SUFFICES ASSUME NEW k \in Starts
               PROVE  ahead[k] = IF k < b.to THEN {k} \cup ahead[k + SlotMinutes] ELSE {}
    OBVIOUS
  <2>1. CASE ~ (k < b.to)
    BY <1>1, <2>1 DEF SlotMinutes
  <2>2. CASE k < b.to
    <3>1. k + SlotMinutes \in Starts
      BY <1>1, <2>2 DEF SlotMinutes
    <3>2. ahead[k + SlotMinutes] =
             {j \in (k + SlotMinutes)..(b.to - 1) : (j - (k + SlotMinutes)) % SlotMinutes = 0}
      BY <3>1
    <3>3. \A j \in Int : j \in ahead[k] <=> j = k \/ j \in ahead[k + SlotMinutes]
      <4> SUFFICES ASSUME NEW j \in Int PROVE j \in ahead[k] <=> j = k \/ j \in ahead[k + SlotMinutes]
        OBVIOUS
      <4>1. /\ k \in Int /\ b.to \in Int
            /\ j \in ahead[k] <=> k <= j /\ j < b.to /\ (j - k) % SlotMinutes = 0
        BY <1>1 DEF SlotMinutes
      <4>2. j \in ahead[k + SlotMinutes] <=>
               k + SlotMinutes <= j /\ j < b.to /\ (j - (k + SlotMinutes)) % SlotMinutes = 0
        BY <1>1, <3>2, <4>1 DEF SlotMinutes
      <4>3. k + SlotMinutes <= j =>
               ((j - k) % SlotMinutes = 0 <=> (j - (k + SlotMinutes)) % SlotMinutes = 0)
        BY <4>1, SMT DEF SlotMinutes
      <4>4. k <= j /\ j < k + SlotMinutes => ((j - k) % SlotMinutes = 0 <=> j = k)
        BY <4>1, SMT DEF SlotMinutes
      <4> QED
        BY <2>2, <4>1, <4>2, <4>3, <4>4 DEF SlotMinutes
    <3>4. ahead[k] \subseteq Int /\ ahead[k + SlotMinutes] \subseteq Int /\ k \in Int
      BY <1>1, <3>2 DEF SlotMinutes
    <3> HIDE DEF ahead
    <3>5. ahead[k] = {k} \cup ahead[k + SlotMinutes]
      BY <3>3, <3>4
    <3> QED
      BY <2>2, <3>5
  <2> QED
    BY <2>1, <2>2
<1>4. from = Steps(from)
  <2>1. from = CHOOSE f : f = Steps(f)
    OBVIOUS
  <2> HIDE DEF from, Steps, ahead
  <2> QED
    BY <1>3, <2>1
<1> HIDE DEF from, ahead
<1>5. \A k \in Starts : k < b.to =>
         /\ k + SlotMinutes \in Starts
         /\ from[k] = {k} \cup from[k + SlotMinutes]
         /\ ahead[k] = {k} \cup ahead[k + SlotMinutes]
  BY <1>1, <1>3, <1>4 DEF SlotMinutes
<1>6. \A k \in Starts : ~(k < b.to) => from[k] = {} /\ ahead[k] = {}
  BY <1>1, <1>3, <1>4
<1>7. \A k \in Starts : from[k] = ahead[k]
  <2> DEFINE Left == {Last - k : k \in {j \in Starts : from[j] # ahead[j]}}
  <2>1. SUFFICES ASSUME Left # {} PROVE FALSE
    OBVIOUS
  <2>2. Left \subseteq Nat
    BY <1>1 DEF SlotMinutes
  <2>3. PICK m \in Left : \A n \in Left : m <= n
    BY <2>1, <2>2, LeastNumber
  <2>4. PICK k \in Starts : from[k] # ahead[k] /\ m = Last - k
    OBVIOUS
  <2>5. k < b.to /\ k + SlotMinutes \in Starts /\ from[k + SlotMinutes] # ahead[k + SlotMinutes]
    BY <1>5, <1>6, <2>4
  <2>6. Last - (k + SlotMinutes) \in Left
    BY <2>5
  <2>7. m <= Last - (k + SlotMinutes)
    BY <2>3, <2>6
  <2> QED
    BY <1>1, <2>4, <2>7 DEF SlotMinutes
<1>8. SlotOf(b.from) \in Starts /\ SlotOf(b.from) % SlotMinutes = 0
  BY <1>1, SMT DEF SlotOf, SlotMinutes
<1>9. ahead[SlotOf(b.from)] = Keys(b)
  <2>1. ahead[SlotOf(b.from)] =
           {j \in SlotOf(b.from)..(b.to - 1) : (j - SlotOf(b.from)) % SlotMinutes = 0}
    BY <1>8 DEF ahead
  <2>2. ASSUME NEW j \in Int, SlotOf(b.from) <= j
        PROVE  (j - SlotOf(b.from)) % SlotMinutes = 0 <=> j % SlotMinutes = 0
    <3>1. SlotOf(b.from) \in Int
      BY <1>1, <1>8 DEF SlotMinutes
    <3> HIDE DEF Starts
    <3> QED
      BY <1>8, <2>2, <3>1, SMT DEF SlotMinutes
  <2>3. \A j \in SlotOf(b.from)..(b.to - 1) : j \in Int /\ SlotOf(b.from) <= j
    BY <1>1, <1>8 DEF SlotMinutes
  <2> QED
    BY <2>1, <2>2, <2>3 DEF Keys, TimeSlotKeys
<1> QED
  BY <1>2, <1>7, <1>8, <1>9

\* The keys a booking takes are those the loop collects and those of the slots it touches.
THEOREM KeysAreTheTouchedSlotsHolds == Spec => []KeysAreTheTouchedSlots
<1>1. Inputs => KeysAreTheTouchedSlots
  <2> SUFFICES ASSUME Inputs, topic = "slots"
               PROVE  /\ Keys(x) = Loop(x)
                      /\ \A k \in 0..(LastMinute + SlotMinutes) :
                            k \in Keys(x) <=> /\ k % SlotMinutes = 0
                                              /\ Overlap(x.from, x.to, k, k + SlotMinutes)
    BY DEF KeysAreTheTouchedSlots
  <2>1. x \in Bookings
    BY DEF Inputs, Init
  <2>2. x.from \in Nat /\ x.to \in Nat /\ x.from < x.to
    BY <2>1, BoundsAssumption DEF Bookings
  <2>3. \A k \in 0..(LastMinute + SlotMinutes) : k \in Nat
    BY BoundsAssumption DEF SlotMinutes
  <2> QED
    BY <2>1, <2>2, <2>3, LoopCollectsTheKeys, KeysOfABooking DEF Keys
<1> QED
  BY <1>1, InputsStay, PTL

----------------------------------------------------------------------------
(* The check-in gate.                                                      *)

\* Any class, with any length, grace and fence, and any check-in of it.
AnyClass == [cancelled : BOOLEAN, startsAt : Int, endsAt : Int, grace : Int, fence : Int \cup {None}]
AnyCheckIn == [method : {"MANUAL", "QR", "GPS"}, code : Int \cup {None}, distance : Int \cup {None}]

\* Of two verdicts on one check-in that record a status, the later records none that ranks
\* better, for every class, code, position, fence and grace.
THEOREM VerdictsAgeOneWay ==
    ASSUME NEW class \in AnyClass, NEW leave \in BOOLEAN, NEW request \in AnyCheckIn,
           NEW t \in Int, NEW u \in Int, t <= u,
           Verdict(class, leave, request, t) \in Statuses,
           Verdict(class, leave, request, u) \in Statuses
    PROVE  Rank(Verdict(class, leave, request, t)) <= Rank(Verdict(class, leave, request, u))
<1>1. /\ class.startsAt \in Int /\ class.endsAt \in Int /\ class.grace \in Int
      /\ class.startsAt + class.grace \in Int
  BY DEF AnyClass
<1>2. ~ class.cancelled
  BY DEF Verdict, Statuses
<1>3. CASE leave
  <2>1. Verdict(class, leave, request, t) = Verdict(class, leave, request, u)
    BY <1>2, <1>3 DEF Verdict
  <2> QED
    BY <2>1 DEF Rank, Statuses
<1>4. CASE ~ leave
  <2>1. \A now \in Int : Verdict(class, leave, request, now) \in Statuses =>
           Verdict(class, leave, request, now) =
              IF now > class.endsAt THEN "ABSENT"
              ELSE IF now > class.startsAt + class.grace THEN "LATE" ELSE "PRESENT"
    <3> TAKE now \in Int
    <3>1. GateRefusal(class, request, now) \notin Statuses
      BY DEF GateRefusal, QrRefusal, GpsRefusal, Statuses
    <3> QED
      BY <1>2, <1>4, <3>1 DEF Verdict
  <2> QED
    BY <1>1, <2>1 DEF Rank
<1> QED
  BY <1>3, <1>4

\* A repeated check-in never improves on the first.
THEOREM CheckInsAgeOneWayHolds == Spec => []CheckInsAgeOneWay
<1>1. Inputs => CheckInsAgeOneWay
  <2> SUFFICES ASSUME Inputs, topic = "gate", x.now <= y.now, {Says(x), Says(y)} \subseteq Statuses
               PROVE  Rank(Says(x)) <= Rank(Says(y))
    BY DEF CheckInsAgeOneWay
  <2>1. PICK class \in Classes, leave \in BOOLEAN, request \in CheckIns, t \in Instants, u \in Instants :
           x = Asked(class, leave, request, t) /\ y = Asked(class, leave, request, u)
    BY DEF Inputs, AskedTwice
  <2>2. /\ Says(x) = Verdict(class, leave, request, t) /\ x.now = t
        /\ Says(y) = Verdict(class, leave, request, u) /\ y.now = u
    BY <2>1 DEF Says, Asked
  <2>3. class \in AnyClass /\ t \in Int /\ u \in Int
    BY DEF Classes, AnyClass, Instants
  <2>4. request \in AnyCheckIn
    BY DEF CheckIns, AnyCheckIn, FreshCode, ExpiryOf, TokenGrace
  <2> QED
    BY <2>2, <2>3, <2>4, VerdictsAgeOneWay
<1> QED
  BY <1>1, InputsStay, PTL

----------------------------------------------------------------------------
(* The start of the server and the lifetime of its tokens.                 *)

\* Any environment: every secret may have any quality.
AnyEnvironment ==
    [NODE_ENV : {"unset", "development", "test", "production"}, secrets : [Secrets -> Qualities],
     docs : {"unset", "yes", "no", "maybe"}, internal : {"unset", "yes", "no"},
     user : {"unset", "listed", "strong"}, password : Qualities]

\* The secret in use has a quality of the five.
LEMMA SecretTyped ==
    ASSUME NEW env \in AnyEnvironment, NEW n \in Secrets
    PROVE  Secret(env, n) \in Qualities
<1>1. env.secrets[n] \in Qualities
  BY DEF AnyEnvironment
<1> QED
  BY <1>1 DEF Secret, Qualities

\* An accepted environment mounts its documents; in production no secret is missing, listed or
\* short (an unset MYSQL_PASSWORD apart) and the documents are behind their guards, for every
\* quality of every secret at once.
THEOREM AcceptedEnvironmentsAreSafe ==
    ASSUME NEW env \in AnyEnvironment, Accepted(env)
    PROVE  /\ DocsMount(env)
           /\ Production(env) =>
                 /\ Weak(env) = {}
                 /\ DocsEnabled(env) =>
                       /\ "password" \in Guards(env)
                       /\ env.internal # "no" => "network" \in Guards(env)
<1>1. CASE ~ Production(env)
  BY <1>1 DEF DocsMount
<1>2. CASE Production(env)
  <2>1. Weak(env) = {}
    <3> SUFFICES ASSUME NEW n \in Weak(env) PROVE FALSE
      OBVIOUS
    <3>1. n \in Secrets /\ Secret(env, n) \notin {"listed", "short"}
      BY <1>2 DEF Weak, Accepted, Insecure
    <3>2. Secret(env, n) = "unset" /\ n # "MYSQL_PASSWORD"
      BY <3>1 DEF Weak
    <3> QED
      BY <1>2, <3>1, <3>2 DEF Accepted, Secrets
  <2>2. DocsEnabled(env) => HasBasicAuth(env)
    BY <1>2 DEF Accepted, HasBasicAuth
  <2>3. DocsEnabled(env) /\ env.internal # "no" => InternalOnly(env)
    <3> SUFFICES ASSUME DocsEnabled(env), env.internal # "no"
                 PROVE  Flag(env.internal, Production(env) /\ DocsEnabled(env))
      BY DEF InternalOnly
    <3>1. CASE env.internal = "yes"
      BY <3>1 DEF Flag
    <3>2. CASE env.internal # "yes"
      BY <1>2, <3>2 DEF Flag
    <3> QED
      BY <3>1, <3>2
  <2> QED
    BY <2>1, <2>2, <2>3 DEF DocsMount, Guards
<1> QED
  BY <1>1, <1>2

\* No server starts in production on a missing, listed or short secret, or with its documents
\* open.
THEOREM StartsAreSafeHolds == Spec => []StartsAreSafe
<1>1. Inputs => StartsAreSafe
  <2> SUFFICES ASSUME Inputs, topic = "startup" PROVE x \in AnyEnvironment
    BY AcceptedEnvironmentsAreSafe DEF StartsAreSafe
  <2>1. x \in Environments
    BY DEF Inputs, Init
  <2>2. Strong \in [Secrets -> Qualities] /\ {"unset", "strong"} \subseteq Qualities
    BY DEF Strong, Qualities
  <2>3. \A n, m \in Secrets, q, r \in Qualities :
           [Strong EXCEPT ![n] = q, ![m] = r] \in [Secrets -> Qualities]
    BY <2>2
  <2>4. Defaulted \subseteq Secrets
    BY DEF Defaulted, Secrets, Required
  <2>5. x.secrets \in {[Strong EXCEPT ![n] = q, ![m] = r] :
                         n \in Secrets, m \in Defaulted, q \in Qualities, r \in {"unset", "strong"}}
    BY <2>1 DEF Environments
  <2>6. PICK n \in Secrets, m \in Defaulted, q \in Qualities, r \in {"unset", "strong"} :
           x.secrets = [Strong EXCEPT ![n] = q, ![m] = r]
    BY <2>5
  <2>7. x.secrets \in [Secrets -> Qualities]
    BY <2>2, <2>3, <2>4, <2>6
  <2> QED
    BY <2>1, <2>7 DEF Environments, AnyEnvironment
<1> QED
  BY <1>1, InputsStay, PTL

\* A lifetime of any number of seconds, or any amount of a unit getJwtExpiresInSeconds reads.
Lifetimes == [amount : Nat, unit : {"none", "s", "m", "h", "d"}]

\* For a lifetime of any number of seconds, or any amount of a known unit, the blacklist
\* outlives the token.
THEOREM BlacklistCoversTheToken ==
    ASSUME NEW expiry \in Lifetimes
    PROVE  BlacklistSeconds(expiry) >= TokenSeconds(expiry)
<1>1. expiry.amount \in Nat /\ expiry.unit \in {"none", "s", "m", "h", "d"}
  BY DEF Lifetimes
<1>2. CASE expiry.unit = "none"
  BY <1>1, <1>2 DEF BlacklistSeconds, TokenSeconds
<1>3. CASE expiry.unit # "none"
  <2>1. Seconds(expiry.unit) \in Nat
    BY <1>1, <1>3 DEF Seconds
  <2>2. expiry.amount * Seconds(expiry.unit) \in Nat
    BY <1>1, <2>1
  <2>3. BlacklistSeconds(expiry) = expiry.amount * Seconds(expiry.unit)
    BY <1>1, <1>3 DEF BlacklistSeconds
  <2> QED
    BY <1>3, <2>2, <2>3 DEF TokenSeconds
<1> QED
  BY <1>2, <1>3

\* A logged-out token stays on the blacklist until it has expired.
THEOREM BlacklistOutlivesTokensHolds == Spec => []BlacklistOutlivesTokens
<1>1. Inputs => BlacklistOutlivesTokens
  <2> SUFFICES ASSUME Inputs, topic = "tokens" PROVE x \in Lifetimes
    BY BlacklistCoversTheToken DEF BlacklistOutlivesTokens
  <2>1. x \in Expiries
    BY DEF Inputs, Init
  <2>2. 1..40 \subseteq Nat
    OBVIOUS
  <2> QED
    BY <2>1, <2>2 DEF Expiries, Lifetimes
<1> QED
  BY <1>1, InputsStay, PTL

----------------------------------------------------------------------------
(* Routes and the records of a request.                                    *)

\* A route with roles, none of them a student's, and no permissions.
ForStaff(route) ==
    /\ route.permissions = {}
    /\ "STUDENT" \notin RolesOf(route)
    /\ RolesOf(route) # {}

\* The fields of a route, and the roles that decide: the handler's before its class's.
LEMMA FieldsOfRoute ==
    ASSUME NEW resource, NEW does, NEW class, NEW roles, NEW permissions
    PROVE  LET route == Route(resource, does, class, roles, permissions)
           IN /\ route.does = does
              /\ route.permissions = permissions
              /\ RolesOf(route) = IF roles # {} THEN roles ELSE class
BY DEF Route, RolesOf

\* Every route a student may call with the seeded permissions is a list, a read, a check-in or
\* check-out, or about the own password and session.
THEOREM StudentRoutesManageNothing ==
    ASSUME NEW route \in Routes, Allowed(route, "STUDENT", Seeded("STUDENT"))
    PROVE  route.does \in {"list", "read", "check_in", "check_out", "change_password", "logout"}
<1>1. ~ ForStaff(route)
  BY DEF Allowed, ForStaff, HasAny
<1>2. "STUDENT" \notin Teaching /\ "STUDENT" \notin Staff /\ Staff # {} /\ Teaching # {}
  BY DEF Teaching, Staff
<1>3. \A r \in StudentRoutes : ForStaff(r)
  BY <1>2, FieldsOfRoute DEF StudentRoutes, ForStaff
<1>4. \A r \in CoachRoutes : ForStaff(r)
  BY <1>2, FieldsOfRoute DEF CoachRoutes, ForStaff
<1>5. \A r \in MembershipRoutes : ForStaff(r)
  BY <1>2, FieldsOfRoute DEF MembershipRoutes, ForStaff
<1>6. \A r \in CourseRoutes : ForStaff(r)
  <2> TAKE r \in CourseRoutes
  <2>1. PICK name : \/ r = Route(name, "read", Teaching, {}, {})
                    \/ r = Route(name, "write", Teaching, Staff, {})
    BY DEF CourseRoutes
  <2> QED
    BY <1>2, <2>1, FieldsOfRoute DEF ForStaff
<1>7. \A r \in OrderRoutes : ForStaff(r)
  BY <1>2, FieldsOfRoute DEF OrderRoutes, ForStaff
<1>8. \A r \in AccountRoutes : ForStaff(r)
  BY <1>2, FieldsOfRoute DEF AccountRoutes, ForStaff
<1>9. /\ \A r \in StatisticsRoutes : r.does = "read"
      /\ \A r \in SessionRoutes : r.does \in {"read", "change_password", "logout"}
  BY FieldsOfRoute DEF StatisticsRoutes, SessionRoutes
<1>10. \A r \in AttendanceRoutes : ForStaff(r) \/ r.does \in {"check_in", "check_out"}
  <2> TAKE r \in AttendanceRoutes
  <2>1. CASE \E d \in {"check_in", "check_out"} : r = Route("attendance", d, Everybody, {}, {})
    BY <2>1, FieldsOfRoute
  <2>2. CASE r = Route("attendance", "approve_leave", Everybody, Staff, {})
    BY <1>2, <2>2, FieldsOfRoute DEF ForStaff
  <2>3. CASE r = Route("attendance", "issue_code", Everybody, Teaching, {})
    BY <1>2, <2>3, FieldsOfRoute DEF ForStaff
  <2> QED
    BY <2>1, <2>2, <2>3 DEF AttendanceRoutes
<1>11. CASE route \in ScheduleRoutes
  <2>1. ForStaff(route) \/ route.does \in {"list", "read"}
          \/ (route.permissions = {"schedules:write"} /\ RolesOf(route) = Staff)
    BY <1>2, <1>11, FieldsOfRoute DEF ScheduleRoutes, ForStaff
  <2>2. "schedules:write" \notin Seeded("STUDENT") /\ "*" \notin Seeded("STUDENT")
    BY DEF Seeded
  <2> QED
    BY <1>1, <1>2, <2>1, <2>2 DEF Allowed, HasAny
<1> QED
  BY <1>1, <1>3, <1>4, <1>5, <1>6, <1>7, <1>8, <1>9, <1>10, <1>11 DEF Routes

\* With their seeded permissions students manage nothing.
THEOREM StudentsManageNothingHolds == Spec => []StudentsManageNothing
<1>1. Inputs => StudentsManageNothing
  <2> SUFFICES ASSUME Inputs, topic = "access", x.role = "STUDENT",
                      x.permissions = Seeded("STUDENT"), Admits(x)
               PROVE  x.route.does \in
                         {"list", "read", "check_in", "check_out", "change_password", "logout"}
    BY DEF StudentsManageNothing
  <2>1. x.route \in Routes
    BY DEF Inputs, Init
  <2> QED
    BY <2>1, StudentRoutesManageNothing DEF Admits
<1> QED
  BY <1>1, InputsStay, PTL

\* A POST, PATCH or DELETE of an administrator that comes to its handler leaves its audit
\* record, whatever else is true of the request.
THEOREM AdminWritesAreAuditedHolds == Spec => []AdminWritesAreAudited
<1>1. AdminWritesAreAudited
  BY DEF AdminWritesAreAudited, Records, Finalized, AuditRecords, Mutations
<1> QED
  BY <1>1, PTL

----------------------------------------------------------------------------
(* Money.                                                                  *)

\* An amount with its sign.
Signed(negative, cents) == IF negative THEN - cents ELSE cents

\* Parsing two digits after the point reads tens and units of cents.
LEMMA ParsedDigits ==
    ASSUME NEW tens \in Nat, NEW units \in Nat, NEW whole \in Nat, NEW negative \in BOOLEAN
    PROVE  Parse([negative |-> negative, whole |-> whole, digits |-> <<tens, units>>]) =
               Signed(negative, whole * 100 + tens * 10 + units)
<1>1. (<<tens, units>> \o <<0, 0>>)[1] = tens /\ (<<tens, units>> \o <<0, 0>>)[2] = units
  BY SMT
<1> QED
  BY <1>1 DEF Parse, Signed

\* Parsing one digit reads tens of cents: the missing digit is a zero.
LEMMA ParsedDigit ==
    ASSUME NEW tens \in Nat, NEW whole \in Nat, NEW negative \in BOOLEAN
    PROVE  Parse([negative |-> negative, whole |-> whole, digits |-> <<tens>>]) =
               Signed(negative, whole * 100 + tens * 10)
<1>1. (<<tens>> \o <<0, 0>>)[1] = tens /\ (<<tens>> \o <<0, 0>>)[2] = 0
  BY SMT
<1>2. whole * 100 + tens * 10 + 0 = whole * 100 + tens * 10
  OBVIOUS
<1> QED
  BY <1>1, <1>2 DEF Parse, Signed

\* Displaying any amount of cents and reading it back gives the amount, also without a last
\* digit that is zero.
THEOREM DisplayedAmountsAreRead ==
    ASSUME NEW cents \in Int
    PROVE  /\ Parse(Format(cents)) = cents
           /\ cents % 10 = 0 =>
                 Parse([Format(cents) EXCEPT !.digits = <<@[1]>>]) = cents
<1>1. PICK negative \in BOOLEAN, whole \in Nat, tens \in Nat, units \in Nat :
         /\ Format(cents) = [negative |-> negative, whole |-> whole, digits |-> <<tens, units>>]
         /\ cents = Signed(negative, whole * 100 + tens * 10 + units)
         /\ cents % 10 = 0 => units = 0
  <2> DEFINE size == IF cents < 0 THEN - cents ELSE cents
  <2>1. /\ size \in Nat
        /\ size \div 100 \in Nat /\ (size % 100) \div 10 \in Nat /\ size % 10 \in Nat
        /\ size = (size \div 100) * 100 + ((size % 100) \div 10) * 10 + (size % 10)
        /\ cents % 10 = 0 => size % 10 = 0
    BY SMT
  <2>2. Format(cents) = [negative |-> cents < 0, whole |-> size \div 100,
                         digits |-> <<(size % 100) \div 10, size % 10>>]
    BY DEF Format
  <2>3. cents = Signed(cents < 0, size)
    BY DEF Signed
  <2>4. (cents < 0) \in BOOLEAN
    OBVIOUS
  <2> HIDE DEF size
  <2> QED
    BY <2>1, <2>2, <2>3, <2>4, Zenon
<1>2. Parse(Format(cents)) = cents
  <2>1. Parse([negative |-> negative, whole |-> whole, digits |-> <<tens, units>>])
          = Signed(negative, whole * 100 + tens * 10 + units)
    BY ParsedDigits, SMT
  <2> QED
    BY <1>1, <2>1, Zenon
<1>3. ASSUME cents % 10 = 0
      PROVE  Parse([Format(cents) EXCEPT !.digits = <<@[1]>>]) = cents
  <2>1. [Format(cents) EXCEPT !.digits = <<@[1]>>]
          = [negative |-> negative, whole |-> whole, digits |-> <<tens>>]
    BY <1>1
  <2>2. whole * 100 + tens * 10 + units = whole * 100 + tens * 10
    BY <1>1, <1>3
  <2>3. Parse([negative |-> negative, whole |-> whole, digits |-> <<tens>>])
          = Signed(negative, whole * 100 + tens * 10)
    BY ParsedDigit, Zenon
  <2> QED
    BY <1>1, <2>1, <2>2, <2>3, Zenon
<1> QED
  BY <1>2, <1>3

\* An amount survives its display.
THEOREM AmountsRoundTripHolds == Spec => []AmountsRoundTrip
<1>1. Inputs => AmountsRoundTrip
  <2> SUFFICES ASSUME Inputs, topic = "money" PROVE x \in Int
    BY DisplayedAmountsAreRead DEF AmountsRoundTrip
  <2> QED
    BY BoundsAssumption DEF Inputs, Init
<1> QED
  BY <1>1, InputsStay, PTL
=============================================================================
