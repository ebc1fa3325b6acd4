-------------------------------- MODULE Roster --------------------------------
(***************************************************************************)
(* Students, coaches, course types, venues, classes, tags and groups       *)
(* (modules/students, modules/coaches, modules/courses), and who may see   *)
(* and change them: the access context built from the user's row and       *)
(* profiles (common/rbac), the tenant filter that the Prisma extension     *)
(* adds to every statement (infrastructure/prisma/tenant), and the data    *)
(* scope that the services add to their reads.                             *)
(*                                                                         *)
(* A request builds its context when it arrives, looks for the row, and    *)
(* writes: three steps, with those of other requests between them.  The    *)
(* columns of a row are its tenant, the user it is the profile of, and the *)
(* rows its foreign keys name, at most one of each table.  Schedules come  *)
(* with the initial rows (ScheduleBooking makes them).                     *)
(***************************************************************************)
EXTENDS FiniteSets

CONSTANTS
    Requests,    \* bounds a run
    Students, Coaches, CourseTypes, Venues, Classes, Schedules,
    Labels,      \* ids of the rows of each table, a tag or a group is a label: bounds creations
    Tenants,
    Users,       \* the User rows; accounts are Authentication's
    Inputs,      \* what each request may be and carry
    FirstRows, FirstLinks,
    None, Keep

Tables == {"student", "coach", "type", "venue", "class", "schedule", "label"}

Ids == Students \cup Coaches \cup CourseTypes \cup Venues \cup Classes \cup Schedules \cup Labels

Table == [i \in Ids |-> CASE i \in Students -> "student" [] i \in Coaches -> "coach"
                          [] i \in CourseTypes -> "type" [] i \in Venues -> "venue"
                          [] i \in Classes -> "class" [] i \in Schedules -> "schedule"
                          [] OTHER -> "label"]

\* TENANT_SCOPED_MODELS.
TenantScoped == Tables \ {"label"}

Roles == {"ADMIN", "STAFF", "COACH", "STUDENT"}

\* cross: ORG_CROSS is a permission of the role; others: the UserTenant rows.
User == [role : Roles, cross : BOOLEAN, tenant : Tenants \cup {None}, others : SUBSET Tenants]

UserIds == DOMAIN Users

Row == [tenant : Tenants \cup {None}, user : UserIds \cup {None}, refs : SUBSET Ids]
Blank == [tenant |-> None, user |-> None, refs |-> {}]

\* A class has students, a schedule attendance records, a student tags and groups.
Pairs == {<<"class", "student">>, <<"schedule", "student">>, <<"student", "label">>}
Links == {l \in Ids \X Ids : <<Table[l[1]], Table[l[2]]>> \in Pairs}

\* The body of a write.  Keep: not in the body; None: null; drop: the coach of a class is null.
Data == [tenant : Tenants \cup {None, Keep}, user : UserIds \cup {None, Keep},
         refs : SUBSET Ids, drop : BOOLEAN]

Ops == {"read", "create", "update", "remove", "attach", "detach"}
Input == [op : Ops, by : UserIds, header : Tenants \cup {None}, id : Ids, other : Ids, data : Data]

ASSUME RosterNames ==
    /\ {None, Keep} \cap (Tenants \cup UserIds) = {} /\ None # Keep
    /\ Users \in [UserIds -> User]
    /\ \A r \in Requests : Inputs[r] \subseteq Input

\* The database the requests start from keeps its foreign keys and unique indexes.
ASSUME RosterStart ==
    /\ DOMAIN FirstRows \subseteq Ids /\ FirstRows \in [DOMAIN FirstRows -> Row]
    /\ FirstLinks \subseteq Links
    /\ \A i \in DOMAIN FirstRows : FirstRows[i].refs \subseteq DOMAIN FirstRows
    /\ \A l \in FirstLinks : l[1] \in DOMAIN FirstRows /\ l[2] \in DOMAIN FirstRows
    /\ \A i, j \in DOMAIN FirstRows :
          Table[i] = Table[j] /\ FirstRows[i].user = FirstRows[j].user /\ FirstRows[i].user # None => i = j

VARIABLES
    live, rows,  \* the ids in the database and their rows
    links,       \* ClassStudent, AttendanceRecord, StudentTag and StudentGroup
    used,        \* the ids there have been: each is a fresh uuid
    stage, input, access,
    told

vars == <<live, rows, links, used, stage, input, access, told>>

Scopes == {"all", "organization", "coach_owned", "self"}

\* AccessContext; coach and student hold the profile, if there is one.
Context == [scope : Scopes, tenants : SUBSET Tenants, active : Tenants \cup {None},
            home : Tenants \cup {None}, coach : SUBSET Ids, student : SUBSET Ids]
Nobody == [scope |-> "self", tenants |-> {}, active |-> None, home |-> None,
           coach |-> {}, student |-> {}]

TypeOK ==
    /\ rows \in [Ids -> Row]
    /\ links \subseteq Links
    /\ live \subseteq used /\ used \subseteq Ids
    /\ stage \in [Requests -> {"idle", "looking", "writing", "ended"}]
    /\ input \in [Requests -> Input \cup {None}]
    /\ access \in [Requests -> Context]
    /\ told \in [Requests -> {"nothing", "ok", "not found", "error"}]

Init ==
    /\ live = DOMAIN FirstRows
    /\ rows = [i \in Ids |-> IF i \in DOMAIN FirstRows THEN FirstRows[i] ELSE Blank]
    /\ links = FirstLinks
    /\ used = DOMAIN FirstRows
    /\ stage = [r \in Requests |-> "idle"]
    /\ input = [r \in Requests |-> None]
    /\ access = [r \in Requests |-> Nobody]
    /\ told = [r \in Requests |-> "nothing"]

----------------------------------------------------------------------------
(* The access context of a user (AccessContextService, interceptor).        *)
Profiles(table, u) == {i \in live : Table[i] = table /\ rows[i].user = u}

\* A fault: only a profile narrows the scope.
ScopeByProfile(u) ==
    IF Users[u].cross THEN "all"
    ELSE IF Profiles("student", u) # {} THEN "self"
    ELSE IF Profiles("coach", u) # {} THEN "coach_owned"
    ELSE "organization"

\* resolveDataScope.
ScopeOf(u) ==
    IF Users[u].cross THEN "all"
    ELSE IF Profiles("student", u) # {} \/ Users[u].role = "STUDENT" THEN "self"
    ELSE IF Profiles("coach", u) # {} \/ Users[u].role = "COACH" THEN "coach_owned"
    ELSE "organization"

\* collectTenantIds.
TenantsOf(u) ==
    LET named == {Users[u].tenant} \cup {rows[p].tenant : p \in Profiles("coach", u) \cup Profiles("student", u)}
    IN Users[u].others \cup (named \ {None})

\* A fault: the tenant of the header is taken as it is.
ActiveUnchecked(u, header) == header

\* The tenant asked for by X-Tenant-Id, when the user may access it.
Active(u, header) == IF header \in TenantsOf(u) THEN header ELSE None

\* tenantIds[0]: the user's own tenant, if there is one.
Homes(u) ==
    IF Users[u].tenant # None THEN {Users[u].tenant}
    ELSE IF TenantsOf(u) # {} THEN TenantsOf(u) ELSE {None}

ContextOf(u, header, home) ==
    [scope |-> ScopeOf(u), tenants |-> TenantsOf(u), active |-> Active(u, header), home |-> home,
     coach |-> Profiles("coach", u), student |-> Profiles("student", u)]

----------------------------------------------------------------------------
(* Filters.                                                                 *)
\* A fault: a context without a header is not filtered for coaches.
TenantFilterButCoaches(a, i) ==
    \/ Table[i] \notin TenantScoped
    \/ a.scope \in {"all", "coach_owned"}
    \/ rows[i].tenant # None /\ rows[i].tenant \in (IF a.active # None THEN {a.active} ELSE a.tenants)

\* resolveTenantWhere: a row without a tenant is seen by scope "all" only.
TenantFilter(a, i) ==
    \/ Table[i] \notin TenantScoped
    \/ a.scope = "all"
    \/ rows[i].tenant # None /\ rows[i].tenant \in (IF a.active # None THEN {a.active} ELSE a.tenants)

Effective(a) == IF a.active # None THEN {a.active} ELSE a.tenants

TaughtBy(a, i) == rows[i].refs \cap a.coach # {}

\* studentDataScopeWhere, coachDataScopeWhere, scheduleDataScopeWhere.
StudentScope(a, i) ==
    CASE a.scope = "organization" -> rows[i].tenant \in Effective(a)
      [] a.scope = "coach_owned"  -> \E l \in links : l[2] = i /\ TaughtBy(a, l[1])
      [] a.scope = "self"         -> i \in a.student
      [] OTHER                    -> TRUE

CoachScope(a, i) ==
    CASE a.scope = "organization" -> rows[i].tenant \in Effective(a)
      [] a.scope = "coach_owned"  -> i \in a.coach
      [] a.scope = "self"         -> FALSE
      [] OTHER                    -> TRUE

ScheduleScope(a, i) ==
    CASE a.scope = "organization" ->
            \/ rows[i].tenant \in Effective(a)
            \/ \E j \in rows[i].refs : Table[j] \in {"venue", "class"} /\ rows[j].tenant \in Effective(a)
      [] a.scope = "coach_owned"  -> TaughtBy(a, i)
      [] a.scope = "self"         ->
            \E c \in rows[i].refs, s \in a.student : Table[c] = "class" /\ <<c, s>> \in links
      [] OTHER                    -> TRUE

\* What a read of the services with this filter finds: findOne, getClass, getSchedule,
\* ensureCourseType, ensureVenue and the lists.  Only three of the tables have a data scope.
Visible(a, i) ==
    /\ i \in live
    /\ TenantFilter(a, i)
    /\ Table[i] = "student" => StudentScope(a, i)
    /\ Table[i] = "coach" => CoachScope(a, i)
    /\ Table[i] = "schedule" => ScheduleScope(a, i)

Linked(i) == {l[2] : l \in {m \in links : m[1] = i}}

\* What the services include in the answer with row i.  The tenant filter and the data scope
\* are conditions on the statement's own table: an included row passes neither.
Included(i) ==
    CASE Table[i] = "class"    -> rows[i].refs \cup Linked(i)
      [] Table[i] = "schedule" -> rows[i].refs \cup {t \in CourseTypes :
                                    \E c \in rows[i].refs \cap Classes : t \in rows[c].refs}
      [] Table[i] = "student"  -> Linked(i)
      [] OTHER                 -> {}

----------------------------------------------------------------------------
(* Requests.                                                                *)
Goto(r, s) == stage' = [stage EXCEPT ![r] = s]
End(r, verdict) == Goto(r, "ended") /\ told' = [told EXCEPT ![r] = verdict]
Unwritten == UNCHANGED <<live, rows, links, used>>

\* The routes that look for the row first; removeTag, removeGroup and unenroll do not.
Looks(in) == in.op \in {"read", "update", "remove", "attach"} /\ Table[in.id] # "label"

Arrive(r) ==
    /\ stage[r] = "idle"
    /\ \E in \in Inputs[r] : \E home \in Homes(in.by) :
          /\ input' = [input EXCEPT ![r] = in]
          /\ access' = [access EXCEPT ![r] = ContextOf(in.by, in.header, home)]
          /\ Goto(r, IF Looks(in) THEN "looking" ELSE "writing")
    /\ Unwritten /\ UNCHANGED told

Look(r) ==
    /\ stage[r] = "looking"
    /\ IF ~ Visible(access[r], input[r].id) THEN End(r, "not found")
       ELSE IF input[r].op = "read" THEN End(r, "ok")
       ELSE Goto(r, "writing") /\ UNCHANGED told
    /\ Unwritten /\ UNCHANGED <<input, access>>

\* The foreign keys and unique indexes of the database.
References(data, i) ==
    /\ data.refs \subseteq live
    /\ data.user # None => \A j \in live \ {i} : Table[j] = Table[i] => rows[j].user # data.user

Refused(r) == End(r, "error") /\ Unwritten

Writing(r, op) ==
    /\ stage[r] = "writing" /\ input[r].op = op
    /\ UNCHANGED <<input, access>>

\* The services of students and coaches fill in the tenant, the extension what is left,
\* but for scope "all".
TenantFor(a, table, d) ==
    IF d.tenant \notin {Keep, None} THEN d.tenant
    ELSE IF table = "label" \/ (a.scope = "all" /\ table \notin {"student", "coach"}) THEN None
    ELSE IF a.active # None THEN a.active ELSE a.home

\* A tag's or a group's name may be taken.
Create(r) ==
    /\ Writing(r, "create")
    /\ \E i \in Ids \ used :
          LET d == input[r].data
              row == [tenant |-> TenantFor(access[r], Table[i], d), refs |-> d.refs,
                      user |-> IF d.user = Keep THEN None ELSE d.user]
          IN /\ Table[i] = Table[input[r].id]
             /\ \/ /\ References(row, i)
                   /\ live' = live \cup {i} /\ used' = used \cup {i}
                   /\ rows' = [rows EXCEPT ![i] = row]
                   /\ UNCHANGED links
                   /\ End(r, "ok")
                \/ /\ References(row, i) => Table[i] = "label"
                   /\ Refused(r)

Patched(row, d) ==
    [tenant |-> IF d.tenant = Keep THEN row.tenant ELSE d.tenant,
     user   |-> IF d.user = Keep THEN row.user ELSE d.user,
     refs   |-> d.refs \cup {j \in row.refs : /\ \A k \in d.refs : Table[k] # Table[j]
                                              /\ ~ (d.drop /\ Table[j] = "coach")}]

\* A fault: the extension filters reads only.
InReachUnfiltered(a, i) == i \in live

\* The rows an UPDATE or DELETE can meet: it carries the id and the tenant filter.
InReach(a, i) == i \in live /\ TenantFilter(a, i)

Update(r) ==
    /\ Writing(r, "update")
    /\ LET i == input[r].id
           row == Patched(rows[i], input[r].data)
       IN IF InReach(access[r], i) /\ References(row, i)
          THEN rows' = [rows EXCEPT ![i] = row] /\ End(r, "ok") /\ UNCHANGED <<live, used, links>>
          ELSE Refused(r)

\* onDelete of the foreign key by which j names i.
OnDelete(j, i) ==
    CASE <<Table[j], Table[i]>> = <<"schedule", "class">> -> "cascade"
      [] <<Table[j], Table[i]>> = <<"class", "coach">>    -> "set null"
      [] OTHER                                            -> "restrict"

Naming(i, rule) == {j \in live : i \in rows[j].refs /\ OnDelete(j, i) = rule}

\* onDelete: Cascade.
LinksLeftBy(gone) == {l \in links : l[1] \notin gone /\ l[2] \notin gone}

Remove(r) ==
    /\ Writing(r, "remove")
    /\ LET i == input[r].id
           gone == {i} \cup Naming(i, "cascade")
       IN IF InReach(access[r], i) /\ Naming(i, "restrict") = {}
          THEN /\ live' = live \ gone
               /\ rows' = [j \in Ids |-> IF j \in gone THEN Blank
                                         ELSE [rows[j] EXCEPT !.refs = @ \ gone]]
               /\ links' = LinksLeftBy(gone)
               /\ End(r, "ok") /\ UNCHANGED used
          ELSE Refused(r)

\* addTag, addGroup, enrollStudent.
Attach(r) ==
    /\ Writing(r, "attach")
    /\ LET l == <<input[r].id, input[r].other>>
       IN IF l \in Links \ links /\ l[1] \in live /\ l[2] \in live
          THEN links' = links \cup {l} /\ End(r, "ok") /\ UNCHANGED <<live, rows, used>>
          ELSE Refused(r)

\* removeTag, removeGroup, unenrollStudent: the link tables have no tenant.
Detach(r) ==
    /\ Writing(r, "detach")
    /\ LET l == <<input[r].id, input[r].other>>
       IN IF l \in links
          THEN links' = links \ {l} /\ End(r, "ok") /\ UNCHANGED <<live, rows, used>>
          ELSE Refused(r)

----------------------------------------------------------------------------
Step(r) ==
    \/ Arrive(r) \/ Look(r)
    \/ Create(r) \/ Update(r) \/ Remove(r) \/ Attach(r) \/ Detach(r)

Next == \E r \in Requests : Step(r)

Spec == Init /\ [][Next]_vars

----------------------------------------------------------------------------
(* Properties.                                                              *)

\* What a user may find now, by the header of the request, and what it is handed: the rows it
\* finds and what they include.  Which routes its role may call is RouteAccess's.
Found(a) == {i \in live : Visible(a, i)}
Contexts(u, headers) == {ContextOf(u, h, x) : h \in headers, x \in Homes(u)}
Finds(u, headers) == UNION {Found(a) : a \in Contexts(u, headers)}
Headers == Tenants \cup {None}
Handed(u, headers) == Finds(u, headers) \cup UNION {Included(i) : i \in Finds(u, headers)}

\* Taking the profile of a coach or a student away, or giving it to another user, never leaves
\* its user with the scope of an organisation: the classes of its tenants have no data scope,
\* and the students and the coach they name are all it is handed of other people (RBAC.md says
\* that a coach's classes are its own: resolveDataScope does, classes ask nobody).
WithoutProfileOnlyClasses ==
    \A u \in UserIds :
        /\ Users[u].role \in {"COACH", "STUDENT"} /\ ~ Users[u].cross
        /\ Profiles("coach", u) = {} /\ Profiles("student", u) = {}
        => \A i \in Handed(u, Headers) : Table[i] \in {"student", "coach", "schedule"} =>
              \E c \in Finds(u, Headers) :
                  Table[c] = "class" /\ rows[c].tenant \in TenantsOf(u) /\ i \in Included(c)

\* The rows with a tenant that a user is handed.
Owned(u) == {i \in Handed(u, Headers) : Table[i] \in TenantScoped}

\* Two users who share no tenant.
Strangers(u, v) ==
    ~ Users[u].cross /\ ~ Users[v].cross /\ TenantsOf(u) \cap TenantsOf(v) = {}

\* A row reaches two users who share no tenant only inside a row that names it: one of the two
\* cannot find it, and is handed it with a row of its own tenants, whoever was enrolled where
\* and whatever moved (prisma-tenant.extension.ts; the includes of courses.service.ts).
\* TENANT.md says that tenants never see each other's rows: this is the exception it has.
OnlyNamedRowsCross ==
    \A u, v \in UserIds : Strangers(u, v) =>
        \A i \in Owned(u) \cap Owned(v) :
            \E w \in {u, v} :
                /\ i \notin Finds(w, Headers)
                /\ \E j \in Finds(w, Headers) : rows[j].tenant \in TenantsOf(w) /\ i \in Included(j)

\* X-Tenant-Id narrows what a user is handed, whatever tenant it names (a tenant that is not
\* the user's is dropped by the interceptor, not refused).
HeadersOnlyNarrow ==
    \A u \in UserIds : Handed(u, Headers) \subseteq Handed(u, {None})

\* A request that is not cross-tenant changes or removes a row only while the row belongs
\* to a tenant of its context, even if another request has moved the row since the look.
WritesStayInTenants ==
    [][\A r \in Requests :
          /\ stage[r] = "writing" /\ stage'[r] = "ended" /\ told'[r] = "ok"
          /\ input[r].op \in {"update", "remove"}
          /\ access[r].scope # "all" /\ Table[input[r].id] \in TenantScoped
          => rows[input[r].id].tenant \in access[r].tenants]_vars
===============================================================================
