----------------------------- MODULE RosterProofs -----------------------------
(***************************************************************************)
(* Proofs about Roster, for every set of tenants, users, rows and requests,*)
(* whatever the requests ask.                                              *)
(***************************************************************************)
EXTENDS Roster, TLAPS

\* A request that has arrived has its input.
ArrivedInv == \A r \in Requests : stage[r] # "idle" => input[r] \in Input

Arrived == TypeOK /\ ArrivedInv

----------------------------------------------------------------------------
(* The operators.                                                          *)

LEMMA ScopesAreScopes == ASSUME NEW u \in UserIds PROVE ScopeOf(u) \in Scopes
BY DEF ScopeOf, Scopes

LEMMA TenantsOfTyped == ASSUME TypeOK, NEW u \in UserIds PROVE TenantsOf(u) \subseteq Tenants
<1>1. Users[u].tenant \in Tenants \cup {None} /\ Users[u].others \subseteq Tenants
  BY RosterNames DEF User
<1>2. \A table \in Tables : Profiles(table, u) \subseteq Ids
  BY DEF Profiles, TypeOK
<1>3. \A i \in Ids : rows[i].tenant \in Tenants \cup {None}
  BY DEF TypeOK, Row
<1> QED
  BY <1>1, <1>2, <1>3 DEF TenantsOf, Tables

LEMMA HomesTyped ==
    ASSUME TypeOK, NEW u \in UserIds
    PROVE  Homes(u) \subseteq Tenants \cup {None}
<1>1. Users[u].tenant \in Tenants \cup {None}
  BY RosterNames DEF User
<1> QED
  BY <1>1, TenantsOfTyped DEF Homes

LEMMA ContextTyped ==
    ASSUME TypeOK, NEW u \in UserIds, NEW h \in Headers, NEW x \in Homes(u)
    PROVE  ContextOf(u, h, x) \in Context
<1>1. ScopeOf(u) \in Scopes /\ TenantsOf(u) \in SUBSET Tenants /\ x \in Tenants \cup {None}
  BY ScopesAreScopes, TenantsOfTyped, HomesTyped
<1>2. Active(u, h) \in Tenants \cup {None}
  BY DEF Active, Headers
<1>3. Profiles("coach", u) \in SUBSET Ids /\ Profiles("student", u) \in SUBSET Ids
  BY DEF Profiles, TypeOK
<1> QED
  BY <1>1, <1>2, <1>3 DEF ContextOf, Context

LEMMA TenantForTyped ==
    ASSUME NEW a \in Context, NEW table \in Tables, NEW d \in Data
    PROVE  TenantFor(a, table, d) \in Tenants \cup {None}
BY DEF TenantFor, Context, Data

LEMMA PatchedTyped ==
    ASSUME NEW row \in Row, NEW d \in Data
    PROVE  Patched(row, d) \in Row
<1>1. row.tenant \in Tenants \cup {None} /\ row.user \in UserIds \cup {None} /\ row.refs \subseteq Ids
  BY DEF Row
<1>2. /\ d.tenant \in Tenants \cup {None, Keep} /\ d.user \in UserIds \cup {None, Keep}
      /\ d.refs \subseteq Ids
  BY DEF Data
<1>3. /\ Patched(row, d).tenant \in Tenants \cup {None}
      /\ Patched(row, d).user \in UserIds \cup {None}
      /\ Patched(row, d).refs \subseteq Ids
  BY <1>1, <1>2 DEF Patched
<1> QED
  BY <1>3 DEF Patched, Row

LEMMA TablesOfIds == \A i \in Ids : Table[i] \in Tables
BY DEF Table, Tables

----------------------------------------------------------------------------
(* Types.                                                                  *)

LEMMA InitArrived == Init => Arrived
<1> SUFFICES ASSUME Init PROVE Arrived
  OBVIOUS
<1>1. rows \in [Ids -> Row]
  BY RosterStart DEF Init, Blank, Row
<1>2. access \in [Requests -> Context]
  BY DEF Init, Nobody, Context, Scopes
<1> QED
  BY <1>1, <1>2, RosterStart DEF Init, Arrived, TypeOK, ArrivedInv

\* What a request that has arrived does to its own variables.
Proceeds(r) ==
    /\ stage[r] # "idle" /\ input' = input /\ access' = access
    /\ \E s \in {"looking", "writing", "ended"} : stage' = [stage EXCEPT ![r] = s]
    /\ \/ told' = told
       \/ \E v \in {"ok", "not found", "error"} : told' = [told EXCEPT ![r] = v]

LEMMA StepsProceed ==
    ASSUME Arrived, NEW r \in Requests,
           Look(r) \/ Create(r) \/ Update(r) \/ Remove(r) \/ Attach(r) \/ Detach(r)
    PROVE  Proceeds(r)
<1>1. CASE Look(r)
  BY <1>1 DEF Look, End, Goto, Proceeds
<1>2. CASE Create(r)
  BY <1>2 DEF Create, Writing, Refused, End, Goto, Proceeds
<1>3. CASE Update(r)
  BY <1>3 DEF Update, Writing, Refused, End, Goto, Proceeds
<1>4. CASE Remove(r)
  BY <1>4 DEF Remove, Writing, Refused, End, Goto, Proceeds
<1>5. CASE Attach(r)
  BY <1>5 DEF Attach, Writing, Refused, End, Goto, Proceeds
<1>6. CASE Detach(r)
  BY <1>6 DEF Detach, Writing, Refused, End, Goto, Proceeds
<1> QED
  BY <1>1, <1>2, <1>3, <1>4, <1>5, <1>6

LEMMA ProceedingTyped ==
    ASSUME Arrived, NEW r \in Requests, Proceeds(r)
    PROVE  /\ stage' \in [Requests -> {"idle", "looking", "writing", "ended"}]
           /\ input' \in [Requests -> Input \cup {None}]
           /\ access' \in [Requests -> Context]
           /\ told' \in [Requests -> {"nothing", "ok", "not found", "error"}]
           /\ ArrivedInv'
<1>1. /\ stage' \in [Requests -> {"idle", "looking", "writing", "ended"}]
      /\ \A q \in Requests : stage'[q] # "idle" => stage[q] # "idle"
  BY DEF Proceeds, Arrived, TypeOK
<1>2. told' \in [Requests -> {"nothing", "ok", "not found", "error"}]
  BY DEF Proceeds, Arrived, TypeOK
<1> QED
  BY <1>1, <1>2 DEF Proceeds, Arrived, TypeOK, ArrivedInv

\* What is in the database after a write of request r.
Stored ==
    /\ live \subseteq used /\ used \subseteq Ids
    /\ rows \in [Ids -> Row]
    /\ links \subseteq Links

LEMMA WritesStored ==
    ASSUME Arrived, NEW r \in Requests,
           Look(r) \/ Create(r) \/ Update(r) \/ Remove(r) \/ Attach(r) \/ Detach(r)
    PROVE  Stored'
<1>0. Stored /\ stage[r] # "idle" /\ input[r] \in Input /\ access[r] \in Context
  <2>1. stage[r] # "idle"
    BY StepsProceed DEF Proceeds
  <2> QED
    BY <2>1 DEF Arrived, ArrivedInv, TypeOK, Stored
<1>1. input[r].id \in Ids /\ input[r].data \in Data
  BY <1>0 DEF Input
<1>2. CASE Unwritten
  BY <1>0, <1>2 DEF Unwritten, Stored
<1>3. CASE Look(r)
  BY <1>2, <1>3 DEF Look
<1>4. CASE Create(r)
  <2>1. PICK i \in Ids \ used :
           LET d == input[r].data
               row == [tenant |-> TenantFor(access[r], Table[i], d), refs |-> d.refs,
                       user |-> IF d.user = Keep THEN None ELSE d.user]
           IN \/ /\ live' = live \cup {i} /\ used' = used \cup {i}
                 /\ rows' = [rows EXCEPT ![i] = row]
                 /\ UNCHANGED links
              \/ Refused(r)
    BY <1>4 DEF Create
  <2> DEFINE d == input[r].data
             row == [tenant |-> TenantFor(access[r], Table[i], d), refs |-> d.refs,
                     user |-> IF d.user = Keep THEN None ELSE d.user]
  <2>2. TenantFor(access[r], Table[i], d) \in Tenants \cup {None}
    BY <1>0, <1>1, TenantForTyped, TablesOfIds
  <2>3. d.refs \in SUBSET Ids /\ (IF d.user = Keep THEN None ELSE d.user) \in UserIds \cup {None}
    BY <1>1 DEF Data
  <2>4. row \in Row
    BY <2>2, <2>3 DEF Row
  <2>5. CASE Refused(r)
    BY <1>2, <2>5 DEF Refused
  <2>6. CASE /\ live' = live \cup {i} /\ used' = used \cup {i}
             /\ rows' = [rows EXCEPT ![i] = row] /\ UNCHANGED links
    <3> HIDE DEF row
    <3>1. rows' \in [Ids -> Row]
      BY <1>0, <2>4, <2>6 DEF Stored
    <3> QED
      BY <1>0, <2>6, <3>1 DEF Stored
  <2> QED
    BY <2>1, <2>5, <2>6
<1>5. CASE Update(r)
  <2>1. \/ Refused(r)
        \/ /\ rows' = [rows EXCEPT ![input[r].id] = Patched(rows[input[r].id], input[r].data)]
           /\ UNCHANGED <<live, used, links>>
    BY <1>5 DEF Update
  <2>2. Patched(rows[input[r].id], input[r].data) \in Row
    BY <1>0, <1>1, PatchedTyped DEF Stored
  <2> QED
    BY <1>0, <1>2, <2>1, <2>2 DEF Stored, Refused
<1>6. CASE Remove(r)
  <2>1. PICK gone \in SUBSET Ids :
           \/ Refused(r)
           \/ /\ live' = live \ gone /\ links' = LinksLeftBy(gone) /\ used' = used
              /\ rows' = [j \in Ids |-> IF j \in gone THEN Blank
                                        ELSE [rows[j] EXCEPT !.refs = @ \ gone]]
    <3>1. {input[r].id} \cup Naming(input[r].id, "cascade") \in SUBSET Ids
      BY <1>0, <1>1 DEF Naming, Stored
    <3> QED
      BY <1>6, <3>1 DEF Remove
  <2>2. \A j \in Ids : (IF j \in gone THEN Blank ELSE [rows[j] EXCEPT !.refs = @ \ gone]) \in Row
    BY <1>0 DEF Stored, Blank, Row
  <2>3. CASE ~ Refused(r)
    <3>1. rows' \in [Ids -> Row]
      BY <2>1, <2>2, <2>3
    <3> QED
      BY <1>0, <2>1, <2>3, <3>1 DEF Stored, LinksLeftBy
  <2> QED
    BY <1>2, <2>3 DEF Refused
<1>7. CASE Attach(r)
  BY <1>0, <1>2, <1>7 DEF Attach, Stored, Refused
<1>8. CASE Detach(r)
  BY <1>0, <1>2, <1>8 DEF Detach, Stored, Refused
<1> QED
  BY <1>3, <1>4, <1>5, <1>6, <1>7, <1>8

LEMMA ArrivalTyped ==
    ASSUME Arrived, NEW r \in Requests, Arrive(r)
    PROVE  Arrived'
<1>0. PICK in \in Inputs[r] : \E home \in Homes(in.by) :
         /\ input' = [input EXCEPT ![r] = in]
         /\ access' = [access EXCEPT ![r] = ContextOf(in.by, in.header, home)]
         /\ Goto(r, IF Looks(in) THEN "looking" ELSE "writing")
  BY DEF Arrive
<1>1. PICK home \in Homes(in.by) :
         /\ input' = [input EXCEPT ![r] = in]
         /\ access' = [access EXCEPT ![r] = ContextOf(in.by, in.header, home)]
         /\ Goto(r, IF Looks(in) THEN "looking" ELSE "writing")
  BY <1>0
<1>2. in \in Input
  BY RosterNames
<1>3. ContextOf(in.by, in.header, home) \in Context
  BY <1>2, ContextTyped DEF Input, Headers, Arrived
<1>4. UNCHANGED <<live, rows, links, used, told>>
  BY DEF Arrive, Unwritten
<1> QED
  BY <1>1, <1>2, <1>3, <1>4 DEF Goto, Arrived, TypeOK, ArrivedInv

LEMMA NextArrived == Arrived /\ [Next]_vars => Arrived'
<1> SUFFICES ASSUME Arrived, [Next]_vars PROVE Arrived'
  OBVIOUS
<1>1. CASE UNCHANGED vars
  BY <1>1 DEF vars, Arrived, TypeOK, ArrivedInv
<1>2. CASE Next
  <2>1. PICK r \in Requests : Step(r)
    BY <1>2 DEF Next
  <2>2. CASE Arrive(r)
    BY <2>2, ArrivalTyped
  <2>3. CASE Look(r) \/ Create(r) \/ Update(r) \/ Remove(r) \/ Attach(r) \/ Detach(r)
    BY <2>3, WritesStored, StepsProceed, ProceedingTyped DEF Stored, Arrived, TypeOK
  <2> QED
    BY <2>1, <2>2, <2>3 DEF Step
<1> QED
  BY <1>1, <1>2

LEMMA AlwaysArrived == Spec => []Arrived
<1> QED
  BY InitArrived, NextArrived, PTL DEF Spec

\* Every column, link and context has its type in every reachable state.
THEOREM RosterTypeCorrect == Spec => []TypeOK
<1>1. Arrived => TypeOK
  BY DEF Arrived
<1> QED
  BY <1>1, AlwaysArrived, PTL

----------------------------------------------------------------------------
(* Who finds and is handed what.                                           *)

LEMMA FindsContexts ==
    ASSUME NEW u \in UserIds, NEW headers \in SUBSET Headers, NEW i \in Finds(u, headers)
    PROVE  \E h \in headers, x \in Homes(u) : Visible(ContextOf(u, h, x), i)
BY DEF Finds, Found, Contexts

\* A row is handed to a user because the user finds it, or finds a row that includes it.
LEMMA HandedFrom ==
    ASSUME NEW u \in UserIds, NEW headers \in SUBSET Headers, NEW i
    PROVE  i \in Handed(u, headers) <=>
              i \in Finds(u, headers) \/ \E j \in Finds(u, headers) : i \in Included(j)
BY DEF Handed

LEMMA FoundIsLive ==
    ASSUME TypeOK, NEW u \in UserIds, NEW i \in Finds(u, Headers)
    PROVE  i \in live /\ i \in Ids
BY DEF Finds, Found, TypeOK

\* Only classes, schedules and students include other rows.
LEMMA Includers ==
    ASSUME NEW j \in Ids, NEW i \in Included(j)
    PROVE  Table[j] \in {"class", "schedule", "student"}
BY DEF Included

\* A coach or a student without a profile finds no student, coach or schedule.
LEMMA ProfilelessFinds ==
    ASSUME NEW u \in UserIds,
           Users[u].role \in {"COACH", "STUDENT"}, ~ Users[u].cross,
           Profiles("coach", u) = {}, Profiles("student", u) = {},
           NEW i \in Finds(u, Headers)
    PROVE  Table[i] \notin {"student", "coach", "schedule"}
<1> SUFFICES ASSUME Table[i] \in {"student", "coach", "schedule"} PROVE FALSE
  OBVIOUS
<1>1. PICK h \in Headers, x \in Homes(u) : Visible(ContextOf(u, h, x), i)
  BY FindsContexts
<1>2. ScopeOf(u) \in {"self", "coach_owned"}
  BY DEF ScopeOf
<1> DEFINE a == ContextOf(u, h, x)
<1>3. a.scope \in {"self", "coach_owned"} /\ a.coach = {} /\ a.student = {}
  BY <1>2 DEF ContextOf
<1> HIDE DEF a
<1>4. ~ StudentScope(a, i) /\ ~ CoachScope(a, i) /\ ~ ScheduleScope(a, i)
  BY <1>3 DEF StudentScope, CoachScope, ScheduleScope, TaughtBy
<1> QED
  BY <1>1, <1>4 DEF Visible, a

\* What a user without cross-tenant access finds belongs to one of its tenants.
LEMMA FoundInTenants ==
    ASSUME TypeOK, NEW u \in UserIds, ~ Users[u].cross, NEW i \in Finds(u, Headers),
           Table[i] \in TenantScoped
    PROVE  rows[i].tenant \in TenantsOf(u)
<1>1. PICK h \in Headers, x \in Homes(u) : Visible(ContextOf(u, h, x), i)
  BY FindsContexts
<1>2. ScopeOf(u) # "all"
  BY DEF ScopeOf
<1>3. TenantFilter(ContextOf(u, h, x), i)
  BY <1>1 DEF Visible
<1>4. /\ ContextOf(u, h, x).scope # "all" /\ ContextOf(u, h, x).tenants = TenantsOf(u)
      /\ ContextOf(u, h, x).active \in TenantsOf(u) \cup {None}
  BY <1>2 DEF ContextOf, Active
<1> QED
  BY <1>3, <1>4 DEF TenantFilter

\* A user without cross-tenant access is handed what it does not find in a row of its tenants.
LEMMA HandedInTenants ==
    ASSUME TypeOK, NEW u \in UserIds, ~ Users[u].cross, NEW i \in Handed(u, Headers),
           i \notin Finds(u, Headers)
    PROVE  \E j \in Finds(u, Headers) : rows[j].tenant \in TenantsOf(u) /\ i \in Included(j)
<1>1. PICK j \in Finds(u, Headers) : i \in Included(j)
  BY HandedFrom
<1>2. Table[j] \in TenantScoped
  BY <1>1, Includers, FoundIsLive DEF TenantScoped, Tables
<1> QED
  BY <1>1, <1>2, FoundInTenants

LEMMA ProfilelessOnlyClasses == TypeOK => WithoutProfileOnlyClasses
<1> SUFFICES ASSUME TypeOK, NEW u \in UserIds,
                    Users[u].role \in {"COACH", "STUDENT"}, ~ Users[u].cross,
                    Profiles("coach", u) = {}, Profiles("student", u) = {},
                    NEW i \in Handed(u, Headers), Table[i] \in {"student", "coach", "schedule"}
             PROVE  \E c \in Finds(u, Headers) :
                        Table[c] = "class" /\ rows[c].tenant \in TenantsOf(u) /\ i \in Included(c)
  BY DEF WithoutProfileOnlyClasses
<1>1. PICK j \in Finds(u, Headers) : rows[j].tenant \in TenantsOf(u) /\ i \in Included(j)
  BY ProfilelessFinds, HandedInTenants
<1>2. Table[j] = "class"
  BY <1>1, ProfilelessFinds, Includers, FoundIsLive
<1> QED
  BY <1>1, <1>2

\* A coach or a student without a profile is handed no schedule, coach or student but those
\* that the classes of its tenants include.
THEOREM WithoutProfileOnlyClassesHolds == Spec => []WithoutProfileOnlyClasses
<1> QED
  BY ProfilelessOnlyClasses, RosterTypeCorrect, PTL

LEMMA OnlyNamedCross == TypeOK => OnlyNamedRowsCross
<1> SUFFICES ASSUME TypeOK, NEW u \in UserIds, NEW v \in UserIds, Strangers(u, v),
                    NEW i \in Owned(u) \cap Owned(v)
             PROVE  \E w \in {u, v} :
                       /\ i \notin Finds(w, Headers)
                       /\ \E j \in Finds(w, Headers) :
                             rows[j].tenant \in TenantsOf(w) /\ i \in Included(j)
  BY DEF OnlyNamedRowsCross
<1>1. PICK w \in {u, v} : i \notin Finds(w, Headers)
  BY FoundInTenants DEF Strangers, Owned
<1>2. i \in Handed(w, Headers) /\ w \in UserIds /\ ~ Users[w].cross
  BY DEF Owned, Strangers
<1> QED
  BY <1>1, <1>2, HandedInTenants

\* Two users who share no tenant never find one row: one of them is handed it, if at all,
\* inside a row of its own tenants that names it.
THEOREM OnlyNamedRowsCrossHolds == Spec => []OnlyNamedRowsCross
<1> QED
  BY OnlyNamedCross, RosterTypeCorrect, PTL

LEMMA FindsNarrow ==
    ASSUME TypeOK, NEW u \in UserIds, NEW i \in Finds(u, Headers)
    PROVE  i \in Finds(u, {None})
<1>1. PICK h \in Headers, x \in Homes(u) : Visible(ContextOf(u, h, x), i)
  BY FindsContexts
<1> DEFINE a == ContextOf(u, h, x)
           b == ContextOf(u, None, x)
<1>2. /\ a.scope = b.scope /\ a.tenants = b.tenants /\ a.coach = b.coach /\ a.student = b.student
      /\ b.active = None /\ a.active \in b.tenants \cup {None}
  <2>1. None \notin TenantsOf(u)
    BY TenantsOfTyped, RosterNames
  <2> QED
    BY <2>1 DEF ContextOf, Active
<1> HIDE DEF a, b
<1>3. Effective(a) \subseteq Effective(b)
  BY <1>2 DEF Effective
<1>4. TenantFilter(a, i) => TenantFilter(b, i)
  BY <1>2 DEF TenantFilter
<1>5. StudentScope(a, i) => StudentScope(b, i)
  BY <1>2, <1>3 DEF StudentScope, TaughtBy
<1>6. CoachScope(a, i) => CoachScope(b, i)
  BY <1>2, <1>3 DEF CoachScope
<1>7. ScheduleScope(a, i) => ScheduleScope(b, i)
  BY <1>2, <1>3 DEF ScheduleScope, TaughtBy
<1>8. Visible(b, i)
  BY <1>1, <1>4, <1>5, <1>6, <1>7 DEF Visible, a
<1> QED
  BY <1>8 DEF Finds, Found, Contexts, Visible, b

LEMMA Narrow == TypeOK => HeadersOnlyNarrow
<1> SUFFICES ASSUME TypeOK, NEW u \in UserIds, NEW i \in Handed(u, Headers)
             PROVE  i \in Handed(u, {None})
  BY DEF HeadersOnlyNarrow
<1>1. {None} \in SUBSET Headers
  BY DEF Headers
<1> QED
  BY <1>1, HandedFrom, FindsNarrow

\* The tenant header of a request narrows what its user is handed.
THEOREM HeadersOnlyNarrowHolds == Spec => []HeadersOnlyNarrow
<1> QED
  BY Narrow, RosterTypeCorrect, PTL

----------------------------------------------------------------------------
(* Writes.                                                                 *)

LEMMA TenantFilterMeansTenant ==
    ASSUME NEW a \in Context, a.active \in a.tenants \cup {None}, NEW i \in Ids,
           TenantFilter(a, i), a.scope # "all", Table[i] \in TenantScoped
    PROVE  rows[i].tenant \in a.tenants
BY DEF TenantFilter

\* The active tenant of a context is one of its tenants.
ActiveInv == \A r \in Requests : access[r].active \in access[r].tenants \cup {None}

LEMMA ActiveAlways == Arrived /\ ActiveInv /\ [Next]_vars => ActiveInv'
<1> SUFFICES ASSUME Arrived, ActiveInv, [Next]_vars PROVE ActiveInv'
  OBVIOUS
<1>1. CASE UNCHANGED vars
  BY <1>1 DEF vars, ActiveInv
<1>2. CASE Next
  <2>1. PICK r \in Requests : Step(r)
    BY <1>2 DEF Next
  <2>2. CASE Arrive(r)
    <3>1. PICK in \in Inputs[r] : \E home \in Homes(in.by) :
             access' = [access EXCEPT ![r] = ContextOf(in.by, in.header, home)]
      BY <2>2 DEF Arrive
    <3>2. PICK home \in Homes(in.by) :
             access' = [access EXCEPT ![r] = ContextOf(in.by, in.header, home)]
      BY <3>1
    <3>3. LET a == ContextOf(in.by, in.header, home) IN a.active \in a.tenants \cup {None}
      BY DEF ContextOf, Active
    <3> HIDE DEF ContextOf
    <3> QED
      BY <3>2, <3>3 DEF ActiveInv, Arrived, TypeOK
  <2>3. CASE Look(r) \/ Create(r) \/ Update(r) \/ Remove(r) \/ Attach(r) \/ Detach(r)
    BY <2>3, StepsProceed DEF Proceeds, ActiveInv
  <2> QED
    BY <2>1, <2>2, <2>3 DEF Step
<1> QED
  BY <1>1, <1>2

LEMMA InitActive == Init => ActiveInv
BY DEF Init, Nobody, ActiveInv

LEMMA WritesStay ==
    Arrived /\ ActiveInv /\ [Next]_vars =>
      [\A r \in Requests :
          /\ stage[r] = "writing" /\ stage'[r] = "ended" /\ told'[r] = "ok"
          /\ input[r].op \in {"update", "remove"}
          /\ access[r].scope # "all" /\ Table[input[r].id] \in TenantScoped
          => rows[input[r].id].tenant \in access[r].tenants]_vars
<1> SUFFICES ASSUME Arrived, ActiveInv, Next, NEW r \in Requests,
                    stage[r] = "writing", stage'[r] = "ended", told'[r] = "ok",
                    input[r].op \in {"update", "remove"},
                    access[r].scope # "all", Table[input[r].id] \in TenantScoped
             PROVE  rows[input[r].id].tenant \in access[r].tenants
  OBVIOUS
<1>1. PICK q \in Requests : Step(q)
  BY DEF Next
<1>2. q = r
  <2>1. CASE Arrive(q)
    BY <2>1 DEF Arrive, Goto, Arrived, TypeOK
  <2>2. CASE Look(q) \/ Create(q) \/ Update(q) \/ Remove(q) \/ Attach(q) \/ Detach(q)
    BY <2>2, StepsProceed DEF Proceeds, Arrived, TypeOK
  <2> QED
    BY <1>1, <2>1, <2>2 DEF Step
<1>3. Update(r) \/ Remove(r)
  BY <1>1, <1>2 DEF Step, Arrive, Look, Create, Attach, Detach, Writing
<1>4. ~ Refused(r)
  BY DEF Refused, End, Arrived, TypeOK
<1>5. TenantFilter(access[r], input[r].id)
  BY <1>3, <1>4 DEF Update, Remove, InReach
<1>6. access[r] \in Context /\ input[r].id \in Ids
  BY DEF Arrived, TypeOK, ArrivedInv, Input
<1> QED
  BY <1>5, <1>6, TenantFilterMeansTenant DEF ActiveInv

\* A request that is not cross-tenant writes to rows of its tenants only.
THEOREM WritesStayInTenantsHolds == Spec => WritesStayInTenants
<1>1. Spec => []ActiveInv
  BY InitActive, ActiveAlways, AlwaysArrived, PTL DEF Spec
<1> QED
  BY <1>1, WritesStay, AlwaysArrived, PTL DEF Spec, WritesStayInTenants
===============================================================================
