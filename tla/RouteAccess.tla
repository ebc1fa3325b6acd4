----------------------------- MODULE RouteAccess -----------------------------
(***************************************************************************)
(* Who may call what: the annotations of the controllers, the permissions  *)
(* a role is seeded with, and RolesGuard between them (common/guards,      *)
(* common/rbac, modules/*/*.controller.ts).  Login, the payment webhook    *)
(* and the health check have no guard and are left out.                    *)
(***************************************************************************)
Staff == {"ADMIN", "STAFF"}
Teaching == Staff \cup {"COACH"}
Everybody == Teaching \cup {"STUDENT"}

\* A controller's default, and what a handler says for itself; {} is no annotation.  Routes
\* with the same annotations are one element.
Route(resource, does, class, roles, permissions) ==
    [resource |-> resource, does |-> does, class |-> class, roles |-> roles,
     permissions |-> permissions]

StudentRoutes ==
    {Route("students", d, Teaching, {}, {}) : d \in {"read", "write", "tag", "group"}}
      \cup {Route("labels", "read", Teaching, {}, {}), Route("labels", "write", Teaching, Staff, {})}
CoachRoutes ==
    {Route("coaches", d, Teaching, {}, {}) : d \in {"read", "write"}}
      \cup {Route("coaches", "delete", Teaching, Staff, {})}
MembershipRoutes ==
    {Route("memberships", "read", Teaching, {}, {})}
      \cup {Route("memberships", d, Teaching, Staff, {}) : d \in {"write", "adjust"}}
CourseRoutes ==
    UNION {{Route(r, "read", Teaching, {}, {}), Route(r, "write", Teaching, Staff, {})} :
             r \in {"course_types", "venues", "classes"}}
ScheduleRoutes ==
    {Route("schedules", "create", Teaching, Staff, {"schedules:write"}),
     Route("schedules", "list", Teaching, {}, {"schedules:read"}),
     Route("schedules", "read", Teaching, {}, {}),
     Route("schedules", "write", Teaching, Staff, {})}
AttendanceRoutes ==
    {Route("attendance", d, Everybody, {}, {}) : d \in {"check_in", "check_out"}}
      \cup {Route("attendance", "approve_leave", Everybody, Staff, {}),
            Route("attendance", "issue_code", Everybody, Teaching, {})}
StatisticsRoutes == {Route("statistics", "read", Teaching, {}, {})}
OrderRoutes == {Route("orders", d, Staff, {}, {}) : d \in {"read", "create"}}
AccountRoutes == {Route("users", d, {}, {"ADMIN"}, {}) : d \in {"create", "read"}}
\* The own profile, password and session: a token is all they ask for.
SessionRoutes == {Route("session", d, {}, {}, {}) : d \in {"read", "change_password", "logout"}}

Routes == StudentRoutes \cup CoachRoutes \cup MembershipRoutes \cup CourseRoutes
            \cup ScheduleRoutes \cup AttendanceRoutes \cup StatisticsRoutes \cup OrderRoutes
            \cup AccountRoutes \cup SessionRoutes

\* The permissions a role has unless its rows in the database say otherwise.
ReadsOfTeaching ==
    {"students:read", "coaches:read", "memberships:read", "course_types:read", "classes:read",
     "schedules:read", "venues:read", "attendance:read", "statistics:read"}
WritesOfStaff ==
    {"students:write", "students:tags:write", "coaches:write", "memberships:write",
     "course_types:write", "classes:write", "schedules:write", "venues:write",
     "attendance:write", "billing:read", "billing:write"}
Seeded(role) ==
    CASE role = "ADMIN" -> ReadsOfTeaching \cup WritesOfStaff
                             \cup {"org:cross", "auth:users:read", "auth:users:write",
                                   "attendance:check_in"}
      [] role = "STAFF" -> ReadsOfTeaching \cup WritesOfStaff
      [] role = "COACH" -> ReadsOfTeaching \cup {"attendance:check_in"}
      [] role = "STUDENT" -> {"schedules:read", "attendance:read", "attendance:check_in"}

\* Fault: getAllAndMerge, the handler's roles added to the class's.
RolesMerged(route) == route.roles \cup route.class

\* getAllAndOverride: the handler's annotation replaces the class's.
RolesOf(route) == IF route.roles # {} THEN route.roles ELSE route.class

\* hasAnyPermission
HasAny(permissions, required) ==
    \E p \in required : p \in permissions \/ "*" \in permissions

\* canActivate
Allowed(route, role, permissions) ==
    \/ RolesOf(route) = {} /\ route.permissions = {}
    \/ role \in RolesOf(route)
    \/ HasAny(permissions, route.permissions)
=============================================================================
