\* Three calls on a roster of two tenants, by a cross-tenant administrator, the staff of
\* one, the other and both, a coach and a student.
CONSTANTS
    r1 = r1  r2 = r2  r3 = r3  north = north  south = south  None = None  Keep = Keep
    s1 = s1  s2 = s2  k1 = k1  k2 = k2  y1 = y1  v1 = v1  v2 = v2  c1 = c1  c2 = c2  h1 = h1  g1 = g1  g2 = g2
    Requests = {r1, r2, r3}
    Students = {s1, s2}
    Coaches = {k1, k2}
    CourseTypes = {y1}
    Venues = {v1, v2}
    Classes = {c1, c2}
    Schedules = {h1}
    Labels = {g1, g2}
    Tenants = {north, south}
    Users <- People
    Inputs <- Calls
    FirstRows <- Rows
    FirstLinks <- Enrolled
SPECIFICATION Spec
CHECK_DEADLOCK FALSE
INVARIANTS WithoutProfileOnlyClasses OnlyNamedRowsCross HeadersOnlyNarrow
PROPERTIES WritesStayInTenants
