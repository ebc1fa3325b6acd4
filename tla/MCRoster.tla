------------------------------- MODULE MCRoster -------------------------------
(* A small instance of Roster for TLC. *)
EXTENDS Roster, TLC

CONSTANTS
    r1, r2, r3, north, south,
    s1, s2, k1, k2, y1, v1, v2, c1, c2, h1, g1, g2

At(tenant, user, refs) == [tenant |-> tenant, user |-> user, refs |-> refs]

\* At first there are no c2, s2 and g2.  The coach k1 teaches c1, whose student is s1 of another tenant; k2 and v2 are
\* the southern coach and venue.
Rows ==
    s1 :> At(south, "pupil", {}) @@ k1 :> At(north, "trainer", {}) @@ k2 :> At(south, None, {})
    @@ y1 :> At(north, None, {}) @@ v1 :> At(north, None, {}) @@ v2 :> At(south, None, {})
    @@ c1 :> At(north, None, {y1, k1}) @@ h1 :> At(north, None, {c1, v1, k1})
    @@ g1 :> At(None, None, {})

Enrolled == {<<c1, s1>>, <<h1, s1>>}

Person(role, cross, tenant, others) ==
    [role |-> role, cross |-> cross, tenant |-> tenant, others |-> others]

People == [u \in {"root", "clerk", "agent", "warden", "trainer", "pupil"} |->
    CASE u = "root"    -> Person("ADMIN", TRUE, north, {})
      [] u = "clerk"   -> Person("STAFF", FALSE, north, {})
      [] u = "agent"   -> Person("STAFF", FALSE, None, {north, south})
      [] u = "warden"  -> Person("STAFF", FALSE, south, {})
      [] u = "trainer" -> Person("COACH", FALSE, north, {})
      [] u = "pupil"   -> Person("STUDENT", FALSE, south, {})]

Nothing == [tenant |-> Keep, user |-> Keep, refs |-> {}, drop |-> FALSE]

Ask(op, by, id) ==
    [op |-> op, by |-> by, header |-> None, id |-> id, other |-> id, data |-> Nothing]

With(in, d) == [in EXCEPT !.data = d]
To(in, id) == [in EXCEPT !.other = id]

Calls ==
    r1 :> {With(Ask("update", "agent", s1), [Nothing EXCEPT !.tenant = north]),
           With(Ask("update", "agent", k1), [Nothing EXCEPT !.tenant = south]),
           With(Ask("update", "root", k1), [Nothing EXCEPT !.user = None]),
           With(Ask("update", "root", k2), [Nothing EXCEPT !.user = "trainer"]),
           With(Ask("update", "clerk", c1), [Nothing EXCEPT !.drop = TRUE]),
           With(Ask("update", "warden", k2), [Nothing EXCEPT !.tenant = None]),
           Ask("remove", "clerk", k1), Ask("remove", "clerk", c1), Ask("remove", "root", s1)}
    @@ r2 :> {With(Ask("update", "warden", s1), [Nothing EXCEPT !.user = "clerk"]),
              Ask("remove", "warden", s1), Ask("remove", "clerk", y1),
              With(Ask("update", "clerk", c1), [Nothing EXCEPT !.refs = {k2}]),
              To(Ask("detach", "warden", c1), s1), To(Ask("attach", "warden", s1), g1),
              Ask("read", "trainer", s1), Ask("read", "pupil", h1), Ask("read", "clerk", c1)}
    @@ r3 :> {With(Ask("create", "clerk", c2), [Nothing EXCEPT !.refs = {y1, k1}]),
              With(Ask("create", "root", c2), [Nothing EXCEPT !.refs = {y1}]),
              With([Ask("create", "agent", s2) EXCEPT !.header = south], [Nothing EXCEPT !.user = "trainer"]),
              With(Ask("create", "clerk", s2), [Nothing EXCEPT !.tenant = south]),
              To(Ask("attach", "clerk", c1), s2), To(Ask("attach", "clerk", c1), s1),
              Ask("create", "clerk", g2)}
===============================================================================
