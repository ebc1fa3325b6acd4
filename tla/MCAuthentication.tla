--------------------------- MODULE MCAuthentication ---------------------------
(* Small instances of Authentication for TLC. *)
EXTENDS Authentication, TLC

CONSTANTS r1, r2, r3, s0, ann, bob, home, old, other

Asks(kind, name, password, new) ==
    [kind |-> kind, ip |-> home, name |-> name, password |-> password, new |-> new]

\* Two of them race for the password or for a new name, or log in; the third fails to log
\* in, or logs out.
Mixed ==
    r1 :> {Asks("login", ann, other, old), Asks("change", ann, old, other),
           Asks("register", bob, old, old)}
    @@ r2 :> {Asks("login", ann, old, old), Asks("change", ann, old, old),
              Asks("register", bob, old, old)}
    @@ r3 :> {Asks("login", ann, other, old), Asks("logout", ann, old, old)}

Ann == [name |-> ann, password |-> old]
===============================================================================
