------------------------------ MODULE MCBilling ------------------------------
(* Small instances of Billing for TLC. *)
EXTENDS Billing, TLC

CONSTANTS a, b, o1, o2, t1, t2, r1, r2, r3, r4

\* Staff of tenant a, and an administrator of all tenants who belongs to b.
StaffAndAdmin ==
    {[sees |-> {a}, home |-> a], [sees |-> {a, b, NoTenant}, home |-> b]}
Admin == {[sees |-> {a, NoTenant}, home |-> a]}

Symmetry == Permutations(Requests) \cup Permutations(Orders) \cup Permutations(Trades)
=============================================================================
