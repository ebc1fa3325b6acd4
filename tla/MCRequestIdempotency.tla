------------------------ MODULE MCRequestIdempotency ------------------------
(* Small instances of RequestIdempotency for TLC. *)
EXTENDS RequestIdempotency, TLC

CONSTANTS r1, r2, r3, k1

Carries(h, b) == [header |-> h, body |-> b]

\* Two requests carry the key in the header, whatever their body says; the third has it in
\* the body, or nowhere.
HeaderOrBody ==
    r1 :> {Carries(k1, None)} @@ r2 :> {Carries(k1, k1)}
    @@ r3 :> {Carries(None, k1), Carries(None, None)}
=============================================================================
