-------------------------------- MODULE Money --------------------------------
(***************************************************************************)
(* Cents to a decimal amount and back (common/money).  A decimal amount is *)
(* its sign, its whole part and the digits after the point.  Amounts are   *)
(* far below 2^53 cents, where the division by 100 and toFixed are exact.  *)
(***************************************************************************)
EXTENDS Integers, Sequences

\* Fault: the sign is read off the whole part.
FormatOfWhole(cents) ==
    LET size == IF cents < 0 THEN - cents ELSE cents
    IN [negative |-> cents <= -100, whole |-> size \div 100,
        digits |-> <<(size % 100) \div 10, size % 10>>]

\* formatAmountFromCents
Format(cents) ==
    LET size == IF cents < 0 THEN - cents ELSE cents
    IN [negative |-> cents < 0, whole |-> size \div 100,
        digits |-> <<(size % 100) \div 10, size % 10>>]

\* yuanStringToCents: missing digits are zeros on the right.
Parse(amount) ==
    LET padded == amount.digits \o <<0, 0>>
        cents == amount.whole * 100 + padded[1] * 10 + padded[2]
    IN IF amount.negative THEN - cents ELSE cents
=============================================================================
