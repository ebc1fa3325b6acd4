----------------------------- MODULE PaymentBook -----------------------------
(***************************************************************************)
(* What billing promises, without requests, snapshots or transactions: an  *)
(* order is opened once under a key of its own, paid once by a trade that  *)
(* pays no other order, and refunded once, after its payment.              *)
(***************************************************************************)
CONSTANTS Orders, Trades, Keys, None

VARIABLES
    keyOf,    \* the key an order was opened under, None before
    paidBy,   \* the trade that paid it, None before
    refunded  \* the orders whose money went back

vars == <<keyOf, paidBy, refunded>>

Init ==
    /\ keyOf = [o \in Orders |-> None]
    /\ paidBy = [o \in Orders |-> None]
    /\ refunded = {}

Open(o, key) ==
    /\ keyOf[o] = None
    /\ \A other \in Orders : keyOf[other] # key
    /\ keyOf' = [keyOf EXCEPT ![o] = key]
    /\ UNCHANGED <<paidBy, refunded>>

Pay(o, trade) ==
    /\ keyOf[o] # None
    /\ paidBy[o] = None
    /\ \A other \in Orders : paidBy[other] # trade
    /\ paidBy' = [paidBy EXCEPT ![o] = trade]
    /\ UNCHANGED <<keyOf, refunded>>

Refund(o) ==
    /\ paidBy[o] # None
    /\ o \notin refunded
    /\ refunded' = refunded \cup {o}
    /\ UNCHANGED <<keyOf, paidBy>>

Next ==
    \E o \in Orders :
        \/ \E key \in Keys : Open(o, key)
        \/ \E trade \in Trades : Pay(o, trade)
        \/ Refund(o)

Spec == Init /\ [][Next]_vars
=============================================================================
