---------------------------- MODULE LessonAccount ----------------------------
(***************************************************************************)
(* What the lesson ledger promises, without requests, transactions or      *)
(* versions: every card is an account of lessons that never goes below     *)
(* zero, every step moves at most one account, and a student is charged    *)
(* for a class at most once, some lessons, from one account that holds     *)
(* them.                                                                   *)
(***************************************************************************)
EXTENDS Integers

CONSTANTS Students, Schedules, Cards

VARIABLES
    open,     \* the cards that exist
    balance,  \* lessons left on each card
    charged   \* the <<student, schedule>> already charged

vars == <<open, balance, charged>>

Init ==
    /\ open = {}
    /\ balance = [c \in Cards |-> 0]
    /\ charged = {}

\* Only account c moves, to a balance that is not negative.
Moves(c) ==
    /\ balance'[c] >= 0
    /\ balance' = [balance EXCEPT ![c] = balance'[c]]

Open(c) ==
    /\ c \notin open
    /\ open' = open \cup {c}
    /\ Moves(c)
    /\ UNCHANGED charged

Charge(c, st, sch) ==
    /\ c \in open
    /\ <<st, sch>> \notin charged
    /\ charged' = charged \cup {<<st, sch>>}
    /\ Moves(c)
    /\ balance'[c] < balance[c]
    /\ UNCHANGED open

Adjust(c) ==
    /\ c \in open
    /\ Moves(c)
    /\ balance'[c] # balance[c]
    /\ UNCHANGED <<open, charged>>

Next ==
    \E c \in Cards :
        \/ Open(c)
        \/ \E st \in Students, sch \in Schedules : Charge(c, st, sch)
        \/ Adjust(c)

Spec == Init /\ [][Next]_vars
=============================================================================
