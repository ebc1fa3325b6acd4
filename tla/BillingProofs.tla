---------------------------- MODULE BillingProofs ----------------------------
(***************************************************************************)
(* Proofs about Billing, for every set of orders, tenants, keys, trades,   *)
(* callers and requests.  The argument: the two unique indexes and the     *)
(* conditional UPDATEs make rows only advance (Rows, RowsAdvance), so what *)
(* was answered about a row stays true (CreatesHold, CallbacksHold).       *)
(***************************************************************************)
EXTENDS Billing, TLAPS

----------------------------------------------------------------------------
(* Types.                                                                  *)

LEMMA StartTyped ==
    ASSUME TypeOK, NEW r \in Requests, Start(r)
    PROVE  running' \subseteq Requests /\ answer' \in [Requests -> Verdicts \cup Orders]
BY DEF TypeOK, Start, Verdicts

LEMMA FinishTyped ==
    ASSUME TypeOK, NEW r \in Requests, NEW a \in Verdicts \cup Orders, Finish(r, a)
    PROVE  running' \subseteq Requests /\ answer' \in [Requests -> Verdicts \cup Orders]
BY DEF TypeOK, Finish

LEMMA AnswerAtOnceTyped ==
    ASSUME TypeOK, NEW r \in Requests, NEW a \in Verdicts \cup Orders, AnswerAtOnce(r, a)
    PROVE  running' \subseteq Requests /\ answer' \in [Requests -> Verdicts \cup Orders]
BY DEF TypeOK, AnswerAtOnce

\* A callback that is decided at once or goes on leaves its record.
LEMMA ReadCallbackTyped ==
    ASSUME TypeOK, NEW r \in Requests, NEW event \in {"paid", "refunded"}, NEW o \in Orders,
           NEW trade \in Trades, NEW a \in Verdicts \cup Orders, UNCHANGED <<orders, creates>>,
           GoOn(r, event, o, trade) \/ Decide(r, event, o, trade, a)
    PROVE  TypeOK'
<1>1. [id |-> r, event |-> event, order |-> o, trade |-> trade] \in Callback
  BY DEF Callback
<1>2. callbacks' \subseteq Callback
  BY <1>1 DEF GoOn, Decide, TypeOK
<1>3. running' \subseteq Requests /\ answer' \in [Requests -> Verdicts \cup Orders]
  BY StartTyped, AnswerAtOnceTyped DEF GoOn, Decide
<1> QED
  BY <1>2, <1>3 DEF TypeOK

LEMMA InitTyped == Init => TypeOK
BY DEF Init, TypeOK, Order, OrderStatus, Owners, Verdicts

LEMMA NextTyped == TypeOK /\ [Next]_vars => TypeOK'
<1> SUFFICES ASSUME TypeOK, [Next]_vars PROVE TypeOK'
  OBVIOUS
<1> USE DEF Verdicts
<1>1. ASSUME NEW r \in Requests, NEW caller \in Callers, NEW tenant \in Owners, NEW key \in Keys,
             ReadKey(r, caller, tenant, key)
      PROVE  TypeOK'
  <2>1. [id |-> r, sees |-> caller.sees, tenant |-> tenant, key |-> key, refused |-> FALSE]
            \in Create
    BY BillingCallers DEF Create
  <2>2. creates' \subseteq Create
    BY <1>1, <2>1 DEF ReadKey, TypeOK
  <2>3. running' \subseteq Requests /\ answer' \in [Requests -> Verdicts \cup Orders]
    BY <1>1, StartTyped, AnswerAtOnceTyped DEF ReadKey, Found
  <2> QED
    BY <1>1, <2>2, <2>3 DEF ReadKey, TypeOK
<1>2. ASSUME NEW cr \in creates, NEW o \in Orders, InsertOrder(cr, o)
      PROVE  TypeOK'
  <2>1. cr \in Create /\ cr.id \in Requests /\ cr.key \in Keys /\ cr.tenant \in Owners
    BY DEF TypeOK, Create
  <2>2. CASE /\ orders' = [orders EXCEPT ![o] = [status |-> "PENDING", trade |-> None,
                                                 key |-> cr.key, tenant |-> cr.tenant]]
             /\ FinishCommitted(cr.id, o)
             /\ UNCHANGED creates
    <3>1. orders' \in [Orders -> Order]
      BY <2>1, <2>2 DEF TypeOK, Order, OrderStatus
    <3>2. running' \subseteq Requests /\ answer' \in [Requests -> Verdicts \cup Orders]
      BY <2>1, <2>2, FinishTyped DEF FinishCommitted
    <3> QED
      BY <1>2, <2>2, <3>1, <3>2 DEF InsertOrder, TypeOK
  <2>3. CASE /\ creates' = (creates \ {cr}) \cup {[cr EXCEPT !.refused = TRUE]}
             /\ UNCHANGED <<orders, running, answer>>
    <3>1. [cr EXCEPT !.refused = TRUE] \in Create
      BY <2>1 DEF Create
    <3> QED
      BY <1>2, <2>3, <3>1 DEF InsertOrder, TypeOK
  <2> QED
    BY <1>2, <2>2, <2>3 DEF InsertOrder
<1>3. ASSUME NEW cr \in creates, FindWinner(cr)
      PROVE  TypeOK'
  <2>1. cr.id \in Requests
    BY DEF TypeOK, Create
  <2>2. running' \subseteq Requests /\ answer' \in [Requests -> Verdicts \cup Orders]
    BY <1>3, <2>1, FinishTyped DEF FindWinner, Found
  <2> QED
    BY <1>3, <2>2 DEF FindWinner, TypeOK
<1>4. ASSUME NEW r \in Requests, NEW o \in Orders, NEW trade \in Trades, ReadPaid(r, o, trade)
      PROVE  TypeOK'
  BY <1>4, ReadCallbackTyped DEF ReadPaid
<1>5. ASSUME NEW r \in Requests, NEW o \in Orders, NEW trade \in Trades, ReadRefund(r, o, trade)
      PROVE  TypeOK'
  BY <1>5, ReadCallbackTyped DEF ReadRefund
<1>6. ASSUME NEW cb \in callbacks, ApplyPaid(cb) \/ ApplyRefund(cb)
      PROVE  TypeOK'
  <2>1. cb.id \in Requests /\ cb.order \in Orders /\ cb.trade \in Trades
    BY DEF TypeOK, Callback
  <2>2. running' \subseteq Requests /\ answer' \in [Requests -> Verdicts \cup Orders]
    BY <1>6, <2>1, FinishTyped DEF ApplyPaid, ApplyRefund, FinishCommitted
  <2>3. orders' \in [Orders -> Order]
    BY <1>6, <2>1 DEF ApplyPaid, ApplyRefund, TypeOK, Order, OrderStatus
  <2> QED
    BY <1>6, <2>2, <2>3 DEF ApplyPaid, ApplyRefund, TypeOK
<1>7. ASSUME NEW cb \in callbacks, RefusePaid(cb) \/ RefuseRefund(cb)
      PROVE  TypeOK'
  <2>1. cb.id \in Requests
    BY DEF TypeOK, Callback
  <2>2. running' \subseteq Requests /\ answer' \in [Requests -> Verdicts \cup Orders]
    BY <1>7, <2>1, FinishTyped DEF RefusePaid, RefuseRefund, PaidVerdict
  <2> QED
    BY <1>7, <2>2 DEF RefusePaid, RefuseRefund, TypeOK
<1>8. ASSUME NEW r \in Requests, AbortRequest(r)
      PROVE  TypeOK'
  BY <1>8, FinishTyped DEF AbortRequest, TypeOK
<1>9. CASE UNCHANGED vars
  BY <1>9 DEF vars, TypeOK
<1> QED
  BY <1>1, <1>2, <1>3, <1>4, <1>5, <1>6, <1>7, <1>8, <1>9 DEF Next, CreateStep, CallbackStep

\* Every reachable state of the orders and of the requests in flight is well typed.
THEOREM BillingTypeCorrect == Spec => []TypeOK
<1>1. Init => TypeOK
  BY InitTyped
<1>2. TypeOK /\ [Next]_vars => TypeOK'
  BY NextTyped
<1> QED
  BY <1>1, <1>2, PTL DEF Spec

----------------------------------------------------------------------------
(* Rows.                                                                   *)

RowsAgree ==
    \A o \in Orders :
        /\ orders[o].status = "ABSENT" <=> orders[o].key = None
        /\ orders[o].status \in {"ABSENT", "PENDING"} <=> orders[o].trade = None
KeysUnique ==
    \A o, p \in Orders : orders[o].key = orders[p].key /\ orders[o].key # None => o = p
TradesUnique ==
    \A o, p \in Orders : orders[o].trade = orders[p].trade /\ orders[o].trade # None => o = p
Rows == RowsAgree /\ KeysUnique /\ TradesUnique

\* The four things a step can do to the Order table.
Opened(o, cr) ==
    /\ orders[o].status = "ABSENT"
    /\ KeyFree(cr.key)
    /\ orders' = [orders EXCEPT ![o] = [status |-> "PENDING", trade |-> None,
                                        key |-> cr.key, tenant |-> cr.tenant]]
Paid(cb) ==
    /\ orders[cb.order].status = "PENDING"
    /\ TradeFree(cb.trade)
    /\ orders' = [orders EXCEPT ![cb.order].status = "PAID", ![cb.order].trade = cb.trade]
Refunded(cb) ==
    /\ orders[cb.order].status = "PAID"
    /\ orders' = [orders EXCEPT ![cb.order].status = "REFUNDED"]

LEMMA RowSteps ==
    ASSUME [Next]_vars
    PROVE  \/ UNCHANGED orders
           \/ \E cr \in creates, o \in Orders : Opened(o, cr)
           \/ \E cb \in callbacks : Paid(cb)
           \/ \E cb \in callbacks : Refunded(cb)
<1>1. ASSUME NEW cr \in creates, NEW o \in Orders, InsertOrder(cr, o)
      PROVE  UNCHANGED orders \/ Opened(o, cr)
  BY <1>1 DEF InsertOrder, Opened
<1>2. ASSUME NEW cb \in callbacks, ApplyPaid(cb)
      PROVE  Paid(cb)
  BY <1>2 DEF ApplyPaid, Payable, Paid
<1>3. ASSUME NEW cb \in callbacks, ApplyRefund(cb)
      PROVE  Refunded(cb)
  BY <1>3 DEF ApplyRefund, Refunded
<1> QED
  BY <1>1, <1>2, <1>3 DEF Next, CreateStep, CallbackStep, ReadKey, FindWinner, ReadPaid,
     ReadRefund, RefusePaid, RefuseRefund, AbortRequest, vars

LEMMA InitRows == Init => Rows
BY DEF Init, Rows, RowsAgree, KeysUnique, TradesUnique

LEMMA NextRows == TypeOK /\ Rows /\ [Next]_vars => Rows'
<1> SUFFICES ASSUME TypeOK, Rows, [Next]_vars PROVE Rows'
  OBVIOUS
<1>1. CASE UNCHANGED orders
  BY <1>1 DEF Rows, RowsAgree, KeysUnique, TradesUnique
<1>2. ASSUME NEW cr \in creates, NEW o \in Orders, Opened(o, cr)
      PROVE  Rows'
  <2>1. cr.key \in Keys /\ cr.key # None
    BY BillingNames DEF TypeOK, Create
  <2>2. /\ orders'[o].status = "PENDING" /\ orders'[o].trade = None /\ orders'[o].key = cr.key
        /\ \A p \in Orders \ {o} : orders'[p] = orders[p]
    BY <1>2 DEF Opened, TypeOK
  <2>3. RowsAgree'
    BY <2>1, <2>2 DEF Rows, RowsAgree
  <2>4. KeysUnique'
    BY <1>2, <2>2 DEF Opened, KeyFree, Rows, KeysUnique
  <2>5. TradesUnique'
    BY <2>2 DEF Rows, TradesUnique
  <2> QED
    BY <2>3, <2>4, <2>5 DEF Rows
<1>3. ASSUME NEW cb \in callbacks, Paid(cb)
      PROVE  Rows'
  <2>1. cb.order \in Orders /\ cb.trade \in Trades /\ cb.trade # None
    BY BillingNames DEF TypeOK, Callback
  <2>2. /\ orders'[cb.order].status = "PAID" /\ orders'[cb.order].trade = cb.trade
        /\ orders'[cb.order].key = orders[cb.order].key
        /\ \A p \in Orders \ {cb.order} : orders'[p] = orders[p]
    BY <1>3, <2>1 DEF Paid, TypeOK, Order
  <2>3. RowsAgree'
    <3>1. orders[cb.order].key # None
      BY <1>3, <2>1 DEF Paid, Rows, RowsAgree
    <3> QED
      BY <2>1, <2>2, <3>1 DEF Rows, RowsAgree
  <2>4. KeysUnique'
    BY <2>1, <2>2 DEF Rows, KeysUnique
  <2>5. TradesUnique'
    <3>1. \A p \in Orders \ {cb.order} : orders'[p].trade # cb.trade
      BY <1>3, <2>2 DEF Paid, TradeFree
    <3> QED
      BY <2>2, <3>1 DEF Rows, TradesUnique
  <2> QED
    BY <2>3, <2>4, <2>5 DEF Rows
<1>4. ASSUME NEW cb \in callbacks, Refunded(cb)
      PROVE  Rows'
  <2>1. cb.order \in Orders
    BY DEF TypeOK, Callback
  <2>2. /\ orders'[cb.order].status = "REFUNDED"
        /\ orders'[cb.order].trade = orders[cb.order].trade
        /\ orders'[cb.order].key = orders[cb.order].key
        /\ \A p \in Orders \ {cb.order} : orders'[p] = orders[p]
    BY <1>4, <2>1 DEF Refunded, TypeOK, Order
  <2>3. RowsAgree'
    BY <1>4, <2>1, <2>2 DEF Refunded, Rows, RowsAgree
  <2>4. KeysUnique' /\ TradesUnique'
    BY <2>1, <2>2 DEF Rows, KeysUnique, TradesUnique
  <2> QED
    BY <2>3, <2>4 DEF Rows
<1> QED
  BY <1>1, <1>2, <1>3, <1>4, RowSteps

\* Rows only advance: what a row says once, it says for ever.
LEMMA RowsAdvance ==
    ASSUME TypeOK, Rows, [Next]_vars, NEW o \in Orders
    PROVE  /\ orders[o].key # None => /\ orders'[o].key = orders[o].key
                                      /\ orders'[o].tenant = orders[o].tenant
           /\ orders[o].trade # None => orders'[o].trade = orders[o].trade
           /\ orders[o].status = "REFUNDED" => orders'[o].status = "REFUNDED"
           /\ orders[o].status = "PAID" => orders'[o].status \in {"PAID", "REFUNDED"}
<1>1. CASE UNCHANGED orders
  BY <1>1
<1>2. ASSUME NEW cr \in creates, NEW p \in Orders, Opened(p, cr)
      PROVE  orders'[o] = orders[o] \/ (orders[o].status = "ABSENT" /\ orders[o].key = None
                                       /\ orders[o].trade = None)
  BY <1>2 DEF Opened, TypeOK, Rows, RowsAgree
<1>3. ASSUME NEW cb \in callbacks, Paid(cb)
      PROVE  \/ orders'[o] = orders[o]
             \/ /\ orders[o].status = "PENDING" /\ orders[o].trade = None
                /\ orders'[o].key = orders[o].key /\ orders'[o].tenant = orders[o].tenant
  <2>1. cb.order \in Orders
    BY DEF TypeOK, Callback
  <2>2. orders[cb.order].trade = None
    BY <1>3, <2>1 DEF Paid, Rows, RowsAgree
  <2> QED
    BY <1>3, <2>1, <2>2 DEF Paid, TypeOK, Order
<1>4. ASSUME NEW cb \in callbacks, Refunded(cb)
      PROVE  \/ orders'[o] = orders[o]
             \/ /\ orders[o].status = "PAID" /\ orders'[o].status = "REFUNDED"
                /\ orders'[o].key = orders[o].key /\ orders'[o].tenant = orders[o].tenant
                /\ orders'[o].trade = orders[o].trade
  BY <1>4 DEF Refunded, TypeOK, Order, Callback
<1> QED
  BY <1>1, <1>2, <1>3, <1>4, RowSteps

----------------------------------------------------------------------------
(* The book of payments.                                                   *)

LEMMA InitBook == Init => Book!Init
BY DEF Init, Book!Init

LEMMA NextBook == TypeOK /\ Rows /\ [Next]_vars => [Book!Next]_(Book!vars)
<1> SUFFICES ASSUME TypeOK, Rows, [Next]_vars PROVE [Book!Next]_(Book!vars)
  OBVIOUS
<1>1. CASE UNCHANGED orders
  BY <1>1 DEF Book!vars
<1>2. ASSUME NEW cr \in creates, NEW o \in Orders, Opened(o, cr)
      PROVE  Book!Next
  <2>1. cr.key \in Keys
    BY DEF TypeOK, Create
  <2>2. /\ orders'[o].status = "PENDING" /\ orders'[o].trade = None /\ orders'[o].key = cr.key
        /\ \A p \in Orders \ {o} : orders'[p] = orders[p]
    BY <1>2 DEF Opened, TypeOK
  <2>3. orders[o].key = None /\ orders[o].trade = None
    BY <1>2 DEF Opened, Rows, RowsAgree
  <2>4. \A p \in Orders : orders[p].key # cr.key
    BY <1>2 DEF Opened, KeyFree
  <2>5. {p \in Orders : orders'[p].status = "REFUNDED"} = {p \in Orders : orders[p].status = "REFUNDED"}
    BY <1>2, <2>2 DEF Opened
  <2>6. [p \in Orders |-> orders'[p].trade] = [p \in Orders |-> orders[p].trade]
    BY <2>2, <2>3
  <2>7. [p \in Orders |-> orders'[p].key] = [[p \in Orders |-> orders[p].key] EXCEPT ![o] = cr.key]
    BY <2>2
  <2>8. Book!Open(o, cr.key)
    BY <2>3, <2>4, <2>5, <2>6, <2>7 DEF Book!Open
  <2> QED
    BY <2>1, <2>8 DEF Book!Next
<1>3. ASSUME NEW cb \in callbacks, Paid(cb)
      PROVE  Book!Next
  <2>1. cb.order \in Orders /\ cb.trade \in Trades
    BY DEF TypeOK, Callback
  <2>2. /\ orders'[cb.order].status = "PAID" /\ orders'[cb.order].trade = cb.trade
        /\ orders'[cb.order].key = orders[cb.order].key
        /\ \A p \in Orders \ {cb.order} : orders'[p] = orders[p]
    BY <1>3, <2>1 DEF Paid, TypeOK, Order
  <2>3. orders[cb.order].key # None /\ orders[cb.order].trade = None
    BY <1>3, <2>1 DEF Paid, Rows, RowsAgree
  <2>4. \A p \in Orders : orders[p].trade # cb.trade
    BY <1>3 DEF Paid, TradeFree
  <2>5. {p \in Orders : orders'[p].status = "REFUNDED"} = {p \in Orders : orders[p].status = "REFUNDED"}
    BY <1>3, <2>2 DEF Paid
  <2>6. [p \in Orders |-> orders'[p].key] = [p \in Orders |-> orders[p].key]
    BY <2>2
  <2>7. [p \in Orders |-> orders'[p].trade]
            = [[p \in Orders |-> orders[p].trade] EXCEPT ![cb.order] = cb.trade]
    BY <2>1, <2>2
  <2>8. Book!Pay(cb.order, cb.trade)
    BY <2>1, <2>3, <2>4, <2>5, <2>6, <2>7 DEF Book!Pay
  <2> QED
    BY <2>1, <2>8 DEF Book!Next
<1>4. ASSUME NEW cb \in callbacks, Refunded(cb)
      PROVE  Book!Next
  <2>1. cb.order \in Orders
    BY DEF TypeOK, Callback
  <2>2. /\ orders'[cb.order].status = "REFUNDED"
        /\ orders'[cb.order].trade = orders[cb.order].trade
        /\ orders'[cb.order].key = orders[cb.order].key
        /\ \A p \in Orders \ {cb.order} : orders'[p] = orders[p]
    BY <1>4, <2>1 DEF Refunded, TypeOK, Order
  <2>3. orders[cb.order].trade # None
    BY <1>4, <2>1 DEF Refunded, Rows, RowsAgree
  <2>4. Book!Refund(cb.order)
    BY <1>4, <2>1, <2>2, <2>3 DEF Refunded, Book!Refund
  <2> QED
    BY <2>1, <2>4 DEF Book!Next
<1> QED
  BY <1>1, <1>2, <1>3, <1>4, RowSteps

\* The Order table implements the book of payments: one order per key, one payment per
\* order and per trade, one refund per payment, under any callbacks and retries.
THEOREM BillingImplementsBook == Spec => ImplementsBook
<1>1. Init => TypeOK /\ Rows /\ Book!Init
  BY InitTyped, InitRows, InitBook
<1>2. TypeOK /\ Rows /\ [Next]_vars => TypeOK' /\ Rows' /\ [Book!Next]_(Book!vars)
  BY NextTyped, NextRows, NextBook
<1> QED
  BY <1>1, <1>2, PTL DEF Spec, ImplementsBook, Book!Spec

----------------------------------------------------------------------------
(* Requests: an id names one request, and an answer is given once.         *)

Answered(r) == answer[r] \notin {"idle", "none"}

RequestsAgree ==
    /\ \A x, y \in creates : x.id = y.id => x = y
    /\ \A x, y \in callbacks : x.id = y.id => x = y
    /\ \A cr \in creates, cb \in callbacks : cr.id # cb.id
    /\ \A x \in creates \cup callbacks : answer[x.id] # "idle"
    /\ \A r \in running : answer[r] = "none"

\* Only request r is touched, and it had no final answer.
Touches(r) == ~Answered(r) /\ \A q \in Requests : q # r => answer'[q] = answer[q]

LEMMA StartTouches ==
    ASSUME TypeOK, NEW r \in Requests, Start(r)
    PROVE  /\ answer[r] = "idle" /\ answer'[r] = "none" /\ Touches(r)
           /\ running' = running \cup {r}
BY DEF TypeOK, Start, Touches, Answered

LEMMA AnswerAtOnceTouches ==
    ASSUME TypeOK, NEW r \in Requests, NEW a, AnswerAtOnce(r, a)
    PROVE  answer[r] = "idle" /\ answer'[r] = a /\ Touches(r) /\ running' = running
BY DEF TypeOK, AnswerAtOnce, Touches, Answered

LEMMA FinishTouches ==
    ASSUME TypeOK, RequestsAgree, NEW r \in Requests, NEW a, Finish(r, a)
    PROVE  /\ answer[r] = "none" /\ answer'[r] = a /\ Touches(r)
           /\ running' = running \ {r}
BY DEF TypeOK, RequestsAgree, Finish, Touches, Answered

LEMMA InitRequests == Init => RequestsAgree
BY DEF Init, RequestsAgree

\* A new record of an idle request.
LEMMA NewRequest ==
    ASSUME TypeOK, RequestsAgree, NEW r \in Requests, NEW x, x.id = r, answer[r] = "idle",
           answer'[r] # "idle", Touches(r), running' \subseteq running \cup {r},
           r \in running' => answer'[r] = "none",
           \/ creates' = creates \cup {x} /\ callbacks' = callbacks
           \/ creates' = creates /\ callbacks' = callbacks \cup {x}
    PROVE  RequestsAgree'
<1>1. \A y \in creates \cup callbacks : y.id \in Requests /\ y.id # r
  BY DEF TypeOK, RequestsAgree, Create, Callback
<1>2. \A y \in creates' \cup callbacks' : answer'[y.id] # "idle"
  BY <1>1 DEF RequestsAgree, Touches
<1>3. \A q \in running' : answer'[q] = "none"
  BY DEF TypeOK, RequestsAgree, Touches
<1> QED
  BY <1>1, <1>2, <1>3 DEF RequestsAgree

\* The end of a running request.
LEMMA EndOfRequest ==
    ASSUME TypeOK, RequestsAgree, NEW r \in Requests, NEW a, a # "idle", Finish(r, a),
           UNCHANGED <<creates, callbacks>>
    PROVE  RequestsAgree'
<1>1. \A y \in creates \cup callbacks : y.id \in Requests
  BY DEF TypeOK, Create, Callback
<1>2. answer'[r] = a /\ Touches(r) /\ running' = running \ {r}
  BY FinishTouches
<1> QED
  BY <1>1, <1>2 DEF TypeOK, RequestsAgree, Touches

LEMMA NextRequests == TypeOK /\ RequestsAgree /\ [Next]_vars => RequestsAgree'
<1> SUFFICES ASSUME TypeOK, RequestsAgree, [Next]_vars PROVE RequestsAgree'
  OBVIOUS
<1>0. Orders \cap {"idle", "none", "conflict", "refused", "failed"} = {}
  BY BillingNames DEF Verdicts
<1>1. ASSUME NEW r \in Requests, NEW caller \in Callers, NEW tenant \in Owners, NEW key \in Keys,
             ReadKey(r, caller, tenant, key)
      PROVE  RequestsAgree'
  <2> DEFINE x == [id |-> r, sees |-> caller.sees, tenant |-> tenant, key |-> key,
                   refused |-> FALSE]
  <2>1. /\ answer[r] = "idle" /\ answer'[r] # "idle" /\ Touches(r)
        /\ \/ running' = running
           \/ running' = running \cup {r} /\ answer'[r] = "none"
    BY <1>0, <1>1, StartTouches, AnswerAtOnceTouches DEF ReadKey, Found
  <2>2. r \notin running
    BY <2>1 DEF RequestsAgree
  <2>3. x.id = r /\ creates' = creates \cup {x} /\ callbacks' = callbacks
    BY <1>1 DEF ReadKey
  <2> QED
    BY <2>1, <2>2, <2>3, NewRequest
<1>2. ASSUME NEW cr \in creates, NEW o \in Orders, InsertOrder(cr, o)
      PROVE  RequestsAgree'
  <2>1. cr.id \in Requests
    BY DEF TypeOK, Create
  <2>2. CASE FinishCommitted(cr.id, o) /\ UNCHANGED creates
    BY <1>0, <1>2, <2>1, <2>2, EndOfRequest DEF InsertOrder, FinishCommitted
  <2>3. CASE /\ creates' = (creates \ {cr}) \cup {[cr EXCEPT !.refused = TRUE]}
             /\ UNCHANGED <<orders, running, answer>>
    <3>1. PICK y : y.id = cr.id /\ creates' = (creates \ {cr}) \cup {y}
      <4>1. [cr EXCEPT !.refused = TRUE].id = cr.id
        BY DEF TypeOK, Create
      <4> QED
        BY <2>3, <4>1
    <3>2. callbacks' = callbacks
      BY <1>2 DEF InsertOrder
    <3>3. \A x \in creates \ {cr} : x.id # cr.id
      BY DEF RequestsAgree
    <3>4. \A x, z \in creates' : x.id = z.id => x = z
      BY <3>1, <3>3 DEF RequestsAgree
    <3>5. \A x \in creates', cb \in callbacks' : x.id # cb.id
      BY <3>1, <3>2 DEF RequestsAgree
    <3>6. \A x \in creates' \cup callbacks' : answer'[x.id] # "idle"
      BY <2>3, <3>1, <3>2 DEF RequestsAgree
    <3> QED
      BY <2>3, <3>2, <3>4, <3>5, <3>6 DEF RequestsAgree
  <2> QED
    BY <1>2, <2>2, <2>3 DEF InsertOrder
<1>3. ASSUME NEW cr \in creates, FindWinner(cr)
      PROVE  RequestsAgree'
  <2>1. cr.id \in Requests
    BY DEF TypeOK, Create
  <2> QED
    BY <1>0, <1>3, <2>1, EndOfRequest DEF FindWinner, Found
<1>4. ASSUME NEW r \in Requests, NEW event, NEW o \in Orders, NEW trade \in Trades,
             NEW a \in Orders \cup {"conflict", "refused"}, UNCHANGED creates,
             GoOn(r, event, o, trade) \/ Decide(r, event, o, trade, a)
      PROVE  RequestsAgree'
  <2> DEFINE x == [id |-> r, event |-> event, order |-> o, trade |-> trade]
  <2>1. /\ answer[r] = "idle" /\ answer'[r] # "idle" /\ Touches(r)
        /\ \/ running' = running
           \/ running' = running \cup {r} /\ answer'[r] = "none"
    BY <1>0, <1>4, StartTouches, AnswerAtOnceTouches DEF GoOn, Decide
  <2>2. r \notin running
    BY <2>1 DEF RequestsAgree
  <2>3. x.id = r /\ callbacks' = callbacks \cup {x} /\ creates' = creates
    BY <1>4 DEF GoOn, Decide
  <2> QED
    BY <2>1, <2>2, <2>3, NewRequest
<1>5. ASSUME NEW r \in Requests, NEW o \in Orders, NEW trade \in Trades, ReadPaid(r, o, trade)
      PROVE  RequestsAgree'
  BY <1>4, <1>5 DEF ReadPaid
<1>6. ASSUME NEW r \in Requests, NEW o \in Orders, NEW trade \in Trades, ReadRefund(r, o, trade)
      PROVE  RequestsAgree'
  BY <1>4, <1>6 DEF ReadRefund
<1>7. ASSUME NEW cb \in callbacks,
             ApplyPaid(cb) \/ RefusePaid(cb) \/ ApplyRefund(cb) \/ RefuseRefund(cb)
      PROVE  RequestsAgree'
  <2>1. cb.id \in Requests /\ cb.order # "idle"
    BY <1>0 DEF TypeOK, Callback
  <2>2. PICK a \in {cb.order, "failed", "conflict"} : Finish(cb.id, a)
    BY <1>7 DEF ApplyPaid, RefusePaid, PaidVerdict, ApplyRefund, RefuseRefund, FinishCommitted
  <2>3. UNCHANGED <<creates, callbacks>>
    BY <1>7 DEF ApplyPaid, RefusePaid, ApplyRefund, RefuseRefund
  <2> QED
    BY <2>1, <2>2, <2>3, EndOfRequest
<1>8. ASSUME NEW r \in Requests, AbortRequest(r)
      PROVE  RequestsAgree'
  BY <1>8, EndOfRequest DEF AbortRequest
<1>9. CASE UNCHANGED vars
  BY <1>9 DEF vars, RequestsAgree
<1> QED
  BY <1>1, <1>2, <1>3, <1>5, <1>6, <1>7, <1>8, <1>9 DEF Next, CreateStep, CallbackStep

\* An answer once given is never changed: a step that changes one finds it open.
LEMMA AnswersStay ==
    ASSUME TypeOK, RequestsAgree, [Next]_vars, NEW q \in Requests, Answered(q)
    PROVE  answer'[q] = answer[q]
<1>1. ASSUME NEW r \in Requests, Touches(r)
      PROVE  answer'[q] = answer[q]
  BY <1>1 DEF Touches
<1>2. /\ \A cr \in creates : cr.id \in Requests
      /\ \A cb \in callbacks : cb.id \in Requests
  BY DEF TypeOK, Create, Callback
<1>3. ASSUME NEW r \in Requests, NEW a, Start(r) \/ AnswerAtOnce(r, a) \/ Finish(r, a)
      PROVE  answer'[q] = answer[q]
  BY <1>1, <1>3, StartTouches, AnswerAtOnceTouches, FinishTouches
<1>4. ASSUME CreateStep
      PROVE  answer'[q] = answer[q]
  BY <1>2, <1>3, <1>4 DEF CreateStep, ReadKey, InsertOrder, FinishCommitted, FindWinner
<1>5. ASSUME CallbackStep
      PROVE  answer'[q] = answer[q]
  BY <1>2, <1>3, <1>5 DEF CallbackStep, ReadPaid, ReadRefund, GoOn, Decide, ApplyPaid, RefusePaid,
     ApplyRefund, RefuseRefund, FinishCommitted
<1> QED
  BY <1>3, <1>4, <1>5 DEF Next, AbortRequest, vars

----------------------------------------------------------------------------
(* What the answers say of the rows.                                       *)

Given(cr) ==
    answer[cr.id] \in Orders =>
        /\ orders[answer[cr.id]].key = cr.key
        /\ orders[answer[cr.id]].tenant \in cr.sees \cup {cr.tenant}
CreatesHold == \A cr \in creates : Given(cr)

\* A record keeps its truth in a step that leaves its answer alone.
LEMMA GivenStays ==
    ASSUME TypeOK, Rows, RequestsAgree, [Next]_vars, NEW cr \in Create, Given(cr),
           answer'[cr.id] = answer[cr.id]
    PROVE  Given(cr)'
<1>1. cr.key # None
  BY BillingNames DEF Create
<1>2. CASE answer[cr.id] \in Orders
  BY <1>1, <1>2, RowsAdvance DEF Given
<1>3. CASE answer[cr.id] \notin Orders
  BY <1>3 DEF Given
<1> QED
  BY <1>2, <1>3

LEMMA InitCreatesHold == Init => CreatesHold
BY DEF Init, CreatesHold

LEMMA NextCreatesHold ==
    TypeOK /\ Rows /\ RequestsAgree /\ CreatesHold /\ [Next]_vars => CreatesHold'
<1> SUFFICES ASSUME TypeOK, Rows, RequestsAgree, CreatesHold, [Next]_vars PROVE CreatesHold'
  OBVIOUS
<1>0. Orders \cap {"idle", "none", "conflict", "refused", "failed"} = {}
  BY BillingNames DEF Verdicts
<1>1. ASSUME NEW r \in Requests, NEW x \in creates, x.id # r, Touches(r)
      PROVE  Given(x)'
  BY <1>1, GivenStays DEF Touches, CreatesHold, TypeOK, Create
<1>2. ASSUME NEW r \in Requests, NEW caller \in Callers, NEW tenant \in Owners, NEW key \in Keys,
             ReadKey(r, caller, tenant, key)
      PROVE  CreatesHold'
  <2> DEFINE n == [id |-> r, sees |-> caller.sees, tenant |-> tenant, key |-> key,
                   refused |-> FALSE]
  <2>1. answer[r] = "idle" /\ Touches(r)
    BY <1>2, StartTouches, AnswerAtOnceTouches DEF ReadKey
  <2>2. answer'[r] = "none" \/ answer'[r] \in Found(caller.sees, key)
    BY <1>2, StartTouches, AnswerAtOnceTouches DEF ReadKey
  <2>3. Given(n)'
    BY <1>0, <1>2, <2>2 DEF ReadKey, Given, Found
  <2>4. \A x \in creates : Given(x)'
    BY <1>1, <2>1 DEF RequestsAgree
  <2> QED
    BY <1>2, <2>3, <2>4 DEF ReadKey, CreatesHold
<1>3. ASSUME NEW cr \in creates, NEW o \in Orders, InsertOrder(cr, o)
      PROVE  CreatesHold'
  <2>1. cr \in Create /\ cr.id \in Requests
    BY DEF TypeOK, Create
  <2>2. CASE /\ orders' = [orders EXCEPT ![o] = [status |-> "PENDING", trade |-> None,
                                                 key |-> cr.key, tenant |-> cr.tenant]]
             /\ FinishCommitted(cr.id, o)
             /\ UNCHANGED creates
    <3>1. Touches(cr.id) /\ answer'[cr.id] \in {o, "failed"}
      BY <2>1, <2>2, FinishTouches DEF FinishCommitted
    <3>2. orders'[o].key = cr.key /\ orders'[o].tenant = cr.tenant
      BY <2>2 DEF TypeOK
    <3>3. Given(cr)'
      BY <1>0, <3>1, <3>2 DEF Given
    <3>4. \A x \in creates \ {cr} : Given(x)'
      BY <1>1, <2>1, <3>1 DEF RequestsAgree
    <3> QED
      BY <2>2, <3>3, <3>4 DEF CreatesHold
  <2>3. CASE /\ creates' = (creates \ {cr}) \cup {[cr EXCEPT !.refused = TRUE]}
             /\ UNCHANGED <<orders, running, answer>>
    <3>1. /\ [cr EXCEPT !.refused = TRUE].id = cr.id
          /\ [cr EXCEPT !.refused = TRUE].key = cr.key
          /\ [cr EXCEPT !.refused = TRUE].sees = cr.sees
          /\ [cr EXCEPT !.refused = TRUE].tenant = cr.tenant
      BY <2>1 DEF Create
    <3> QED
      BY <2>3, <3>1 DEF CreatesHold, Given
  <2> QED
    BY <1>3, <2>2, <2>3 DEF InsertOrder
<1>4. ASSUME NEW cr \in creates, FindWinner(cr)
      PROVE  CreatesHold'
  <2>1. cr.id \in Requests
    BY DEF TypeOK, Create
  <2>2. PICK a \in Found(cr.sees, cr.key) \cup {"failed"} : Finish(cr.id, a)
    BY <1>4 DEF FindWinner
  <2>3. Touches(cr.id) /\ answer'[cr.id] = a
    BY <2>1, <2>2, FinishTouches
  <2>4. Given(cr)'
    BY <1>0, <1>4, <2>3 DEF FindWinner, Given, Found
  <2>5. \A x \in creates \ {cr} : Given(x)'
    BY <1>1, <2>1, <2>3 DEF RequestsAgree
  <2> QED
    BY <1>4, <2>4, <2>5 DEF FindWinner, CreatesHold
<1>5. ASSUME CallbackStep
      PROVE  CreatesHold'
  <2>1. \A cr \in creates : cr \in Create /\ cr.id \in Requests
    BY DEF TypeOK, Create
  <2>2. creates' = creates
    BY <1>5 DEF CallbackStep, ReadPaid, ReadRefund, ApplyPaid, RefusePaid, ApplyRefund, RefuseRefund
  <2>3. \A cr \in creates : answer'[cr.id] = answer[cr.id]
    <3>1. ASSUME NEW r \in Requests, NEW a, Start(r) \/ AnswerAtOnce(r, a), NEW cr \in creates
          PROVE  answer'[cr.id] = answer[cr.id]
      BY <2>1, <3>1, StartTouches, AnswerAtOnceTouches DEF RequestsAgree, Touches
    <3>2. ASSUME NEW cb \in callbacks, NEW a, Finish(cb.id, a), NEW cr \in creates
          PROVE  answer'[cr.id] = answer[cr.id]
      <4>1. cb.id \in Requests
        BY DEF TypeOK, Callback
      <4> QED
        BY <2>1, <3>2, <4>1, FinishTouches DEF RequestsAgree, Touches
    <3> QED
      BY <1>5, <3>1, <3>2 DEF CallbackStep, ReadPaid, ReadRefund, GoOn, Decide, ApplyPaid, RefusePaid,
         ApplyRefund, RefuseRefund, FinishCommitted
  <2> QED
    BY <2>1, <2>2, <2>3, GivenStays DEF CreatesHold
<1>6. ASSUME NEW r \in Requests, AbortRequest(r)
      PROVE  CreatesHold'
  <2>1. Touches(r) /\ answer'[r] = "failed"
    BY <1>6, FinishTouches DEF AbortRequest
  <2>2. \A x \in creates : x.id = r => Given(x)'
    BY <1>0, <2>1 DEF Given
  <2> QED
    BY <1>1, <1>6, <2>1, <2>2 DEF AbortRequest, CreatesHold
<1>7. CASE UNCHANGED vars
  BY <1>7 DEF vars, CreatesHold, Given
<1> QED
  BY <1>2, <1>3, <1>4, <1>5, <1>6, <1>7 DEF Next, CreateStep

\* Two replies for one key name one order, because its key names it.
LEMMA SameKey == TypeOK /\ Rows /\ CreatesHold => SameKeySameOrder
<1> SUFFICES ASSUME TypeOK, Rows, CreatesHold, NEW x \in creates, NEW y \in creates,
                    x.key = y.key, answer[x.id] \in Orders, answer[y.id] \in Orders
             PROVE  answer[x.id] = answer[y.id]
  BY DEF SameKeySameOrder
<1>1. x.key # None
  BY BillingNames DEF TypeOK, Create
<1> QED
  BY <1>1 DEF CreatesHold, Given, Rows, KeysUnique

\* Two clients given an order for the same key are given the same one, however their
\* requests race.
THEOREM SameKeySameOrderHolds == Spec => []SameKeySameOrder
<1>1. Init => TypeOK /\ Rows /\ RequestsAgree /\ CreatesHold
  BY InitTyped, InitRows, InitRequests, InitCreatesHold
<1>2. TypeOK /\ Rows /\ RequestsAgree /\ CreatesHold /\ [Next]_vars
        => TypeOK' /\ Rows' /\ RequestsAgree' /\ CreatesHold'
  BY NextTyped, NextRows, NextRequests, NextCreatesHold
<1> QED
  BY <1>1, <1>2, SameKey, PTL DEF Spec

\* No reply crosses into another tenant's orders.
THEOREM RepliesStayInTheTenantHolds == Spec => []RepliesStayInTheTenant
<1>1. Init => TypeOK /\ Rows /\ RequestsAgree /\ CreatesHold
  BY InitTyped, InitRows, InitRequests, InitCreatesHold
<1>2. TypeOK /\ Rows /\ RequestsAgree /\ CreatesHold /\ [Next]_vars
        => TypeOK' /\ Rows' /\ RequestsAgree' /\ CreatesHold'
  BY NextTyped, NextRows, NextRequests, NextCreatesHold
<1>3. CreatesHold => RepliesStayInTheTenant
  BY DEF CreatesHold, Given, RepliesStayInTheTenant
<1> QED
  BY <1>1, <1>2, <1>3, PTL DEF Spec

----------------------------------------------------------------------------
(* Acknowledged callbacks.  A refund in flight has seen the order paid by  *)
(* its own trade, which no later step can take back.                       *)

PaidBy(cb) == orders[cb.order].trade = cb.trade /\ orders[cb.order].status \in {"PAID", "REFUNDED"}

Acknowledged(cb) ==
    /\ answer[cb.id] \in Orders =>
            /\ answer[cb.id] = cb.order
            /\ PaidBy(cb)
            /\ cb.event = "refunded" => orders[cb.order].status = "REFUNDED"
    /\ cb.event = "refunded" /\ answer[cb.id] = "none" => PaidBy(cb)
CallbacksHold == \A cb \in callbacks : Acknowledged(cb)

LEMMA AcknowledgedStays ==
    ASSUME TypeOK, Rows, [Next]_vars, NEW cb \in Callback, Acknowledged(cb), answer'[cb.id] = answer[cb.id]
    PROVE  Acknowledged(cb)'
<1>1. cb.order \in Orders /\ cb.trade # None
  BY BillingNames DEF Callback
<1>2. PaidBy(cb) => PaidBy(cb)'
  BY <1>1, RowsAdvance DEF PaidBy
<1>3. orders[cb.order].status = "REFUNDED" => orders'[cb.order].status = "REFUNDED"
  BY <1>1, RowsAdvance
<1> QED
  BY <1>2, <1>3 DEF Acknowledged

LEMMA InitCallbacksHold == Init => CallbacksHold
BY DEF Init, CallbacksHold

LEMMA NextCallbacksHold ==
    TypeOK /\ Rows /\ RequestsAgree /\ CallbacksHold /\ [Next]_vars => CallbacksHold'
<1> SUFFICES ASSUME TypeOK, Rows, RequestsAgree, CallbacksHold, [Next]_vars PROVE CallbacksHold'
  OBVIOUS
<1>0. Orders \cap {"idle", "none", "conflict", "refused", "failed"} = {}
  BY BillingNames DEF Verdicts
<1>1. \A cb \in callbacks : cb \in Callback /\ cb.id \in Requests /\ cb.order \in Orders
  BY DEF TypeOK, Callback
<1>2. ASSUME NEW r \in Requests, NEW x \in callbacks, x.id # r, Touches(r)
      PROVE  Acknowledged(x)'
  BY <1>1, <1>2, AcknowledgedStays DEF Touches, CallbacksHold
<1>3. ASSUME CreateStep
      PROVE  CallbacksHold'
  <2>1. callbacks' = callbacks
    BY <1>3 DEF CreateStep, ReadKey, InsertOrder, FindWinner
  <2>2. \A cb \in callbacks : answer'[cb.id] = answer[cb.id]
    <3>1. ASSUME NEW r \in Requests, NEW a, Start(r) \/ AnswerAtOnce(r, a), NEW cb \in callbacks
          PROVE  answer'[cb.id] = answer[cb.id]
      BY <1>1, <3>1, StartTouches, AnswerAtOnceTouches DEF RequestsAgree, Touches
    <3>2. ASSUME NEW cr \in creates, NEW a, Finish(cr.id, a), NEW cb \in callbacks
          PROVE  answer'[cb.id] = answer[cb.id]
      <4>1. cr.id \in Requests
        BY DEF TypeOK, Create
      <4> QED
        BY <1>1, <3>2, <4>1, FinishTouches DEF RequestsAgree, Touches
    <3> QED
      BY <1>3, <3>1, <3>2 DEF CreateStep, ReadKey, InsertOrder, FinishCommitted, FindWinner
  <2> QED
    BY <1>1, <2>1, <2>2, AcknowledgedStays DEF CallbacksHold
<1>4. ASSUME NEW r \in Requests, NEW x \in Callback, x.id = r, answer[r] = "idle", Touches(r),
             callbacks' = callbacks \cup {x}, Acknowledged(x)'
      PROVE  CallbacksHold'
  <2>1. \A y \in callbacks : y.id # r
    BY <1>4 DEF RequestsAgree
  <2>2. \A y \in callbacks : Acknowledged(y)'
    BY <1>2, <1>4, <2>1
  <2> QED
    BY <1>4, <2>2 DEF CallbacksHold
<1>5. ASSUME NEW r \in Requests, NEW o \in Orders, NEW trade \in Trades, ReadPaid(r, o, trade)
      PROVE  CallbacksHold'
  <2> DEFINE x == [id |-> r, event |-> "paid", order |-> o, trade |-> trade]
  <2>1. x \in Callback /\ x.id = r /\ callbacks' = callbacks \cup {x}
    BY <1>5 DEF ReadPaid, GoOn, Decide, Callback
  <2>2. answer[r] = "idle" /\ Touches(r)
    BY <1>5, StartTouches, AnswerAtOnceTouches DEF ReadPaid, GoOn, Decide
  <2>3. answer'[r] \in Orders =>
            answer'[r] = o /\ orders[o].status = "PAID" /\ orders[o].trade = trade
    BY <1>0, <1>5, StartTouches, AnswerAtOnceTouches DEF ReadPaid, GoOn, Decide
  <2>4. orders' = orders
    BY <1>5 DEF ReadPaid
  <2>5. Acknowledged(x)'
    BY <2>3, <2>4 DEF Acknowledged, PaidBy
  <2> QED
    BY <1>4, <2>1, <2>2, <2>5
<1>6. ASSUME NEW r \in Requests, NEW o \in Orders, NEW trade \in Trades, ReadRefund(r, o, trade)
      PROVE  CallbacksHold'
  <2> DEFINE x == [id |-> r, event |-> "refunded", order |-> o, trade |-> trade]
  <2>1. x \in Callback /\ x.id = r /\ callbacks' = callbacks \cup {x}
    BY <1>6 DEF ReadRefund, GoOn, Decide, Callback
  <2>2. answer[r] = "idle" /\ Touches(r)
    BY <1>6, StartTouches, AnswerAtOnceTouches DEF ReadRefund, GoOn, Decide
  <2>3. /\ answer'[r] \in Orders =>
            answer'[r] = o /\ orders[o].status = "REFUNDED" /\ orders[o].trade = trade
        /\ answer'[r] = "none" => orders[o].status = "PAID" /\ orders[o].trade = trade
    BY <1>0, <1>6, StartTouches, AnswerAtOnceTouches DEF ReadRefund, Refunds, GoOn, Decide
  <2>4. orders' = orders
    BY <1>6 DEF ReadRefund
  <2>5. Acknowledged(x)'
    BY <2>3, <2>4 DEF Acknowledged, PaidBy
  <2> QED
    BY <1>4, <2>1, <2>2, <2>5
<1>7. ASSUME NEW cb \in callbacks, ApplyPaid(cb)
      PROVE  CallbacksHold'
  <2>1. Touches(cb.id) /\ answer'[cb.id] \in {cb.order, "failed"}
    BY <1>1, <1>7, FinishTouches DEF ApplyPaid, FinishCommitted
  <2>2. orders'[cb.order].status = "PAID" /\ orders'[cb.order].trade = cb.trade
    BY <1>1, <1>7 DEF ApplyPaid, TypeOK, Order
  <2>3. Acknowledged(cb)'
    BY <1>0, <1>7, <2>1, <2>2 DEF ApplyPaid, Acknowledged, PaidBy
  <2>4. \A x \in callbacks \ {cb} : Acknowledged(x)'
    BY <1>1, <1>2, <2>1 DEF RequestsAgree
  <2> QED
    BY <1>7, <2>3, <2>4 DEF ApplyPaid, CallbacksHold
<1>8. ASSUME NEW cb \in callbacks, ApplyRefund(cb)
      PROVE  CallbacksHold'
  <2>1. Touches(cb.id) /\ answer[cb.id] = "none" /\ answer'[cb.id] \in {cb.order, "failed"}
    BY <1>1, <1>8, FinishTouches DEF ApplyRefund, FinishCommitted
  <2>2. /\ orders'[cb.order].status = "REFUNDED"
        /\ orders'[cb.order].trade = orders[cb.order].trade
    BY <1>1, <1>8 DEF ApplyRefund, TypeOK, Order
  <2>3. orders[cb.order].trade = cb.trade
    BY <1>8, <2>1 DEF ApplyRefund, CallbacksHold, Acknowledged, PaidBy
  <2>4. Acknowledged(cb)'
    BY <1>0, <2>1, <2>2, <2>3 DEF Acknowledged, PaidBy
  <2>5. \A x \in callbacks \ {cb} : Acknowledged(x)'
    BY <1>1, <1>2, <2>1 DEF RequestsAgree
  <2> QED
    BY <1>8, <2>4, <2>5 DEF ApplyRefund, CallbacksHold
<1>9. ASSUME NEW r \in Requests, NEW a \in {"conflict", "failed"}, Finish(r, a), callbacks' = callbacks
      PROVE  CallbacksHold'
  <2>1. Touches(r) /\ answer'[r] = a
    BY <1>9, FinishTouches
  <2>2. \A x \in callbacks : x.id = r => Acknowledged(x)'
    BY <1>0, <1>9, <2>1 DEF Acknowledged
  <2> QED
    BY <1>2, <1>9, <2>1, <2>2 DEF CallbacksHold
<1>10. ASSUME NEW cb \in callbacks, RefusePaid(cb) \/ RefuseRefund(cb)
       PROVE  CallbacksHold'
  BY <1>1, <1>9, <1>10 DEF RefusePaid, RefuseRefund, PaidVerdict
<1>11. ASSUME NEW r \in Requests, AbortRequest(r)
       PROVE  CallbacksHold'
  BY <1>9, <1>11 DEF AbortRequest
<1>12. CASE UNCHANGED vars
  BY <1>12 DEF vars, CallbacksHold, Acknowledged, PaidBy
<1> QED
  BY <1>3, <1>5, <1>6, <1>7, <1>8, <1>10, <1>11, <1>12 DEF Next, CallbackStep

\* What a provider was acknowledged stays true for ever: the order was paid by the trade of
\* the callback and, after a refund, is REFUNDED.
THEOREM AcknowledgedCallbacksHoldAlways == Spec => []AcknowledgedCallbacksHold
<1>1. Init => TypeOK /\ Rows /\ RequestsAgree /\ CallbacksHold
  BY InitTyped, InitRows, InitRequests, InitCallbacksHold
<1>2. TypeOK /\ Rows /\ RequestsAgree /\ CallbacksHold /\ [Next]_vars
        => TypeOK' /\ Rows' /\ RequestsAgree' /\ CallbacksHold'
  BY NextTyped, NextRows, NextRequests, NextCallbacksHold
<1>3. TypeOK /\ CallbacksHold => AcknowledgedCallbacksHold
  BY DEF TypeOK, Callback, CallbacksHold, Acknowledged, PaidBy, AcknowledgedCallbacksHold
<1> QED
  BY <1>1, <1>2, <1>3, PTL DEF Spec
=============================================================================
