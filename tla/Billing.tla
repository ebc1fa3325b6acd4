------------------------------- MODULE Billing -------------------------------
(***************************************************************************)
(* Orders and payment callbacks (modules/billing).                         *)
(*                                                                         *)
(* createOrder runs no transaction: its look-up by key, its INSERT and its *)
(* look-up of the winner are three steps, each on the committed rows.  A   *)
(* callback runs one REPEATABLE READ transaction: the first SELECT fixes   *)
(* what every later SELECT of the transaction sees (ReadPaid,              *)
(* ReadRefund), while UPDATE ... WHERE works on the current rows and holds *)
(* their locks to the commit (ApplyPaid, ApplyRefund).  Callbacks run      *)
(* without the tenant scope, so none of their reads leaves the snapshot.   *)
(*                                                                         *)
(* A trade is the pair of provider and providerTradeNo: the code writes    *)
(* and compares the two together.  No code writes the status CANCELLED.    *)
(* The Redis replay in front of both handlers is not assumed: it forgets,  *)
(* and two deliveries may carry different Idempotency-Key headers.         *)
(***************************************************************************)
EXTENDS FiniteSets

CONSTANTS
    Orders,    \* the order numbers generateOrderNo may draw
    Tenants, NoTenant,
    Keys,      \* Idempotency-Key headers
    Trades,
    Requests,  \* request identities, each used at most once: bounds a run
    Callers,   \* who creates orders: the tenants a caller sees and writes to
    None

Verdicts == {"idle", "none", "conflict", "refused", "failed"}
Owners == Tenants \cup {NoTenant}

ASSUME BillingNames ==
    /\ None \notin Trades \cup Keys
    /\ Orders \cap Verdicts = {}
ASSUME BillingCallers == Callers \subseteq [sees : SUBSET Owners, home : Owners]

VARIABLES
    orders,     \* Order rows; status ABSENT before the row exists
    creates,    \* POST /orders requests, with what they know
    callbacks,  \* callbacks, with what their transaction's snapshot showed
    running,    \* the requests not yet answered
    answer      \* what each client was told: a verdict, or the order it was given

vars == <<orders, creates, callbacks, running, answer>>

OrderStatus == {"ABSENT", "PENDING", "PAID", "REFUNDED"}
Order == [status : OrderStatus, trade : Trades \cup {None}, key : Keys \cup {None},
          tenant : Owners]
Create == [id : Requests, sees : SUBSET Owners, tenant : Owners, key : Keys, refused : BOOLEAN]
Callback == [id : Requests, event : {"paid", "refunded"}, order : Orders, trade : Trades]

TypeOK ==
    /\ orders \in [Orders -> Order]
    /\ creates \subseteq Create
    /\ callbacks \subseteq Callback
    /\ running \subseteq Requests
    /\ answer \in [Requests -> Verdicts \cup Orders]

Init ==
    /\ orders = [o \in Orders |-> [status |-> "ABSENT", trade |-> None, key |-> None,
                                   tenant |-> NoTenant]]
    /\ creates = {}
    /\ callbacks = {}
    /\ running = {}
    /\ answer = [r \in Requests |-> "idle"]

----------------------------------------------------------------------------
Start(r) ==
    /\ answer[r] = "idle"
    /\ running' = running \cup {r}
    /\ answer' = [answer EXCEPT ![r] = "none"]

Finish(r, a) ==
    /\ r \in running
    /\ running' = running \ {r}
    /\ answer' = [answer EXCEPT ![r] = a]

\* A commit: it stands even when the process dies before the client is told.
FinishCommitted(r, a) == Finish(r, a) \/ Finish(r, "failed")

\* A request decided by its first read.
AnswerAtOnce(r, a) ==
    /\ answer[r] = "idle"
    /\ answer' = [answer EXCEPT ![r] = a]
    /\ UNCHANGED running

\* A deadlock, a lost connection or a crash of the process before the commit.
AbortRequest(r) ==
    /\ Finish(r, "failed")
    /\ UNCHANGED <<orders, creates, callbacks>>

----------------------------------------------------------------------------
(* createOrder.                                                            *)

\* Fault: the look-up is not scoped to the caller's tenants.
FoundUnscoped(sees, key) == {o \in Orders : orders[o].key = key}

\* findUnique by idempotencyKey, through the tenant extension.
Found(sees, key) == {o \in Orders : orders[o].key = key /\ orders[o].tenant \in sees}

\* Fault: no unique index on idempotencyKey.
KeyAlwaysFree(key) == TRUE

KeyFree(key) == \A o \in Orders : orders[o].key # key

\* The student of the order, if any, is one the caller sees and gives the order its
\* tenant; otherwise the tenant extension fills in the caller's.
ReadKey(r, caller, tenant, key) ==
    /\ tenant \in caller.sees \cup {caller.home}
    /\ \/ \E o \in Found(caller.sees, key) : AnswerAtOnce(r, o)
       \/ Found(caller.sees, key) = {} /\ Start(r)
    /\ creates' = creates \cup {[id |-> r, sees |-> caller.sees, tenant |-> tenant,
                                 key |-> key, refused |-> FALSE]}
    /\ UNCHANGED <<orders, callbacks>>

\* The INSERT.  The order number is random and may be taken.
InsertOrder(cr, o) ==
    /\ ~cr.refused
    /\ \/ /\ orders[o].status = "ABSENT"
          /\ KeyFree(cr.key)
          /\ orders' = [orders EXCEPT ![o] = [status |-> "PENDING", trade |-> None,
                                              key |-> cr.key, tenant |-> cr.tenant]]
          /\ FinishCommitted(cr.id, o)
          /\ UNCHANGED creates
       \/ /\ orders[o].status # "ABSENT" \/ ~KeyFree(cr.key)
          /\ cr.id \in running
          /\ creates' = (creates \ {cr}) \cup {[cr EXCEPT !.refused = TRUE]}
          /\ UNCHANGED <<orders, running, answer>>
    /\ UNCHANGED callbacks

\* After a unique violation: the winner of the key, or the error again.
FindWinner(cr) ==
    /\ cr.refused
    /\ \/ \E o \in Found(cr.sees, cr.key) : Finish(cr.id, o)
       \/ Found(cr.sees, cr.key) = {} /\ Finish(cr.id, "failed")
    /\ UNCHANGED <<orders, creates, callbacks>>

----------------------------------------------------------------------------
(* Payment callbacks.                                                      *)

\* A callback its first read lets through: the snapshot shows the order PENDING (paid) or
\* PAID by this trade (refunded), and goes on showing it.
GoOn(r, event, o, trade) ==
    /\ Start(r)
    /\ callbacks' = callbacks \cup {[id |-> r, event |-> event, order |-> o, trade |-> trade]}

Decide(r, event, o, trade, a) ==
    /\ AnswerAtOnce(r, a)
    /\ callbacks' = callbacks \cup {[id |-> r, event |-> event, order |-> o, trade |-> trade]}

ReadPaid(r, o, trade) ==
    /\ \/ orders[o].status = "PENDING" /\ GoOn(r, "paid", o, trade)
       \/ /\ orders[o].status = "PAID"
          /\ Decide(r, "paid", o, trade, IF orders[o].trade = trade THEN o ELSE "conflict")
       \/ orders[o].status = "REFUNDED" /\ Decide(r, "paid", o, trade, "refused")
    /\ UNCHANGED <<orders, creates>>

TradeFree(trade) == \A o \in Orders : orders[o].trade # trade

\* Fault: the UPDATE trusts the status read at the start of the transaction.
PayableBySnapshot(o) == orders[o].status # "ABSENT"

\* WHERE orderNo = ? AND status = PENDING, on the current row.
Payable(o) == orders[o].status = "PENDING"

ApplyPaid(cb) ==
    /\ cb.event = "paid"
    /\ Payable(cb.order)
    /\ TradeFree(cb.trade)
    /\ orders' = [orders EXCEPT ![cb.order].status = "PAID", ![cb.order].trade = cb.trade]
    /\ FinishCommitted(cb.id, cb.order)
    /\ UNCHANGED <<creates, callbacks>>

\* The trade pays another order (the look-up by trade cannot return this order, which the
\* UPDATE has just found PENDING), or the UPDATE matched no row: the second read sees the
\* snapshot, where the order is still PENDING, so the callback never looks like the winner.
PaidVerdict(cb) == "conflict"

RefusePaid(cb) ==
    /\ cb.event = "paid"
    /\ ~Payable(cb.order) \/ ~TradeFree(cb.trade)
    /\ Finish(cb.id, PaidVerdict(cb))
    /\ UNCHANGED <<orders, creates, callbacks>>

\* Fault: a refund is not compared with the payment.
RefundsAnything(o, trade) == TRUE

Refunds(o, trade) == orders[o].trade = trade

ReadRefund(r, o, trade) ==
    /\ \/ /\ orders[o].status = "REFUNDED"
          /\ Decide(r, "refunded", o, trade, IF orders[o].trade = trade THEN o ELSE "conflict")
       \/ orders[o].status = "PENDING" /\ Decide(r, "refunded", o, trade, "refused")
       \/ /\ orders[o].status = "PAID"
          /\ ~Refunds(o, trade)
          /\ Decide(r, "refunded", o, trade, "conflict")
       \/ /\ orders[o].status = "PAID"
          /\ Refunds(o, trade)
          /\ GoOn(r, "refunded", o, trade)
    /\ UNCHANGED <<orders, creates>>

ApplyRefund(cb) ==
    /\ cb.event = "refunded"
    /\ orders[cb.order].status = "PAID"
    /\ orders' = [orders EXCEPT ![cb.order].status = "REFUNDED"]
    /\ FinishCommitted(cb.id, cb.order)
    /\ UNCHANGED <<creates, callbacks>>

\* Another refund came first; the second read sees the snapshot, where the order is PAID.
RefuseRefund(cb) ==
    /\ cb.event = "refunded"
    /\ orders[cb.order].status # "PAID"
    /\ Finish(cb.id, "conflict")
    /\ UNCHANGED <<orders, creates, callbacks>>

----------------------------------------------------------------------------
CreateStep ==
    \/ \E r \in Requests, caller \in Callers, tenant \in Owners, key \in Keys :
            ReadKey(r, caller, tenant, key)
    \/ \E cr \in creates, o \in Orders : InsertOrder(cr, o)
    \/ \E cr \in creates : FindWinner(cr)

CallbackStep ==
    \/ \E r \in Requests, o \in Orders, trade \in Trades : ReadPaid(r, o, trade)
    \/ \E r \in Requests, o \in Orders, trade \in Trades : ReadRefund(r, o, trade)
    \/ \E cb \in callbacks : ApplyPaid(cb)
    \/ \E cb \in callbacks : RefusePaid(cb)
    \/ \E cb \in callbacks : ApplyRefund(cb)
    \/ \E cb \in callbacks : RefuseRefund(cb)

Next ==
    \/ CreateStep
    \/ CallbackStep
    \/ \E r \in Requests : AbortRequest(r)

Spec == Init /\ [][Next]_vars

----------------------------------------------------------------------------
(* Properties.                                                             *)

Book == INSTANCE PaymentBook WITH
    keyOf <- [o \in Orders |-> orders[o].key],
    paidBy <- [o \in Orders |-> orders[o].trade],
    refunded <- {o \in Orders : orders[o].status = "REFUNDED"}

\* The Order table behaves as the book of payments: one order per key, one payment per
\* order and per trade, one refund per payment, whatever callbacks are duplicated,
\* reordered or concurrent (createOrder, markOrderPaid, markOrderRefunded).
ImplementsBook == Book!Spec

\* Two clients given an order for the same key by POST /orders are given the same one
\* (createOrder: "the same key returns the same order").
SameKeySameOrder ==
    \A x, y \in creates :
        x.key = y.key /\ answer[x.id] \in Orders /\ answer[y.id] \in Orders
        => answer[x.id] = answer[y.id]

\* An acknowledged callback is true for ever: the order it names was paid by the very trade
\* it names, and if it reported a refund the money is marked as returned.
AcknowledgedCallbacksHold ==
    \A cb \in callbacks : answer[cb.id] \in Orders =>
        /\ answer[cb.id] = cb.order
        /\ orders[cb.order].trade = cb.trade
        /\ orders[cb.order].status \in (IF cb.event = "paid" THEN {"PAID", "REFUNDED"}
                                        ELSE {"REFUNDED"})

\* A key that an order of another tenant already has never yields that order: the client is
\* given one it sees, or the one it has just created for itself.
RepliesStayInTheTenant ==
    \A cr \in creates : answer[cr.id] \in Orders =>
        orders[answer[cr.id]].tenant \in cr.sees \cup {cr.tenant}

\* A paid callback is refused only if another trade paid the order or the trade paid another
\* order: repeating the callback of a paid order returns the order (the description of
\* POST /webhooks/payment).
RepeatedPaymentIsAccepted ==
    [][\A cb \in callbacks :
          /\ cb.event = "paid"
          /\ answer[cb.id] = "none"
          /\ answer'[cb.id] = "conflict"
          => orders[cb.order].trade # cb.trade]_vars
=============================================================================
