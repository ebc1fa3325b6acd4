\* Two callers over two keys and two orders, and callbacks of two trades, paid and
\* refunded, in every order.
CONSTANTS
    a = a
    b = b
    o1 = o1
    o2 = o2
    t1 = t1
    t2 = t2
    r1 = r1
    r2 = r2
    r3 = r3
    r4 = r4
    Orders = {o1, o2}
    Tenants = {a, b}
    NoTenant = NoTenant
    Keys = {"k1", "k2"}
    Trades = {t1, t2}
    Requests = {r1, r2, r3, r4}
    Callers <- StaffAndAdmin
    None = None
SPECIFICATION Spec
SYMMETRY Symmetry
CHECK_DEADLOCK FALSE
INVARIANTS SameKeySameOrder  
PROPERTIES ImplementsBook
