\* Two deliveries of one paid callback at the same time.
CONSTANTS
    a = a
    b = b
    o1 = o1
    o2 = o2
    t1 = t1
    t2 = t2
    r1 = r1
    r2 = r2
    r3 = r3
    r4 = r4
    Orders = {o1, o2}
    Tenants = {a}
    NoTenant = NoTenant
    Keys = {"k1"}
    Trades = {t1}
    Requests = {r1, r2, r3}
    Callers <- Admin
    None = None
SPECIFICATION Spec
SYMMETRY Symmetry
CHECK_DEADLOCK FALSE
PROPERTIES RepeatedPaymentIsAccepted
