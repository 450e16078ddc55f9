\* Squad announces one payment twice; nothing fails.
SPECIFICATION Spec
CONSTANTS
    u1 = u1
    p1 = p1
    p2 = p2
    p3 = p3
    d1 = d1
    d2 = d2
    d3 = d3
    d4 = d4
    d5 = d5
    Users = {u1}
    Payments = {p1}
    Deliveries = {d1, d2}
    Event <- mcTwice
    Internal = {}
    Wrapped = {}
    Unknown = {}
    Payee <- mcPayee
    Amount <- mcAmount
    Patient = {}
    Faults = FALSE
INVARIANT DuplicatesIgnored
CHECK_DEADLOCK FALSE
