\* The employer confirms the job twice; nothing fails.
SPECIFICATION Spec
CONSTANTS
    e1 = e1
    j1 = j1
    w1 = w1
    w2 = w2
    a1 = a1
    c1 = c1
    c2 = c2
    f1 = f1
    f2 = f2
    p1 = p1
    Employers = {e1}
    Jobs = {j1}
    Workers = {w1}
    AcceptClicks = {a1}
    CompleteClicks = {c1, c2}
    FundClicks = {f1}
    Payments = {}
    Owner <- mcOwner
    Pay <- mcPay
    Needed <- mcNeeded
    Reference <- mcReference
    Amount <- mcUnderpaid
    Deposit <- mcDeposit
    FeePercent = 5
    PlatformExists = TRUE
    MaxRetries = 3
    Faults = FALSE
INVARIANT NetPaidOnce
CHECK_DEADLOCK FALSE
