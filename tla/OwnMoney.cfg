SPECIFICATION OwnSpec
CONSTANTS
    u1 = u1
    r1 = r1
    r2 = r2
    v1 = v1
    v2 = v2
    p1 = p1
    d1 = d1
    d2 = d2
    s1 = s1
    s2 = s2
\* Withdrawals
    Users = {u1}
    Requests = {r1, r2}
    Reviews = {v1, v2}
    Payments = {p1}
    Owner <- mcOwner
    Amount <- mcAmount
    Payee <- mcPayee
    Paid <- mcPaid
    Deposit <- mcDeposit
    Faults = TRUE
\* Savings
    Savers = {u1}
    Deposits = {d1, d2}
    Drawings = {s1, s2}
    Saver <- mcSaver
    Moved <- mcMoved
    Opening <- mcOpening
    Rate = 5
    Days = 2
    TaskDies = TRUE
INVARIANTS
    WalletIsDue
    SavingsAreKept
PROPERTIES
    ReviewSettles
    KeepsWithdrawalPromise
    SavingsRequestsEnd
\* The requests and midnights of the instance come to an end.
CHECK_DEADLOCK FALSE
