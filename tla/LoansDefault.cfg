\* Nothing fails; the wallet is short on two Mondays.
SPECIFICATION Spec
CONSTANTS
    u1 = u1
    float = float
    a1 = a1
    a2 = a2
    p1 = p1
    Users = {u1}
    Float = float
    Applications = {a1, a2}
    Repayments = {p1}
    Applicant <- mcApplicant
    Amount <- mcAmount
    Rate = 50
    Terms = 2
    Repaid <- mcRepaid
    Offer <- mcOffer
    Deposit <- mcDeposit
    Weeks = 3
    Faults = FALSE
INVARIANT TwoMissedIsDefaulted
CHECK_DEADLOCK FALSE
