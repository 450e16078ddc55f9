SPECIFICATION FairSpec
CONSTANTS
    u1 = u1
    float = float
    a1 = a1
    a2 = a2
    p1 = p1
    Users = {u1}
    Float = float
    Applications = {a1, a2}
    Repayments = {p1}
    Applicant <- mcApplicant
    Amount <- mcAmount
    Rate = 50
    Terms = 2
    Repaid <- mcRepaid
    Offer <- mcOffer
    Deposit <- mcDeposit
    Weeks = 3
    Faults = TRUE
INVARIANTS
    AccountsAreLedger
    RepaidIsTaken
    OverpaidByLessThanAnInstalment
    InstalmentsArePaidFor
    OneLoanUnlessRaced
PROPERTIES
    ClosedLoansRest
    LoanRequestsEnd
\* The requests and weeks of the instance come to an end.
CHECK_DEADLOCK FALSE
