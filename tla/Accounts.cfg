SPECIFICATION AccountsSpec
CONSTANTS
    u1 = u1
    u2 = u2
    p1 = p1
    p2 = p2
    p3 = p3
    d1 = d1
    d2 = d2
    d3 = d3
    d4 = d4
    d5 = d5
    v1 = v1
    v2 = v2
    n1 = n1
    local = local
    intl = intl
    s1 = s1
    s2 = s2
    l1 = l1
    h1 = h1
    r1 = r1
    r2 = r2
    k1 = k1
    k2 = k2
    m1 = m1
    g1 = g1
    g2 = g2
    g3 = g3
    g4 = g4
    g5 = g5
    x1 = x1
\* SquadWebhook
    Users = {u1}
    Payments = {p1, p2, p3}
    Deliveries = {d1, d2, d3, d4, d5}
    Event <- mcEvent
    Internal = {d4}
    Wrapped = {p2}
    Unknown = {p3}
    Payee <- mcPayee
    Amount <- mcAmount
    Patient = {p1}
    Faults = TRUE
\* Provisioning
    Customers = {u1, u2}
    System = {u2}
    Seeded = {u1}
    OneName = {v2}
    Income = {n1}
    PaidTo <- mcPaidTo
    Opening = 2
    Visits = {v1, v2}
    Visitor <- mcVisitor
    WalletTries = 1
    VaTries = 1
\* PinReset
    Phones = {local, intl}
    Intl <- mcIntl
    Pins = {"1111", "2222"}
    SignUps = {s1, s2}
    Logins = {l1}
    Changes = {h1}
    Resets = {r1, r2}
    Confirms = {k1, k2}
    Migrations = {m1}
    Legacy = {intl}
    NewPin = "1111"
    Mixes <- mcMixes
\* DemoBalances
    Employers = {u1}
    Seedings = {g1, g2, g3, g4, g5}
    Options <- mcOptions
    SeedMixes <- mcSeedMixes
    Earnings = {x1}
    Earner <- mcEarner
    Deposit <- mcDeposit
    Migration = 2
    TopUp = 3
    Liquidity = 7
INVARIANTS
    WalletExactUnlessOverlap
    PatientCreditedOnce
    CreditsSurviveProvisioning
    OpenedAccountIsKnown
    OneActiveCode
    CodeSetsPinOnce
    ChangeKnowsThePin
    SeedingAddsUp
PROPERTIES
    PaymentSettles
    ProvisioningSettles
\* The requests of the instance come to an end.
CHECK_DEADLOCK FALSE
