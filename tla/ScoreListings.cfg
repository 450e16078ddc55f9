SPECIFICATION CoverSpec
CONSTANTS
    u1 = u1
    a1 = a1
    a2 = a2
    c1 = c1
    c2 = c2
    r1 = r1
    r2 = r2
    e1 = e1
    e2 = e2
    e3 = e3
    t1 = t1
\* Insurance
    Users = {u1}
    Activations = {a1, a2}
    Claims = {c1, c2}
    Reviews = {r1, r2}
    Holder <- mcHolder
    Payout <- mcPayout
    Premium = 2
    Threshold = 2
    Opening <- mcOpening
    Seed = 6
    Days = 2
    Faults = TRUE
\* Score
    Members = {u1}
    Events = {e1, e2, e3}
    Owner <- mcOwner
    Kind <- mcKind
    Kinds <- mcKinds
    Points <- mcPoints
    Silent = {e1, e3}
    Listings = {t1}
    Lister <- mcLister
    Base = 3
    Cap = 11
    DemoScore = 10
SYMMETRY mcReviewers
INVARIANTS
    ListingsCount
CHECK_DEADLOCK FALSE
