SPECIFICATION WorkSpec
CONSTANTS
    e1 = e1
    j1 = j1
    w1 = w1
    w2 = w2
    w3 = w3
    a1 = a1
    a2 = a2
    c1 = c1
    c2 = c2
    b1 = b1
    b2 = b2
    s1 = s1
    s2 = s2
    f1 = f1
    f2 = f2
    r1 = r1
    r2 = r2
    r3 = r3
    r4 = r4
\* JobLifecycle
    Employers = {e1}
    Jobs = {j1}
    Workers = {w1, w2, w3}
    AcceptClicks = {a1, a2}
    CompleteClicks = {c1, c2}
    Owner <- mcOwner
    Pay <- mcPay
    Needed <- mcNeeded
    Faults = TRUE
\* JobBoard
    Gigs = 4
    Boss <- mcBoss
    Skill <- mcSkill
    Wage <- mcWage
    Seekers = {s1, s2}
    Staged = {2}
    Unheard = {1, 2, 4}
    Applicants <- mcApplicants
    Knows <- mcKnows
    Away <- mcAway
    Feeds = {f1, f2}
    Viewer <- mcViewer
    Reviews = {r1, r2, r3, r4}
    Rates <- mcRates
    Window = 3
    Top = 2
    MaxTexts = 1
SYMMETRY symmetry
INVARIANTS
    InProgressMeansStaffed
    CompletedJobHasWorker
PROPERTIES
    FeedIsBest
\* The requests of the instance come to an end.
CHECK_DEADLOCK FALSE
