SPECIFICATION MarketSpec
CONSTANTS
    u1 = u1
    u2 = u2
    l1 = l1
    l2 = l2
    o1 = o1
    o2 = o2
    o3 = o3
    e1 = e1
    p1 = p1
    c1 = c1
    c2 = c2
    c3 = c3
    c4 = c4
    a1 = a1
    a2 = a2
    b1 = b1
    q1 = q1
    q2 = q2
    v1 = v1
    i1 = i1
    i2 = i2
    i3 = i3
    i4 = i4
    i5 = i5
    i6 = i6
    t1 = t1
    t2 = t2
    t3 = t3
    t4 = t4
\* Marketplace
    Users = {u1, u2}
    Listings = {l1, l2}
    Orders = {o1, o2, o3}
    Edits = {e1}
    Payments = {p1}
    Seller <- mcSeller
    Price <- mcPrice
    Stock <- mcStock
    Buyer <- mcBuyer
    Item <- mcItem
    Quantity <- mcQuantity
    Edited <- mcEdited
    Restocks = {2}
    Payee <- mcPayee
    Amount <- mcAmount
    Deposit <- mcDeposit
\* Catalogue
    Sellers = {u1}
    Posts = {c1, c2, c3, c4}
    Poster <- mcPoster
    Spam = {c1}
    Amends = {a1, a2}
    Amended <- mcAmended
    Buys = {b1}
    Bought <- mcBought
    Enquiries = {q1, q2}
    About <- mcAbout
    Looks = {v1}
    Watched <- mcWatched
    Pictures = {i1, i2, i3, i4, i5, i6}
    Pictured <- mcPictured
    Primary = {i1, i2, i4, i6}
    Stocked = {c4}
    Supplied = {i4, i5}
    Toggles = {t1, t2, t3, t4}
    Marked <- mcMarked
    MaxActive = 2
    MaxPictures = 2
    Often = 1
    Visitors <- mcVisitors
INVARIANTS
    ActiveWithinLimit
    ListingsAddUp
    WalletIsLedger
    NoOversell
PROPERTIES
    PurchaseEnds
    FlagStays
\* The requests of the instance come to an end.
CHECK_DEADLOCK FALSE
