----------------------------- MODULE Marketplace -----------------------------
(***************************************************************************)
(* Listings and their purchase.  ListingPurchaseView reads the listing     *)
(* without a lock, then locks the buyer's wallet and after it the seller's *)
(* (select_for_update), moves the money and saves the listing it read.     *)
(* ListingUpdateView, ListingDeleteView and the daily expiry write the     *)
(* listing, and payments from outside credit the wallets, all without a    *)
(* lock on what they read.                                                 *)
(***************************************************************************)
EXTENDS Integers

CONSTANTS
    Users,       \* buyers and sellers, each with one wallet
    Listings,
    Orders,      \* the purchase requests
    Edits,       \* the ListingUpdateView requests
    Payments,    \* credits from elsewhere (SquadWebhook), which lock nothing
    Seller,      \* Seller[l]
    Price,       \* Price[l], in kobo
    Stock,       \* Stock[l]: quantity_available as first listed
    Buyer,       \* Buyer[o]
    Item,        \* Item[o]: the listing that order o is about
    Quantity,    \* Quantity[o]
    Edited,      \* Edited[e]: the listing that edit e is about
    Restocks,    \* the quantities an edit may set
    Payee,       \* Payee[p]
    Amount,      \* Amount[p], in kobo
    Deposit      \* Deposit[u]: the balance at first

ASSUME ListingsAssumption == /\ Seller \in [Listings -> Users]
                             /\ Price \in [Listings -> Nat] /\ Stock \in [Listings -> Nat]
ASSUME OrdersAssumption   == /\ Buyer \in [Orders -> Users] /\ Item \in [Orders -> Listings]
                             /\ Quantity \in [Orders -> Nat \ {0}]
ASSUME EditsAssumption    == /\ Edited \in [Edits -> Listings] /\ Restocks \subseteq Nat
                             /\ Edits \cap Orders = {}
ASSUME PaymentsAssumption == Payee \in [Payments -> Users] /\ Amount \in [Payments -> Nat]
ASSUME DepositAssumption  == Deposit \in [Users -> Nat]

VARIABLES
    balance,   \* balance[u]: Wallet.balance
    stock,     \* stock[l]: Listing.quantity_available
    listed,    \* listed[l]: Listing.status
    order,     \* order[o]: progress of a purchase, and what it has read
    edit,      \* edit[e]: progress of an edit, and the listing it has read
    payment,   \* payment[p]: progress of a credit, and the balance it has read
    ledger,    \* ledger[u]: the balance according to the Transaction rows
    supply,    \* supply[l]: the units on offer and those already sold
    sold,      \* sold[l]: the units of the purchases committed
    stale,     \* the users whose wallet changed while a payment had it in hand
    contested  \* the listings that changed while an order or edit had them in hand

vars == <<balance, stock, listed, order, edit, payment, ledger, supply, sold, stale, contested>>

Statuses == {"active", "sold", "paused", "removed"}

OrderStates   == [pc : {"idle", "read", "checked", "buyer", "both", "done", "refused", "aborted"},
                  stock : Nat, buyer : Nat, seller : Nat]
EditStates    == [pc : {"idle", "read", "done"}, stock : Nat]
PaymentStates == [pc : {"idle", "read", "done"}, seen : Nat]

Merchant(o) == Seller[Item[o]]
Total(o)    == Price[Item[o]] * Quantity[o]

\* (total * 0.02).quantize(0.01), rounding half to even.
Cut(total) ==
    LET whole == (2 * total) \div 100
        rest  == (2 * total) % 100
    IN  IF rest > 50 \/ (rest = 50 /\ whole % 2 = 1) THEN whole + 1 ELSE whole

Receives(o) == Total(o) - Cut(Total(o))

Init ==
    /\ balance   = Deposit
    /\ stock     = Stock
    /\ listed    = [l \in Listings |-> "active"]
    /\ order     = [o \in Orders |-> [pc |-> "idle", stock |-> 0, buyer |-> 0, seller |-> 0]]
    /\ edit      = [e \in Edits |-> [pc |-> "idle", stock |-> 0]]
    /\ payment   = [p \in Payments |-> [pc |-> "idle", seen |-> 0]]
    /\ ledger    = Deposit
    /\ supply    = Stock
    /\ sold      = [l \in Listings |-> 0]
    /\ stale     = {}
    /\ contested = {}

-----------------------------------------------------------------------------
(* Who holds what *)

\* Mutant of OpenTransaction: an early return leaves the transaction open.
OpenTransactionRefused(o) == order[o].pc \in {"buyer", "both", "refused"}

\* The transaction of o is open: it holds the buyer's wallet row.
OpenTransaction(o) == order[o].pc \in {"buyer", "both"}

Holds(o, u) ==
    OpenTransaction(o) /\ (u = Buyer[o] \/ (order[o].pc = "both" /\ u = Merchant(o)))

\* Mutant of Locked: select_for_update is missing.
LockedByNobody(u) == FALSE

Locked(u) == \E o \in Orders : Holds(o, u)

\* The requests other than those of X that have read l and not written it yet.
Reading(l, X) ==
    {o \in Orders \ X : Item[o] = l /\ order[o].pc \in {"read", "checked", "buyer", "both"}}
      \cup {e \in Edits \ X : Edited[e] = l /\ edit[e].pc = "read"}

Crediting(U, X) == {u \in U : \E p \in Payments \ X : Payee[p] = u /\ payment[p].pc = "read"}

-----------------------------------------------------------------------------
(* ListingPurchaseView *)

Offered(o) ==
    /\ listed[Item[o]] = "active"
    /\ Merchant(o) # Buyer[o]
    /\ Quantity[o] <= stock[Item[o]]

\* The view reads an active listing of somebody else with enough left.
ReadListing(o) ==
    /\ order[o].pc = "idle"
    /\ Offered(o)
    /\ order' = [order EXCEPT ![o] = [@ EXCEPT !.pc = "read", !.stock = stock[Item[o]]]]
    /\ UNCHANGED <<balance, stock, listed, edit, payment, ledger, supply, sold, stale, contested>>

\* A first look at the balance, without a lock.
CheckBalance(o) ==
    /\ order[o].pc = "read"
    /\ order' = [order EXCEPT ![o].pc =
                   IF balance[Buyer[o]] < Total(o) THEN "refused" ELSE "checked"]
    /\ UNCHANGED <<balance, stock, listed, edit, payment, ledger, supply, sold, stale, contested>>

\* SELECT ... FOR UPDATE waits while another transaction holds the row.
LockBuyer(o) ==
    /\ order[o].pc = "checked"
    /\ ~Locked(Buyer[o])
    /\ order' = [order EXCEPT ![o] = [@ EXCEPT !.pc = "buyer", !.buyer = balance[Buyer[o]]]]
    /\ UNCHANGED <<balance, stock, listed, edit, payment, ledger, supply, sold, stale, contested>>

LockSeller(o) ==
    /\ order[o].pc = "buyer"
    /\ ~Locked(Merchant(o))
    /\ order' = [order EXCEPT ![o] = [@ EXCEPT !.pc = "both", !.seller = balance[Merchant(o)]]]
    /\ UNCHANGED <<balance, stock, listed, edit, payment, ledger, supply, sold, stale, contested>>

\* The balance under lock is not enough.
Refuse(o) ==
    /\ order[o].pc = "both"
    /\ order[o].buyer < Total(o)
    /\ order' = [order EXCEPT ![o].pc = "refused"]
    /\ UNCHANGED <<balance, stock, listed, edit, payment, ledger, supply, sold, stale, contested>>

\* Mutant of Remaining: the stock is not taken down.
RemainingAll(o) == order[o].stock

\* What is left of the listing as it was read.
Remaining(o) == order[o].stock - Quantity[o]

\* The wallets, the listing as it was read less the quantity, and the two rows
\* are written and committed.  What follows (an SMS, the score) changes nothing
\* here, and the answer to the buyer is lost to an AttributeError.
Buy(o) ==
    LET l == Item[o]
        b == Buyer[o]
        s == Merchant(o)
    IN
    /\ order[o].pc = "both"
    /\ order[o].buyer >= Total(o)
    /\ balance' = [balance EXCEPT ![b] = order[o].buyer - Total(o),
                                  ![s] = order[o].seller + Receives(o)]
    /\ stock'  = [stock EXCEPT ![l] = Remaining(o)]
    /\ listed' = [listed EXCEPT ![l] = IF Remaining(o) = 0 THEN "sold" ELSE "active"]
    /\ ledger' = [ledger EXCEPT ![b] = @ - Total(o), ![s] = @ + Receives(o)]
    /\ sold'   = [sold EXCEPT ![l] = @ + Quantity[o]]
    /\ order'  = [order EXCEPT ![o].pc = "done"]
    /\ stale'  = stale \cup Crediting({b, s}, {})
    /\ contested' = contested \cup {k \in {l} : Reading(k, {o}) # {}}
    /\ UNCHANGED <<edit, payment, supply>>

\* o holds its buyer's wallet and waits for its seller's, which p holds.
WaitsFor(o, p) == order[o].pc = "buyer" /\ Holds(p, Merchant(o))

\* Transactions that wait for each other in a ring.
Ring(S) ==
    /\ S # {}
    /\ \A o \in S : \E p \in S : WaitsFor(o, p)
    /\ \A p \in S : \E o \in S : WaitsFor(o, p)

\* PostgreSQL aborts one of them; the view answers 500.
Abort(o) ==
    /\ \E S \in SUBSET Orders : o \in S /\ Ring(S)
    /\ order' = [order EXCEPT ![o].pc = "aborted"]
    /\ UNCHANGED <<balance, stock, listed, edit, payment, ledger, supply, sold, stale, contested>>

-----------------------------------------------------------------------------
(* The listing's other writers *)

EditRead(e) ==
    /\ edit[e].pc = "idle"
    /\ edit' = [edit EXCEPT ![e] = [pc |-> "read", stock |-> stock[Edited[e]]]]
    /\ UNCHANGED <<balance, stock, listed, order, payment, ledger, supply, sold, stale, contested>>

\* The serializer saves every field: those in the request as given, the others
\* as they were read.  The status may be any, as given or as read.
EditSave(e, quantity, status) ==
    LET l == Edited[e] IN
    /\ edit[e].pc = "read"
    /\ stock'  = [stock EXCEPT ![l] = quantity]
    /\ listed' = [listed EXCEPT ![l] = status]
    /\ supply' = [supply EXCEPT ![l] = @ + quantity - edit[e].stock]
    /\ edit'   = [edit EXCEPT ![e].pc = "done"]
    /\ contested' = contested \cup {k \in {l} : Reading(k, {e}) # {}}
    /\ UNCHANGED <<balance, order, payment, ledger, sold, stale>>

\* ListingDeleteView writes the status whatever it was.
Remove(l) ==
    /\ listed[l] # "removed"
    /\ listed' = [listed EXCEPT ![l] = "removed"]
    /\ contested' = contested \cup {k \in {l} : Reading(k, {}) # {}}
    /\ UNCHANGED <<balance, stock, order, edit, payment, ledger, supply, sold, stale>>

\* expire_old_listings pauses an old listing that is still active.
Expire(l) ==
    /\ listed[l] = "active"
    /\ listed' = [listed EXCEPT ![l] = "paused"]
    /\ contested' = contested \cup {k \in {l} : Reading(k, {}) # {}}
    /\ UNCHANGED <<balance, stock, order, edit, payment, ledger, supply, sold, stale>>

-----------------------------------------------------------------------------
(* A credit from elsewhere: the balance is read, and saved later on *)

PaymentRead(p) ==
    /\ payment[p].pc = "idle"
    /\ payment' = [payment EXCEPT ![p] = [pc |-> "read", seen |-> balance[Payee[p]]]]
    /\ UNCHANGED <<balance, stock, listed, order, edit, ledger, supply, sold, stale, contested>>

\* The UPDATE waits for the lock of a purchase, and then overwrites its result.
PaymentWrite(p) ==
    LET u == Payee[p] IN
    /\ payment[p].pc = "read"
    /\ ~Locked(u)
    /\ balance' = [balance EXCEPT ![u] = payment[p].seen + Amount[p]]
    /\ ledger'  = [ledger EXCEPT ![u] = @ + Amount[p]]
    /\ payment' = [payment EXCEPT ![p].pc = "done"]
    /\ stale'   = stale \cup Crediting({u}, {p})
    /\ UNCHANGED <<stock, listed, order, edit, supply, sold, contested>>

-----------------------------------------------------------------------------
OrderStep(o) ==
    \/ CheckBalance(o) \/ LockBuyer(o) \/ LockSeller(o)
    \/ Refuse(o)       \/ Buy(o)

Next ==
    \/ \E o \in Orders : ReadListing(o) \/ OrderStep(o) \/ Abort(o)
    \/ \E e \in Edits :
          \/ EditRead(e)
          \/ \E q \in Restocks \cup {edit[e].stock}, s \in Statuses : EditSave(e, q, s)
    \/ \E l \in Listings : Remove(l) \/ Expire(l)
    \/ \E p \in Payments : PaymentRead(p) \/ PaymentWrite(p)

Spec == Init /\ [][Next]_vars

\* gunicorn runs a purchase that has read its listing to its end, and PostgreSQL
\* breaks deadlocks.  Nobody has to buy anything.
Fairness == \A o \in Orders : WF_vars(OrderStep(o)) /\ WF_vars(Abort(o))

FairSpec == Spec /\ Fairness

-----------------------------------------------------------------------------
MarketTypeOK ==
    /\ balance \in [Users -> Nat] /\ ledger \in [Users -> Int]
    /\ stock \in [Listings -> Nat] /\ listed \in [Listings -> Statuses]
    /\ supply \in [Listings -> Int] /\ sold \in [Listings -> Nat]
    /\ order \in [Orders -> OrderStates]
    /\ edit \in [Edits -> EditStates]
    /\ payment \in [Payments -> PaymentStates]
    /\ stale \subseteq Users /\ contested \subseteq Listings

\* Purchases that lock both wallets never lose each other's writes: a wallet has
\* what its rows say unless an unlocked credit had read it before it changed
\* (ListingPurchaseView 290-297 against Wallet.credit).
WalletIsLedger == \A u \in Users \ stale : balance[u] = ledger[u]

\* A listing sells what was put on offer and no more, as long as nobody writes it
\* while a purchase or an edit has it in hand (255, 299-302).
NoOversell == \A l \in Listings \ contested : sold[l] + stock[l] = supply[l]

\* Every purchase that found its listing comes to an end, in spite of the locks
\* taken in an order that depends on who buys from whom (290-291).
PurchaseEnds ==
    \A o \in Orders : order[o].pc = "read" ~> order[o].pc \in {"done", "refused", "aborted"}
=============================================================================
