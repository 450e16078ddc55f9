-------------------------- MODULE MarketplaceProofs --------------------------
(***************************************************************************)
(* Proofs about Marketplace and Catalogue, for any users, sellers,         *)
(* listings and requests: the locks of the purchases keep every wallet     *)
(* equal to its rows, and a listing that is not contested is not oversold; *)
(* and what the catalogue says of a listing (its flag, its seller's limit, *)
(* its counters, its pictures, its bookmarks) goes wrong in no other way   *)
(* than those its properties name.                                         *)
(***************************************************************************)
EXTENDS Marketplace, Catalogue, Integers, FiniteSetTheorems, TLAPS

-----------------------------------------------------------------------------
(* What the requests under way know *)

Busy(o) == order[o].pc \in {"read", "checked", "buyer", "both"}

\* A purchase under way is of somebody else's listing that had enough in stock.
OrderSound ==
    \A o \in Orders : Busy(o) => Merchant(o) # Buyer[o] /\ Quantity[o] <= order[o].stock

\* A wallet row is locked by one purchase at a time.
OneHolder ==
    \A o \in Orders, p \in Orders, u \in Users : Holds(o, u) /\ Holds(p, u) => o = p

\* The balances a purchase read under lock are the balances.
SeenUnderLock ==
    \A o \in Orders :
        /\ order[o].pc \in {"buyer", "both"} => order[o].buyer = balance[Buyer[o]]
        /\ order[o].pc = "both" => order[o].seller = balance[Merchant(o)]

\* So is the balance a payment read, unless the wallet became stale.
PaymentSeen ==
    \A p \in Payments :
        payment[p].pc = "read" /\ Payee[p] \notin stale => payment[p].seen = balance[Payee[p]]

\* And so is the stock a purchase or an edit read, unless it was contested.
StockSeen ==
    /\ \A o \in Orders : Busy(o) /\ Item[o] \notin contested => order[o].stock = stock[Item[o]]
    /\ \A e \in Edits : edit[e].pc = "read" /\ Edited[e] \notin contested
                          => edit[e].stock = stock[Edited[e]]

WalletInv == MarketTypeOK /\ OrderSound /\ OneHolder /\ SeenUnderLock /\ PaymentSeen /\ WalletIsLedger

StockInv == StockSeen /\ NoOversell

-----------------------------------------------------------------------------
(* Amounts *)

\* The platform's cut is a part of the price.
LEMMA CutBounds ==
  ASSUME NEW total \in Nat
  PROVE  Cut(total) \in 0..total
<1> DEFINE whole == (2 * total) \div 100
           rest  == (2 * total) % 100
<1>1. /\ whole \in Nat /\ rest \in 0..99
      /\ 2 * total = 100 * whole + rest
  OBVIOUS
<1> HIDE DEF whole, rest
<1>2. Cut(total) = IF rest > 50 \/ (rest = 50 /\ whole % 2 = 1) THEN whole + 1 ELSE whole
  BY DEF Cut, whole, rest
<1> QED
  BY <1>1, <1>2

\* Who buys, who sells, and for how much.
LEMMA OrderParts ==
  ASSUME NEW o \in Orders
  PROVE  /\ Buyer[o] \in Users /\ Item[o] \in Listings /\ Merchant(o) \in Users
         /\ Quantity[o] \in Nat /\ Total(o) \in Nat /\ Receives(o) \in Nat
<1>1. /\ Buyer[o] \in Users /\ Item[o] \in Listings /\ Quantity[o] \in Nat
      /\ Merchant(o) \in Users /\ Price[Item[o]] \in Nat
  BY ListingsAssumption, OrdersAssumption DEF Merchant
<1>2. Total(o) \in Nat
  BY <1>1 DEF Total
<1>3. Cut(Total(o)) \in 0..Total(o)
  BY <1>2, CutBounds
<1>4. Receives(o) \in Nat
  BY <1>2, <1>3 DEF Receives
<1> QED
  BY <1>1, <1>2, <1>4

-----------------------------------------------------------------------------
(* Wallets *)

LEMMA WalletInit == Init => WalletInv
<1> SUFFICES ASSUME Init PROVE WalletInv
  OBVIOUS
<1>1. /\ order \in [Orders -> OrderStates] /\ edit \in [Edits -> EditStates]
      /\ payment \in [Payments -> PaymentStates]
  BY DEF Init, OrderStates, EditStates, PaymentStates, Statuses
<1>2. MarketTypeOK
  BY <1>1, ListingsAssumption, DepositAssumption DEF Init, MarketTypeOK, Statuses
<1>3. \A o \in Orders : order[o].pc = "idle"
  BY DEF Init
<1>4. OrderSound /\ OneHolder /\ SeenUnderLock
  BY <1>3 DEF OrderSound, Busy, OneHolder, Holds, OpenTransaction, SeenUnderLock
<1>5. PaymentSeen /\ WalletIsLedger
  BY DEF Init, PaymentSeen, WalletIsLedger
<1> QED
  BY <1>2, <1>4, <1>5 DEF WalletInv

\* A step of a purchase other than Buy: only the order's record changes.
Reads(o) ==
    ReadListing(o) \/ CheckBalance(o) \/ LockBuyer(o) \/ LockSeller(o) \/ Refuse(o) \/ Abort(o)

LEMMA ReadsFrame ==
  ASSUME NEW o \in Orders, Reads(o)
  PROVE  UNCHANGED <<balance, stock, listed, edit, payment, ledger, supply, sold, stale, contested>>
BY DEF Reads, ReadListing, CheckBalance, LockBuyer, LockSeller, Refuse, Abort

LEMMA ReadsOrder ==
  ASSUME MarketTypeOK, NEW o \in Orders, Reads(o) \/ Buy(o)
  PROVE  /\ order'[o] \in OrderStates
         /\ order' = [order EXCEPT ![o] = order'[o]]
<1>1. order \in [Orders -> OrderStates] /\ order[o] \in OrderStates
  BY DEF MarketTypeOK
<1>2. stock[Item[o]] \in Nat /\ balance[Buyer[o]] \in Nat /\ balance[Merchant(o)] \in Nat
  BY OrderParts DEF MarketTypeOK
<1>3. CASE ReadListing(o)
  <2>1. order' = [order EXCEPT ![o] = [order[o] EXCEPT !.pc = "read", !.stock = stock[Item[o]]]]
    BY <1>3 DEF ReadListing
  <2>2. [order[o] EXCEPT !.pc = "read", !.stock = stock[Item[o]]] \in OrderStates
    BY <1>1, <1>2 DEF OrderStates
  <2> QED
    BY <1>1, <2>1, <2>2
<1>4. CASE LockBuyer(o)
  <2>1. order' = [order EXCEPT ![o] = [order[o] EXCEPT !.pc = "buyer", !.buyer = balance[Buyer[o]]]]
    BY <1>4 DEF LockBuyer
  <2>2. [order[o] EXCEPT !.pc = "buyer", !.buyer = balance[Buyer[o]]] \in OrderStates
    BY <1>1, <1>2 DEF OrderStates
  <2> QED
    BY <1>1, <2>1, <2>2
<1>5. CASE LockSeller(o)
  <2>1. order' = [order EXCEPT ![o] = [order[o] EXCEPT !.pc = "both", !.seller = balance[Merchant(o)]]]
    BY <1>5 DEF LockSeller
  <2>2. [order[o] EXCEPT !.pc = "both", !.seller = balance[Merchant(o)]] \in OrderStates
    BY <1>1, <1>2 DEF OrderStates
  <2> QED
    BY <1>1, <2>1, <2>2
<1>6. ASSUME CheckBalance(o) \/ Refuse(o) \/ Abort(o) \/ Buy(o)
      PROVE  /\ order'[o] \in OrderStates
             /\ order' = [order EXCEPT ![o] = order'[o]]
  <2>1. PICK pc \in {"refused", "checked", "aborted", "done"} :
          order' = [order EXCEPT ![o] = [order[o] EXCEPT !.pc = pc]]
    BY <1>6 DEF CheckBalance, Refuse, Abort, Buy
  <2>2. [order[o] EXCEPT !.pc = pc] \in OrderStates
    BY <1>1 DEF OrderStates
  <2> QED
    BY <1>1, <2>1, <2>2
<1> QED
  BY <1>3, <1>4, <1>5, <1>6 DEF Reads

\* The other orders are as they were.
LEMMA ReadsOthers ==
  ASSUME MarketTypeOK, NEW o \in Orders, Reads(o) \/ Buy(o), NEW p \in Orders, p # o
  PROVE  order'[p] = order[p]
<1>1. order \in [Orders -> OrderStates] /\ order' = [order EXCEPT ![o] = order'[o]]
  BY ReadsOrder DEF MarketTypeOK
<1> QED
  BY <1>1

\* What a reading step does to the order's own record.
LEMMA ReadsOwn ==
  ASSUME MarketTypeOK, NEW o \in Orders, Reads(o)
  PROVE  \/ /\ Offered(o) /\ order'[o].pc = "read" /\ order'[o].stock = stock[Item[o]]
         \/ /\ Busy(o) /\ order'[o].stock = order[o].stock
            /\ \/ order'[o].pc \in {"checked", "refused", "aborted"}
               \/ /\ ~Locked(Buyer[o]) /\ order'[o].pc = "buyer"
                  /\ order'[o].buyer = balance[Buyer[o]]
               \/ /\ order[o].pc = "buyer" /\ ~Locked(Merchant(o)) /\ order'[o].pc = "both"
                  /\ order'[o].seller = balance[Merchant(o)] /\ order'[o].buyer = order[o].buyer
<1>1. order \in [Orders -> OrderStates] /\ order[o] \in OrderStates
  BY DEF MarketTypeOK
<1>2. CASE ReadListing(o)
  <2>1. order'[o] = [order[o] EXCEPT !.pc = "read", !.stock = stock[Item[o]]] /\ Offered(o)
    BY <1>1, <1>2 DEF ReadListing
  <2> QED
    BY <1>1, <2>1 DEF OrderStates
<1>3. CASE LockBuyer(o)
  <2>1. order'[o] = [order[o] EXCEPT !.pc = "buyer", !.buyer = balance[Buyer[o]]]
        /\ ~Locked(Buyer[o]) /\ order[o].pc = "checked"
    BY <1>1, <1>3 DEF LockBuyer
  <2> QED
    BY <1>1, <2>1 DEF OrderStates, Busy
<1>4. CASE LockSeller(o)
  <2>1. order'[o] = [order[o] EXCEPT !.pc = "both", !.seller = balance[Merchant(o)]]
        /\ ~Locked(Merchant(o)) /\ order[o].pc = "buyer"
    BY <1>1, <1>4 DEF LockSeller
  <2> QED
    BY <1>1, <2>1 DEF OrderStates, Busy
<1>5. ASSUME CheckBalance(o) \/ Refuse(o) \/ Abort(o)
      PROVE  /\ Busy(o) /\ order'[o].stock = order[o].stock
             /\ order'[o].pc \in {"checked", "refused", "aborted"}
  <2>1. PICK pc \in {"refused", "checked", "aborted"} : order'[o] = [order[o] EXCEPT !.pc = pc]
    BY <1>1, <1>5 DEF CheckBalance, Refuse, Abort
  <2>2. Busy(o)
    BY <1>5 DEF CheckBalance, Refuse, Abort, Ring, WaitsFor, Busy
  <2> QED
    BY <1>1, <2>1, <2>2 DEF OrderStates
<1> QED
  BY <1>2, <1>3, <1>4, <1>5 DEF Reads

LEMMA ReadsKeepWallets ==
  ASSUME WalletInv, NEW o \in Orders, Reads(o)
  PROVE  WalletInv'
<1> USE DEF WalletInv
<1>1. UNCHANGED <<balance, stock, listed, edit, payment, ledger, supply, sold, stale, contested>>
  BY ReadsFrame
<1>2. order'[o] \in OrderStates /\ order' = [order EXCEPT ![o] = order'[o]]
  BY ReadsOrder
<1>3. \A p \in Orders : p # o => order'[p] = order[p]
  BY ReadsOthers
<1>4. MarketTypeOK'
  BY <1>1, <1>2 DEF MarketTypeOK
<1>5. OrderSound'
  BY <1>3, ReadsOwn DEF OrderSound, Busy, Offered, Merchant
<1>6. ASSUME NEW u \in Users, Holds(o, u)'
      PROVE  Holds(o, u) \/ ~Locked(u)
  BY <1>6, ReadsOwn DEF Holds, OpenTransaction, Busy, Merchant
<1>7. ASSUME NEW p \in Orders, p # o, NEW u \in Users
      PROVE  Holds(p, u)' <=> Holds(p, u)
  BY <1>3, <1>7 DEF Holds, OpenTransaction, Merchant
<1>8. OneHolder'
  BY <1>6, <1>7 DEF OneHolder, Locked
<1>9. SeenUnderLock'
  BY <1>1, <1>3, ReadsOwn DEF SeenUnderLock, Merchant
<1>10. PaymentSeen' /\ WalletIsLedger'
  BY <1>1 DEF PaymentSeen, WalletIsLedger
<1> QED
  BY <1>4, <1>5, <1>8, <1>9, <1>10

LEMMA BuyKeepsWallets ==
  ASSUME WalletInv, NEW o \in Orders, Buy(o)
  PROVE  WalletInv'
<1> USE DEF WalletInv
<1> DEFINE l == Item[o]
           b == Buyer[o]
           s == Merchant(o)
<1>1. /\ order[o].pc = "both" /\ order[o].buyer >= Total(o)
      /\ balance' = [balance EXCEPT ![b] = order[o].buyer - Total(o),
                                    ![s] = order[o].seller + Receives(o)]
      /\ stock'  = [stock EXCEPT ![l] = Remaining(o)]
      /\ listed' = [listed EXCEPT ![l] = IF Remaining(o) = 0 THEN "sold" ELSE "active"]
      /\ ledger' = [ledger EXCEPT ![b] = @ - Total(o), ![s] = @ + Receives(o)]
      /\ sold'   = [sold EXCEPT ![l] = @ + Quantity[o]]
      /\ stale'  = stale \cup Crediting({b, s}, {})
      /\ contested' \subseteq contested \cup {l}
      /\ UNCHANGED <<edit, payment, supply>>
  BY DEF Buy
<1>2. /\ b \in Users /\ s \in Users /\ l \in Listings /\ b # s
      /\ Total(o) \in Nat /\ Receives(o) \in Nat /\ Quantity[o] \in Nat
  BY <1>1, OrderParts DEF OrderSound, Busy
<1>3. order[o] \in OrderStates /\ Remaining(o) \in Nat
  <2>1. order[o] \in OrderStates
    BY DEF MarketTypeOK
  <2>2. order[o].stock \in Nat /\ Quantity[o] <= order[o].stock
    BY <1>1, <2>1 DEF OrderStates, OrderSound, Busy
  <2> QED
    BY <1>2, <2>1, <2>2 DEF Remaining
<1>4. order[o].buyer = balance[b] /\ order[o].seller = balance[s]
  BY <1>1 DEF SeenUnderLock
<1>5. /\ order'[o].pc = "done"
      /\ order'[o] \in OrderStates /\ order' = [order EXCEPT ![o] = order'[o]]
      /\ \A p \in Orders : p # o => order'[p] = order[p]
  <2>1. order'[o].pc = "done"
    <3>1. order \in [Orders -> OrderStates] /\ order' = [order EXCEPT ![o] = [order[o] EXCEPT !.pc = "done"]]
      BY DEF Buy, MarketTypeOK
    <3>2. order'[o] = [order[o] EXCEPT !.pc = "done"]
      BY <3>1
    <3> QED
      BY <1>3, <3>2 DEF OrderStates
  <2> QED
    BY <2>1, ReadsOrder, ReadsOthers
<1> HIDE DEF b, s, l
<1>6. MarketTypeOK'
  <2>1. balance' \in [Users -> Nat] /\ ledger' \in [Users -> Int]
    BY <1>1, <1>2, <1>4 DEF MarketTypeOK
  <2>2. stock' \in [Listings -> Nat] /\ listed' \in [Listings -> Statuses] /\ sold' \in [Listings -> Nat]
    BY <1>1, <1>2, <1>3 DEF MarketTypeOK, Statuses
  <2>3. stale' \subseteq Users /\ contested' \subseteq Listings
    BY <1>1, <1>2 DEF MarketTypeOK, Crediting
  <2> QED
    BY <1>1, <1>5, <2>1, <2>2, <2>3 DEF MarketTypeOK
<1>7. OrderSound'
  BY <1>5 DEF OrderSound, Busy, Merchant
<1>8. \A p \in Orders, u \in Users : Holds(p, u)' => p # o /\ Holds(p, u)
  BY <1>5 DEF Holds, OpenTransaction, Merchant
<1>9. OneHolder'
  BY <1>8 DEF OneHolder
<1>10. SeenUnderLock'
  <2>1. \A p \in Orders, u \in Users : Holds(p, u)' => balance'[u] = balance[u]
    <3> SUFFICES ASSUME NEW p \in Orders, NEW u \in Users, Holds(p, u)'
                 PROVE  balance'[u] = balance[u]
      OBVIOUS
    <3>1. Holds(o, b) /\ Holds(o, s)
      BY <1>1 DEF Holds, OpenTransaction, b, s
    <3>2. u # b /\ u # s
      BY <1>2, <1>8, <3>1 DEF OneHolder
    <3> QED
      BY <1>1, <3>2 DEF MarketTypeOK
  <2>2. ASSUME NEW p \in Orders, order'[p].pc \in {"buyer", "both"}
        PROVE  /\ order'[p] = order[p] /\ balance'[Buyer[p]] = balance[Buyer[p]]
               /\ order'[p].pc = "both" => balance'[Merchant(p)] = balance[Merchant(p)]
    BY <1>5, <2>1, <2>2, OrderParts DEF Holds, OpenTransaction, Merchant
  <2> QED
    BY <2>2 DEF SeenUnderLock, Merchant
<1>11. PaymentSeen'
  <2> SUFFICES ASSUME NEW p \in Payments, payment[p].pc = "read", Payee[p] \notin stale'
               PROVE  payment[p].seen = balance'[Payee[p]]
    BY <1>1 DEF PaymentSeen
  <2>1. Payee[p] # b /\ Payee[p] # s /\ Payee[p] \notin stale
    BY <1>1, <1>2 DEF Crediting
  <2>2. balance'[Payee[p]] = balance[Payee[p]]
    BY <1>1, <2>1, PaymentsAssumption DEF MarketTypeOK
  <2> QED
    BY <2>1, <2>2 DEF PaymentSeen
<1>12. WalletIsLedger'
  BY <1>1, <1>2, <1>4 DEF WalletIsLedger, MarketTypeOK
<1> QED
  BY <1>6, <1>7, <1>9, <1>10, <1>11, <1>12

\* The listing's other writers do not touch a wallet.
LEMMA EditsKeepWallets ==
  ASSUME WalletInv,
         \/ \E e \in Edits : \/ EditRead(e)
                             \/ \E q \in Restocks \cup {edit[e].stock}, s \in Statuses : EditSave(e, q, s)
         \/ \E l \in Listings : Remove(l) \/ Expire(l)
  PROVE  WalletInv'
<1> USE DEF WalletInv
<1>1. UNCHANGED <<balance, order, payment, ledger, sold, stale>>
  BY DEF EditRead, EditSave, Remove, Expire
<1>2. MarketTypeOK'
  <2>1. ASSUME NEW e \in Edits, EditRead(e)
        PROVE  MarketTypeOK'
    <3>1. stock[Edited[e]] \in Nat
      BY EditsAssumption DEF MarketTypeOK
    <3>2. [pc |-> "read", stock |-> stock[Edited[e]]] \in EditStates
      BY <3>1 DEF EditStates
    <3>3. edit' \in [Edits -> EditStates] /\ UNCHANGED <<stock, listed, supply, contested>>
      BY <2>1, <3>2 DEF EditRead, MarketTypeOK
    <3> QED
      BY <1>1, <3>3 DEF MarketTypeOK
  <2>2. ASSUME NEW e \in Edits, NEW q \in Restocks \cup {edit[e].stock}, NEW s \in Statuses,
               EditSave(e, q, s)
        PROVE  MarketTypeOK'
    <3>1. edit[e] \in EditStates /\ edit \in [Edits -> EditStates]
      BY DEF MarketTypeOK
    <3>2. edit[e].stock \in Nat /\ q \in Nat /\ Edited[e] \in Listings
      BY <3>1, EditsAssumption DEF EditStates
    <3>3. [edit[e] EXCEPT !.pc = "done"] \in EditStates
      BY <3>1 DEF EditStates
    <3>4. edit' \in [Edits -> EditStates]
      <4>1. edit' = [edit EXCEPT ![e] = [edit[e] EXCEPT !.pc = "done"]]
        BY <2>2 DEF EditSave
      <4> QED
        BY <3>1, <3>3, <4>1
    <3>5. stock' \in [Listings -> Nat] /\ listed' \in [Listings -> Statuses]
      BY <2>2, <3>2 DEF EditSave, MarketTypeOK
    <3>6. supply' \in [Listings -> Int] /\ contested' \subseteq Listings
      BY <2>2, <3>2 DEF EditSave, MarketTypeOK
    <3> QED
      BY <1>1, <3>4, <3>5, <3>6 DEF MarketTypeOK
  <2>3. ASSUME NEW l \in Listings, Remove(l) \/ Expire(l)
        PROVE  MarketTypeOK'
    <3>1. listed' \in [Listings -> Statuses] /\ contested' \subseteq Listings
      BY <2>3 DEF Remove, Expire, MarketTypeOK, Statuses
    <3>2. UNCHANGED <<stock, edit, supply>>
      BY <2>3 DEF Remove, Expire
    <3> QED
      BY <1>1, <3>1, <3>2 DEF MarketTypeOK
  <2> QED
    BY <2>1, <2>2, <2>3
<1>3. OrderSound' /\ OneHolder' /\ SeenUnderLock'
  BY <1>1 DEF OrderSound, Busy, OneHolder, Holds, OpenTransaction, SeenUnderLock, Merchant
<1>4. PaymentSeen' /\ WalletIsLedger'
  BY <1>1 DEF PaymentSeen, WalletIsLedger
<1> QED
  BY <1>2, <1>3, <1>4

LEMMA PaymentsKeepWallets ==
  ASSUME WalletInv, NEW p \in Payments, PaymentRead(p) \/ PaymentWrite(p)
  PROVE  WalletInv'
<1> USE DEF WalletInv
<1> DEFINE u == Payee[p]
<1>1. u \in Users /\ Amount[p] \in Nat /\ payment[p] \in PaymentStates /\ balance[u] \in Nat
      /\ payment \in [Payments -> PaymentStates]
  BY PaymentsAssumption DEF MarketTypeOK
<1>2. UNCHANGED <<stock, listed, order, edit, supply, sold, contested>>
  BY DEF PaymentRead, PaymentWrite
<1>3. OrderSound' /\ OneHolder'
  BY <1>2 DEF OrderSound, Busy, OneHolder, Holds, OpenTransaction, Merchant
<1>4. CASE PaymentRead(p)
  <2>1. [pc |-> "read", seen |-> balance[u]] \in PaymentStates
    BY <1>1 DEF PaymentStates
  <2>2. /\ payment' = [payment EXCEPT ![p] = [pc |-> "read", seen |-> balance[u]]]
        /\ UNCHANGED <<balance, ledger, stale>>
    BY <1>4 DEF PaymentRead
  <2>3. MarketTypeOK'
    BY <1>1, <1>2, <2>1, <2>2 DEF MarketTypeOK
  <2>4. PaymentSeen'
    BY <1>1, <2>2 DEF PaymentSeen
  <2>5. SeenUnderLock' /\ WalletIsLedger'
    BY <1>2, <2>2 DEF SeenUnderLock, WalletIsLedger, Merchant
  <2> QED
    BY <1>3, <2>3, <2>4, <2>5
<1>5. CASE PaymentWrite(p)
  <2>1. /\ payment[p].pc = "read" /\ ~Locked(u)
        /\ balance' = [balance EXCEPT ![u] = payment[p].seen + Amount[p]]
        /\ ledger'  = [ledger EXCEPT ![u] = @ + Amount[p]]
        /\ payment' = [payment EXCEPT ![p] = [payment[p] EXCEPT !.pc = "done"]]
        /\ stale'   = stale \cup Crediting({u}, {p})
    BY <1>5 DEF PaymentWrite
  <2>2. payment[p].seen \in Nat /\ [payment[p] EXCEPT !.pc = "done"] \in PaymentStates
        /\ [payment[p] EXCEPT !.pc = "done"].pc = "done"
    BY <1>1 DEF PaymentStates
  <2>3. MarketTypeOK'
    <3>1. balance' \in [Users -> Nat] /\ ledger' \in [Users -> Int]
      BY <1>1, <2>1, <2>2 DEF MarketTypeOK
    <3>2. payment' \in [Payments -> PaymentStates] /\ stale' \subseteq Users
      BY <1>1, <2>1, <2>2 DEF MarketTypeOK, Crediting
    <3> QED
      BY <1>2, <3>1, <3>2 DEF MarketTypeOK
  <2>4. ASSUME NEW q \in Payments, payment'[q].pc = "read"
        PROVE  q # p /\ payment'[q] = payment[q]
    BY <1>1, <2>1, <2>2, <2>4
  <2>5. PaymentSeen'
    <3> SUFFICES ASSUME NEW q \in Payments, payment'[q].pc = "read", Payee[q] \notin stale'
                 PROVE  payment'[q].seen = balance'[Payee[q]]
      BY DEF PaymentSeen
    <3>1. q # p /\ payment'[q] = payment[q] /\ Payee[q] \in Users
      BY <2>4, PaymentsAssumption
    <3>2. Payee[q] # u /\ Payee[q] \notin stale
      BY <1>1, <2>1, <3>1 DEF Crediting
    <3> QED
      BY <2>1, <3>1, <3>2 DEF PaymentSeen, MarketTypeOK
  <2>6. SeenUnderLock'
    <3>1. ASSUME NEW o \in Orders, order[o].pc \in {"buyer", "both"}
          PROVE  /\ balance'[Buyer[o]] = balance[Buyer[o]]
                 /\ order[o].pc = "both" => balance'[Merchant(o)] = balance[Merchant(o)]
      BY <1>1, <2>1, <3>1, OrderParts DEF Locked, Holds, OpenTransaction, MarketTypeOK
    <3> QED
      BY <1>2, <3>1 DEF SeenUnderLock, Merchant
  <2>7. WalletIsLedger'
    <3> SUFFICES ASSUME NEW v \in Users, v \notin stale'
                 PROVE  balance'[v] = ledger'[v]
      BY DEF WalletIsLedger
    <3>1. v \notin stale /\ balance[v] = ledger[v]
      BY <2>1 DEF WalletIsLedger
    <3>2. v = u => payment[p].seen = balance[u]
      BY <2>1, <3>1 DEF PaymentSeen
    <3> QED
      BY <1>1, <2>1, <3>1, <3>2 DEF MarketTypeOK
  <2> QED
    BY <1>3, <2>3, <2>5, <2>6, <2>7
<1> QED
  BY <1>4, <1>5

LEMMA WalletStep == WalletInv /\ [Next]_vars => WalletInv'
<1> SUFFICES ASSUME WalletInv, [Next]_vars PROVE WalletInv'
  OBVIOUS
<1>1. CASE UNCHANGED vars
  BY <1>1 DEF vars, WalletInv, MarketTypeOK, OrderSound, Busy, OneHolder, Holds, OpenTransaction,
              SeenUnderLock, PaymentSeen, WalletIsLedger, Merchant
<1>2. ASSUME NEW o \in Orders, ReadListing(o) \/ OrderStep(o) \/ Abort(o)
      PROVE  WalletInv'
  BY <1>2, ReadsKeepWallets, BuyKeepsWallets DEF OrderStep, Reads
<1>3. ASSUME \/ \E e \in Edits :
                  \/ EditRead(e)
                  \/ \E q \in Restocks \cup {edit[e].stock}, s \in Statuses : EditSave(e, q, s)
             \/ \E l \in Listings : Remove(l) \/ Expire(l)
      PROVE  WalletInv'
  BY <1>3, EditsKeepWallets
<1>4. ASSUME NEW p \in Payments, PaymentRead(p) \/ PaymentWrite(p)
      PROVE  WalletInv'
  BY <1>4, PaymentsKeepWallets
<1> QED
  BY <1>1, <1>2, <1>3, <1>4 DEF Next

-----------------------------------------------------------------------------
(* Stock *)

LEMMA StockInit == Init => StockInv
<1> SUFFICES ASSUME Init PROVE StockInv
  OBVIOUS
<1>1. StockSeen
  BY DEF Init, StockSeen, Busy
<1>2. NoOversell
  BY ListingsAssumption DEF Init, NoOversell
<1> QED
  BY <1>1, <1>2 DEF StockInv

LEMMA ReadsKeepStock ==
  ASSUME WalletInv, StockInv, NEW o \in Orders, Reads(o)
  PROVE  StockInv'
<1> USE DEF WalletInv, StockInv
<1>1. UNCHANGED <<balance, stock, listed, edit, payment, ledger, supply, sold, stale, contested>>
  BY ReadsFrame
<1>2. \A p \in Orders : p # o => order'[p] = order[p]
  BY ReadsOthers
<1>3. StockSeen'
  BY <1>1, <1>2, ReadsOwn DEF StockSeen, Busy
<1>4. NoOversell'
  BY <1>1 DEF NoOversell
<1> QED
  BY <1>3, <1>4

LEMMA BuyKeepsStock ==
  ASSUME WalletInv, StockInv, NEW o \in Orders, Buy(o)
  PROVE  StockInv'
<1> USE DEF WalletInv, StockInv
<1> DEFINE l == Item[o]
<1>1. /\ order[o].pc = "both"
      /\ stock'  = [stock EXCEPT ![l] = order[o].stock - Quantity[o]]
      /\ sold'   = [sold EXCEPT ![l] = @ + Quantity[o]]
      /\ order'  = [order EXCEPT ![o] = [order[o] EXCEPT !.pc = "done"]]
      /\ contested' = contested \cup {k \in {l} : Reading(k, {o}) # {}}
      /\ UNCHANGED <<edit, supply>>
  BY DEF Buy, Remaining
<1>2. l \in Listings /\ Quantity[o] \in Nat /\ order[o] \in OrderStates
      /\ order \in [Orders -> OrderStates]
  BY OrderParts DEF MarketTypeOK
<1>3. order'[o].pc = "done" /\ order[o].stock \in Nat
  BY <1>1, <1>2 DEF OrderStates
<1>4. \A p \in Orders : p # o => order'[p] = order[p]
  BY ReadsOthers
<1>5. ASSUME NEW p \in Orders, Busy(p)', Item[p] \notin contested'
      PROVE  order'[p].stock = stock'[Item[p]]
  <2>1. p # o /\ order'[p] = order[p] /\ Busy(p) /\ Item[p] \in Listings
    BY <1>3, <1>4, <1>5, OrderParts DEF Busy
  <2>2. Item[p] = l => p \in Reading(l, {o})
    BY <2>1 DEF Reading, Busy
  <2>3. Item[p] # l /\ Item[p] \notin contested
    BY <1>1, <1>5, <2>2
  <2> QED
    BY <1>1, <2>1, <2>3 DEF StockSeen, MarketTypeOK
<1>6. ASSUME NEW e \in Edits, edit[e].pc = "read", Edited[e] \notin contested'
      PROVE  edit[e].stock = stock'[Edited[e]]
  <2>1. Edited[e] \in Listings /\ e # o
    BY EditsAssumption
  <2>2. Edited[e] = l => e \in Reading(l, {o})
    BY <1>6, <2>1 DEF Reading
  <2>3. Edited[e] # l /\ Edited[e] \notin contested
    BY <1>1, <1>6, <2>2
  <2> QED
    BY <1>1, <1>6, <2>1, <2>3 DEF StockSeen, MarketTypeOK
<1>7. StockSeen'
  BY <1>1, <1>5, <1>6 DEF StockSeen
<1>8. NoOversell'
  <2> SUFFICES ASSUME NEW k \in Listings, k \notin contested'
               PROVE  sold'[k] + stock'[k] = supply[k]
    BY <1>1 DEF NoOversell
  <2>1. k \notin contested /\ sold[k] + stock[k] = supply[k]
    BY <1>1 DEF NoOversell
  <2>2. k = l => order[o].stock = stock[l]
    BY <1>1, <2>1 DEF StockSeen, Busy
  <2> QED
    BY <1>1, <1>2, <1>3, <2>1, <2>2 DEF MarketTypeOK
<1> QED
  BY <1>7, <1>8

\* A write of listing l by somebody who is neither an order nor an edit of E:
\* those of the others that have l in hand make it contested.
LEMMA OthersContested ==
  ASSUME WalletInv, StockInv, NEW l \in Listings, NEW E,
         order' = order,
         \A k \in Listings : k # l => stock'[k] = stock[k],
         contested' = contested \cup {k \in {l} : Reading(k, E) # {}},
         E \cap Orders = {},
         \A e \in Edits : edit'[e].pc = "read" =>
             e \notin E /\ edit'[e] = edit[e]
  PROVE  StockSeen'
<1> USE DEF StockInv
<1>1. ASSUME NEW p \in Orders, Busy(p), Item[p] \notin contested'
      PROVE  order[p].stock = stock'[Item[p]]
  <2>1. Item[p] \in Listings
    BY OrderParts
  <2>2. Item[p] = l => p \in Reading(l, E)
    BY <1>1 DEF Reading, Busy
  <2>3. Item[p] # l /\ Item[p] \notin contested
    BY <1>1, <2>2
  <2> QED
    BY <1>1, <2>1, <2>3 DEF StockSeen
<1>2. ASSUME NEW e \in Edits, edit'[e].pc = "read", Edited[e] \notin contested'
      PROVE  edit'[e].stock = stock'[Edited[e]]
  <2>1. Edited[e] \in Listings /\ e \notin E /\ edit'[e] = edit[e]
    BY <1>2, EditsAssumption
  <2>2. Edited[e] = l => e \in Reading(l, E)
    BY <1>2, <2>1 DEF Reading
  <2>3. Edited[e] # l /\ Edited[e] \notin contested
    BY <1>2, <2>2
  <2> QED
    BY <1>2, <2>1, <2>3 DEF StockSeen
<1> QED
  BY <1>1, <1>2 DEF StockSeen, Busy

LEMMA EditsKeepStock ==
  ASSUME WalletInv, StockInv,
         \/ \E e \in Edits : \/ EditRead(e)
                             \/ \E q \in Restocks \cup {edit[e].stock}, s \in Statuses : EditSave(e, q, s)
         \/ \E l \in Listings : Remove(l) \/ Expire(l)
  PROVE  StockInv'
<1> USE DEF StockInv
<1>1. ASSUME NEW e \in Edits, EditRead(e)
      PROVE  StockInv'
  <2>1. /\ edit' = [edit EXCEPT ![e] = [pc |-> "read", stock |-> stock[Edited[e]]]]
        /\ UNCHANGED <<stock, order, supply, sold, contested>>
    BY <1>1 DEF EditRead
  <2>2. \A f \in Edits : f # e => edit'[f] = edit[f]
    BY <2>1 DEF WalletInv, MarketTypeOK
  <2>3. edit'[e].stock = stock[Edited[e]]
    BY <2>1 DEF WalletInv, MarketTypeOK
  <2>4. StockSeen'
    BY <2>1, <2>2, <2>3 DEF StockSeen, Busy
  <2> QED
    BY <2>1, <2>4 DEF NoOversell
<1>2. ASSUME NEW e \in Edits, NEW q \in Restocks \cup {edit[e].stock}, NEW s \in Statuses,
             EditSave(e, q, s)
      PROVE  StockInv'
  <2> DEFINE l == Edited[e]
  <2>1. /\ edit[e].pc = "read"
        /\ stock'  = [stock EXCEPT ![l] = q]
        /\ supply' = [supply EXCEPT ![l] = @ + q - edit[e].stock]
        /\ edit'   = [edit EXCEPT ![e] = [edit[e] EXCEPT !.pc = "done"]]
        /\ contested' = contested \cup {k \in {l} : Reading(k, {e}) # {}}
        /\ UNCHANGED <<order, sold>>
    BY <1>2 DEF EditSave
  <2>2. edit[e] \in EditStates /\ l \in Listings /\ edit \in [Edits -> EditStates]
    BY EditsAssumption DEF WalletInv, MarketTypeOK
  <2>3. edit'[e].pc = "done" /\ edit[e].stock \in Nat /\ q \in Nat
    BY <2>1, <2>2, EditsAssumption DEF EditStates
  <2>4. \A f \in Edits : f # e => edit'[f] = edit[f]
    BY <2>1, <2>2
  <2>5. {e} \cap Orders = {}
    BY EditsAssumption
  <2>6. StockSeen'
    <3>1. \A k \in Listings : k # l => stock'[k] = stock[k]
      BY <2>1 DEF WalletInv, MarketTypeOK
    <3>2. \A f \in Edits : edit'[f].pc = "read" => f \notin {e} /\ edit'[f] = edit[f]
      BY <2>3, <2>4
    <3> QED
      BY <2>1, <2>2, <2>5, <3>1, <3>2, OthersContested
  <2>7. NoOversell'
    <3> SUFFICES ASSUME NEW k \in Listings, k \notin contested'
                 PROVE  sold[k] + stock'[k] = supply'[k]
      BY <2>1 DEF NoOversell
    <3>1. sold[k] + stock[k] = supply[k]
      BY <2>1 DEF NoOversell
    <3>2. k = l => edit[e].stock = stock[l]
      BY <2>1 DEF StockSeen
    <3> QED
      BY <2>1, <2>2, <2>3, <3>1, <3>2 DEF WalletInv, MarketTypeOK
  <2> QED
    BY <2>6, <2>7
<1>3. ASSUME NEW l \in Listings, Remove(l) \/ Expire(l)
      PROVE  StockInv'
  <2>1. /\ contested' = contested \cup {k \in {l} : Reading(k, {}) # {}}
        /\ UNCHANGED <<stock, order, edit, supply, sold>>
    BY <1>3 DEF Remove, Expire
  <2>2. StockSeen'
    BY <2>1, OthersContested
  <2> QED
    BY <2>1, <2>2 DEF NoOversell
<1> QED
  BY <1>1, <1>2, <1>3

LEMMA StockStep == WalletInv /\ StockInv /\ [Next]_vars => StockInv'
<1> SUFFICES ASSUME WalletInv, StockInv, [Next]_vars PROVE StockInv'
  OBVIOUS
<1>1. CASE UNCHANGED vars
  BY <1>1 DEF vars, StockInv, StockSeen, NoOversell, Busy
<1>2. ASSUME NEW o \in Orders, ReadListing(o) \/ OrderStep(o) \/ Abort(o)
      PROVE  StockInv'
  BY <1>2, ReadsKeepStock, BuyKeepsStock DEF OrderStep, Reads
<1>3. ASSUME \/ \E e \in Edits :
                  \/ EditRead(e)
                  \/ \E q \in Restocks \cup {edit[e].stock}, s \in Statuses : EditSave(e, q, s)
             \/ \E l \in Listings : Remove(l) \/ Expire(l)
      PROVE  StockInv'
  BY <1>3, EditsKeepStock
<1>4. ASSUME NEW p \in Payments, PaymentRead(p) \/ PaymentWrite(p)
      PROVE  StockInv'
  <2>1. UNCHANGED <<stock, order, edit, supply, sold, contested>>
    BY <1>4 DEF PaymentRead, PaymentWrite
  <2> QED
    BY <2>1 DEF StockInv, StockSeen, NoOversell, Busy
<1> QED
  BY <1>1, <1>2, <1>3, <1>4 DEF Next

-----------------------------------------------------------------------------
(* The theorems *)

LEMMA MarketInvariant == Spec => [](WalletInv /\ StockInv)
<1>1. Init => WalletInv /\ StockInv
  BY WalletInit, StockInit
<1>2. WalletInv /\ StockInv /\ [Next]_vars => (WalletInv /\ StockInv)'
  BY WalletStep, StockStep
<1> QED
  BY <1>1, <1>2, PTL DEF Spec

\* No purchase, edit, payment or expiry, in whatever order, leaves a balance or a
\* stock below zero.
THEOREM MarketTypesHold == Spec => []MarketTypeOK
<1>1. WalletInv /\ StockInv => MarketTypeOK
  BY DEF WalletInv
<1> QED
  BY <1>1, MarketInvariant, PTL

\* The row locks of ListingPurchaseView keep every wallet that no unlocked credit
\* had in hand equal to its rows.
THEOREM LocksKeepWallets == Spec => []WalletIsLedger
<1>1. WalletInv /\ StockInv => WalletIsLedger
  BY DEF WalletInv
<1> QED
  BY <1>1, MarketInvariant, PTL

\* A listing written only while nobody has it in hand sells what was on offer.
THEOREM NothingOversold == Spec => []NoOversell
<1>1. WalletInv /\ StockInv => NoOversell
  BY DEF StockInv
<1> QED
  BY <1>1, MarketInvariant, PTL

\* A wallet row is locked by one purchase at a time, and what a purchase read under
\* its locks is what the wallets hold when it writes them.
THEOREM LocksExclude == Spec => [](OneHolder /\ SeenUnderLock)
<1>1. WalletInv /\ StockInv => OneHolder /\ SeenUnderLock
  BY DEF WalletInv
<1> QED
  BY <1>1, MarketInvariant, PTL

-----------------------------------------------------------------------------
(* Catalogue: types, and what a step is *)

ListingRow == [status : Shown \cup {"none"}, flagged : BOOLEAN, enquiries : Nat, views : Nat]

CatTypeInv ==
    /\ CatalogueTypeOK
    /\ held \in [Amends -> ListingRow] /\ seen \in [Enquiries -> Nat]
    /\ DOMAIN step = Requests /\ found \in [Toggles -> Toggles]

LEMMA GoesTo ==
  ASSUME DOMAIN step = Requests, NEW r \in Requests, NEW state, Goes(r, state)
  PROVE  /\ DOMAIN step' = Requests /\ step'[r] = state
         /\ \A o \in Requests : o # r => step'[o] = step[o]
BY DEF Goes

LEMMA RequestKinds ==
  /\ \A l \in Posts : l \in Requests /\ l \notin Amends /\ l \notin Buys /\ l \notin Enquiries
                        /\ l \notin Looks /\ l \notin Pictures /\ l \notin Toggles /\ Poster[l] \in Sellers
  /\ \A a \in Amends : a \in Requests /\ a \notin Buys /\ a \notin Enquiries /\ a \notin Looks
                         /\ a \notin Pictures /\ a \notin Toggles /\ Amended[a] \in Posts
  /\ \A b \in Buys : b \in Requests /\ b \notin Enquiries /\ b \notin Looks
                       /\ b \notin Pictures /\ b \notin Toggles /\ Bought[b] \in Posts
  /\ \A q \in Enquiries : q \in Requests /\ q \notin Looks /\ q \notin Pictures /\ q \notin Toggles
                            /\ About[q] \in Posts
  /\ \A v \in Looks : v \in Requests /\ v \notin Pictures /\ v \notin Toggles /\ Watched[v] \in Posts
  /\ \A i \in Pictures : i \in Requests /\ i \notin Toggles /\ Pictured[i] \in Posts
  /\ \A t \in Toggles : t \in Requests /\ Marked[t][2] \in Posts
BY ViewsAssumption, CatalogueAssumption DEF Requests

LEMMA RowParts ==
  ASSUME NEW x \in ListingRow
  PROVE  /\ x.status \in Shown \cup {"none"} /\ x.flagged \in BOOLEAN
         /\ x.enquiries \in Nat /\ x.views \in Nat
         /\ \A s \in Shown : /\ [x EXCEPT !.status = s] \in ListingRow
                             /\ [x EXCEPT !.status = s].enquiries = x.enquiries
                             /\ [x EXCEPT !.status = s].views = x.views
                             /\ [x EXCEPT !.status = s].flagged = x.flagged
                             /\ [x EXCEPT !.status = s].status = s
         /\ \A f \in BOOLEAN : /\ [x EXCEPT !.flagged = f] \in ListingRow
                               /\ [x EXCEPT !.flagged = f].status = x.status
                               /\ [x EXCEPT !.flagged = f].flagged = f
                               /\ [x EXCEPT !.flagged = f].enquiries = x.enquiries
                               /\ [x EXCEPT !.flagged = f].views = x.views
BY DEF ListingRow, Shown

LEMMA CountParts ==
  ASSUME NEW x \in ListingRow, NEW n \in Nat
  PROVE  /\ [x EXCEPT !.enquiries = n] \in ListingRow /\ [x EXCEPT !.views = n] \in ListingRow
         /\ [x EXCEPT !.enquiries = n].status = x.status /\ [x EXCEPT !.views = n].status = x.status
         /\ [x EXCEPT !.enquiries = n].flagged = x.flagged /\ [x EXCEPT !.views = n].flagged = x.flagged
         /\ [x EXCEPT !.enquiries = n].enquiries = n /\ [x EXCEPT !.views = n].views = n
         /\ [x EXCEPT !.enquiries = n].views = x.views /\ [x EXCEPT !.views = n].enquiries = x.enquiries
BY DEF ListingRow

LEMMA NewRows ==
  /\ Blank \in ListingRow /\ Blank.status = "none"
  /\ Fresh \in ListingRow /\ Fresh.status = "active" /\ ~Fresh.flagged
  /\ Fresh.enquiries = 0 /\ Fresh.views = 0
  /\ [Fresh EXCEPT !.enquiries = 1, !.views = 1] \in ListingRow
  /\ [Fresh EXCEPT !.enquiries = 1, !.views = 1].status = "active"
BY DEF Blank, Fresh, ListingRow, Shown

\* What the steps that write a listing's row make of it.
LEMMA RowWritten ==
  ASSUME CatTypeInv
  PROVE  /\ \A l \in Posts :
              /\ row[l] \in ListingRow
              /\ PostSave(l) => row' = [row EXCEPT ![l] = Fresh]
              /\ TakeDown(l) => row' = [row EXCEPT ![l] = [row[l] EXCEPT !.status = "removed"]]
              /\ SweepSpam(l) => row' = [row EXCEPT ![l] = [row[l] EXCEPT !.flagged = TRUE]]
              /\ Unflag(l) => row' = [row EXCEPT ![l] = [row[l] EXCEPT !.flagged = FALSE]]
              /\ StockListing(l) => row' = [row EXCEPT ![l] = [Fresh EXCEPT !.enquiries = 1, !.views = 1]]
         /\ \A a \in Amends, status \in Shown : AmendSave(a, status) =>
              row' = [row EXCEPT ![Amended[a]] = [held[a] EXCEPT !.status = status]]
         /\ \A b \in Buys, status \in {"active", "sold"} : BuySave(b, status) =>
              row' = [row EXCEPT ![Bought[b]] = [row[Bought[b]] EXCEPT !.status = status]]
         /\ \A q \in Enquiries : AskCount(q) =>
              row' = [row EXCEPT ![About[q]] = [row[About[q]] EXCEPT !.enquiries = seen[q] + 1]]
         /\ \A v \in Looks : Look(v) =>
              row' = [row EXCEPT ![Watched[v]] = [row[Watched[v]] EXCEPT !.views = row[Watched[v]].views + 1]]
<1> USE DEF CatTypeInv, CatalogueTypeOK
<1>1. \A l \in Posts : row[l] \in ListingRow
  BY DEF ListingRow
<1>2. \A l \in Posts :
        /\ PostSave(l) => row' = [row EXCEPT ![l] = Fresh]
        /\ TakeDown(l) => row' = [row EXCEPT ![l] = [row[l] EXCEPT !.status = "removed"]]
        /\ SweepSpam(l) => row' = [row EXCEPT ![l] = [row[l] EXCEPT !.flagged = TRUE]]
        /\ Unflag(l) => row' = [row EXCEPT ![l] = [row[l] EXCEPT !.flagged = FALSE]]
        /\ StockListing(l) => row' = [row EXCEPT ![l] = [Fresh EXCEPT !.enquiries = 1, !.views = 1]]
  BY DEF PostSave, TakeDown, SweepSpam, Unflag, StockListing
<1>3. \A a \in Amends, status \in Shown : AmendSave(a, status) =>
        row' = [row EXCEPT ![Amended[a]] = [held[a] EXCEPT !.status = status]]
  BY DEF AmendSave, Rewritten
<1>4. \A q \in Enquiries : AskCount(q) =>
        row' = [row EXCEPT ![About[q]] = [row[About[q]] EXCEPT !.enquiries = seen[q] + 1]]
  BY RequestKinds DEF AskCount, NextCount
<1>5. \A v \in Looks : Look(v) =>
        row' = [row EXCEPT ![Watched[v]] = [row[Watched[v]] EXCEPT !.views = row[Watched[v]].views + 1]]
  BY RequestKinds DEF Look
<1>6. \A b \in Buys, status \in {"active", "sold"} : BuySave(b, status) =>
        row' = [row EXCEPT ![Bought[b]] = [row[Bought[b]] EXCEPT !.status = status]]
  BY RequestKinds DEF BuySave
<1> QED
  BY <1>1, <1>2, <1>3, <1>4, <1>5, <1>6

LEMMA OneRowWritten ==
  ASSUME CatTypeInv, NEW l \in Posts, NEW x \in ListingRow, row' = [row EXCEPT ![l] = x]
  PROVE  /\ row' \in [Posts -> ListingRow] /\ row'[l] = x
         /\ \A k \in Posts : k # l => row'[k] = row[k]
BY DEF CatTypeInv, CatalogueTypeOK, ListingRow

\* The steps that leave the rows alone.
CatReads ==
    \/ \E l \in Posts : \/ PostCheck(l) \/ GrowOlder(l)
                        \/ \E when \in {"hour", "month", "older"} : StockDate(l, when)
    \/ \E a \in Amends : AmendRead(a)
    \/ \E b \in Buys : BuyRead(b) \/ BuyRefuse(b)
    \/ \E q \in Enquiries : AskCheck(q) \/ AskSave(q) \/ AskDie(q) \/ Respond(q)
    \/ \E i \in Pictures : AddCheck(i) \/ AddClear(i) \/ AddSave(i) \/ DeletePicture(i)
                           \/ StockPicture(i)
    \/ \E t \in Toggles : MarkFind(t) \/ MarkDelete(t)
    \/ UNCHANGED catVars

LEMMA ReadsRest == CatReads => UNCHANGED row
BY DEF CatReads, PostCheck, GrowOlder, StockDate, AmendRead, BuyRead, BuyRefuse, AskCheck, AskSave,
       AskDie, Respond, AddCheck, AddClear, AddSave, DeletePicture, StockPicture, MarkFind, MarkDelete, catVars

\* The sweeps over all listings write only the status and the flag.
LEMMA SweptRows ==
  ASSUME CatTypeInv, PauseOld \/ \E s \in Sellers : SweepOften(s)
  PROVE  /\ row' \in [Posts -> ListingRow]
         /\ \A l \in Posts :
              /\ row'[l].enquiries = row[l].enquiries /\ row'[l].views = row[l].views
              /\ row'[l].status = row[l].status \/ (row[l].status = "active" /\ row'[l].status = "paused")
              /\ row[l].flagged => row'[l].flagged
              /\ row'[l] = row[l] \/ row[l].status # "none"
<1>1. \A l \in Posts :
        \/ row'[l] = row[l]
        \/ row[l].status = "active" /\ row'[l] = [row[l] EXCEPT !.status = "paused"]
        \/ row[l].status # "none" /\ row'[l] = [row[l] EXCEPT !.flagged = TRUE]
  BY DEF PauseOld, SweepOften, Listed
<1>2. row' = [l \in Posts |-> row'[l]]
  BY DEF PauseOld, SweepOften
<1>3. "paused" \in Shown /\ TRUE \in BOOLEAN
  BY DEF Shown
<1>4. \A l \in Posts : row[l] \in ListingRow
  BY DEF CatTypeInv, CatalogueTypeOK, ListingRow
<1>5. \A l \in Posts :
        /\ row'[l] \in ListingRow
        /\ row'[l].enquiries = row[l].enquiries /\ row'[l].views = row[l].views
        /\ row'[l].status = row[l].status \/ (row[l].status = "active" /\ row'[l].status = "paused")
        /\ row[l].flagged => row'[l].flagged
        /\ row'[l] = row[l] \/ row[l].status # "none"
  <2> SUFFICES ASSUME NEW l \in Posts
               PROVE  /\ row'[l] \in ListingRow
                      /\ row'[l].enquiries = row[l].enquiries /\ row'[l].views = row[l].views
                      /\ \/ row'[l].status = row[l].status
                         \/ row[l].status = "active" /\ row'[l].status = "paused"
                      /\ row[l].flagged => row'[l].flagged
                      /\ row'[l] = row[l] \/ row[l].status # "none"
    OBVIOUS
  <2>1. CASE row'[l] = row[l]
    BY <1>4, <2>1
  <2>2. CASE row[l].status = "active" /\ row'[l] = [row[l] EXCEPT !.status = "paused"]
    <3>1. /\ [row[l] EXCEPT !.status = "paused"] \in ListingRow
          /\ [row[l] EXCEPT !.status = "paused"].status = "paused"
          /\ [row[l] EXCEPT !.status = "paused"].flagged = row[l].flagged
          /\ [row[l] EXCEPT !.status = "paused"].enquiries = row[l].enquiries
          /\ [row[l] EXCEPT !.status = "paused"].views = row[l].views
      BY <1>3, <1>4, RowParts
    <3> QED
      BY <2>2, <3>1
  <2>3. CASE row[l].status # "none" /\ row'[l] = [row[l] EXCEPT !.flagged = TRUE]
    <3>1. /\ [row[l] EXCEPT !.flagged = TRUE] \in ListingRow
          /\ [row[l] EXCEPT !.flagged = TRUE].status = row[l].status
          /\ [row[l] EXCEPT !.flagged = TRUE].flagged
          /\ [row[l] EXCEPT !.flagged = TRUE].enquiries = row[l].enquiries
          /\ [row[l] EXCEPT !.flagged = TRUE].views = row[l].views
      BY <1>4, RowParts
    <3> QED
      BY <2>3, <3>1
  <2> QED
    BY <1>1, <2>1, <2>2, <2>3
<1> QED
  BY <1>2, <1>5

LEMMA CatTypeInit == CatInit => CatTypeInv
<1> SUFFICES ASSUME CatInit PROVE CatTypeInv
  OBVIOUS
<1>1. DOMAIN step = Requests
  BY DEF CatInit
<1>2. /\ row \in [Posts -> ListingRow] /\ held \in [Amends -> ListingRow]
      /\ seen \in [Enquiries -> Nat] /\ found \in [Toggles -> Toggles]
  BY NewRows DEF CatInit
<1>3. marks \subseteq Toggles /\ asked \subseteq Enquiries /\ covers \subseteq album /\ album \subseteq Pictures
  BY DEF CatInit
<1> QED
  BY <1>1, <1>2, <1>3 DEF CatTypeInv, CatalogueTypeOK, ListingRow

LEMMA RowTypes ==
  ASSUME CatTypeInv, [CatNext]_catVars
  PROVE  row' \in [Posts -> ListingRow]
<1>0. row \in [Posts -> ListingRow] /\ \A l \in Posts : row[l] \in ListingRow
  BY DEF CatTypeInv, CatalogueTypeOK, ListingRow
<1>1. CASE CatReads
  BY <1>0, <1>1, ReadsRest
<1>2. CASE PauseOld \/ \E s \in Sellers : SweepOften(s)
  BY <1>2, SweptRows
<1>3. ASSUME NEW l \in Posts, PostSave(l)
      PROVE  row' \in [Posts -> ListingRow]
  <2>1. row' = [row EXCEPT ![l] = Fresh]
    BY <1>3, RowWritten
  <2> QED
    BY <2>1, NewRows, OneRowWritten
<1>4. ASSUME NEW l \in Posts, StockListing(l)
      PROVE  row' \in [Posts -> ListingRow]
  <2>1. row' = [row EXCEPT ![l] = [Fresh EXCEPT !.enquiries = 1, !.views = 1]]
    BY <1>4, RowWritten
  <2> QED
    BY <2>1, NewRows, OneRowWritten
<1>5. ASSUME NEW l \in Posts, TakeDown(l)
      PROVE  row' \in [Posts -> ListingRow]
  <2>1. row' = [row EXCEPT ![l] = [row[l] EXCEPT !.status = "removed"]]
    BY <1>5, RowWritten
  <2>2. [row[l] EXCEPT !.status = "removed"] \in ListingRow
    BY <1>0, RowParts DEF Shown
  <2> QED
    BY <2>1, <2>2, OneRowWritten
<1>6. ASSUME NEW l \in Posts, SweepSpam(l)
      PROVE  row' \in [Posts -> ListingRow]
  <2>1. row' = [row EXCEPT ![l] = [row[l] EXCEPT !.flagged = TRUE]]
    BY <1>6, RowWritten
  <2>2. [row[l] EXCEPT !.flagged = TRUE] \in ListingRow
    BY <1>0, RowParts
  <2> QED
    BY <2>1, <2>2, OneRowWritten
<1>7. ASSUME NEW l \in Posts, Unflag(l)
      PROVE  row' \in [Posts -> ListingRow]
  <2>1. row' = [row EXCEPT ![l] = [row[l] EXCEPT !.flagged = FALSE]]
    BY <1>7, RowWritten
  <2>2. [row[l] EXCEPT !.flagged = FALSE] \in ListingRow
    BY <1>0, RowParts
  <2> QED
    BY <2>1, <2>2, OneRowWritten
<1>8. ASSUME NEW a \in Amends, NEW status \in Shown, AmendSave(a, status)
      PROVE  row' \in [Posts -> ListingRow]
  <2>1. row' = [row EXCEPT ![Amended[a]] = [held[a] EXCEPT !.status = status]]
    BY <1>8, RowWritten
  <2>2. [held[a] EXCEPT !.status = status] \in ListingRow
    BY RowParts DEF CatTypeInv
  <2> QED
    BY <2>1, <2>2, OneRowWritten, RequestKinds
<1>9. ASSUME NEW q \in Enquiries, AskCount(q)
      PROVE  row' \in [Posts -> ListingRow]
  <2>1. row' = [row EXCEPT ![About[q]] = [row[About[q]] EXCEPT !.enquiries = seen[q] + 1]]
    BY <1>9, RowWritten
  <2>2. seen[q] + 1 \in Nat
    BY DEF CatTypeInv
  <2>3. [row[About[q]] EXCEPT !.enquiries = seen[q] + 1] \in ListingRow
    BY <1>0, <2>2, CountParts, RequestKinds
  <2> QED
    BY <2>1, <2>3, OneRowWritten, RequestKinds
<1>10. ASSUME NEW v \in Looks, Look(v)
       PROVE  row' \in [Posts -> ListingRow]
  <2>1. row' = [row EXCEPT ![Watched[v]] = [row[Watched[v]] EXCEPT !.views = row[Watched[v]].views + 1]]
    BY <1>10, RowWritten
  <2>2. row[Watched[v]].views + 1 \in Nat
    BY <1>0, RowParts, RequestKinds
  <2>3. [row[Watched[v]] EXCEPT !.views = row[Watched[v]].views + 1] \in ListingRow
    BY <1>0, <2>2, CountParts, RequestKinds
  <2> QED
    BY <2>1, <2>3, OneRowWritten, RequestKinds
<1>11. ASSUME NEW b \in Buys, NEW status \in {"active", "sold"}, BuySave(b, status)
       PROVE  row' \in [Posts -> ListingRow]
  <2>1. row' = [row EXCEPT ![Bought[b]] = [row[Bought[b]] EXCEPT !.status = status]]
    BY <1>11, RowWritten
  <2>2. [row[Bought[b]] EXCEPT !.status = status] \in ListingRow
    BY <1>0, RowParts, RequestKinds DEF Shown
  <2> QED
    BY <2>1, <2>2, OneRowWritten, RequestKinds
<1> QED
  BY <1>1, <1>2, <1>3, <1>4, <1>5, <1>6, <1>7, <1>8, <1>9, <1>10, <1>11 DEF CatNext, CatReads

LEMMA OtherTypes ==
  ASSUME CatTypeInv, [CatNext]_catVars
  PROVE  /\ held' \in [Amends -> ListingRow] /\ seen' \in [Enquiries -> Nat]
         /\ DOMAIN step' = Requests /\ found' \in [Toggles -> Toggles]
         /\ marks' \subseteq Toggles /\ asked' \subseteq Enquiries
         /\ covers' \subseteq album' /\ album' \subseteq Pictures
<1> USE DEF CatTypeInv, CatalogueTypeOK
<1>0. \A l \in Posts : row[l] \in ListingRow
  BY DEF ListingRow
<1>1. ASSUME NEW l \in Posts,
             \/ PostCheck(l) \/ PostSave(l) \/ TakeDown(l)
             \/ GrowOlder(l) \/ SweepSpam(l) \/ Unflag(l) \/ StockListing(l)
             \/ \E when \in {"hour", "month", "older"} : StockDate(l, when)
      PROVE  DOMAIN step' = Requests /\ UNCHANGED <<held, seen, asked, marks, found, album, covers>>
  BY <1>1 DEF PostCheck, PostSave, TakeDown, GrowOlder, SweepSpam, Unflag, StockListing, StockDate,
              Goes, countVars, pictureVars, markVars
<1>2. ASSUME NEW a \in Amends, AmendRead(a) \/ \E status \in Shown : AmendSave(a, status)
      PROVE  /\ DOMAIN step' = Requests /\ UNCHANGED <<seen, asked, marks, found, album, covers>>
             /\ held' \in [Amends -> ListingRow]
  BY <1>0, <1>2, RequestKinds DEF AmendRead, AmendSave, Goes, countVars, pictureVars, markVars
<1>3. ASSUME NEW q \in Enquiries, AskCheck(q) \/ AskSave(q) \/ AskCount(q) \/ AskDie(q) \/ Respond(q)
      PROVE  /\ DOMAIN step' = Requests /\ UNCHANGED <<held, marks, found, album, covers>>
             /\ seen' \in [Enquiries -> Nat] /\ asked' \subseteq Enquiries
  <2>1. row[About[q]].enquiries \in Nat
    BY <1>0, RequestKinds, RowParts
  <2> QED
    BY <1>3, <2>1 DEF AskCheck, AskSave, AskCount, AskDie, Respond, Goes, countVars, pictureVars, markVars
<1>4. ASSUME NEW v \in Looks, Look(v)
      PROVE  DOMAIN step' = Requests /\ UNCHANGED <<held, seen, asked, marks, found, album, covers>>
  BY <1>4 DEF Look, Goes, pictureVars, markVars
<1>5. ASSUME NEW i \in Pictures,
             AddCheck(i) \/ AddClear(i) \/ AddSave(i) \/ DeletePicture(i) \/ StockPicture(i)
      PROVE  /\ DOMAIN step' = Requests /\ UNCHANGED <<held, seen, asked, marks, found>>
             /\ covers' \subseteq album' /\ album' \subseteq Pictures
  BY <1>5 DEF AddCheck, AddClear, AddSave, DeletePicture, StockPicture, Goes, countVars, markVars
<1>6. ASSUME NEW t \in Toggles, MarkFind(t) \/ MarkDelete(t)
      PROVE  /\ DOMAIN step' = Requests /\ UNCHANGED <<held, seen, asked, album, covers>>
             /\ marks' \subseteq Toggles /\ found' \in [Toggles -> Toggles]
  BY <1>6 DEF MarkFind, MarkDelete, RowsFor, Goes, countVars, pictureVars
<1>7. CASE PauseOld \/ (\E s \in Sellers : SweepOften(s)) \/ UNCHANGED catVars
  BY <1>7 DEF PauseOld, SweepOften, catVars, countVars, pictureVars, markVars
<1>8. ASSUME NEW b \in Buys,
             BuyRead(b) \/ BuyRefuse(b) \/ \E status \in {"active", "sold"} : BuySave(b, status)
      PROVE  DOMAIN step' = Requests /\ UNCHANGED <<held, seen, asked, marks, found, album, covers>>
  BY <1>8 DEF BuyRead, BuyRefuse, BuySave, Goes, countVars, pictureVars, markVars
<1> QED
  BY <1>1, <1>2, <1>3, <1>4, <1>5, <1>6, <1>7, <1>8 DEF CatNext

LEMMA CatTypeStep == CatTypeInv /\ [CatNext]_catVars => CatTypeInv'
  BY RowTypes, OtherTypes DEF CatTypeInv, CatalogueTypeOK, ListingRow

\* In every state that is reached the rows, the requests and the albums have their types.
THEOREM CatalogueTypesHold == CatSpec => []CatalogueTypeOK
<1>1. CatTypeInv => CatalogueTypeOK
  BY DEF CatTypeInv
<1> QED
  BY <1>1, CatTypeInit, CatTypeStep, PTL DEF CatSpec

-----------------------------------------------------------------------------
(* Catalogue: a listing that has been made stays, and flags *)

\* What a step does to the row of one listing.
SameCounts(l) == row'[l].enquiries = row[l].enquiries /\ row'[l].views = row[l].views

RowChanges(l) ==
    \/ row'[l] = row[l]
    \/ PostSave(l) /\ row'[l] = Fresh
    \/ StockListing(l) /\ row'[l].status = "active"
    \/ /\ row[l] # Blank /\ SameCounts(l)
       /\ row'[l].status \in {row[l].status, "paused", "removed"}
       /\ row[l].flagged => row'[l].flagged \/ Unflag(l)
    \/ \E a \in Amends, status \in Shown :
         /\ AmendSave(a, status) /\ Amended[a] = l
         /\ row'[l].status = status /\ row'[l].flagged = held[a].flagged
         /\ row'[l].enquiries = held[a].enquiries /\ row'[l].views = held[a].views
    \/ \E b \in Buys, status \in {"active", "sold"} :
         /\ BuySave(b, status) /\ Bought[b] = l
         /\ row'[l].status = status /\ row'[l].flagged = row[l].flagged /\ SameCounts(l)
    \/ \E q \in Enquiries :
         /\ AskCount(q) /\ About[q] = l
         /\ row'[l].status = row[l].status /\ row'[l].flagged = row[l].flagged
         /\ row'[l].enquiries = seen[q] + 1 /\ row'[l].views = row[l].views
    \/ \E v \in Looks :
         /\ Look(v) /\ Watched[v] = l
         /\ row'[l].status = row[l].status /\ row'[l].flagged = row[l].flagged
         /\ row'[l].enquiries = row[l].enquiries /\ row'[l].views = row[l].views + 1

LEMMA RowChange ==
  ASSUME CatTypeInv, [CatNext]_catVars, NEW l \in Posts
  PROVE  RowChanges(l)
<1>0. /\ \A k \in Posts : row[k] \in ListingRow
      /\ Blank.status = "none" /\ Blank.flagged = FALSE
  BY DEF CatTypeInv, CatalogueTypeOK, ListingRow, Blank
<1>1. CASE CatReads
  BY <1>1, ReadsRest DEF RowChanges
<1>2. CASE PauseOld \/ \E s \in Sellers : SweepOften(s)
  BY <1>0, <1>2, SweptRows DEF RowChanges, SameCounts
<1>3. ASSUME NEW k \in Posts, PostSave(k)
      PROVE  RowChanges(l)
  <2>1. row' = [row EXCEPT ![k] = Fresh]
    BY <1>3, RowWritten
  <2>2. (k = l => row'[l] = Fresh) /\ (k # l => row'[l] = row[l])
    BY <2>1, NewRows, OneRowWritten
  <2> QED
    BY <1>3, <2>2 DEF RowChanges
<1>4. ASSUME NEW k \in Posts, StockListing(k)
      PROVE  RowChanges(l)
  <2>1. row' = [row EXCEPT ![k] = [Fresh EXCEPT !.enquiries = 1, !.views = 1]]
    BY <1>4, RowWritten
  <2>2. (k = l => row'[l] = [Fresh EXCEPT !.enquiries = 1, !.views = 1]) /\ (k # l => row'[l] = row[l])
    BY <2>1, NewRows, OneRowWritten
  <2> QED
    BY <1>4, <2>2, NewRows DEF RowChanges
<1>5. ASSUME NEW k \in Posts, TakeDown(k)
      PROVE  RowChanges(l)
  <2>1. row' = [row EXCEPT ![k] = [row[k] EXCEPT !.status = "removed"]] /\ row[k].status \in Shown
    BY <1>5, RowWritten DEF TakeDown
  <2> DEFINE x == [row[k] EXCEPT !.status = "removed"]
  <2>2. /\ x \in ListingRow /\ x.status = "removed" /\ x.flagged = row[k].flagged
        /\ x.enquiries = row[k].enquiries /\ x.views = row[k].views
    BY <1>0, RowParts DEF Shown
  <2>3. (k = l => row'[l] = x) /\ (k # l => row'[l] = row[l])
    BY <2>1, <2>2, OneRowWritten
  <2>4. row[k] # Blank
    BY <1>0, <2>1 DEF Shown
  <2> QED
    BY <2>2, <2>3, <2>4 DEF RowChanges, SameCounts
<1>6. ASSUME NEW k \in Posts, SweepSpam(k)
      PROVE  RowChanges(l)
  <2>1. row' = [row EXCEPT ![k] = [row[k] EXCEPT !.flagged = TRUE]] /\ row[k].status = "active"
    BY <1>6, RowWritten DEF SweepSpam
  <2> DEFINE x == [row[k] EXCEPT !.flagged = TRUE]
  <2>2. /\ x \in ListingRow /\ x.status = row[k].status /\ x.flagged
        /\ x.enquiries = row[k].enquiries /\ x.views = row[k].views
    BY <1>0, RowParts
  <2>3. (k = l => row'[l] = x) /\ (k # l => row'[l] = row[l])
    BY <2>1, <2>2, OneRowWritten
  <2>4. row[k] # Blank
    BY <1>0, <2>1
  <2> QED
    BY <2>2, <2>3, <2>4 DEF RowChanges, SameCounts
<1>7. ASSUME NEW k \in Posts, Unflag(k)
      PROVE  RowChanges(l)
  <2>1. row' = [row EXCEPT ![k] = [row[k] EXCEPT !.flagged = FALSE]] /\ row[k].flagged
    BY <1>7, RowWritten DEF Unflag
  <2> DEFINE x == [row[k] EXCEPT !.flagged = FALSE]
  <2>2. /\ x \in ListingRow /\ x.status = row[k].status
        /\ x.enquiries = row[k].enquiries /\ x.views = row[k].views
    BY <1>0, RowParts
  <2>3. (k = l => row'[l] = x) /\ (k # l => row'[l] = row[l])
    BY <2>1, <2>2, OneRowWritten
  <2>4. row[k] # Blank
    BY <1>0, <2>1
  <2> QED
    BY <1>7, <2>2, <2>3, <2>4 DEF RowChanges, SameCounts
<1>8. ASSUME NEW a \in Amends, NEW status \in Shown, AmendSave(a, status)
      PROVE  RowChanges(l)
  <2>1. row' = [row EXCEPT ![Amended[a]] = [held[a] EXCEPT !.status = status]]
    BY <1>8, RowWritten
  <2> DEFINE x == [held[a] EXCEPT !.status = status]
  <2>2. /\ x \in ListingRow /\ x.status = status /\ x.flagged = held[a].flagged
        /\ x.enquiries = held[a].enquiries /\ x.views = held[a].views
    BY RowParts DEF CatTypeInv
  <2>3. (Amended[a] = l => row'[l] = x) /\ (Amended[a] # l => row'[l] = row[l])
    BY <2>1, <2>2, OneRowWritten, RequestKinds
  <2> QED
    BY <1>8, <2>2, <2>3 DEF RowChanges
<1>9. ASSUME NEW q \in Enquiries, AskCount(q)
      PROVE  RowChanges(l)
  <2> DEFINE x == [row[About[q]] EXCEPT !.enquiries = seen[q] + 1]
  <2>1. row' = [row EXCEPT ![About[q]] = x]
    BY <1>9, RowWritten
  <2>2. seen[q] + 1 \in Nat
    BY DEF CatTypeInv
  <2>3. /\ x \in ListingRow /\ x.status = row[About[q]].status /\ x.flagged = row[About[q]].flagged
        /\ x.enquiries = seen[q] + 1 /\ x.views = row[About[q]].views
    <3>1. row[About[q]] \in ListingRow
      BY <1>0, RequestKinds
    <3> QED
      BY <2>2, <3>1, CountParts
  <2>4. (About[q] = l => row'[l] = x) /\ (About[q] # l => row'[l] = row[l])
    BY <2>1, <2>3, OneRowWritten, RequestKinds
  <2>5. CASE About[q] = l
    <3>1. /\ AskCount(q) /\ About[q] = l
          /\ row'[l].status = row[l].status /\ row'[l].flagged = row[l].flagged
          /\ row'[l].enquiries = seen[q] + 1 /\ row'[l].views = row[l].views
      BY <1>9, <2>3, <2>4, <2>5
    <3> QED
      BY <3>1 DEF RowChanges
  <2> QED
    BY <2>4, <2>5 DEF RowChanges
<1>10. ASSUME NEW v \in Looks, Look(v)
       PROVE  RowChanges(l)
  <2> DEFINE k == Watched[v]
             x == [row[k] EXCEPT !.views = row[k].views + 1]
  <2>1. row' = [row EXCEPT ![k] = x] /\ k \in Posts
    BY <1>10, RowWritten, RequestKinds
  <2>2. row[k].views + 1 \in Nat
    BY <1>0, <2>1, RowParts
  <2>3. /\ x \in ListingRow /\ x.status = row[k].status /\ x.flagged = row[k].flagged
        /\ x.views = row[k].views + 1 /\ x.enquiries = row[k].enquiries
    <3>1. row[k] \in ListingRow
      BY <1>0, <2>1
    <3> QED
      BY <2>2, <3>1, CountParts
  <2>4. (k = l => row'[l] = x) /\ (k # l => row'[l] = row[l])
    BY <2>1, <2>3, OneRowWritten
  <2>5. CASE k = l
    <3>1. /\ Look(v) /\ Watched[v] = l
          /\ row'[l].status = row[l].status /\ row'[l].flagged = row[l].flagged
          /\ row'[l].enquiries = row[l].enquiries /\ row'[l].views = row[l].views + 1
      BY <1>10, <2>3, <2>4, <2>5
    <3> QED
      BY <3>1 DEF RowChanges
  <2> QED
    BY <2>4, <2>5 DEF RowChanges
<1>11. ASSUME NEW b \in Buys, NEW status \in {"active", "sold"}, BuySave(b, status)
       PROVE  RowChanges(l)
  <2> DEFINE k == Bought[b]
             x == [row[k] EXCEPT !.status = status]
  <2>1. row' = [row EXCEPT ![k] = x] /\ k \in Posts
    BY <1>11, RowWritten, RequestKinds
  <2>2. /\ x \in ListingRow /\ x.status = status /\ x.flagged = row[k].flagged
        /\ x.enquiries = row[k].enquiries /\ x.views = row[k].views
    <3>1. row[k] \in ListingRow /\ status \in Shown
      BY <1>0, <2>1 DEF Shown
    <3> QED
      BY <3>1, RowParts
  <2>3. (k = l => row'[l] = x) /\ (k # l => row'[l] = row[l])
    BY <2>1, <2>2, OneRowWritten
  <2>4. CASE k = l
    <3>1. /\ BuySave(b, status) /\ Bought[b] = l
          /\ row'[l].status = status /\ row'[l].flagged = row[l].flagged /\ SameCounts(l)
      BY <1>11, <2>2, <2>3, <2>4 DEF SameCounts
    <3> QED
      BY <3>1 DEF RowChanges
  <2> QED
    BY <2>3, <2>4 DEF RowChanges
<1> QED
  BY <1>1, <1>2, <1>3, <1>4, <1>5, <1>6, <1>7, <1>8, <1>9, <1>10, <1>11 DEF CatNext, CatReads

\* A request moves by a step of its own view only.
Moved(r) == \E state : Goes(r, state)

LEMMA WhoMoves ==
  /\ \A l \in Posts : PostCheck(l) \/ PostSave(l) \/ StockListing(l) => Moved(l)
  /\ \A l \in Posts, when \in {"hour", "month", "older"} : StockDate(l, when) => Moved(l)
  /\ \A a \in Amends : AmendRead(a) => Moved(a)
  /\ \A a \in Amends, status \in Shown : AmendSave(a, status) => Moved(a)
  /\ \A b \in Buys : BuyRead(b) \/ BuyRefuse(b) => Moved(b)
  /\ \A b \in Buys, status \in {"active", "sold"} : BuySave(b, status) => Moved(b)
  /\ \A q \in Enquiries : AskCheck(q) \/ AskSave(q) \/ AskCount(q) \/ AskDie(q) \/ Respond(q) => Moved(q)
  /\ \A v \in Looks : Look(v) => Moved(v)
  /\ \A i \in Pictures : AddCheck(i) \/ AddClear(i) \/ AddSave(i) \/ StockPicture(i) => Moved(i)
  /\ \A t \in Toggles : MarkFind(t) \/ MarkDelete(t) => Moved(t)
<1>1. \A l \in Posts : PostCheck(l) \/ PostSave(l) \/ StockListing(l) => Moved(l)
  BY DEF PostCheck, PostSave, StockListing, Moved
<1>2. \A l \in Posts, when \in {"hour", "month", "older"} : StockDate(l, when) => Moved(l)
  BY DEF StockDate, Moved
<1>3. \A a \in Amends : AmendRead(a) => Moved(a)
  BY DEF AmendRead, Moved
<1>4. \A a \in Amends, status \in Shown : AmendSave(a, status) => Moved(a)
  BY DEF AmendSave, Moved
<1>5. \A q \in Enquiries : AskCheck(q) \/ AskSave(q) \/ AskCount(q) \/ AskDie(q) \/ Respond(q) => Moved(q)
  BY DEF AskCheck, AskSave, AskCount, AskDie, Respond, Moved
<1>6. \A v \in Looks : Look(v) => Moved(v)
  BY DEF Look, Moved
<1>7. \A i \in Pictures : AddCheck(i) \/ AddClear(i) \/ AddSave(i) \/ StockPicture(i) => Moved(i)
  BY DEF AddCheck, AddClear, AddSave, StockPicture, Moved
<1>8. \A t \in Toggles : MarkFind(t) \/ MarkDelete(t) => Moved(t)
  BY DEF MarkFind, MarkDelete, Moved
<1>9. \A b \in Buys : BuyRead(b) \/ BuyRefuse(b) => Moved(b)
  BY DEF BuyRead, BuyRefuse, Moved
<1>10. \A b \in Buys, status \in {"active", "sold"} : BuySave(b, status) => Moved(b)
  BY DEF BuySave, Moved
<1> QED
  BY <1>1, <1>2, <1>3, <1>4, <1>5, <1>6, <1>7, <1>8, <1>9, <1>10

LEMMA OthersStay ==
  ASSUME DOMAIN step = Requests, NEW r \in Requests, Moved(r)
  PROVE  \A o \in Requests : o # r => step'[o] = step[o]
BY GoesTo DEF Moved

LEMMA StepMoves ==
  ASSUME CatTypeInv, [CatNext]_catVars
  PROVE  /\ \A l \in Posts : \/ step'[l] = step[l] \/ PostCheck(l) \/ PostSave(l) \/ StockListing(l)
                             \/ \E when \in {"hour", "month", "older"} : StockDate(l, when)
         /\ \A a \in Amends : \/ step'[a] = step[a] \/ AmendRead(a)
                              \/ \E status \in Shown : AmendSave(a, status)
         /\ \A b \in Buys : \/ step'[b] = step[b] \/ BuyRead(b) \/ BuyRefuse(b)
                            \/ \E status \in {"active", "sold"} : BuySave(b, status)
         /\ \A q \in Enquiries : \/ step'[q] = step[q] \/ AskCheck(q) \/ AskSave(q) \/ AskCount(q)
                                 \/ AskDie(q) \/ Respond(q)
         /\ \A v \in Looks : step'[v] = step[v] \/ Look(v)
         /\ \A i \in Pictures : \/ step'[i] = step[i] \/ AddCheck(i) \/ AddClear(i) \/ AddSave(i)
                                \/ StockPicture(i)
         /\ \A t \in Toggles : step'[t] = step[t] \/ MarkFind(t) \/ MarkDelete(t)
<1>0. DOMAIN step = Requests
  BY DEF CatTypeInv
<1>1. ASSUME NEW l \in Posts, \/ PostCheck(l) \/ PostSave(l) \/ StockListing(l)
                              \/ \E when \in {"hour", "month", "older"} : StockDate(l, when)
      PROVE  \A o \in Requests : o # l => step'[o] = step[o]
  BY <1>0, <1>1, WhoMoves, OthersStay, RequestKinds
<1>2. ASSUME NEW a \in Amends, AmendRead(a) \/ \E status \in Shown : AmendSave(a, status)
      PROVE  \A o \in Requests : o # a => step'[o] = step[o]
  BY <1>0, <1>2, WhoMoves, OthersStay, RequestKinds
<1>3. ASSUME NEW q \in Enquiries, AskCheck(q) \/ AskSave(q) \/ AskCount(q) \/ AskDie(q) \/ Respond(q)
      PROVE  \A o \in Requests : o # q => step'[o] = step[o]
  BY <1>0, <1>3, WhoMoves, OthersStay, RequestKinds
<1>4. ASSUME NEW v \in Looks, Look(v)
      PROVE  \A o \in Requests : o # v => step'[o] = step[o]
  BY <1>0, <1>4, WhoMoves, OthersStay, RequestKinds
<1>5. ASSUME NEW i \in Pictures, AddCheck(i) \/ AddClear(i) \/ AddSave(i) \/ StockPicture(i)
      PROVE  \A o \in Requests : o # i => step'[o] = step[o]
  BY <1>0, <1>5, WhoMoves, OthersStay, RequestKinds
<1>6. ASSUME NEW t \in Toggles, MarkFind(t) \/ MarkDelete(t)
      PROVE  \A o \in Requests : o # t => step'[o] = step[o]
  BY <1>0, <1>6, WhoMoves, OthersStay, RequestKinds
<1>7. CASE \/ \E l \in Posts : TakeDown(l) \/ GrowOlder(l) \/ SweepSpam(l) \/ Unflag(l)
           \/ \E i \in Pictures : DeletePicture(i)
           \/ PauseOld \/ (\E s \in Sellers : SweepOften(s)) \/ UNCHANGED catVars
  BY <1>7 DEF TakeDown, GrowOlder, SweepSpam, Unflag, DeletePicture, PauseOld, SweepOften, catVars
<1>8. ASSUME NEW b \in Buys,
             BuyRead(b) \/ BuyRefuse(b) \/ \E status \in {"active", "sold"} : BuySave(b, status)
      PROVE  \A o \in Requests : o # b => step'[o] = step[o]
  BY <1>0, <1>8, WhoMoves, OthersStay, RequestKinds
<1> QED
  BY <1>1, <1>2, <1>3, <1>4, <1>5, <1>6, <1>7, <1>8, RequestKinds DEF CatNext

\* A listing whose post has not been saved is blank, and whoever is busy with a listing
\* is busy with one that has been made.
Unmade(l) == step[l] \in {"never", "due", "checked", "refused"}

MadeInv ==
    /\ CatTypeInv
    /\ \A l \in Posts : Unmade(l) => row[l] = Blank
    /\ \A a \in Amends : step[a] = "read" => Listed(Amended[a])
    /\ \A b \in Buys : step[b] = "read" => Listed(Bought[b])
    /\ \A q \in Enquiries : step[q] \in {"checked", "saved"} \/ q \in asked => Listed(About[q])
    /\ \A v \in Looks : step[v] = "done" => Listed(Watched[v])

LEMMA MadeInit == CatInit => MadeInv
<1> SUFFICES ASSUME CatInit PROVE MadeInv
  OBVIOUS
<1>1. \A r \in Requests : step[r] \in {"due", "never"}
  BY DEF CatInit
<1>2. \A l \in Posts : row[l] = Blank
  BY DEF CatInit
<1>3. asked = {}
  BY DEF CatInit
<1> QED
  BY <1>1, <1>2, <1>3, CatTypeInit, RequestKinds DEF MadeInv

LEMMA ListedStays ==
  ASSUME MadeInv, [CatNext]_catVars, NEW l \in Posts, Listed(l)
  PROVE  Listed(l)'
<1>1. RowChanges(l) /\ row[l].status # "none"
  BY RowChange DEF MadeInv, Listed
<1>2. row'[l].status # "none"
  BY <1>1, NewRows DEF RowChanges, Shown
<1> QED
  BY <1>2 DEF Listed

LEMMA UnmadeStays ==
  ASSUME MadeInv, [CatNext]_catVars, NEW l \in Posts, Unmade(l)'
  PROVE  Unmade(l) /\ row'[l] = row[l]
<1>0. CatTypeInv /\ DOMAIN step = Requests /\ l \in Requests
  BY RequestKinds DEF MadeInv, CatTypeInv
<1>1. Unmade(l) /\ ~PostSave(l) /\ ~StockListing(l)
  <2>1. /\ PostSave(l) => Goes(l, "done")
        /\ StockListing(l) => Goes(l, "stocked")
        /\ \A when \in {"hour", "month", "older"} : StockDate(l, when) => Goes(l, "dated")
        /\ PostCheck(l) => step[l] = "due"
    BY DEF PostSave, StockListing, StockDate, PostCheck
  <2>2. ~PostSave(l) /\ ~StockListing(l)
        /\ \A when \in {"hour", "month", "older"} : ~StockDate(l, when)
    BY <1>0, <2>1, GoesTo DEF Unmade
  <2> QED
    BY <1>0, <2>1, <2>2, StepMoves DEF Unmade
<1>2. row[l] = Blank /\ ~Listed(l)
  BY <1>1, NewRows DEF MadeInv, Listed
<1>3. /\ \A a \in Amends, status \in Shown : AmendSave(a, status) => Listed(Amended[a])
      /\ \A b \in Buys, status \in {"active", "sold"} : BuySave(b, status) => Listed(Bought[b])
      /\ \A q \in Enquiries : AskCount(q) => Listed(About[q])
      /\ \A v \in Looks : Look(v) => Listed(Watched[v])
  BY DEF MadeInv, AmendSave, BuySave, AskCount, Look, Listed
<1>4. RowChanges(l)
  BY <1>0, RowChange
<1> QED
  BY <1>1, <1>2, <1>3, <1>4 DEF RowChanges

LEMMA MadeStep == MadeInv /\ [CatNext]_catVars => MadeInv'
<1> SUFFICES ASSUME MadeInv, [CatNext]_catVars PROVE MadeInv'
  OBVIOUS
<1>0. CatTypeInv /\ DOMAIN step = Requests
  BY DEF MadeInv, CatTypeInv
<1>1. CatTypeInv'
  BY <1>0, CatTypeStep
<1>2. ASSUME NEW l \in Posts, Unmade(l)'
      PROVE  row'[l] = Blank
  BY <1>2, UnmadeStays DEF MadeInv
<1>3. ASSUME NEW a \in Amends, step'[a] = "read"
      PROVE  Listed(Amended[a])'
  <2>1. AmendRead(a) => Listed(Amended[a])
    BY DEF AmendRead
  <2>2. \A status \in Shown : ~AmendSave(a, status)
    BY <1>0, <1>3, GoesTo, RequestKinds DEF AmendSave
  <2>3. Listed(Amended[a])
    BY <1>0, <1>3, <2>1, <2>2, StepMoves DEF MadeInv
  <2> QED
    BY <2>3, ListedStays, RequestKinds
<1>4. ASSUME NEW q \in Enquiries, step'[q] \in {"checked", "saved"} \/ q \in asked'
      PROVE  Listed(About[q])'
  <2>1. AskCheck(q) => Listed(About[q])
    BY DEF AskCheck
  <2>2. AskSave(q) \/ AskCount(q) => step[q] \in {"checked", "saved"}
    BY DEF AskSave, AskCount
  <2>3. /\ AskDie(q) => Goes(q, "dead")
        /\ Respond(q) => Goes(q, "responded")
    BY DEF AskDie, Respond
  <2>4. q \in asked' => q \in asked \/ AskSave(q)
    BY DEF CatNext, PostCheck, PostSave, TakeDown, GrowOlder, SweepSpam, Unflag, StockListing, StockDate,
           AmendRead, AmendSave, BuyRead, BuyRefuse, BuySave,
           AskCheck, AskSave, AskCount, AskDie, Respond, Look, AddCheck, AddClear,
           AddSave, DeletePicture, StockPicture, MarkFind, MarkDelete, PauseOld, SweepOften, catVars, countVars
  <2>5. CASE q \in asked \/ AskSave(q)
    BY <2>2, <2>5, ListedStays, RequestKinds DEF MadeInv
  <2>6. CASE step'[q] \in {"checked", "saved"}
    <3>1. ~AskDie(q) /\ ~Respond(q)
      BY <1>0, <2>3, <2>6, GoesTo, RequestKinds
    <3>2. Listed(About[q])
      BY <1>0, <2>1, <2>2, <2>6, <3>1, StepMoves DEF MadeInv
    <3> QED
      BY <3>2, ListedStays, RequestKinds
  <2> QED
    BY <1>4, <2>4, <2>5, <2>6
<1>5. ASSUME NEW v \in Looks, step'[v] = "done"
      PROVE  Listed(Watched[v])'
  <2>1. Look(v) => Listed(Watched[v])
    BY DEF Look, Listed
  <2>2. Listed(Watched[v])
    BY <1>0, <1>5, <2>1, StepMoves DEF MadeInv
  <2> QED
    BY <2>2, ListedStays, RequestKinds
<1>6. ASSUME NEW b \in Buys, step'[b] = "read"
      PROVE  Listed(Bought[b])'
  <2>1. BuyRead(b) => Listed(Bought[b])
    BY DEF BuyRead
  <2>2. ~BuyRefuse(b) /\ \A status \in {"active", "sold"} : ~BuySave(b, status)
    BY <1>0, <1>6, GoesTo, RequestKinds DEF BuyRefuse, BuySave
  <2>3. Listed(Bought[b])
    BY <1>0, <1>6, <2>1, <2>2, StepMoves DEF MadeInv
  <2> QED
    BY <2>3, ListedStays, RequestKinds
<1> QED
  BY <1>1, <1>2, <1>3, <1>4, <1>5, <1>6 DEF MadeInv

\* A flag goes only by the hand of staff, or by an edit that had read the listing before.
THEOREM FlagsStay == CatSpec => FlagStays
<1>1. ASSUME MadeInv, [CatNext]_catVars, NEW l \in Posts, row[l].flagged, ~row'[l].flagged
      PROVE  \/ Unflag(l)
             \/ \E a \in Amends : /\ Amended[a] = l /\ ~held[a].flagged
                                  /\ step[a] = "read" /\ step'[a] = "done"
  <2>1. RowChanges(l) /\ CatTypeInv /\ DOMAIN step = Requests
    BY <1>1, RowChange DEF MadeInv, CatTypeInv
  <2>2. ~PostSave(l) /\ ~StockListing(l)
    BY <1>1, NewRows DEF PostSave, StockListing, MadeInv, Unmade, Blank
  <2>3. ASSUME NEW a \in Amends, NEW status \in Shown, AmendSave(a, status)
        PROVE  step[a] = "read" /\ step'[a] = "done"
    BY <2>1, <2>3, GoesTo, RequestKinds DEF AmendSave
  <2> QED
    BY <1>1, <2>1, <2>2, <2>3 DEF RowChanges
<1>2. MadeInv /\ [CatNext]_catVars =>
        [\A l \in Posts :
           row[l].flagged /\ ~row'[l].flagged =>
             \/ Unflag(l)
             \/ \E a \in Amends : /\ Amended[a] = l /\ ~held[a].flagged
                                  /\ step[a] = "read" /\ step'[a] = "done"]_catVars
  BY <1>1
<1> QED
  BY <1>2, MadeInit, MadeStep, PTL DEF CatSpec, FlagStays

-----------------------------------------------------------------------------
(* Catalogue: the limit on active listings *)

Checked(s) == {l \in Posts : Poster[l] = s /\ step[l] = "checked"}

LimitInv ==
    /\ MadeInv
    /\ \A s \in Sellers \ crowded :
         /\ IsFiniteSet(ActiveOf(s)) /\ Cardinality(ActiveOf(s)) <= MaxActive
         /\ \A l \in Checked(s) : /\ Cardinality(ActiveOf(s)) < MaxActive
                                  /\ \A k \in Checked(s) : k = l

LEMMA LimitInit == CatInit => LimitInv
<1> SUFFICES ASSUME CatInit PROVE LimitInv
  OBVIOUS
<1>1. \A s \in Sellers : ActiveOf(s) = {}
  BY NewRows DEF CatInit, ActiveOf
<1>2. \A s \in Sellers : Checked(s) = {}
  BY RequestKinds DEF CatInit, Checked
<1>3. MaxActive \in Nat
  BY CatalogueAssumption
<1>4. IsFiniteSet({}) /\ Cardinality({}) = 0 /\ 0 <= MaxActive
  BY <1>3, FS_EmptySet
<1>5. MadeInv
  BY MadeInit
<1> QED
  BY <1>1, <1>2, <1>4, <1>5 DEF LimitInv

\* Which listings of a seller are active, and which posts have passed the check.
LEMMA ActiveMoves ==
  ASSUME MadeInv, [CatNext]_catVars, NEW s \in Sellers \ crowded'
  PROVE  /\ s \notin crowded
         /\ ActiveOf(s)' \subseteq ActiveOf(s) \cup {l \in Checked(s) : PostSave(l)}
         /\ Checked(s)' \subseteq Checked(s) \cup {l \in Posts : Poster[l] = s /\ PostCheck(l) /\ MayPost(s)}
<1>0. CatTypeInv /\ DOMAIN step = Requests
  BY DEF MadeInv, CatTypeInv
<1>1. s \notin crowded /\ s \in Sellers
  BY DEF CatNext, PostCheck, PostSave, TakeDown, GrowOlder, SweepSpam, Unflag, StockListing, StockDate,
         AmendRead, AmendSave, BuyRead, BuyRefuse, BuySave,
         AskCheck, AskSave, AskCount, AskDie, Respond, Look, AddCheck, AddClear,
         AddSave, DeletePicture, StockPicture, MarkFind, MarkDelete, PauseOld, SweepOften, catVars
<1>2. ASSUME NEW l \in Posts, Poster[l] = s, row'[l].status = "active", row[l].status # "active"
      PROVE  PostSave(l) /\ step[l] = "checked"
  <2>1. RowChanges(l)
    BY <1>0, RowChange
  <2>2. ~StockListing(l)
    BY <1>2 DEF StockListing
  <2>3. \A a \in Amends, status \in Shown :
          ~(AmendSave(a, status) /\ Amended[a] = l /\ row'[l].status = status)
    BY <1>2 DEF AmendSave
  <2>4. \A b \in Buys, status \in {"active", "sold"} :
          ~(BuySave(b, status) /\ Bought[b] = l /\ row'[l].status = status)
    BY <1>2 DEF BuySave
  <2>5. PostSave(l)
    BY <1>2, <2>1, <2>2, <2>3, <2>4 DEF RowChanges
  <2> QED
    BY <2>5 DEF PostSave
<1>3. ASSUME NEW l \in Posts, Poster[l] = s, step'[l] = "checked", step[l] # "checked"
      PROVE  PostCheck(l) /\ MayPost(s)
  <2>1. /\ PostSave(l) => Goes(l, "done")
        /\ StockListing(l) => Goes(l, "stocked")
        /\ \A when \in {"hour", "month", "older"} : StockDate(l, when) => Goes(l, "dated")
        /\ PostCheck(l) => Goes(l, IF MayPost(s) THEN "checked" ELSE "refused")
    BY <1>3 DEF PostSave, StockListing, StockDate, PostCheck
  <2>2. PostCheck(l)
    BY <1>0, <1>3, <2>1, StepMoves, GoesTo, RequestKinds
  <2> QED
    BY <1>0, <1>3, <2>1, <2>2, GoesTo, RequestKinds
<1>4. ActiveOf(s)' = {l \in Posts : Poster[l] = s /\ row'[l].status = "active"}
  BY DEF ActiveOf
<1>5. Checked(s)' = {l \in Posts : Poster[l] = s /\ step'[l] = "checked"}
  BY DEF Checked
<1>6. ActiveOf(s)' \subseteq ActiveOf(s) \cup {l \in Checked(s) : PostSave(l)}
  BY <1>2, <1>4 DEF ActiveOf, Checked
<1>7. Checked(s)' \subseteq Checked(s) \cup {l \in Posts : Poster[l] = s /\ PostCheck(l) /\ MayPost(s)}
  BY <1>3, <1>5 DEF Checked
<1> QED
  BY <1>1, <1>6, <1>7

LEMMA LimitStep == LimitInv /\ [CatNext]_catVars => LimitInv'
<1> SUFFICES ASSUME LimitInv, [CatNext]_catVars PROVE LimitInv'
  OBVIOUS
<1>0. MadeInv /\ CatTypeInv /\ DOMAIN step = Requests /\ MaxActive \in Nat
  BY CatalogueAssumption DEF LimitInv, MadeInv, CatTypeInv
<1>1. MadeInv'
  BY <1>0, MadeStep
<1>2. ASSUME NEW s \in Sellers \ crowded'
      PROVE  /\ IsFiniteSet(ActiveOf(s)') /\ Cardinality(ActiveOf(s)') <= MaxActive
             /\ \A l \in Checked(s)' : /\ Cardinality(ActiveOf(s)') < MaxActive
                                       /\ \A k \in Checked(s)' : k = l
  <2> DEFINE A == ActiveOf(s)  B == ActiveOf(s)'
             C == Checked(s)   D == Checked(s)'
             New == {l \in Posts : Poster[l] = s /\ PostCheck(l) /\ MayPost(s)}
  <2>0. /\ IsFiniteSet(A) /\ Cardinality(A) <= MaxActive /\ Cardinality(A) \in Nat
        /\ \A l \in C : Cardinality(A) < MaxActive /\ \A k \in C : k = l
    <3>1. s \in Sellers \ crowded
      BY <1>0, ActiveMoves
    <3> QED
      BY <3>1, FS_CardinalityType DEF LimitInv
  <2>1. B \subseteq A \cup {l \in C : PostSave(l)} /\ D \subseteq C \cup New
    BY <1>0, ActiveMoves
  <2>2. \A l \in D : Poster[l] = s /\ step'[l] = "checked" /\ l \in Posts
    BY DEF Checked
  <2>3. CASE \E l \in C : PostSave(l)
    <3>1. PICK l \in C : PostSave(l)
      BY <2>3
    <3>2. l \in Posts /\ Poster[l] = s /\ step[l] = "checked" /\ step'[l] = "done"
      BY <1>0, <3>1, GoesTo, RequestKinds DEF Checked, PostSave
    <3>3. B \subseteq A \cup {l}
      BY <2>0, <2>1, <3>1
    <3>4. IsFiniteSet(A \cup {l}) /\ Cardinality(A \cup {l}) <= Cardinality(A) + 1
      BY <2>0, FS_AddElement
    <3>5. IsFiniteSet(B) /\ Cardinality(B) <= Cardinality(A \cup {l}) /\ Cardinality(B) \in Nat
          /\ Cardinality(A \cup {l}) \in Nat
      BY <3>3, <3>4, FS_Subset, FS_CardinalityType
    <3>6. New = {}
      BY <1>0, <3>1, <3>2, GoesTo, RequestKinds DEF PostCheck
    <3>7. D = {}
      BY <2>0, <2>1, <2>2, <3>1, <3>2, <3>6
    <3>8. Cardinality(B) <= MaxActive
      BY <1>0, <2>0, <3>1, <3>4, <3>5
    <3> QED
      BY <3>5, <3>7, <3>8
  <2>4. CASE ~\E l \in C : PostSave(l)
    <3>1. B \subseteq A
      BY <2>1, <2>4
    <3>2. IsFiniteSet(B) /\ Cardinality(B) <= Cardinality(A) /\ Cardinality(B) \in Nat
      BY <2>0, <3>1, FS_Subset, FS_CardinalityType
    <3>3. Cardinality(B) <= MaxActive
      BY <1>0, <2>0, <3>2
    <3>4. CASE New = {}
      <4>1. ASSUME NEW l \in D
            PROVE  Cardinality(B) < MaxActive /\ \A k \in D : k = l
        <5>1. l \in C /\ \A k \in D : k \in C
          BY <2>1, <3>4
        <5> QED
          BY <1>0, <2>0, <3>2, <5>1
      <4> QED
        BY <3>2, <3>3, <4>1
    <3>5. CASE New # {}
      <4>1. PICK n \in Posts : Poster[n] = s /\ PostCheck(n) /\ MayPost(s)
        BY <3>5
      <4>2. step[n] = "due" /\ Moved(n) /\ n \in Requests
        BY <4>1, WhoMoves, RequestKinds DEF PostCheck
      <4>3. C = {}
        BY <4>1, <4>2 DEF PostCheck, Checked
      <4>4. \A l \in D : l = n
        BY <1>0, <2>2, <4>2, <4>3, OthersStay, RequestKinds DEF Checked
      <4>5. Cardinality(A) < MaxActive
        BY <4>1 DEF MayPost
      <4>6. Cardinality(B) < MaxActive
        BY <1>0, <2>0, <3>2, <4>5
      <4> QED
        BY <3>2, <3>3, <4>4, <4>6
    <3> QED
      BY <3>4, <3>5
  <2> QED
    BY <2>3, <2>4
<1> QED
  BY <1>1, <1>2 DEF LimitInv

\* A seller keeps to the limit unless two posts were under way at once, an edit or a
\* purchase brought a listing back, or the command stocked the market.
THEOREM LimitHolds == CatSpec => []ActiveWithinLimit
<1>1. LimitInv => ActiveWithinLimit
  BY DEF LimitInv, ActiveWithinLimit
<1> QED
  BY <1>1, LimitInit, LimitStep, PTL DEF CatSpec

-----------------------------------------------------------------------------
(* Catalogue: the counts of enquiries and visits *)

Counted(l) == {q \in asked : About[q] = l /\ step[q] # "saved"}
Visits(l)  == {v \in Looks : Watched[v] = l /\ step[v] = "done"}

Current(l) ==
    /\ \A q \in Enquiries : About[q] = l /\ step[q] \in {"checked", "saved"} =>
         seen[q] = row[l].enquiries
    /\ \A a \in Amends : Amended[a] = l /\ step[a] = "read" =>
         held[a].enquiries = row[l].enquiries /\ held[a].views = row[l].views

\* Of a listing that is not miscounted the requests under way know the counts there are.
CountInv ==
    /\ MadeInv
    /\ \A q \in Enquiries : /\ q \in asked => step[q] \in {"saved", "done", "responded", "dead"}
                            /\ step[q] = "saved" => q \in asked
    /\ \A l \in Posts \ miscounted :
         /\ IsFiniteSet(Counted(l)) /\ row[l].enquiries = Cardinality(Counted(l))
         /\ IsFiniteSet(Visits(l)) /\ row[l].views = Cardinality(Visits(l))
         /\ Current(l)

LEMMA CountInit == CatInit => CountInv
<1> SUFFICES ASSUME CatInit PROVE CountInv
  OBVIOUS
<1>1. MadeInv
  BY MadeInit
<1>2. \A r \in Requests : step[r] \in {"due", "never"}
  BY DEF CatInit
<1>3. \A l \in Posts : row[l] = Blank
  BY DEF CatInit
<1>4. asked = {}
  BY DEF CatInit
<1>5. \A l \in Posts : Counted(l) = {} /\ Visits(l) = {} /\ Current(l)
  BY <1>2, <1>4, RequestKinds DEF Counted, Visits, Current
<1>6. \A q \in Enquiries : q \notin asked /\ step[q] # "saved"
  BY <1>2, <1>4, RequestKinds
<1>7. Blank.enquiries = 0 /\ Blank.views = 0
  BY DEF Blank
<1> QED
  BY <1>1, <1>3, <1>5, <1>6, <1>7, FS_EmptySet DEF CountInv

\* What a step changes besides the rows and the requests.
LEMMA CountWrites ==
  ASSUME CatTypeInv, [CatNext]_catVars
  PROVE  /\ \A q \in Enquiries : /\ q \in asked => q \in asked'
                                 /\ q \in asked' => q \in asked \/ AskSave(q)
                                 /\ seen'[q] = seen[q] \/ AskCheck(q)
         /\ \A a \in Amends : held'[a] = held[a] \/ AmendRead(a)
         /\ miscounted \subseteq miscounted' /\ asked' \subseteq Enquiries
<1>1. CatTypeInv'
  BY CatTypeStep
<1>2. ASSUME NEW l \in Posts, \/ PostCheck(l) \/ PostSave(l) \/ TakeDown(l) \/ GrowOlder(l)
                              \/ SweepSpam(l) \/ Unflag(l) \/ StockListing(l)
                              \/ \E when \in {"hour", "month", "older"} : StockDate(l, when)
      PROVE  UNCHANGED <<asked, seen, held>> /\ miscounted \subseteq miscounted'
  BY <1>2 DEF PostCheck, PostSave, TakeDown, GrowOlder, SweepSpam, Unflag, StockListing, StockDate, countVars
<1>3. ASSUME NEW a \in Amends, AmendRead(a) \/ \E status \in Shown : AmendSave(a, status)
      PROVE  /\ UNCHANGED <<asked, seen, miscounted>>
             /\ \A b \in Amends : held'[b] = held[b] \/ AmendRead(b)
  BY <1>3 DEF AmendRead, AmendSave, countVars, CatTypeInv
<1>4. ASSUME NEW q \in Enquiries, AskCheck(q) \/ AskSave(q) \/ AskCount(q) \/ AskDie(q) \/ Respond(q)
      PROVE  /\ UNCHANGED held /\ miscounted \subseteq miscounted'
             /\ \A o \in Enquiries : /\ o \in asked => o \in asked'
                                     /\ o \in asked' => o \in asked \/ AskSave(o)
                                     /\ seen'[o] = seen[o] \/ AskCheck(o)
  <2>1. CASE AskCheck(q)
    <3>1. UNCHANGED <<held, asked, miscounted>> /\ seen \in [Enquiries -> Nat]
      BY <2>1 DEF AskCheck, CatTypeInv
    <3>2. seen' = [seen EXCEPT ![q] = row[About[q]].enquiries] \/ UNCHANGED seen
      BY <2>1 DEF AskCheck
    <3> QED
      BY <2>1, <3>1, <3>2
  <2>2. CASE AskSave(q)
    BY <2>2 DEF AskSave
  <2>3. CASE AskCount(q) \/ AskDie(q) \/ Respond(q)
    BY <2>3 DEF AskCount, AskDie, Respond, Miscount, countVars
  <2> QED
    BY <1>4, <2>1, <2>2, <2>3
<1>5. ASSUME NEW v \in Looks, Look(v)
      PROVE  UNCHANGED <<asked, seen, held>> /\ miscounted \subseteq miscounted'
  BY <1>5 DEF Look, Miscount
<1>6. ASSUME NEW i \in Pictures,
             AddCheck(i) \/ AddClear(i) \/ AddSave(i) \/ DeletePicture(i) \/ StockPicture(i)
      PROVE  UNCHANGED <<asked, seen, held, miscounted>>
  BY <1>6 DEF AddCheck, AddClear, AddSave, DeletePicture, StockPicture, countVars
<1>7. ASSUME NEW t \in Toggles, MarkFind(t) \/ MarkDelete(t)
      PROVE  UNCHANGED <<asked, seen, held, miscounted>>
  BY <1>7 DEF MarkFind, MarkDelete, countVars
<1>8. ASSUME PauseOld \/ (\E s \in Sellers : SweepOften(s)) \/ UNCHANGED catVars
      PROVE  UNCHANGED <<asked, seen, held, miscounted>>
  BY <1>8 DEF PauseOld, SweepOften, countVars, catVars
<1>9. asked' \subseteq Enquiries
  BY <1>1 DEF CatTypeInv, CatalogueTypeOK
<1>10. ASSUME NEW b \in Buys,
              BuyRead(b) \/ BuyRefuse(b) \/ \E status \in {"active", "sold"} : BuySave(b, status)
       PROVE  UNCHANGED <<asked, seen, held, miscounted>>
  BY <1>10 DEF BuyRead, BuyRefuse, BuySave, countVars
<1> QED
  BY <1>2, <1>3, <1>4, <1>5, <1>6, <1>7, <1>8, <1>9, <1>10 DEF CatNext

\* Where the step of an enquiry leads.
LEMMA AskLeads ==
  ASSUME CatTypeInv, NEW q \in Enquiries
  PROVE  /\ AskCheck(q) => step[q] = "due" /\ step'[q] \in {"checked", "refused"}
         /\ AskCheck(q) /\ step'[q] = "checked" => seen'[q] = row[About[q]].enquiries
         /\ AskSave(q) => step[q] = "checked" /\ step'[q] = "saved" /\ q \in asked'
         /\ AskCount(q) => step[q] = "saved" /\ step'[q] = "done"
         /\ AskDie(q) => /\ step[q] \in {"checked", "saved"} /\ step'[q] = "dead"
                         /\ step[q] = "saved" => About[q] \in miscounted'
         /\ Respond(q) => step[q] = "done" /\ step'[q] = "responded"
<1>1. DOMAIN step = Requests /\ q \in Requests /\ seen \in [Enquiries -> Nat]
  BY RequestKinds DEF CatTypeInv
<1>2. /\ AskCheck(q) => step[q] = "due" /\ step'[q] \in {"checked", "refused"}
      /\ AskCheck(q) /\ step'[q] = "checked" => seen'[q] = row[About[q]].enquiries
  BY <1>1, GoesTo DEF AskCheck
<1>3. AskSave(q) => step[q] = "checked" /\ step'[q] = "saved" /\ q \in asked'
  BY <1>1, GoesTo DEF AskSave
<1>4. AskCount(q) => step[q] = "saved" /\ step'[q] = "done"
  BY <1>1, GoesTo DEF AskCount
<1>5. AskDie(q) => /\ step[q] \in {"checked", "saved"} /\ step'[q] = "dead"
                   /\ step[q] = "saved" => About[q] \in miscounted'
  BY <1>1, GoesTo DEF AskDie, Miscount
<1>6. Respond(q) => step[q] = "done" /\ step'[q] = "responded"
  BY <1>1, GoesTo DEF Respond
<1> QED
  BY <1>2, <1>3, <1>4, <1>5, <1>6

\* Who is counted, and who is under way, after a step.
LEMMA CountMoves ==
  ASSUME CountInv, [CatNext]_catVars, NEW l \in Posts \ miscounted'
  PROVE  /\ l \notin miscounted
         /\ Counted(l)' = Counted(l) \cup {q \in Enquiries : About[q] = l /\ AskCount(q)}
         /\ Visits(l)' = Visits(l) \cup {v \in Looks : Watched[v] = l /\ Look(v)}
         /\ \A q \in Enquiries : About[q] = l /\ step'[q] \in {"checked", "saved"} =>
              \/ seen'[q] = row[l].enquiries /\ step[q] = "due"
              \/ seen'[q] = seen[q] /\ step[q] \in {"checked", "saved"}
         /\ \A a \in Amends : Amended[a] = l /\ step'[a] = "read" =>
              \/ held'[a] = row[l] /\ step[a] = "due"
              \/ held'[a] = held[a] /\ step[a] = "read"
<1>0. CatTypeInv /\ DOMAIN step = Requests /\ CountInv
  BY DEF CountInv, MadeInv, CatTypeInv
<1>1. l \notin miscounted
  BY <1>0, CountWrites
<1>2. ASSUME NEW q \in Enquiries, About[q] = l
      PROVE  q \in Counted(l)' <=> q \in Counted(l) \/ AskCount(q)
  <2>1. q \in Counted(l)' <=> q \in asked' /\ step'[q] # "saved"
    BY <1>2 DEF Counted
  <2>2. q \in Counted(l) <=> q \in asked /\ step[q] # "saved"
    BY <1>2 DEF Counted
  <2>3. /\ q \in asked => step[q] \in {"saved", "done", "responded", "dead"}
        /\ step[q] = "saved" => q \in asked
    BY DEF CountInv
  <2>4. /\ q \in asked => q \in asked'
        /\ q \in asked' => q \in asked \/ AskSave(q)
    BY <1>0, CountWrites
  <2>5. step'[q] = step[q] \/ AskCheck(q) \/ AskSave(q) \/ AskCount(q) \/ AskDie(q) \/ Respond(q)
    BY <1>0, StepMoves
  <2> QED
    BY <1>0, <1>2, <2>1, <2>2, <2>3, <2>4, <2>5, AskLeads
<1>3. Counted(l)' = Counted(l) \cup {q \in Enquiries : About[q] = l /\ AskCount(q)}
  <2>1. \A q \in Counted(l)' : q \in Enquiries /\ About[q] = l
    BY <1>0, CountWrites DEF Counted
  <2>2. \A q \in Counted(l) : q \in Enquiries /\ About[q] = l
    BY <1>0 DEF Counted, CatTypeInv, CatalogueTypeOK
  <2> QED
    BY <1>2, <2>1, <2>2
<1>4. ASSUME NEW v \in Looks
      PROVE  step'[v] = "done" <=> step[v] = "done" \/ Look(v)
  <2>1. Look(v) => step'[v] = "done"
    BY <1>0, GoesTo, RequestKinds DEF Look
  <2> QED
    BY <1>0, <2>1, StepMoves DEF Look
<1>5. Visits(l)' = Visits(l) \cup {v \in Looks : Watched[v] = l /\ Look(v)}
  BY <1>4 DEF Visits
<1>6. ASSUME NEW q \in Enquiries, About[q] = l, step'[q] \in {"checked", "saved"}
      PROVE  \/ seen'[q] = row[l].enquiries /\ step[q] = "due"
             \/ seen'[q] = seen[q] /\ step[q] \in {"checked", "saved"}
  <2>1. step'[q] = step[q] \/ AskCheck(q) \/ AskSave(q) \/ AskCount(q) \/ AskDie(q) \/ Respond(q)
    BY <1>0, StepMoves
  <2>2. seen'[q] = seen[q] \/ AskCheck(q)
    BY <1>0, CountWrites
  <2> QED
    BY <1>0, <1>6, <2>1, <2>2, AskLeads
<1>7. ASSUME NEW a \in Amends, Amended[a] = l, step'[a] = "read"
      PROVE  \/ held'[a] = row[l] /\ step[a] = "due"
             \/ held'[a] = held[a] /\ step[a] = "read"
  <2>1. AmendRead(a) => held'[a] = row[l] /\ step[a] = "due"
    BY <1>0, <1>7 DEF AmendRead, CatTypeInv
  <2>2. \A status \in Shown : ~AmendSave(a, status)
    BY <1>0, <1>7, GoesTo, RequestKinds DEF AmendSave
  <2> QED
    BY <1>0, <1>7, <2>1, <2>2, StepMoves, CountWrites
<1> QED
  BY <1>1, <1>3, <1>5, <1>6, <1>7

\* A count moves on: no other request may be under way with the old one.
LEMMA AskCountAlone ==
  ASSUME CountInv, [CatNext]_catVars, NEW l \in Posts \ miscounted',
         NEW q \in Enquiries, AskCount(q), About[q] = l
  PROVE  /\ row'[l].enquiries = seen[q] + 1 /\ row'[l].views = row[l].views
         /\ step[q] = "saved" /\ \A v \in Looks : ~Look(v)
         /\ \A o \in Enquiries : AskCount(o) => o = q
         /\ Current(l)'
<1>0. CatTypeInv /\ DOMAIN step = Requests /\ l \in Posts /\ q \in Requests /\ step[q] = "saved"
  BY RequestKinds DEF CountInv, MadeInv, CatTypeInv, AskCount
<1>1. \A o \in Requests : o # q => step'[o] = step[o]
  BY <1>0, WhoMoves, OthersStay
<1>2. step'[q] = "done"
  BY <1>0, AskLeads
<1>3. /\ {o \in Enquiries \ {q} : About[o] = l /\ step[o] \in {"checked", "saved"}} = {}
      /\ ~Editing(l)
  BY DEF AskCount, Miscount
<1>4. \A o \in Enquiries : About[o] = l => ~(step'[o] \in {"checked", "saved"})
  BY <1>1, <1>2, <1>3, RequestKinds
<1>5. \A a \in Amends : Amended[a] = l => step'[a] # "read"
  BY <1>1, <1>3, RequestKinds DEF Editing
<1>6. Current(l)'
  BY <1>4, <1>5 DEF Current
<1>7. \A o \in Enquiries : AskCount(o) => o = q
  BY <1>0, <1>1, AskLeads, RequestKinds
<1>8. \A v \in Looks : ~Look(v)
  BY <1>0, <1>1, GoesTo, RequestKinds DEF Look
<1>9. row'[l].enquiries = seen[q] + 1 /\ row'[l].views = row[l].views
  <2>1. row' = [row EXCEPT ![l] = [row[l] EXCEPT !.enquiries = seen[q] + 1]]
    BY <1>0, RowWritten
  <2>2. row[l] \in ListingRow /\ seen[q] + 1 \in Nat
    BY <1>0 DEF CatTypeInv, CatalogueTypeOK, ListingRow
  <2> DEFINE x == [row[l] EXCEPT !.enquiries = seen[q] + 1]
  <2>3. x \in ListingRow /\ x.enquiries = seen[q] + 1 /\ x.views = row[l].views
    BY <2>2, CountParts
  <2>4. row'[l] = x
    BY <1>0, <2>1, <2>3, OneRowWritten
  <2> QED
    BY <2>3, <2>4
<1> QED
  BY <1>0, <1>6, <1>7, <1>8, <1>9

LEMMA LookAlone ==
  ASSUME CountInv, [CatNext]_catVars, NEW l \in Posts \ miscounted',
         NEW v \in Looks, Look(v), Watched[v] = l
  PROVE  /\ row'[l].views = row[l].views + 1 /\ row'[l].enquiries = row[l].enquiries
         /\ step[v] = "due" /\ \A q \in Enquiries : ~AskCount(q)
         /\ \A w \in Looks : Look(w) => w = v
         /\ Current(l)'
<1>0. /\ CatTypeInv /\ DOMAIN step = Requests /\ l \in Posts /\ v \in Requests /\ step[v] = "due"
      /\ step'[v] = "done" /\ seen' = seen
  <2>1. CatTypeInv /\ DOMAIN step = Requests /\ v \in Requests
    BY RequestKinds DEF CountInv, MadeInv, CatTypeInv
  <2> QED
    BY <2>1, GoesTo DEF Look
<1>1. \A o \in Requests : o # v => step'[o] = step[o]
  BY <1>0, WhoMoves, OthersStay
<1>2. l \notin miscounted /\ Current(l)
  BY <1>0, CountWrites DEF CountInv
<1>3. ~Editing(l)
  BY DEF Look, Miscount
<1>4. row'[l].views = row[l].views + 1 /\ row'[l].enquiries = row[l].enquiries
  <2> DEFINE x == [row[l] EXCEPT !.views = row[l].views + 1]
  <2>1. row' = [row EXCEPT ![l] = x]
    BY <1>0, RowWritten
  <2>2. row[l] \in ListingRow
    BY <1>0 DEF CatTypeInv, CatalogueTypeOK, ListingRow
  <2>3. row[l].views + 1 \in Nat
    BY <2>2, RowParts
  <2>4. x \in ListingRow /\ x.views = row[l].views + 1 /\ x.enquiries = row[l].enquiries
    BY <2>2, <2>3, CountParts
  <2>5. row'[l] = x
    BY <1>0, <2>1, <2>4, OneRowWritten
  <2> QED
    BY <2>4, <2>5
<1>5. \A q \in Enquiries : step'[q] = step[q] /\ seen'[q] = seen[q]
  BY <1>0, <1>1, RequestKinds
<1>6. \A a \in Amends : Amended[a] = l => step'[a] # "read"
  BY <1>1, <1>3, RequestKinds DEF Editing
<1>7. Current(l)'
  BY <1>2, <1>4, <1>5, <1>6 DEF Current
<1>8. \A w \in Looks : Look(w) => w = v
  <2>1. \A w \in Looks : Look(w) => step[w] = "due" /\ step'[w] = "done"
    BY <1>0, GoesTo, RequestKinds DEF Look
  <2> QED
    BY <1>1, <2>1, RequestKinds
<1>9. \A q \in Enquiries : ~AskCount(q)
  BY <1>0, <1>5, AskLeads
<1> QED
  BY <1>0, <1>4, <1>7, <1>8, <1>9

LEMMA CountsKept ==
  ASSUME CountInv, [CatNext]_catVars, NEW l \in Posts \ miscounted',
         \A q \in Enquiries : ~(AskCount(q) /\ About[q] = l),
         \A v \in Looks : ~(Look(v) /\ Watched[v] = l)
  PROVE  SameCounts(l)
<1>0. CatTypeInv /\ l \in Posts /\ l \notin miscounted /\ RowChanges(l)
  BY CountWrites, RowChange DEF CountInv, MadeInv
<1>1. CASE PostSave(l) /\ row'[l] = Fresh
  <2>1. row[l] = Blank
    BY <1>1 DEF PostSave, CountInv, MadeInv, Unmade
  <2> QED
    BY <1>1, <2>1 DEF SameCounts, Blank, Fresh
<1>2. ~StockListing(l)
  BY DEF StockListing
<1>3. ASSUME NEW a \in Amends, NEW status \in Shown, AmendSave(a, status), Amended[a] = l
      PROVE  held[a].enquiries = row[l].enquiries /\ held[a].views = row[l].views
  BY <1>0, <1>3 DEF AmendSave, CountInv, Current
<1> QED
  BY <1>0, <1>1, <1>2, <1>3 DEF RowChanges, SameCounts

LEMMA CountStep == CountInv /\ [CatNext]_catVars => CountInv'
<1> SUFFICES ASSUME CountInv, [CatNext]_catVars PROVE CountInv'
  OBVIOUS
<1>0. MadeInv /\ CatTypeInv
  BY DEF CountInv, MadeInv
<1>1. MadeInv'
  BY <1>0, MadeStep
<1>2. ASSUME NEW q \in Enquiries
      PROVE  /\ q \in asked' => step'[q] \in {"saved", "done", "responded", "dead"}
             /\ step'[q] = "saved" => q \in asked'
  <2>1. /\ q \in asked => step[q] \in {"saved", "done", "responded", "dead"}
        /\ step[q] = "saved" => q \in asked
    BY DEF CountInv
  <2>2. /\ q \in asked => q \in asked'
        /\ q \in asked' => q \in asked \/ AskSave(q)
    BY <1>0, CountWrites
  <2>3. step'[q] = step[q] \/ AskCheck(q) \/ AskSave(q) \/ AskCount(q) \/ AskDie(q) \/ Respond(q)
    BY <1>0, StepMoves
  <2> QED
    BY <1>0, <2>1, <2>2, <2>3, AskLeads
<1>3. ASSUME NEW l \in Posts \ miscounted'
      PROVE  /\ IsFiniteSet(Counted(l)') /\ row'[l].enquiries = Cardinality(Counted(l)')
             /\ IsFiniteSet(Visits(l)') /\ row'[l].views = Cardinality(Visits(l)')
             /\ Current(l)'
  <2>1. /\ l \notin miscounted /\ l \in Posts
        /\ Counted(l)' = Counted(l) \cup {q \in Enquiries : About[q] = l /\ AskCount(q)}
        /\ Visits(l)' = Visits(l) \cup {v \in Looks : Watched[v] = l /\ Look(v)}
    BY CountMoves
  <2>2. /\ IsFiniteSet(Counted(l)) /\ row[l].enquiries = Cardinality(Counted(l))
        /\ IsFiniteSet(Visits(l)) /\ row[l].views = Cardinality(Visits(l))
        /\ Current(l)
    BY <2>1 DEF CountInv
  <2>3. CASE \E q \in Enquiries : AskCount(q) /\ About[q] = l
    <3>1. PICK q \in Enquiries : AskCount(q) /\ About[q] = l
      BY <2>3
    <3>2. /\ row'[l].enquiries = seen[q] + 1 /\ row'[l].views = row[l].views
          /\ step[q] = "saved" /\ \A v \in Looks : ~Look(v)
          /\ \A o \in Enquiries : AskCount(o) => o = q
          /\ Current(l)'
      BY <3>1, AskCountAlone
    <3>3. Counted(l)' = Counted(l) \cup {q} /\ Visits(l)' = Visits(l)
      BY <2>1, <3>1, <3>2
    <3>4. q \notin Counted(l) /\ seen[q] = row[l].enquiries
      BY <2>2, <3>1, <3>2 DEF Counted, Current
    <3>5. /\ IsFiniteSet(Counted(l) \cup {q})
          /\ Cardinality(Counted(l) \cup {q}) = Cardinality(Counted(l)) + 1
      BY <2>2, <3>4, FS_AddElement
    <3> QED
      BY <2>2, <3>2, <3>3, <3>4, <3>5
  <2>4. CASE \E v \in Looks : Look(v) /\ Watched[v] = l
    <3>1. PICK v \in Looks : Look(v) /\ Watched[v] = l
      BY <2>4
    <3>2. /\ row'[l].views = row[l].views + 1 /\ row'[l].enquiries = row[l].enquiries
          /\ step[v] = "due" /\ \A q \in Enquiries : ~AskCount(q)
          /\ \A w \in Looks : Look(w) => w = v
          /\ Current(l)'
      BY <3>1, LookAlone
    <3>3. Visits(l)' = Visits(l) \cup {v} /\ Counted(l)' = Counted(l)
      BY <2>1, <3>1, <3>2
    <3>4. v \notin Visits(l)
      BY <3>2 DEF Visits
    <3>5. /\ IsFiniteSet(Visits(l) \cup {v})
          /\ Cardinality(Visits(l) \cup {v}) = Cardinality(Visits(l)) + 1
      BY <2>2, <3>4, FS_AddElement
    <3> QED
      BY <2>2, <3>2, <3>3, <3>5
  <2>5. CASE /\ \A q \in Enquiries : ~(AskCount(q) /\ About[q] = l)
             /\ \A v \in Looks : ~(Look(v) /\ Watched[v] = l)
    <3>1. SameCounts(l)
      BY <2>5, CountsKept
    <3>2. Counted(l)' = Counted(l) /\ Visits(l)' = Visits(l)
      BY <2>1, <2>5
    <3>3. Current(l)'
      <4>1. ASSUME NEW q \in Enquiries, About[q] = l, step'[q] \in {"checked", "saved"}
            PROVE  seen'[q] = row'[l].enquiries
        BY <2>2, <3>1, <4>1, CountMoves DEF Current, SameCounts
      <4>2. ASSUME NEW a \in Amends, Amended[a] = l, step'[a] = "read"
            PROVE  held'[a].enquiries = row'[l].enquiries /\ held'[a].views = row'[l].views
        BY <2>2, <3>1, <4>2, CountMoves DEF Current, SameCounts
      <4> QED
        BY <4>1, <4>2 DEF Current
    <3> QED
      BY <2>2, <3>1, <3>2, <3>3 DEF SameCounts
  <2> QED
    BY <2>3, <2>4, <2>5
<1> QED
  BY <1>1, <1>2, <1>3 DEF CountInv

\* The counters of a listing are right unless one was invented, overtaken or lost.
THEOREM CountersHold == CatSpec => []CountersAreExact
<1>1. CountInv => CountersAreExact
  BY DEF CountInv, CountersAreExact, Counted, Visits
<1> QED
  BY <1>1, CountInit, CountStep, PTL DEF CatSpec

-----------------------------------------------------------------------------
(* Catalogue: the pictures of a listing *)

Adders(l)   == {i \in Pictures : Pictured[i] = l /\ step[i] \in {"checked", "cleared"}}
CoversOf(l) == PicturesOf(l) \cap covers

\* One picture is added at a time, there is room for it, and no cover is left for a
\* primary one that is about to be saved.
Tidy(l) ==
    /\ IsFiniteSet(PicturesOf(l)) /\ Cardinality(PicturesOf(l)) <= MaxPictures
    /\ \A x, y \in CoversOf(l) : x = y
    /\ \A i \in Adders(l) :
         /\ Cardinality(PicturesOf(l)) < MaxPictures /\ \A k \in Adders(l) : k = i
         /\ step[i] = "cleared" /\ i \in Primary => CoversOf(l) = {}

AlbumInv ==
    /\ CatTypeInv /\ covers \subseteq Primary
    /\ \A i \in Pictures : i \in album => step[i] = "done"
    /\ \A l \in Posts \ jostled : Tidy(l)

LEMMA AlbumInit == CatInit => AlbumInv
<1> SUFFICES ASSUME CatInit PROVE AlbumInv
  OBVIOUS
<1>1. CatTypeInv
  BY CatTypeInit
<1>2. album = {} /\ covers = {}
  BY DEF CatInit
<1>3. \A l \in Posts : PicturesOf(l) = {} /\ CoversOf(l) = {} /\ Adders(l) = {}
  BY RequestKinds DEF CatInit, PicturesOf, CoversOf, Adders
<1>4. IsFiniteSet({}) /\ Cardinality({}) = 0 /\ 0 <= MaxPictures
  BY FS_EmptySet, CatalogueAssumption
<1>5. \A l \in Posts : Tidy(l)
  BY <1>3, <1>4 DEF Tidy
<1> QED
  BY <1>1, <1>2, <1>5 DEF AlbumInv

LEMMA TidyKept ==
  ASSUME NEW l \in Posts, Tidy(l), MaxPictures \in Nat,
         PicturesOf(l)' \subseteq PicturesOf(l), CoversOf(l)' \subseteq CoversOf(l),
         \A i \in Pictures : Pictured[i] = l => step'[i] = step[i]
  PROVE  Tidy(l)'
<1>1. Adders(l)' = Adders(l)
  BY DEF Adders
<1>2. /\ IsFiniteSet(PicturesOf(l)') /\ Cardinality(PicturesOf(l)') <= Cardinality(PicturesOf(l))
      /\ Cardinality(PicturesOf(l)') \in Nat /\ Cardinality(PicturesOf(l)) \in Nat
  BY FS_Subset, FS_CardinalityType DEF Tidy
<1>3. Cardinality(PicturesOf(l)') <= MaxPictures
  BY <1>2 DEF Tidy
<1>4. \A i \in Adders(l)' : i \in Adders(l) /\ step'[i] = step[i]
  BY <1>1 DEF Adders
<1>5. ASSUME NEW i \in Adders(l)'
      PROVE  /\ Cardinality(PicturesOf(l)') < MaxPictures /\ \A k \in Adders(l)' : k = i
             /\ step'[i] = "cleared" /\ i \in Primary => CoversOf(l)' = {}
  <2>1. /\ Cardinality(PicturesOf(l)) < MaxPictures /\ \A k \in Adders(l) : k = i
        /\ step[i] = "cleared" /\ i \in Primary => CoversOf(l) = {}
    BY <1>1, <1>5 DEF Tidy
  <2>2. Cardinality(PicturesOf(l)') < MaxPictures
    BY <1>2, <2>1
  <2> QED
    BY <1>1, <1>4, <1>5, <2>1, <2>2
<1>6. \A x, y \in CoversOf(l)' : x = y
  BY DEF Tidy
<1> QED
  BY <1>2, <1>3, <1>5, <1>6 DEF Tidy

\* The steps about one picture.
LEMMA PictureSteps ==
  ASSUME CatTypeInv, NEW i \in Pictures
  PROVE  /\ AddCheck(i) => step[i] = "due" /\ step'[i] \in {"refused", "checked", "cleared"}
         /\ AddCheck(i) /\ step'[i] = "cleared" => i \notin Primary
         /\ AddClear(i) => step[i] = "checked" /\ step'[i] = "cleared"
         /\ AddSave(i) => step[i] = "cleared" /\ step'[i] = "done"
         /\ StockPicture(i) => step[i] = "due" /\ step'[i] = "done"
<1>1. DOMAIN step = Requests /\ i \in Requests
  BY RequestKinds DEF CatTypeInv
<1>2. /\ AddCheck(i) => step[i] = "due" /\ step'[i] \in {"refused", "checked", "cleared"}
      /\ AddCheck(i) /\ step'[i] = "cleared" => i \notin Primary
  BY <1>1, GoesTo DEF AddCheck
<1>3. AddClear(i) => step[i] = "checked" /\ step'[i] = "cleared"
  BY <1>1, GoesTo DEF AddClear
<1>4. AddSave(i) => step[i] = "cleared" /\ step'[i] = "done"
  BY <1>1, GoesTo DEF AddSave
<1>5. StockPicture(i) => step[i] = "due" /\ step'[i] = "done"
  BY <1>1, GoesTo DEF StockPicture
<1> QED
  BY <1>2, <1>3, <1>4, <1>5

\* The other steps leave the pictures alone.
LEMMA PicturesRest ==
  ASSUME CatTypeInv, [CatNext]_catVars,
         \A i \in Pictures : /\ ~AddCheck(i) /\ ~AddClear(i) /\ ~AddSave(i)
                             /\ ~DeletePicture(i) /\ ~StockPicture(i)
  PROVE  UNCHANGED <<album, covers, jostled>> /\ \A i \in Pictures : step'[i] = step[i]
<1>1. \A i \in Pictures : step'[i] = step[i]
  BY StepMoves
<1>2. UNCHANGED <<album, covers, jostled>>
  BY DEF CatNext, PostCheck, PostSave, TakeDown, GrowOlder, SweepSpam, Unflag, StockListing, StockDate,
         AmendRead, AmendSave, BuyRead, BuyRefuse, BuySave,
         AskCheck, AskSave, AskCount, AskDie, Respond, Look, MarkFind, MarkDelete,
         PauseOld, SweepOften, catVars, pictureVars
<1> QED
  BY <1>1, <1>2

PictureStep(i) == AddCheck(i) \/ AddClear(i) \/ AddSave(i) \/ DeletePicture(i) \/ StockPicture(i)

LEMMA PictureFrame ==
  ASSUME CatTypeInv, NEW i \in Pictures, PictureStep(i)
  PROVE  /\ jostled \subseteq jostled'
         /\ \A k \in Pictures : k # i => step'[k] = step[k]
         /\ DeletePicture(i) => step'[i] = step[i]
         /\ \A k : k # i => (k \in album' <=> k \in album) /\ (k \in covers' => k \in covers)
         /\ \A k : k # i /\ Pictured[k] # Pictured[i] => (k \in covers' <=> k \in covers)
<1>1. DOMAIN step = Requests
  BY DEF CatTypeInv
<1>2. jostled \subseteq jostled'
  BY DEF PictureStep, AddCheck, AddClear, AddSave, DeletePicture, StockPicture
<1>3. CASE DeletePicture(i)
  BY <1>2, <1>3 DEF DeletePicture
<1>4. CASE AddCheck(i) \/ AddClear(i) \/ AddSave(i) \/ StockPicture(i)
  <2>1. \A k \in Pictures : k # i => step'[k] = step[k]
    BY <1>1, <1>4, WhoMoves, OthersStay, RequestKinds
  <2>2. /\ \A k : k # i => (k \in album' <=> k \in album) /\ (k \in covers' => k \in covers)
        /\ \A k : k # i /\ Pictured[k] # Pictured[i] => (k \in covers' <=> k \in covers)
    BY <1>4 DEF AddCheck, AddClear, AddSave, StockPicture, Demoted, PicturesOf
  <2>3. ~DeletePicture(i) \/ step' = step
    BY DEF DeletePicture
  <2> QED
    BY <1>2, <2>1, <2>2, <2>3
<1> QED
  BY <1>3, <1>4 DEF PictureStep

LEMMA TidyElsewhere ==
  ASSUME AlbumInv, NEW i \in Pictures, PictureStep(i), NEW l \in Posts \ jostled', Pictured[i] # l
  PROVE  Tidy(l)'
<1>1. CatTypeInv /\ l \in Posts \ jostled /\ MaxPictures \in Nat
  BY PictureFrame, CatalogueAssumption DEF AlbumInv
<1>2. Tidy(l)
  BY <1>1 DEF AlbumInv
<1>3. PicturesOf(l)' \subseteq PicturesOf(l)
  BY <1>1, PictureFrame DEF PicturesOf
<1>4. CoversOf(l)' \subseteq CoversOf(l)
  BY <1>1, <1>3, PictureFrame DEF CoversOf, PicturesOf
<1>5. \A k \in Pictures : Pictured[k] = l => step'[k] = step[k]
  BY <1>1, PictureFrame
<1> QED
  BY <1>1, <1>2, <1>3, <1>4, <1>5, TidyKept

LEMMA TidyCheck ==
  ASSUME AlbumInv, NEW i \in Pictures, AddCheck(i), NEW l \in Posts \ jostled', Pictured[i] = l
  PROVE  Tidy(l)'
<1>1. /\ CatTypeInv /\ DOMAIN step = Requests /\ l \in Posts \ jostled /\ PictureStep(i)
      /\ i \in Requests
  BY PictureFrame, RequestKinds DEF AlbumInv, CatTypeInv, PictureStep
<1>2. Tidy(l)
  BY <1>1 DEF AlbumInv
<1>3. PicturesOf(l)' = PicturesOf(l) /\ CoversOf(l)' = CoversOf(l)
  BY DEF AddCheck, PicturesOf, CoversOf
<1>4. \A k \in Pictures : k # i => step'[k] = step[k]
  BY <1>1, PictureFrame
<1>5. step[i] = "due" /\ (step'[i] = "cleared" => i \notin Primary)
  BY <1>1, PictureSteps
<1>6. CASE Cardinality(PicturesOf(l)) < MaxPictures
  <2>1. ~Adding(l, i)
    BY <1>6 DEF AddCheck
  <2>2. \A k \in Adders(l)' : k = i
    BY <1>4, <2>1 DEF Adding, Adders
  <2>3. \A k \in Adders(l)' : step'[k] = "cleared" /\ k \in Primary => CoversOf(l)' = {}
    BY <1>5, <2>2
  <2> QED
    BY <1>2, <1>3, <1>6, <2>2, <2>3 DEF Tidy
<1>7. CASE ~(Cardinality(PicturesOf(l)) < MaxPictures)
  <2>1. Goes(i, "refused")
    BY <1>7 DEF AddCheck
  <2>2. step'[i] = "refused"
    BY <1>1, <2>1, GoesTo
  <2>3. Adders(l)' \subseteq Adders(l) /\ i \notin Adders(l)'
    BY <1>4, <1>5, <2>2 DEF Adders
  <2>4. \A k \in Adders(l)' : step'[k] = step[k]
    BY <1>4, <2>3 DEF Adders
  <2> QED
    BY <1>2, <1>3, <2>3, <2>4 DEF Tidy
<1> QED
  BY <1>6, <1>7

LEMMA TidyClear ==
  ASSUME AlbumInv, NEW i \in Pictures, AddClear(i), NEW l \in Posts \ jostled', Pictured[i] = l
  PROVE  Tidy(l)'
<1>1. CatTypeInv /\ l \in Posts \ jostled /\ PictureStep(i)
  BY PictureFrame DEF AlbumInv, PictureStep
<1>2. Tidy(l)
  BY <1>1 DEF AlbumInv
<1>3. PicturesOf(l)' = PicturesOf(l) /\ CoversOf(l)' = {}
  BY DEF AddClear, PicturesOf, CoversOf, Demoted
<1>4. \A k \in Pictures : k # i => step'[k] = step[k]
  BY <1>1, PictureFrame
<1>5. step[i] = "checked" /\ step'[i] = "cleared"
  BY <1>1, PictureSteps
<1>6. Adders(l)' = Adders(l)
  BY <1>4, <1>5 DEF Adders
<1> QED
  BY <1>2, <1>3, <1>6 DEF Tidy

LEMMA TidySave ==
  ASSUME AlbumInv, NEW i \in Pictures, AddSave(i), NEW l \in Posts \ jostled', Pictured[i] = l
  PROVE  Tidy(l)'
<1>1. CatTypeInv /\ l \in Posts \ jostled /\ PictureStep(i) /\ MaxPictures \in Nat
  BY PictureFrame, CatalogueAssumption DEF AlbumInv, PictureStep
<1>2. Tidy(l)
  BY <1>1 DEF AlbumInv
<1>3. step[i] = "cleared" /\ step'[i] = "done"
  BY <1>1, PictureSteps
<1>4. /\ i \in Adders(l) /\ Cardinality(PicturesOf(l)) < MaxPictures
      /\ \A k \in Adders(l) : k = i
      /\ i \in Primary => CoversOf(l) = {}
  BY <1>2, <1>3 DEF Tidy, Adders
<1>5. \A k \in Pictures : k # i => step'[k] = step[k]
  BY <1>1, PictureFrame
<1>6. Adders(l)' = {}
  BY <1>3, <1>4, <1>5 DEF Adders
<1>7. PicturesOf(l)' = PicturesOf(l) \cup {i}
  BY DEF AddSave, PicturesOf
<1>8. /\ IsFiniteSet(PicturesOf(l)') /\ Cardinality(PicturesOf(l)') <= Cardinality(PicturesOf(l)) + 1
      /\ Cardinality(PicturesOf(l)) \in Nat
  <2>1. IsFiniteSet(PicturesOf(l))
    BY <1>2 DEF Tidy
  <2>2. Cardinality(PicturesOf(l)) \in Nat
    BY <2>1, FS_CardinalityType
  <2>3. /\ IsFiniteSet(PicturesOf(l) \cup {i})
        /\ Cardinality(PicturesOf(l) \cup {i}) =
             IF i \in PicturesOf(l) THEN Cardinality(PicturesOf(l)) ELSE Cardinality(PicturesOf(l)) + 1
    BY <2>1, FS_AddElement
  <2> QED
    BY <1>7, <2>2, <2>3
<1>9. Cardinality(PicturesOf(l)') <= MaxPictures
  BY <1>1, <1>4, <1>7, <1>8, FS_CardinalityType
<1>10. i \notin covers
  BY <1>3 DEF AlbumInv, CatTypeInv, CatalogueTypeOK
<1>11. covers' = covers \cup ({i} \cap Primary)
  BY DEF AddSave
<1>12. CoversOf(l)' = IF i \in Primary THEN {i} ELSE CoversOf(l)
  <2>1. CASE i \in Primary
    <3>1. covers' = covers \cup {i} /\ CoversOf(l) = {}
      BY <1>4, <1>11, <2>1
    <3>2. CoversOf(l)' = (PicturesOf(l) \cup {i}) \cap (covers \cup {i})
      BY <1>7, <3>1 DEF CoversOf
    <3> QED
      BY <2>1, <3>1, <3>2 DEF CoversOf
  <2>2. CASE i \notin Primary
    BY <1>7, <1>10, <1>11, <2>2 DEF CoversOf
  <2> QED
    BY <2>1, <2>2
<1>13. \A x, y \in CoversOf(l)' : x = y
  BY <1>2, <1>12 DEF Tidy
<1> QED
  BY <1>6, <1>8, <1>9, <1>13 DEF Tidy

LEMMA TidyStock ==
  ASSUME AlbumInv, NEW i \in Pictures, StockPicture(i), NEW l \in Posts \ jostled', Pictured[i] = l
  PROVE  Tidy(l)'
<1>1. CatTypeInv /\ PictureStep(i) /\ MaxPictures \in Nat /\ i \in Supplied
  BY CatalogueAssumption DEF AlbumInv, PictureStep, StockPicture
<1>2. ~Adding(l, i) /\ PicturesOf(l) \subseteq Supplied
  BY DEF StockPicture
<1>3. step'[i] = "done" /\ \A k \in Pictures : k # i => step'[k] = step[k]
  BY <1>1, PictureFrame, PictureSteps
<1>4. Adders(l)' = {}
  BY <1>2, <1>3 DEF Adders, Adding
<1> DEFINE Theirs == {k \in Supplied : Pictured[k] = l}
<1>5. PicturesOf(l)' \subseteq Theirs
  BY <1>1, <1>2 DEF StockPicture, PicturesOf
<1>6. IsFiniteSet(Theirs) /\ Cardinality(Theirs) <= MaxPictures
  <2>1. IsFiniteSet(Supplied) /\ Theirs \subseteq Supplied
    BY SuppliesAssumption
  <2>2. IsFiniteSet(Theirs)
    BY <2>1, FS_Subset
  <2> QED
    BY <2>2, SuppliesAssumption
<1>7. IsFiniteSet(PicturesOf(l)') /\ Cardinality(PicturesOf(l)') <= MaxPictures
  <2>1. /\ IsFiniteSet(PicturesOf(l)') /\ Cardinality(PicturesOf(l)') <= Cardinality(Theirs)
    BY <1>5, <1>6, FS_Subset
  <2>2. Cardinality(PicturesOf(l)') \in Nat /\ Cardinality(Theirs) \in Nat
    BY <1>6, <2>1, FS_CardinalityType
  <2> QED
    BY <1>1, <1>6, <2>1, <2>2
<1>8. covers' \subseteq Primary
  BY DEF AlbumInv, StockPicture
<1>9. \A x, y \in CoversOf(l)' : x = y
  BY <1>5, <1>8, SuppliesAssumption DEF CoversOf
<1> QED
  BY <1>4, <1>7, <1>9 DEF Tidy

LEMMA AlbumStep == AlbumInv /\ [CatNext]_catVars => AlbumInv'
<1> SUFFICES ASSUME AlbumInv, [CatNext]_catVars PROVE AlbumInv'
  OBVIOUS
<1>0. CatTypeInv /\ MaxPictures \in Nat
  BY CatalogueAssumption DEF AlbumInv
<1>1. CatTypeInv'
  BY <1>0, CatTypeStep
<1>2. CASE \E i \in Pictures : PictureStep(i)
  <2>1. PICK i \in Pictures : PictureStep(i)
    BY <1>2
  <2>2. covers' \subseteq Primary
    BY <2>1 DEF AlbumInv, PictureStep, AddCheck, AddClear, AddSave, DeletePicture, StockPicture
  <2>3. ASSUME NEW k \in Pictures, k \in album'
        PROVE  step'[k] = "done"
    <3>1. CASE k # i
      BY <1>0, <2>1, <2>3, <3>1, PictureFrame DEF AlbumInv
    <3>2. CASE k = i
      <4>1. CASE AddSave(i) \/ StockPicture(i)
        BY <1>0, <3>2, <4>1, PictureSteps
      <4>2. CASE AddCheck(i) \/ AddClear(i)
        BY <1>0, <2>3, <3>2, <4>2, PictureSteps DEF AlbumInv, AddCheck, AddClear
      <4>3. CASE DeletePicture(i)
        BY <2>3, <3>2, <4>3 DEF DeletePicture
      <4> QED
        BY <2>1, <4>1, <4>2, <4>3 DEF PictureStep
    <3> QED
      BY <3>1, <3>2
  <2>4. ASSUME NEW l \in Posts \ jostled'
        PROVE  Tidy(l)'
    <3>1. CASE Pictured[i] # l
      BY <2>1, <3>1, TidyElsewhere
    <3>2. CASE Pictured[i] = l /\ DeletePicture(i)
      <4>1. l \in Posts \ jostled
        BY <1>0, <2>1, PictureFrame
      <4>2. Tidy(l)
        BY <4>1 DEF AlbumInv
      <4>3. PicturesOf(l)' \subseteq PicturesOf(l) /\ CoversOf(l)' \subseteq CoversOf(l)
        BY <3>2 DEF DeletePicture, PicturesOf, CoversOf
      <4>4. \A k \in Pictures : step'[k] = step[k]
        BY <3>2 DEF DeletePicture
      <4> QED
        BY <1>0, <4>2, <4>3, <4>4, TidyKept
    <3> QED
      BY <2>1, <3>1, <3>2, TidyCheck, TidyClear, TidySave, TidyStock DEF PictureStep
  <2> QED
    BY <1>1, <2>2, <2>3, <2>4 DEF AlbumInv
<1>3. CASE ~\E i \in Pictures : PictureStep(i)
  <2>1. UNCHANGED <<album, covers, jostled>> /\ \A i \in Pictures : step'[i] = step[i]
    BY <1>0, <1>3, PicturesRest DEF PictureStep
  <2>2. ASSUME NEW l \in Posts \ jostled'
        PROVE  Tidy(l)'
    <3>1. Tidy(l)
      BY <2>1 DEF AlbumInv
    <3>2. PicturesOf(l)' = PicturesOf(l) /\ CoversOf(l)' = CoversOf(l)
      BY <2>1 DEF PicturesOf, CoversOf
    <3> QED
      BY <1>0, <2>1, <3>1, <3>2, TidyKept
  <2> QED
    BY <1>1, <2>1, <2>2 DEF AlbumInv
<1> QED
  BY <1>2, <1>3

LEMMA AtMostOne ==
  ASSUME NEW S, \A x, y \in S : x = y
  PROVE  Cardinality(S) <= 1
<1>1. CASE S = {}
  BY <1>1, FS_EmptySet
<1>2. CASE S # {}
  <2>1. PICK x \in S : TRUE
    BY <1>2
  <2>2. S = {x}
    BY <2>1
  <2> QED
    BY <2>2, FS_Singleton
<1> QED
  BY <1>1, <1>2

\* A listing has one cover and few enough pictures unless two were added at once.
THEOREM OneCoverHolds == CatSpec => []OneCover
<1>1. AlbumInv => OneCover
  BY AtMostOne DEF AlbumInv, Tidy, OneCover, CoversOf
<1> QED
  BY <1>1, AlbumInit, AlbumStep, PTL DEF CatSpec

-----------------------------------------------------------------------------
(* Catalogue: bookmarks *)

Flips(t)  == {o \in Toggles : Marked[o] = Marked[t] /\ step[o] = "done"}
Unders(t) == {o \in Toggles : Marked[o] = Marked[t] /\ step[o] = "found"}

\* What has been found is the row of the bookmark, and the requests have taken turns.
Neat(t) ==
    /\ IsFiniteSet(Flips(t)) /\ (RowsFor(t) # {}) = (Cardinality(Flips(t)) % 2 = 1)
    /\ \A o \in Unders(t) : found[o] \in RowsFor(t) /\ \A p \in Unders(t) : p = o

MarkInv ==
    /\ CatTypeInv
    /\ \A m, n \in marks : Marked[m] = Marked[n] => m = n
    /\ \A t \in Toggles : step[t] = "found" => Marked[found[t]] = Marked[t]
    /\ \A t \in Toggles : Marked[t] \in muddled \/ Neat(t)

LEMMA MarkInit == CatInit => MarkInv
<1> SUFFICES ASSUME CatInit PROVE MarkInv
  OBVIOUS
<1>1. CatTypeInv
  BY CatTypeInit
<1>2. marks = {}
  BY DEF CatInit
<1>3. \A t \in Toggles : step[t] \in {"due", "never"}
  BY RequestKinds DEF CatInit
<1>4. \A t \in Toggles : Flips(t) = {} /\ Unders(t) = {} /\ RowsFor(t) = {}
  BY <1>2, <1>3 DEF Flips, Unders, RowsFor
<1>5. IsFiniteSet({}) /\ Cardinality({}) = 0 /\ ~(0 % 2 = 1)
  BY FS_EmptySet
<1>6. \A t \in Toggles : Neat(t)
  BY <1>4, <1>5 DEF Neat
<1> QED
  BY <1>1, <1>2, <1>3, <1>6 DEF MarkInv

LEMMA MarksRest ==
  ASSUME CatTypeInv, [CatNext]_catVars, \A t \in Toggles : ~MarkFind(t) /\ ~MarkDelete(t)
  PROVE  UNCHANGED <<marks, found, muddled>> /\ \A t \in Toggles : step'[t] = step[t]
<1>1. \A t \in Toggles : step'[t] = step[t]
  BY StepMoves
<1>2. UNCHANGED <<marks, found, muddled>>
  BY DEF CatNext, PostCheck, PostSave, TakeDown, GrowOlder, SweepSpam, Unflag, StockListing, StockDate,
         AmendRead, AmendSave, BuyRead, BuyRefuse, BuySave,
         AskCheck, AskSave, AskCount, AskDie, Respond, Look, AddCheck, AddClear,
         AddSave, DeletePicture, StockPicture, PauseOld, SweepOften, catVars, markVars
<1> QED
  BY <1>1, <1>2

\* The two steps of a request to save or unsave.
LEMMA MarkSteps ==
  ASSUME CatTypeInv, NEW t \in Toggles, MarkFind(t) \/ MarkDelete(t)
  PROVE  /\ \A o \in Toggles : o # t => step'[o] = step[o] /\ found'[o] = found[o]
         /\ muddled \subseteq muddled'
         /\ MarkFind(t) => /\ step[t] = "due"
                           /\ Unders(t) # {} => Marked[t] \in muddled'
         /\ MarkFind(t) /\ RowsFor(t) = {} => marks' = marks \cup {t} /\ step'[t] = "done"
         /\ MarkFind(t) /\ RowsFor(t) # {} => marks' = marks /\ step'[t] = "found" /\ found'[t] \in RowsFor(t)
         /\ MarkDelete(t) => step[t] = "found" /\ marks' = marks \ {found[t]} /\ step'[t] = "done"
<1>1. DOMAIN step = Requests /\ t \in Requests /\ found \in [Toggles -> Toggles]
  BY RequestKinds DEF CatTypeInv
<1>2. \A o \in Toggles : o # t => step'[o] = step[o]
  BY <1>1, WhoMoves, OthersStay, RequestKinds
<1>3. \A o \in Toggles : o # t => found'[o] = found[o]
  BY <1>1 DEF MarkFind, MarkDelete
<1>4. muddled \subseteq muddled'
  BY DEF MarkFind, MarkDelete
<1>5. MarkFind(t) => /\ step[t] = "due"
                     /\ Unders(t) # {} => Marked[t] \in muddled'
  BY DEF MarkFind, Unders
<1>6. MarkFind(t) /\ RowsFor(t) = {} => marks' = marks \cup {t} /\ step'[t] = "done"
  BY <1>1, GoesTo DEF MarkFind
<1>7. MarkFind(t) /\ RowsFor(t) # {} => marks' = marks /\ step'[t] = "found" /\ found'[t] \in RowsFor(t)
  BY <1>1, GoesTo DEF MarkFind
<1>8. MarkDelete(t) => step[t] = "found" /\ marks' = marks \ {found[t]} /\ step'[t] = "done"
  BY <1>1, GoesTo DEF MarkDelete
<1> QED
  BY <1>2, <1>3, <1>4, <1>5, <1>6, <1>7, <1>8

LEMMA Parity == \A n \in Nat : ((n + 1) % 2 = 1) = ~(n % 2 = 1)
  OBVIOUS

LEMMA NeatElsewhere ==
  ASSUME MarkInv, NEW t \in Toggles, MarkFind(t) \/ MarkDelete(t),
         NEW u \in Toggles, Marked[u] \notin muddled', Marked[u] # Marked[t]
  PROVE  Neat(u)'
<1>1. CatTypeInv /\ Marked[u] \notin muddled
  BY MarkSteps DEF MarkInv
<1>2. Neat(u)
  BY <1>1 DEF MarkInv
<1>3. Flips(u)' = Flips(u) /\ Unders(u)' = Unders(u)
  BY <1>1, MarkSteps DEF Flips, Unders
<1>4. \A o \in Unders(u) : found'[o] = found[o]
  BY <1>1, MarkSteps DEF Unders
<1>5. RowsFor(u)' = RowsFor(u)
  <2>1. MarkDelete(t) => Marked[found[t]] # Marked[u]
    BY <1>1, MarkSteps DEF MarkInv
  <2>2. \A m : Marked[m] = Marked[u] => (m \in marks' <=> m \in marks)
    BY <1>1, <2>1, MarkSteps
  <2> QED
    BY <2>2 DEF RowsFor
<1> QED
  BY <1>2, <1>3, <1>4, <1>5 DEF Neat

LEMMA FlipOnce ==
  ASSUME NEW u \in Toggles, Neat(u), NEW t \in Toggles, t \notin Flips(u),
         Flips(u)' = Flips(u) \cup {t}, (RowsFor(u)' # {}) = ~(RowsFor(u) # {}), Unders(u)' = {}
  PROVE  Neat(u)'
<1>1. IsFiniteSet(Flips(u)) /\ (RowsFor(u) # {}) = (Cardinality(Flips(u)) % 2 = 1)
  BY DEF Neat
<1>2. Cardinality(Flips(u)) \in Nat
  BY <1>1, FS_CardinalityType
<1>3. /\ IsFiniteSet(Flips(u) \cup {t})
      /\ Cardinality(Flips(u) \cup {t}) = Cardinality(Flips(u)) + 1
  BY <1>1, FS_AddElement
<1>4. (Cardinality(Flips(u)') % 2 = 1) = ~(Cardinality(Flips(u)) % 2 = 1)
  BY <1>2, <1>3, Parity
<1> QED
  BY <1>1, <1>3, <1>4 DEF Neat

LEMMA NeatHere ==
  ASSUME MarkInv, NEW t \in Toggles, MarkFind(t) \/ MarkDelete(t),
         NEW u \in Toggles, Marked[u] \notin muddled', Marked[u] = Marked[t]
  PROVE  Neat(u)'
<1>1. CatTypeInv /\ Marked[u] \notin muddled
  BY MarkSteps DEF MarkInv
<1>2. Neat(u)
  BY <1>1 DEF MarkInv
<1>3. Flips(u) = Flips(t) /\ Unders(u) = Unders(t) /\ RowsFor(u) = RowsFor(t)
  BY DEF Flips, Unders, RowsFor
<1>4. /\ RowsFor(u)' = {m \in marks' : Marked[m] = Marked[t]}
      /\ Flips(u)' = {o \in Toggles : Marked[o] = Marked[t] /\ step'[o] = "done"}
      /\ Unders(u)' = {o \in Toggles : Marked[o] = Marked[t] /\ step'[o] = "found"}
  BY DEF Flips, Unders, RowsFor
<1>5. \A o \in Toggles : o # t => step'[o] = step[o] /\ found'[o] = found[o]
  BY <1>1, MarkSteps
<1>6. CASE MarkFind(t) /\ RowsFor(t) = {}
  <2>1. /\ Unders(u) = {} /\ step[t] = "due" /\ step'[t] = "done"
        /\ marks' = marks \cup {t}
    BY <1>1, <1>3, <1>6, MarkSteps
  <2>2. /\ t \notin Flips(u) /\ Flips(u)' = Flips(u) \cup {t} /\ Unders(u)' = {}
        /\ RowsFor(u)' # {} /\ RowsFor(u) = {}
    BY <1>3, <1>4, <1>5, <1>6, <2>1 DEF Flips, Unders
  <2> QED
    BY <1>2, <2>2, FlipOnce
<1>7. CASE MarkFind(t) /\ RowsFor(t) # {}
  <2>1. /\ Unders(u) = {} /\ step[t] = "due" /\ step'[t] = "found"
        /\ marks' = marks /\ found'[t] \in RowsFor(t)
    BY <1>1, <1>3, <1>7, MarkSteps
  <2>2. /\ Flips(u)' = Flips(u) /\ RowsFor(u)' = RowsFor(u)
        /\ \A o \in Unders(u)' : o = t
    BY <1>3, <1>4, <1>5, <2>1 DEF Flips, Unders, RowsFor
  <2> QED
    BY <1>2, <1>3, <2>1, <2>2 DEF Neat
<1>8. CASE MarkDelete(t)
  <2>1. step[t] = "found" /\ marks' = marks \ {found[t]} /\ step'[t] = "done"
    BY <1>1, <1>8, MarkSteps
  <2>2. t \in Unders(u)
    BY <1>3, <2>1 DEF Unders
  <2>3. found[t] \in RowsFor(t) /\ \A p \in Unders(u) : p = t
    BY <1>2, <1>3, <2>2 DEF Neat
  <2>4. \A m \in RowsFor(t) : m = found[t]
    BY <2>3 DEF MarkInv, RowsFor
  <2>5. RowsFor(u)' = {} /\ RowsFor(u) # {}
    BY <1>3, <1>4, <2>1, <2>3, <2>4 DEF RowsFor
  <2>6. t \notin Flips(u) /\ Flips(u)' = Flips(u) \cup {t} /\ Unders(u)' = {}
    BY <1>3, <1>4, <1>5, <2>1, <2>3 DEF Flips, Unders
  <2> QED
    BY <1>2, <2>5, <2>6, FlipOnce
<1> QED
  BY <1>6, <1>7, <1>8

LEMMA MarkStep == MarkInv /\ [CatNext]_catVars => MarkInv'
<1> SUFFICES ASSUME MarkInv, [CatNext]_catVars PROVE MarkInv'
  OBVIOUS
<1>0. CatTypeInv /\ CatTypeInv'
  BY CatTypeStep DEF MarkInv
<1>1. CASE \E t \in Toggles : MarkFind(t) \/ MarkDelete(t)
  <2>1. PICK t \in Toggles : MarkFind(t) \/ MarkDelete(t)
    BY <1>1
  <2>2. ASSUME NEW m \in marks', NEW n \in marks', Marked[m] = Marked[n]
        PROVE  m = n
    <3>1. CASE MarkFind(t) /\ RowsFor(t) = {}
      BY <1>0, <2>2, <3>1, MarkSteps DEF MarkInv, RowsFor
    <3>2. CASE MarkDelete(t) \/ (MarkFind(t) /\ RowsFor(t) # {})
      BY <1>0, <2>2, <3>2, MarkSteps DEF MarkInv
    <3> QED
      BY <2>1, <3>1, <3>2
  <2>3. ASSUME NEW o \in Toggles, step'[o] = "found"
        PROVE  Marked[found'[o]] = Marked[o]
    <3>1. CASE o # t
      BY <1>0, <2>1, <2>3, <3>1, MarkSteps DEF MarkInv
    <3>2. CASE o = t
      BY <1>0, <2>1, <2>3, <3>2, MarkSteps DEF RowsFor
    <3> QED
      BY <3>1, <3>2
  <2>4. \A u \in Toggles : Marked[u] \in muddled' \/ Neat(u)'
    BY <2>1, NeatHere, NeatElsewhere
  <2> QED
    BY <1>0, <2>2, <2>3, <2>4 DEF MarkInv
<1>2. CASE ~\E t \in Toggles : MarkFind(t) \/ MarkDelete(t)
  <2>1. UNCHANGED <<marks, found, muddled>> /\ \A t \in Toggles : step'[t] = step[t]
    BY <1>0, <1>2, MarksRest
  <2>2. ASSUME NEW u \in Toggles, Neat(u)
        PROVE  Neat(u)'
    <3>1. Flips(u)' = Flips(u) /\ Unders(u)' = Unders(u) /\ RowsFor(u)' = RowsFor(u)
      BY <2>1 DEF Flips, Unders, RowsFor
    <3> QED
      BY <2>1, <2>2, <3>1 DEF Neat
  <2> QED
    BY <1>0, <2>1, <2>2 DEF MarkInv
<1> QED
  BY <1>1, <1>2

\* A bookmark has one row at most, and is on after an odd number of requests.
THEOREM BookmarksHold == CatSpec => []BookmarksToggle
<1>1. ASSUME MarkInv, NEW t \in Toggles
      PROVE  /\ Cardinality(RowsFor(t)) <= 1
             /\ Marked[t] \in muddled \/ (RowsFor(t) # {}) = (Cardinality(Flips(t)) % 2 = 1)
  <2>1. \A x, y \in RowsFor(t) : x = y
    BY <1>1 DEF MarkInv, RowsFor
  <2> QED
    BY <1>1, <2>1, AtMostOne DEF MarkInv, Neat
<1>2. MarkInv => BookmarksToggle
  BY <1>1 DEF BookmarksToggle, Flips
<1> QED
  BY <1>2, MarkInit, MarkStep, PTL DEF CatSpec

\* What a listing says about itself agrees with the rows that belong to it.
THEOREM ListingsAgree == CatSpec => []ListingsAddUp
BY CountersHold, OneCoverHolds, BookmarksHold, PTL DEF ListingsAddUp
=============================================================================
