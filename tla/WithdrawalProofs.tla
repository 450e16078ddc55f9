--------------------------- MODULE WithdrawalProofs ---------------------------
(***************************************************************************)
(* Proofs about Withdrawals: for any users, requests, reviews and          *)
(* payments, wallets that nobody had in hand are exact, rejected requests  *)
(* were refunded, and WithdrawalPromise is implemented.                    *)
(***************************************************************************)
EXTENDS Withdrawals, TLAPS

-----------------------------------------------------------------------------
(* What the processes under way know *)

\* A balance read earlier is the balance, unless the wallet became stale.
RequestSeen ==
    \A r \in Requests : request[r].pc = "read" /\ Owner[r] \notin stale
                          => request[r].seen = balance[Owner[r]]

ReviewSeen ==
    \A v \in Reviews, r \in Requests :
        review[v].pc = "read" /\ r \in review[v].doing /\ Owner[r] \notin stale
            => review[v].seen = balance[Owner[r]]

PaymentSeen ==
    \A p \in Payments : payment[p].pc = "read" /\ Payee[p] \notin stale
                          => payment[p].seen = balance[Payee[p]]

WalletInv == WithdrawalTypeOK /\ RequestSeen /\ ReviewSeen /\ PaymentSeen /\ WalletIsDue

\* r is being rejected by v, and refunded already.
Refunded(r, v) == review[v].pc = "refunded" /\ r \in review[v].doing

\* A review rejects one request at a time, of its list.
OneAtATime ==
    \A v \in Reviews : /\ \A r \in review[v].doing, s \in review[v].doing : r = s
                       /\ review[v].doing \subseteq review[v].todo
                       /\ review[v].pc = "list" => review[v].doing = {}

\* Requests exist before they are reviewed, and not before the view made them.
Made ==
    /\ \A r \in Requests : request[r].pc # "done" => status[r] = "none"
    /\ \A v \in Reviews, r \in Requests : Listed(r, v) => status[r] # "none"
    /\ \A r \in disputed : status[r] # "none"

\* A review that is about to write "rejected" has refunded.
RefundCounted == \A v \in Reviews, r \in Requests : Refunded(r, v) => refunds[r] > 0

\* An undisputed request is on the list of one review, as it was listed.
Undisputed ==
    \A r \in Requests \ disputed, v \in Reviews :
        Listed(r, v) => /\ status[r] = "pending"
                        /\ refunds[r] = IF Refunded(r, v) THEN 1 ELSE 0
                        /\ \A w \in Reviews : Listed(r, w) => v = w

\* It is held, paid or returned.
Settled ==
    \A r \in Requests \ disputed :
        \/ status[r] \in {"none", "pending", "processing"} /\ refunds[r] = 0
        \/ status[r] = "rejected" /\ refunds[r] = 1
        \/ status[r] = "pending" /\ refunds[r] = 1 /\ \E v \in Reviews : Refunded(r, v)

FateInv == /\ OneAtATime /\ Made /\ RefundCounted /\ RejectedWasRefunded
           /\ Undisputed /\ Settled

-----------------------------------------------------------------------------
(* What a step does to the record of a review *)

LEMMA ReviewUpdate ==
  ASSUME WithdrawalTypeOK, NEW v \in Reviews, NEW x \in ReviewStates,
         review' = [review EXCEPT ![v] = x]
  PROVE  /\ review' \in [Reviews -> ReviewStates] /\ review'[v] = x
         /\ \A w \in Reviews : w # v => review'[w] = review[w]
<1>1. review \in [Reviews -> ReviewStates]
  BY DEF WithdrawalTypeOK
<1> QED
  BY <1>1

LEMMA ListOwn ==
  ASSUME WithdrawalTypeOK, NEW v \in Reviews, NEW verdict \in {"approve", "reject"},
         NEW S \in SUBSET Requests, ReviewList(v, verdict, S)
  PROVE  /\ review' \in [Reviews -> ReviewStates]
         /\ \A w \in Reviews : w # v => review'[w] = review[w]
         /\ review[v].pc = "idle" /\ review'[v].pc = "list"
         /\ review'[v].todo = Pending(S) /\ review'[v].doing = {}
<1> DEFINE x == [pc |-> "list", verdict |-> verdict, todo |-> Pending(S), doing |-> {}, seen |-> 0]
<1>1. x \in ReviewStates
  BY DEF Pending, ReviewStates
<1>2. review' = [review EXCEPT ![v] = x] /\ review[v].pc = "idle"
  BY DEF ReviewList
<1>3. /\ x.pc = "list" /\ x.todo = Pending(S) /\ x.doing = {}
  OBVIOUS
<1> HIDE DEF x
<1> QED
  BY <1>1, <1>2, <1>3, ReviewUpdate

LEMMA FinishOwn ==
  ASSUME WithdrawalTypeOK, NEW v \in Reviews, NEW r \in Requests, Finish(v, r)
  PROVE  /\ review' \in [Reviews -> ReviewStates]
         /\ \A w \in Reviews : w # v => review'[w] = review[w]
         /\ review'[v].pc \in {"done", "list"}
         /\ review'[v].todo = review[v].todo \ {r} /\ review'[v].doing = {}
<1> DEFINE pc == IF review[v].todo = {r} THEN "done" ELSE "list"
           x == [review[v] EXCEPT !.pc = pc, !.todo = review[v].todo \ {r}, !.doing = {}]
<1>1. review[v] \in ReviewStates /\ pc \in {"done", "list"}
  BY DEF WithdrawalTypeOK
<1>2. review' = [review EXCEPT ![v] = x]
  BY DEF Finish
<1> HIDE DEF pc
<1>3. /\ x \in ReviewStates
      /\ x.pc = pc /\ x.todo = review[v].todo \ {r} /\ x.doing = {}
  BY <1>1 DEF ReviewStates
<1> HIDE DEF x
<1> QED
  BY <1>1, <1>2, <1>3, ReviewUpdate

LEMMA RefundReadOwn ==
  ASSUME WithdrawalTypeOK, NEW v \in Reviews, NEW r \in Requests, RefundRead(v, r)
  PROVE  /\ review' \in [Reviews -> ReviewStates]
         /\ \A w \in Reviews : w # v => review'[w] = review[w]
         /\ review[v].pc = "list" /\ review'[v].pc = "read" /\ r \in review[v].todo
         /\ review'[v].todo = review[v].todo /\ review'[v].doing = {r}
         /\ review'[v].seen = balance[Owner[r]]
<1> DEFINE x == [review[v] EXCEPT !.pc = "read", !.doing = {r}, !.seen = balance[Owner[r]]]
<1>1. review[v] \in ReviewStates /\ balance[Owner[r]] \in Nat
  BY RequestsAssumption DEF WithdrawalTypeOK
<1>2. review' = [review EXCEPT ![v] = x] /\ review[v].pc = "list" /\ r \in review[v].todo
  BY DEF RefundRead
<1>3. /\ x \in ReviewStates
      /\ x.pc = "read" /\ x.todo = review[v].todo /\ x.doing = {r} /\ x.seen = balance[Owner[r]]
  BY <1>1 DEF ReviewStates
<1> HIDE DEF x
<1> QED
  BY <1>2, <1>3, ReviewUpdate

\* Refund and Die change the pc alone.
LEMMA PcOwn ==
  ASSUME WithdrawalTypeOK, NEW v \in Reviews, NEW pc \in {"refunded", "dead"},
         review' = [review EXCEPT ![v].pc = pc]
  PROVE  /\ review' \in [Reviews -> ReviewStates]
         /\ \A w \in Reviews : w # v => review'[w] = review[w]
         /\ review'[v].pc = pc
         /\ review'[v].todo = review[v].todo /\ review'[v].doing = review[v].doing
         /\ review'[v].seen = review[v].seen
<1> DEFINE x == [review[v] EXCEPT !.pc = pc]
<1>1. review[v] \in ReviewStates
  BY DEF WithdrawalTypeOK
<1>2. review' = [review EXCEPT ![v] = x]
  OBVIOUS
<1>3. /\ x \in ReviewStates
      /\ x.pc = pc /\ x.todo = review[v].todo /\ x.doing = review[v].doing /\ x.seen = review[v].seen
  BY <1>1 DEF ReviewStates
<1> HIDE DEF x
<1> QED
  BY <1>2, <1>3, ReviewUpdate

-----------------------------------------------------------------------------
(* Wallets *)

LEMMA WalletInit == Init => WalletInv
<1> SUFFICES ASSUME Init PROVE WalletInv
  OBVIOUS
<1>1. /\ request \in [Requests -> RequestStates] /\ payment \in [Payments -> PaymentStates]
      /\ review \in [Reviews -> ReviewStates]
  BY DEF Init, RequestStates, ReviewStates, PaymentStates
<1>2. WithdrawalTypeOK
  BY <1>1, DepositAssumption DEF Init, WithdrawalTypeOK
<1>3. RequestSeen /\ ReviewSeen /\ PaymentSeen /\ WalletIsDue
  BY DEF Init, RequestSeen, ReviewSeen, PaymentSeen, WalletIsDue
<1> QED
  BY <1>2, <1>3 DEF WalletInv

\* The absolute write of a balance by x, who read it: whoever else has it in hand is
\* covered by stale, and the wallet is exact if it was when x read it.
LEMMA BalanceWrite ==
  ASSUME WalletInv, NEW u \in Users, NEW x, NEW seen \in Nat, NEW d \in Int, seen + d \in Nat,
         u \notin stale => seen = balance[u],
         balance' = [balance EXCEPT ![u] = seen + d],
         due' = [due EXCEPT ![u] = @ + d],
         stale' = StaleAfter(u, x),
         x \in Requests \cup Reviews \cup Payments,
         \A r \in Requests : request'[r].pc = "read" => request'[r] = request[r] /\ r # x,
         \A v \in Reviews : review'[v].pc = "read" => review'[v] = review[v] /\ v # x,
         \A p \in Payments : payment'[p].pc = "read" => payment'[p] = payment[p] /\ p # x
  PROVE  /\ balance' \in [Users -> Nat] /\ due' \in [Users -> Int] /\ stale' \subseteq Users
         /\ RequestSeen' /\ ReviewSeen' /\ PaymentSeen' /\ WalletIsDue'
<1> USE DEF WalletInv
<1>1. balance \in [Users -> Nat] /\ due \in [Users -> Int] /\ stale \subseteq Users
  BY DEF WithdrawalTypeOK
<1>2. balance' \in [Users -> Nat] /\ due' \in [Users -> Int]
  BY <1>1
<1>3. stale' = stale \cup {w \in {u} : Reading(w, x) # {}}
  BY DEF StaleAfter
<1>4. stale' \subseteq Users
  BY <1>1, <1>3
<1>5. RequestSeen'
  <2> SUFFICES ASSUME NEW r \in Requests, request'[r].pc = "read", Owner[r] \notin stale'
               PROVE  request'[r].seen = balance'[Owner[r]]
    BY DEF RequestSeen
  <2>1. request'[r] = request[r] /\ r # x /\ Owner[r] \in Users
    BY RequestsAssumption
  <2>2. Owner[r] = u => r \in Reading(u, x)
    BY <2>1 DEF Reading
  <2>3. Owner[r] # u /\ Owner[r] \notin stale
    BY <1>3, <2>2
  <2> QED
    BY <1>1, <2>1, <2>3 DEF RequestSeen
<1>6. ReviewSeen'
  <2> SUFFICES ASSUME NEW v \in Reviews, NEW r \in Requests, review'[v].pc = "read",
                      r \in review'[v].doing, Owner[r] \notin stale'
               PROVE  review'[v].seen = balance'[Owner[r]]
    BY DEF ReviewSeen
  <2>1. review'[v] = review[v] /\ v # x /\ Owner[r] \in Users
    BY RequestsAssumption
  <2>2. Owner[r] = u => v \in Reading(u, x)
    BY <2>1 DEF Reading
  <2>3. Owner[r] # u /\ Owner[r] \notin stale
    BY <1>3, <2>2
  <2> QED
    BY <1>1, <2>1, <2>3 DEF ReviewSeen
<1>7. PaymentSeen'
  <2> SUFFICES ASSUME NEW p \in Payments, payment'[p].pc = "read", Payee[p] \notin stale'
               PROVE  payment'[p].seen = balance'[Payee[p]]
    BY DEF PaymentSeen
  <2>1. payment'[p] = payment[p] /\ p # x /\ Payee[p] \in Users
    BY PaymentsAssumption
  <2>2. Payee[p] = u => p \in Reading(u, x)
    BY <2>1 DEF Reading
  <2>3. Payee[p] # u /\ Payee[p] \notin stale
    BY <1>3, <2>2
  <2> QED
    BY <1>1, <2>1, <2>3 DEF PaymentSeen
<1>8. WalletIsDue'
  <2> SUFFICES ASSUME NEW w \in Users, w \notin stale'
               PROVE  balance'[w] = due'[w]
    BY DEF WalletIsDue
  <2>1. w \notin stale /\ balance[w] = due[w]
    BY <1>3 DEF WalletIsDue
  <2>2. balance[w] \in Nat
    BY <1>1
  <2> QED
    BY <1>1, <2>1, <2>2
<1> QED
  BY <1>2, <1>4, <1>5, <1>6, <1>7, <1>8

LEMMA UserKeepsWallets ==
  ASSUME WalletInv, NEW r \in Requests, UserStep(r)
  PROVE  WalletInv'
<1> USE DEF WalletInv
<1>1. Owner[r] \in Users /\ Amount[r] \in Nat /\ request[r] \in RequestStates
      /\ request \in [Requests -> RequestStates] /\ balance[Owner[r]] \in Nat
  BY RequestsAssumption DEF WithdrawalTypeOK
<1>2. UNCHANGED <<verified, review, payment, refunds, disputed>>
  BY DEF UserStep, RequestRead, RequestDebit, RequestRefuse
<1>3. CASE RequestRead(r)
  <2> DEFINE x == [pc |-> "read", seen |-> balance[Owner[r]]]
  <2>1. x \in RequestStates
    BY <1>1 DEF RequestStates
  <2>2. request' = [request EXCEPT ![r] = x] /\ UNCHANGED <<balance, status, due, stale>>
    BY <1>3 DEF RequestRead
  <2>3. WithdrawalTypeOK'
    BY <1>1, <1>2, <2>1, <2>2 DEF WithdrawalTypeOK
  <2>4. RequestSeen'
    BY <1>1, <2>2 DEF RequestSeen
  <2> QED
    BY <1>2, <2>2, <2>3, <2>4 DEF ReviewSeen, PaymentSeen, WalletIsDue
<1>4. CASE RequestRefuse(r)
  <2> DEFINE x == [request[r] EXCEPT !.pc = "refused"]
  <2>1. x \in RequestStates /\ x.pc = "refused"
    BY <1>1 DEF RequestStates
  <2>2. request' = [request EXCEPT ![r] = x] /\ UNCHANGED <<balance, status, due, stale>>
    BY <1>4 DEF RequestRefuse
  <2> HIDE DEF x
  <2>3. WithdrawalTypeOK'
    BY <1>1, <1>2, <2>1, <2>2 DEF WithdrawalTypeOK
  <2>4. RequestSeen'
    BY <1>1, <2>1, <2>2 DEF RequestSeen
  <2> QED
    BY <1>2, <2>2, <2>3, <2>4 DEF ReviewSeen, PaymentSeen, WalletIsDue
<1>5. CASE RequestDebit(r)
  <2> DEFINE x == [request[r] EXCEPT !.pc = "done"]
  <2>1. x \in RequestStates /\ x.pc = "done"
    BY <1>1 DEF RequestStates
  <2>2. /\ request' = [request EXCEPT ![r] = x]
        /\ request[r].pc = "read" /\ request[r].seen >= Amount[r]
        /\ balance' = [balance EXCEPT ![Owner[r]] = request[r].seen - Amount[r]]
        /\ due' = [due EXCEPT ![Owner[r]] = @ - Amount[r]]
        /\ status' = [status EXCEPT ![r] = "pending"]
        /\ stale' = StaleAfter(Owner[r], r)
    BY <1>5 DEF RequestDebit, Sufficient, Debited
  <2> HIDE DEF x
  <2>3. request[r].seen \in Nat
    BY <1>1 DEF RequestStates
  <2>4. /\ -Amount[r] \in Int /\ request[r].seen + (-Amount[r]) \in Nat
        /\ balance' = [balance EXCEPT ![Owner[r]] = request[r].seen + (-Amount[r])]
        /\ due' = [due EXCEPT ![Owner[r]] = @ + (-Amount[r])]
    <3>1. due[Owner[r]] \in Int
      BY <1>1 DEF WithdrawalTypeOK
    <3>2. request[r].seen - Amount[r] = request[r].seen + (-Amount[r])
          /\ due[Owner[r]] - Amount[r] = due[Owner[r]] + (-Amount[r])
      BY <1>1, <2>3, <3>1
    <3>3. due' = [due EXCEPT ![Owner[r]] = due[Owner[r]] + (-Amount[r])]
      BY <2>2, <3>2, Zenon
    <3>4. balance' = [balance EXCEPT ![Owner[r]] = request[r].seen + (-Amount[r])]
      BY <2>2, <3>2, Zenon
    <3>5. -Amount[r] \in Int /\ request[r].seen + (-Amount[r]) \in Nat
      BY <1>1, <2>2, <2>3
    <3> QED
      BY <3>3, <3>4, <3>5
  <2>5. Owner[r] \notin stale => request[r].seen = balance[Owner[r]]
    BY <2>2 DEF RequestSeen
  <2>6. /\ \A s \in Requests : request'[s].pc = "read" => request'[s] = request[s] /\ s # r
        /\ \A v \in Reviews : review'[v].pc = "read" => review'[v] = review[v] /\ v # r
        /\ \A p \in Payments : payment'[p].pc = "read" => payment'[p] = payment[p] /\ p # r
    BY <1>1, <1>2, <2>1, <2>2, DistinctAssumption
  <2>7. /\ balance' \in [Users -> Nat] /\ due' \in [Users -> Int] /\ stale' \subseteq Users
        /\ RequestSeen' /\ ReviewSeen' /\ PaymentSeen' /\ WalletIsDue'
    BY <1>1, <2>2, <2>3, <2>4, <2>5, <2>6, BalanceWrite
  <2>8. request' \in [Requests -> RequestStates]
        /\ status' \in [Requests -> {"none", "pending", "processing", "rejected"}]
    BY <1>1, <2>1, <2>2 DEF WithdrawalTypeOK
  <2> QED
    BY <1>2, <2>7, <2>8 DEF WithdrawalTypeOK
<1> QED
  BY <1>3, <1>4, <1>5 DEF UserStep

\* A step of a review that leaves the wallets alone, and reads none or reads right.
LEMMA ReviewFrame ==
  ASSUME WalletInv, NEW v \in Reviews,
         UNCHANGED <<balance, verified, request, payment, refunds, due, stale>>,
         review' \in [Reviews -> ReviewStates],
         \A w \in Reviews : w # v => review'[w] = review[w],
         status' \in [Requests -> {"none", "pending", "processing", "rejected"}],
         disputed' \subseteq Requests,
         review'[v].pc = "read" =>
             \A r \in review'[v].doing : review'[v].seen = balance[Owner[r]]
  PROVE  WalletInv'
<1> USE DEF WalletInv
<1>1. WithdrawalTypeOK'
  BY DEF WithdrawalTypeOK
<1>2. ReviewSeen'
  BY DEF ReviewSeen
<1>3. RequestSeen' /\ PaymentSeen' /\ WalletIsDue'
  BY DEF RequestSeen, PaymentSeen, WalletIsDue
<1> QED
  BY <1>1, <1>2, <1>3

LEMMA ReviewKeepsWallets ==
  ASSUME WalletInv, NEW v \in Reviews,
         \/ \E verdict \in {"approve", "reject"}, S \in SUBSET Requests : ReviewList(v, verdict, S)
         \/ ReviewStep(v)
         \/ Die(v)
  PROVE  WalletInv'
<1> USE DEF WalletInv
<1>0. /\ status \in [Requests -> {"none", "pending", "processing", "rejected"}]
      /\ disputed \subseteq Requests /\ review \in [Reviews -> ReviewStates]
      /\ review[v] \in ReviewStates
  BY DEF WithdrawalTypeOK
<1>1. ASSUME NEW verdict \in {"approve", "reject"}, NEW S \in SUBSET Requests,
             ReviewList(v, verdict, S)
      PROVE  WalletInv'
  <2>1. UNCHANGED <<balance, verified, request, status, payment, refunds, due, stale>>
        /\ disputed' \subseteq Requests
    BY <1>0, <1>1 DEF ReviewList, Pending
  <2> QED
    BY <1>0, <1>1, <2>1, ListOwn, ReviewFrame
<1>2. ASSUME NEW r \in Requests, Approve(v, r) \/ MarkRejected(v, r)
      PROVE  WalletInv'
  <2>1. /\ UNCHANGED <<balance, verified, request, payment, refunds, due, stale, disputed>>
        /\ status' \in [Requests -> {"none", "pending", "processing", "rejected"}]
        /\ Finish(v, r)
    BY <1>0, <1>2 DEF Approve, MarkRejected
  <2> QED
    BY <1>0, <2>1, FinishOwn, ReviewFrame
<1>3. ASSUME NEW r \in Requests, RefundRead(v, r)
      PROVE  WalletInv'
  <2>1. UNCHANGED <<balance, verified, request, status, payment, refunds, due, stale, disputed>>
    BY <1>3 DEF RefundRead
  <2> QED
    BY <1>0, <1>3, <2>1, RefundReadOwn, ReviewFrame
<1>4. CASE Die(v)
  <2>1. UNCHANGED <<balance, verified, request, status, payment, refunds, due, stale>>
        /\ disputed' \subseteq Requests
        /\ review' = [review EXCEPT ![v].pc = "dead"]
    BY <1>0, <1>4 DEF Die, ReviewStates
  <2> QED
    BY <1>0, <2>1, PcOwn, ReviewFrame
<1>5. ASSUME NEW r \in Requests, Refund(v, r)
      PROVE  WalletInv'
  <2>1. /\ review[v].pc = "read" /\ r \in review[v].doing
        /\ balance' = [balance EXCEPT ![Owner[r]] = review[v].seen + Amount[r]]
        /\ due' = [due EXCEPT ![Owner[r]] = @ + Amount[r]]
        /\ refunds' = [refunds EXCEPT ![r] = @ + 1]
        /\ review' = [review EXCEPT ![v].pc = "refunded"]
        /\ stale' = StaleAfter(Owner[r], v)
        /\ UNCHANGED <<verified, request, status, payment, disputed>>
    BY <1>5 DEF Refund
  <2>2. /\ review[v].seen \in Nat /\ Owner[r] \in Users /\ Amount[r] \in Int
        /\ review[v].seen + Amount[r] \in Nat
    BY <1>0, RequestsAssumption DEF ReviewStates
  <2>3. Owner[r] \notin stale => review[v].seen = balance[Owner[r]]
    BY <2>1 DEF ReviewSeen
  <2>4. /\ review' \in [Reviews -> ReviewStates] /\ review'[v].pc = "refunded"
        /\ \A w \in Reviews : w # v => review'[w] = review[w]
    BY <2>1, PcOwn
  <2>5. /\ \A s \in Requests : request'[s].pc = "read" => request'[s] = request[s] /\ s # v
        /\ \A w \in Reviews : review'[w].pc = "read" => review'[w] = review[w] /\ w # v
        /\ \A p \in Payments : payment'[p].pc = "read" => payment'[p] = payment[p] /\ p # v
    BY <2>1, <2>4, DistinctAssumption
  <2>6. /\ balance' \in [Users -> Nat] /\ due' \in [Users -> Int] /\ stale' \subseteq Users
        /\ RequestSeen' /\ ReviewSeen' /\ PaymentSeen' /\ WalletIsDue'
    BY <2>1, <2>2, <2>3, <2>5, BalanceWrite
  <2>7. refunds' \in [Requests -> Nat]
    BY <2>1 DEF WithdrawalTypeOK
  <2> QED
    BY <2>1, <2>4, <2>6, <2>7 DEF WithdrawalTypeOK
<1> QED
  BY <1>1, <1>2, <1>3, <1>4, <1>5 DEF ReviewStep

LEMMA PaymentsKeepWallets ==
  ASSUME WalletInv, NEW p \in Payments, PaymentRead(p) \/ PaymentWrite(p)
  PROVE  WalletInv'
<1> USE DEF WalletInv
<1>1. /\ Payee[p] \in Users /\ Paid[p] \in Nat /\ payment[p] \in PaymentStates
      /\ payment \in [Payments -> PaymentStates] /\ balance[Payee[p]] \in Nat
  BY PaymentsAssumption DEF WithdrawalTypeOK
<1>2. UNCHANGED <<verified, request, status, review, refunds, disputed>>
  BY DEF PaymentRead, PaymentWrite
<1>3. CASE PaymentRead(p)
  <2> DEFINE x == [pc |-> "read", seen |-> balance[Payee[p]]]
  <2>1. x \in PaymentStates /\ x.seen = balance[Payee[p]]
    BY <1>1 DEF PaymentStates
  <2>2. payment' = [payment EXCEPT ![p] = x] /\ UNCHANGED <<balance, due, stale>>
    BY <1>3 DEF PaymentRead
  <2> HIDE DEF x
  <2>3. WithdrawalTypeOK'
    BY <1>1, <1>2, <2>1, <2>2 DEF WithdrawalTypeOK
  <2>4. PaymentSeen'
    BY <1>1, <2>1, <2>2 DEF PaymentSeen
  <2> QED
    BY <1>2, <2>2, <2>3, <2>4 DEF RequestSeen, ReviewSeen, WalletIsDue
<1>4. CASE PaymentWrite(p)
  <2> DEFINE x == [payment[p] EXCEPT !.pc = "done"]
  <2>1. x \in PaymentStates /\ x.pc = "done" /\ payment[p].seen \in Nat
    BY <1>1 DEF PaymentStates
  <2>2. /\ payment' = [payment EXCEPT ![p] = x]
        /\ payment[p].pc = "read"
        /\ balance' = [balance EXCEPT ![Payee[p]] = payment[p].seen + Paid[p]]
        /\ due' = [due EXCEPT ![Payee[p]] = @ + Paid[p]]
        /\ stale' = StaleAfter(Payee[p], p)
    BY <1>4 DEF PaymentWrite
  <2> HIDE DEF x
  <2>3. Payee[p] \notin stale => payment[p].seen = balance[Payee[p]]
    BY <2>2 DEF PaymentSeen
  <2>4. /\ \A s \in Requests : request'[s].pc = "read" => request'[s] = request[s] /\ s # p
        /\ \A v \in Reviews : review'[v].pc = "read" => review'[v] = review[v] /\ v # p
        /\ \A q \in Payments : payment'[q].pc = "read" => payment'[q] = payment[q] /\ q # p
    BY <1>1, <1>2, <2>1, <2>2, DistinctAssumption
  <2>5. Paid[p] \in Int /\ payment[p].seen + Paid[p] \in Nat
    BY <1>1, <2>1
  <2>6. /\ balance' \in [Users -> Nat] /\ due' \in [Users -> Int] /\ stale' \subseteq Users
        /\ RequestSeen' /\ ReviewSeen' /\ PaymentSeen' /\ WalletIsDue'
    BY <1>1, <2>1, <2>2, <2>3, <2>4, <2>5, BalanceWrite
  <2>7. payment' \in [Payments -> PaymentStates]
    BY <1>1, <2>1, <2>2
  <2> QED
    BY <1>2, <2>6, <2>7 DEF WithdrawalTypeOK
<1> QED
  BY <1>3, <1>4

LEMMA WalletStep == WalletInv /\ [Next]_vars => WalletInv'
<1> SUFFICES ASSUME WalletInv, [Next]_vars PROVE WalletInv'
  OBVIOUS
<1>1. CASE UNCHANGED vars
  BY <1>1 DEF vars, WalletInv, WithdrawalTypeOK, RequestSeen, ReviewSeen, PaymentSeen, WalletIsDue
<1>2. ASSUME NEW u \in Users, SaveBank(u)
      PROVE  WalletInv'
  BY <1>2 DEF SaveBank, WalletInv, WithdrawalTypeOK, RequestSeen, ReviewSeen, PaymentSeen, WalletIsDue
<1>3. ASSUME NEW r \in Requests, UserStep(r)
      PROVE  WalletInv'
  BY <1>3, UserKeepsWallets
<1>4. ASSUME NEW v \in Reviews,
             \/ \E verdict \in {"approve", "reject"}, S \in SUBSET Requests : ReviewList(v, verdict, S)
             \/ ReviewStep(v) \/ Die(v)
      PROVE  WalletInv'
  BY <1>4, ReviewKeepsWallets
<1>5. ASSUME NEW p \in Payments, PaymentRead(p) \/ PaymentWrite(p)
      PROVE  WalletInv'
  BY <1>5, PaymentsKeepWallets
<1> QED
  BY <1>1, <1>2, <1>3, <1>4, <1>5 DEF Next

-----------------------------------------------------------------------------
(* Fates *)

LEMMA FateInit == Init => FateInv
<1> SUFFICES ASSUME Init PROVE FateInv
  OBVIOUS
<1>1. /\ \A v \in Reviews : review[v].pc = "idle" /\ review[v].doing = {} /\ review[v].todo = {}
      /\ \A r \in Requests : status[r] = "none" /\ refunds[r] = 0
      /\ disputed = {}
  BY DEF Init
<1>2. \A v \in Reviews, r \in Requests : ~Listed(r, v) /\ ~Refunded(r, v)
  BY <1>1 DEF Listed, Active, Refunded
<1>3. OneAtATime
  BY <1>1 DEF OneAtATime
<1>4. Made
  BY <1>1, <1>2 DEF Made
<1>5. RefundCounted
  BY <1>2 DEF RefundCounted
<1>6. RejectedWasRefunded
  BY <1>1 DEF RejectedWasRefunded
<1>7. Undisputed /\ Settled
  BY <1>1, <1>2 DEF Undisputed, Settled
<1> QED
  BY <1>3, <1>4, <1>5, <1>6, <1>7 DEF FateInv

LEMMA FateFrame ==
  ASSUME FateInv, UNCHANGED <<request, status, review, refunds, disputed>>
  PROVE  FateInv'
BY DEF FateInv, OneAtATime, Made, RefundCounted, RejectedWasRefunded, Undisputed, Settled,
       Listed, Active, Refunded

LEMMA UserKeepsFates ==
  ASSUME WithdrawalTypeOK, FateInv, NEW r \in Requests, UserStep(r)
  PROVE  FateInv'
<1> USE DEF FateInv
<1>1. UNCHANGED <<review, refunds, disputed>>
  BY DEF UserStep, RequestRead, RequestDebit, RequestRefuse
<1>2. request \in [Requests -> RequestStates] /\ request[r] \in RequestStates
  BY DEF WithdrawalTypeOK
<1>3. \A s \in Requests, v \in Reviews : /\ Listed(s, v)' <=> Listed(s, v)
                                         /\ Refunded(s, v)' <=> Refunded(s, v)
  BY <1>1 DEF Listed, Active, Refunded
<1>4. OneAtATime' /\ RefundCounted'
  BY <1>1, <1>3 DEF OneAtATime, RefundCounted
<1>5. CASE RequestRead(r) \/ RequestRefuse(r)
  <2>1. UNCHANGED status /\ request[r].pc # "done"
    BY <1>5 DEF RequestRead, RequestRefuse
  <2>2. \A s \in Requests : s # r => request'[s] = request[s]
    BY <1>2, <1>5 DEF RequestRead, RequestRefuse
  <2>3. Made'
    BY <1>1, <1>3, <2>1, <2>2 DEF Made
  <2>4. RejectedWasRefunded' /\ Undisputed' /\ Settled'
    BY <1>1, <1>3, <2>1 DEF RejectedWasRefunded, Undisputed, Settled
  <2> QED
    BY <1>4, <2>3, <2>4
<1>6. CASE RequestDebit(r)
  <2>1. /\ request[r].pc = "read" /\ status' = [status EXCEPT ![r] = "pending"]
        /\ request' = [request EXCEPT ![r] = [request[r] EXCEPT !.pc = "done"]]
    BY <1>6 DEF RequestDebit
  <2>2. /\ status'[r] = "pending" /\ \A s \in Requests : s # r => status'[s] = status[s]
        /\ \A s \in Requests : s # r => request'[s] = request[s]
    BY <1>2, <2>1 DEF WithdrawalTypeOK
  <2>3. status[r] = "none" /\ r \notin disputed /\ \A v \in Reviews : ~Listed(r, v)
    BY <2>1 DEF Made
  <2>4. refunds[r] = 0
    BY <2>3 DEF Settled
  <2>5. request'[r].pc = "done"
    <3>1. request'[r] = [request[r] EXCEPT !.pc = "done"]
      BY <1>2, <2>1
    <3> QED
      BY <1>2, <3>1 DEF RequestStates
  <2>6. Made'
    BY <1>1, <1>3, <2>2, <2>5 DEF Made, WithdrawalTypeOK
  <2>7. RejectedWasRefunded' /\ Undisputed' /\ Settled'
    BY <1>1, <1>3, <2>2, <2>3, <2>4 DEF RejectedWasRefunded, Undisputed, Settled
  <2> QED
    BY <1>4, <2>6, <2>7
<1> QED
  BY <1>5, <1>6 DEF UserStep

LEMMA ListKeepsFates ==
  ASSUME WithdrawalTypeOK, FateInv, NEW v \in Reviews, NEW verdict \in {"approve", "reject"},
         NEW S \in SUBSET Requests, ReviewList(v, verdict, S)
  PROVE  FateInv'
<1> USE DEF FateInv
<1>1. /\ UNCHANGED <<request, status, refunds>>
      /\ disputed' = disputed \cup {r \in Pending(S) : \E w \in Reviews \ {v} : Listed(r, w)}
  BY DEF ReviewList
<1>2. /\ \A w \in Reviews : w # v => review'[w] = review[w]
      /\ review[v].pc = "idle" /\ review'[v].pc = "list"
      /\ review'[v].todo = Pending(S) /\ review'[v].doing = {}
  BY ListOwn
<1>3. \A r \in Requests : /\ \A w \in Reviews : w # v => (Listed(r, w)' <=> Listed(r, w))
                          /\ \A w \in Reviews : Refunded(r, w)' <=> Refunded(r, w)
                          /\ ~Listed(r, v) /\ ~Refunded(r, v)
                          /\ Listed(r, v)' => status[r] = "pending" /\ r \in Pending(S)
  BY <1>2 DEF Listed, Active, Refunded, Pending
<1>4. \A r \in Requests, w \in Reviews : Refunded(r, w) => Listed(r, w)
  BY DEF OneAtATime, Refunded, Listed, Active
<1>5. OneAtATime'
  BY <1>2 DEF OneAtATime
<1>6. Made'
  BY <1>1, <1>3 DEF Made, Pending
<1>7. RefundCounted' /\ RejectedWasRefunded' /\ Settled'
  BY <1>1, <1>3 DEF RefundCounted, RejectedWasRefunded, Settled
<1>8. Undisputed'
  <2> SUFFICES ASSUME NEW r \in Requests \ disputed', NEW w \in Reviews, Listed(r, w)'
               PROVE  /\ status'[r] = "pending"
                      /\ refunds'[r] = IF Refunded(r, w)' THEN 1 ELSE 0
                      /\ \A x \in Reviews : Listed(r, x)' => w = x
    BY DEF Undisputed
  <2>1. r \in Requests \ disputed
    BY <1>1
  <2>2. CASE w = v
    <3>1. status[r] = "pending" /\ r \in Pending(S)
      BY <1>3, <2>2
    <3>2. \A x \in Reviews : x # v => ~Listed(r, x)
      BY <1>1, <3>1
    <3>3. \A x \in Reviews : ~Refunded(r, x)
      BY <1>3, <1>4, <3>2
    <3>4. refunds[r] = 0
      BY <2>1, <3>1, <3>3 DEF Settled
    <3> QED
      BY <1>1, <1>3, <2>2, <3>1, <3>2, <3>3, <3>4
  <2>3. CASE w # v
    <3>1. Listed(r, w)
      BY <1>3, <2>3
    <3>2. ~Listed(r, v)'
      BY <1>1, <1>3, <2>3, <3>1
    <3> QED
      BY <1>1, <1>3, <2>1, <3>1, <3>2 DEF Undisputed
  <2> QED
    BY <2>2, <2>3
<1> QED
  BY <1>5, <1>6, <1>7, <1>8

\* Approve and MarkRejected: the status is written and r leaves the list.
LEMMA FinishKeepsFates ==
  ASSUME WithdrawalTypeOK, FateInv, NEW v \in Reviews, NEW r \in Requests,
         Approve(v, r) \/ MarkRejected(v, r)
  PROVE  FateInv'
<1> USE DEF FateInv
<1>1. UNCHANGED <<request, refunds, disputed>> /\ Finish(v, r)
  BY DEF Approve, MarkRejected
<1>2. /\ \A w \in Reviews : w # v => review'[w] = review[w]
      /\ review'[v].pc \in {"done", "list"}
      /\ review'[v].todo = review[v].todo \ {r} /\ review'[v].doing = {}
  BY <1>1, FinishOwn
<1>3. Active(v) /\ Listed(r, v) /\ \A s \in review[v].doing : s = r
  BY DEF Approve, MarkRejected, Active, Listed, OneAtATime
<1>4. /\ \A s \in Requests : s # r => status'[s] = status[s]
      /\ \/ status'[r] = "processing" /\ ~Refunded(r, v)
         \/ status'[r] = "rejected" /\ Refunded(r, v)
  BY DEF Approve, MarkRejected, WithdrawalTypeOK, Refunded
<1>5. \A s \in Requests, w \in Reviews :
          /\ Listed(s, w)' => Listed(s, w)
          /\ w # v => (Refunded(s, w)' <=> Refunded(s, w))
          /\ ~Refunded(s, v)' /\ (s # r => ~Refunded(s, v))
          /\ ~Listed(r, v)'
  BY <1>2, <1>3 DEF Listed, Active, Refunded
<1>6. OneAtATime'
  BY <1>2 DEF OneAtATime
<1>7. Made'
  <2>1. disputed \subseteq Requests
    BY DEF WithdrawalTypeOK
  <2> QED
    BY <1>1, <1>3, <1>4, <1>5, <2>1 DEF Made
<1>8. RefundCounted' /\ RejectedWasRefunded'
  <2>1. RefundCounted'
    BY <1>1, <1>5 DEF RefundCounted
  <2>2. Refunded(r, v) => refunds[r] > 0
    BY DEF RefundCounted
  <2>3. RejectedWasRefunded'
    BY <1>1, <1>4, <2>2 DEF RejectedWasRefunded
  <2> QED
    BY <2>1, <2>3
<1>9. r \notin disputed => /\ refunds[r] = IF Refunded(r, v) THEN 1 ELSE 0
                           /\ \A w \in Reviews : ~Listed(r, w)'
  BY <1>3, <1>5 DEF Undisputed
<1>10. Undisputed'
  BY <1>1, <1>4, <1>5, <1>9 DEF Undisputed
<1>11. Settled'
  <2> SUFFICES ASSUME NEW s \in Requests \ disputed
               PROVE  \/ status'[s] \in {"none", "pending", "processing"} /\ refunds[s] = 0
                      \/ status'[s] = "rejected" /\ refunds[s] = 1
                      \/ status'[s] = "pending" /\ refunds[s] = 1
                           /\ \E w \in Reviews : Refunded(s, w)'
    BY <1>1 DEF Settled
  <2>1. CASE s = r
    BY <1>4, <1>9, <2>1
  <2>2. CASE s # r
    BY <1>4, <1>5, <2>2 DEF Settled
  <2> QED
    BY <2>1, <2>2
<1> QED
  BY <1>6, <1>7, <1>8, <1>10, <1>11

LEMMA RefundReadKeepsFates ==
  ASSUME WithdrawalTypeOK, FateInv, NEW v \in Reviews, NEW r \in Requests, RefundRead(v, r)
  PROVE  FateInv'
<1> USE DEF FateInv
<1>1. UNCHANGED <<request, status, refunds, disputed>>
  BY DEF RefundRead
<1>2. /\ \A w \in Reviews : w # v => review'[w] = review[w]
      /\ review[v].pc = "list" /\ review'[v].pc = "read" /\ r \in review[v].todo
      /\ review'[v].todo = review[v].todo /\ review'[v].doing = {r}
  BY RefundReadOwn
<1>3. \A s \in Requests, w \in Reviews : /\ Listed(s, w)' <=> Listed(s, w)
                                         /\ Refunded(s, w)' <=> Refunded(s, w)
  BY <1>2 DEF Listed, Active, Refunded
<1>4. OneAtATime'
  BY <1>2 DEF OneAtATime
<1>5. Made' /\ RefundCounted' /\ RejectedWasRefunded' /\ Undisputed' /\ Settled'
  BY <1>1, <1>3 DEF Made, RefundCounted, RejectedWasRefunded, Undisputed, Settled
<1> QED
  BY <1>4, <1>5

LEMMA RefundKeepsFates ==
  ASSUME WithdrawalTypeOK, FateInv, NEW v \in Reviews, NEW r \in Requests, Refund(v, r)
  PROVE  FateInv'
<1> USE DEF FateInv
<1>1. /\ UNCHANGED <<request, status, disputed>>
      /\ review[v].pc = "read" /\ r \in review[v].doing
      /\ review' = [review EXCEPT ![v].pc = "refunded"]
      /\ refunds' = [refunds EXCEPT ![r] = @ + 1]
  BY DEF Refund
<1>2. /\ \A w \in Reviews : w # v => review'[w] = review[w]
      /\ review'[v].pc = "refunded"
      /\ review'[v].todo = review[v].todo /\ review'[v].doing = review[v].doing
  BY <1>1, PcOwn
<1>3. /\ \A s \in Requests : refunds[s] \in Nat /\ (s # r => refunds'[s] = refunds[s])
      /\ refunds'[r] = refunds[r] + 1
  BY <1>1 DEF WithdrawalTypeOK
<1>4. Listed(r, v) /\ review[v].doing = {r}
  BY <1>1 DEF OneAtATime, Listed, Active
<1>5. \A s \in Requests, w \in Reviews :
          /\ Listed(s, w)' <=> Listed(s, w)
          /\ w # v => (Refunded(s, w)' <=> Refunded(s, w))
          /\ ~Refunded(s, v) /\ (Refunded(s, v)' <=> s = r)
  BY <1>1, <1>2, <1>4 DEF Listed, Active, Refunded
<1>6. OneAtATime'
  BY <1>2 DEF OneAtATime
<1>7. Made'
  BY <1>1, <1>5 DEF Made
<1>8. RefundCounted' /\ RejectedWasRefunded'
  BY <1>1, <1>3, <1>5 DEF RefundCounted, RejectedWasRefunded
<1>9. r \notin disputed => /\ status[r] = "pending" /\ refunds[r] = 0
                           /\ \A w \in Reviews : Listed(r, w) => v = w
  BY <1>4, <1>5 DEF Undisputed
<1>10. Undisputed'
  <2> SUFFICES ASSUME NEW s \in Requests \ disputed, NEW w \in Reviews, Listed(s, w)
               PROVE  /\ status[s] = "pending"
                      /\ refunds'[s] = IF Refunded(s, w)' THEN 1 ELSE 0
                      /\ \A x \in Reviews : Listed(s, x) => w = x
    BY <1>1, <1>5 DEF Undisputed
  <2>1. CASE s = r
    BY <1>3, <1>5, <1>9, <2>1
  <2>2. CASE s # r
    BY <1>3, <1>5, <2>2 DEF Undisputed
  <2> QED
    BY <2>1, <2>2
<1>11. Settled'
  <2> SUFFICES ASSUME NEW s \in Requests \ disputed
               PROVE  \/ status[s] \in {"none", "pending", "processing"} /\ refunds'[s] = 0
                      \/ status[s] = "rejected" /\ refunds'[s] = 1
                      \/ status[s] = "pending" /\ refunds'[s] = 1
                           /\ \E w \in Reviews : Refunded(s, w)'
    BY <1>1 DEF Settled
  <2>1. CASE s = r
    BY <1>3, <1>5, <1>9, <2>1
  <2>2. CASE s # r
    BY <1>3, <1>5, <2>2 DEF Settled
  <2> QED
    BY <2>1, <2>2
<1> QED
  BY <1>6, <1>7, <1>8, <1>10, <1>11

LEMMA DieKeepsFates ==
  ASSUME WithdrawalTypeOK, FateInv, NEW v \in Reviews, Die(v)
  PROVE  FateInv'
<1> USE DEF FateInv
<1>1. /\ UNCHANGED <<request, status, refunds>>
      /\ Active(v)
      /\ review' = [review EXCEPT ![v].pc = "dead"]
      /\ disputed' = disputed \cup {r \in review[v].doing : review[v].pc = "refunded"}
  BY DEF Die
<1>2. /\ \A w \in Reviews : w # v => review'[w] = review[w]
      /\ review'[v].pc = "dead"
      /\ review'[v].todo = review[v].todo /\ review'[v].doing = review[v].doing
  BY <1>1, PcOwn
<1>3. \A s \in Requests, w \in Reviews :
          /\ Listed(s, w)' => Listed(s, w)
          /\ w # v => (Refunded(s, w)' <=> Refunded(s, w))
          /\ ~Refunded(s, v)' /\ ~Listed(s, v)'
          /\ s \notin disputed' => ~Refunded(s, v) /\ s \notin disputed
  BY <1>1, <1>2 DEF Listed, Active, Refunded
<1>4. OneAtATime'
  BY <1>2 DEF OneAtATime
<1>5. \A s \in disputed' : s \in disputed \/ Listed(s, v)
  BY <1>1 DEF Listed, OneAtATime
<1>6. disputed' \subseteq Requests
  <2>1. review \in [Reviews -> ReviewStates] /\ disputed \subseteq Requests
    BY DEF WithdrawalTypeOK
  <2>2. review[v] \in ReviewStates
    BY <2>1
  <2>3. review[v].doing \subseteq Requests
    BY <2>2 DEF ReviewStates
  <2> QED
    BY <1>1, <2>1, <2>3
<1>7. Made'
  BY <1>1, <1>3, <1>5, <1>6 DEF Made
<1>8. RefundCounted' /\ RejectedWasRefunded' /\ Undisputed' /\ Settled'
  BY <1>1, <1>3 DEF RefundCounted, RejectedWasRefunded, Undisputed, Settled
<1> QED
  BY <1>4, <1>7, <1>8

LEMMA FateStep == WithdrawalTypeOK /\ FateInv /\ [Next]_vars => FateInv'
<1> SUFFICES ASSUME WithdrawalTypeOK, FateInv, [Next]_vars PROVE FateInv'
  OBVIOUS
<1>1. CASE UNCHANGED vars
  BY <1>1, FateFrame DEF vars
<1>2. ASSUME \/ \E u \in Users : SaveBank(u)
             \/ \E p \in Payments : PaymentRead(p) \/ PaymentWrite(p)
      PROVE  FateInv'
  <2>1. UNCHANGED <<request, status, review, refunds, disputed>>
    BY <1>2 DEF SaveBank, PaymentRead, PaymentWrite
  <2> QED
    BY <2>1, FateFrame
<1>3. ASSUME NEW r \in Requests, UserStep(r)
      PROVE  FateInv'
  BY <1>3, UserKeepsFates
<1>4. ASSUME NEW v \in Reviews, NEW verdict \in {"approve", "reject"}, NEW S \in SUBSET Requests,
             ReviewList(v, verdict, S)
      PROVE  FateInv'
  BY <1>4, ListKeepsFates
<1>5. ASSUME NEW v \in Reviews, ReviewStep(v)
      PROVE  FateInv'
  BY <1>5, FinishKeepsFates, RefundReadKeepsFates, RefundKeepsFates DEF ReviewStep
<1>6. ASSUME NEW v \in Reviews, Die(v)
      PROVE  FateInv'
  BY <1>6, DieKeepsFates
<1> QED
  BY <1>1, <1>2, <1>3, <1>4, <1>5, <1>6 DEF Next

-----------------------------------------------------------------------------
(* The promise *)

fates == [r \in Requests |-> Fate(r)]

LEMMA FateOf ==
  ASSUME NEW r \in Requests
  PROVE  /\ r \in disputed => Fate(r) = "disputed"
         /\ r \notin disputed =>
              /\ status[r] = "none" => Fate(r) = "none"
              /\ status[r] = "pending" /\ refunds[r] = 0 => Fate(r) = "held"
              /\ status[r] = "processing" /\ refunds[r] = 0 => Fate(r) = "paid"
              /\ status[r] \in {"pending", "rejected"} /\ refunds[r] = 1 => Fate(r) = "returned"
BY DEF Fate

LEMMA FateNext ==
  ASSUME NEW r \in Requests
  PROVE  /\ r \in disputed' => Fate(r)' = "disputed"
         /\ r \notin disputed' =>
              /\ status'[r] = "none" => Fate(r)' = "none"
              /\ status'[r] = "pending" /\ refunds'[r] = 0 => Fate(r)' = "held"
              /\ status'[r] = "processing" /\ refunds'[r] = 0 => Fate(r)' = "paid"
              /\ status'[r] \in {"pending", "rejected"} /\ refunds'[r] = 1 => Fate(r)' = "returned"
BY DEF Fate

LEMMA FateStays ==
  ASSUME NEW r \in Requests, status'[r] = status[r], refunds'[r] = refunds[r],
         r \in disputed' <=> r \in disputed
  PROVE  Fate(r)' = Fate(r)
BY DEF Fate

\* One request changes its fate.
LEMMA OneFate ==
  ASSUME NEW r \in Requests, \A s \in Requests : s # r => Fate(s)' = Fate(s)
  PROVE  fates' = [fates EXCEPT ![r] = Fate(r)']
BY DEF fates

\* Requests become disputed, and nothing else.
LEMMA DisputeStep ==
  ASSUME WithdrawalTypeOK, FateInv, WithdrawalTypeOK', FateInv',
         UNCHANGED <<status, refunds>>, disputed \subseteq disputed'
  PROVE  \E S \in SUBSET {r \in Requests : fates[r] # "none"} : Promise!Dispute(S)
<1> DEFINE S == disputed' \ disputed
<1>1. \A r \in S : r \in Requests /\ status[r] # "none"
  BY DEF WithdrawalTypeOK, FateInv, Made
<1>2. \A r \in S : Fate(r) # "none"
  BY <1>1 DEF Fate
<1>3. S \in SUBSET {r \in Requests : fates[r] # "none"}
  BY <1>1, <1>2 DEF fates
<1>4. \A r \in Requests : Fate(r)' = IF r \in S THEN "disputed" ELSE Fate(r)
  <2> TAKE r \in Requests
  <2>1. CASE r \in S
    BY <2>1, FateNext
  <2>2. CASE r \notin S
    BY <2>2, FateStays
  <2> QED
    BY <2>1, <2>2
<1>5. fates' = [r \in Requests |-> IF r \in S THEN "disputed" ELSE fates[r]]
  BY <1>4 DEF fates
<1>6. Promise!Dispute(S)
  BY <1>5 DEF Promise!Dispute, fates
<1> HIDE DEF S
<1> QED
  BY <1>3, <1>6

LEMMA PromiseInitially == Init => Promise!PromiseInit
<1> SUFFICES ASSUME Init PROVE Promise!PromiseInit
  OBVIOUS
<1>1. \A r \in Requests : Fate(r) = "none"
  BY FateOf DEF Init
<1>2. [r \in Requests |-> Fate(r)] = [r \in Requests |-> "none"]
  BY <1>1
<1> QED
  BY <1>2 DEF Promise!PromiseInit

LEMMA PromiseStep ==
  ASSUME WithdrawalTypeOK, FateInv, WithdrawalTypeOK', FateInv', [Next]_vars
  PROVE  [Promise!PromiseNext]_fates
<1>1. CASE UNCHANGED <<status, refunds, disputed>>
  <2>1. \A r \in Requests : Fate(r)' = Fate(r)
    BY <1>1, FateStays
  <2> QED
    BY <2>1 DEF fates
<1>2. ASSUME NEW r \in Requests, RequestDebit(r)
      PROVE  Promise!Hold(r)
  <2>1. /\ UNCHANGED <<refunds, disputed>>
        /\ request[r].pc = "read" /\ status' = [status EXCEPT ![r] = "pending"]
    BY <1>2 DEF RequestDebit
  <2>2. status'[r] = "pending" /\ \A s \in Requests : s # r => status'[s] = status[s]
    BY <2>1 DEF WithdrawalTypeOK
  <2>3. status[r] = "none" /\ r \notin disputed
    BY <2>1 DEF FateInv, Made
  <2>4. refunds[r] = 0
    BY <2>3 DEF FateInv, Settled
  <2>5. Fate(r) = "none" /\ Fate(r)' = "held"
    BY <2>1, <2>2, <2>3, <2>4, FateOf, FateNext
  <2>6. fates' = [fates EXCEPT ![r] = "held"]
    BY <2>1, <2>2, <2>5, FateStays, OneFate
  <2> QED
    BY <2>5, <2>6 DEF Promise!Hold, Promise!Becomes, fates
<1>3. ASSUME NEW v \in Reviews, NEW r \in Requests, Approve(v, r)
      PROVE  Promise!Pay(r) \/ UNCHANGED fates
  <2>1. /\ UNCHANGED <<refunds, disputed>> /\ Listed(r, v) /\ ~Refunded(r, v)
        /\ status' = [status EXCEPT ![r] = "processing"]
    BY <1>3 DEF Approve, Listed, Active, Refunded
  <2>2. status'[r] = "processing" /\ \A s \in Requests : s # r => status'[s] = status[s]
    BY <2>1 DEF WithdrawalTypeOK
  <2>3. \A s \in Requests : s # r => Fate(s)' = Fate(s)
    BY <2>1, <2>2, FateStays
  <2>4. CASE r \in disputed
    <3>1. Fate(r)' = Fate(r)
      BY <2>1, <2>4, FateOf, FateNext
    <3> QED
      BY <2>3, <3>1 DEF fates
  <2>5. CASE r \notin disputed
    <3>1. status[r] = "pending" /\ refunds[r] = 0
      BY <2>1, <2>5 DEF FateInv, Undisputed
    <3>2. Fate(r) = "held" /\ Fate(r)' = "paid"
      BY <2>1, <2>2, <2>5, <3>1, FateOf, FateNext
    <3>3. fates' = [fates EXCEPT ![r] = "paid"]
      BY <2>3, <3>2, OneFate
    <3> QED
      BY <3>2, <3>3 DEF Promise!Pay, Promise!Becomes, fates
  <2> QED
    BY <2>4, <2>5
<1>4. ASSUME NEW v \in Reviews, NEW r \in Requests, Refund(v, r)
      PROVE  Promise!Return(r) \/ UNCHANGED fates
  <2>1. /\ UNCHANGED <<status, disputed>>
        /\ review[v].pc = "read" /\ r \in review[v].doing
        /\ refunds' = [refunds EXCEPT ![r] = @ + 1]
    BY <1>4 DEF Refund
  <2>2. /\ refunds'[r] = refunds[r] + 1
        /\ \A s \in Requests : s # r => refunds'[s] = refunds[s]
    BY <2>1 DEF WithdrawalTypeOK
  <2>3. Listed(r, v) /\ ~Refunded(r, v)
    BY <2>1 DEF FateInv, OneAtATime, Listed, Active, Refunded
  <2>4. \A s \in Requests : s # r => Fate(s)' = Fate(s)
    BY <2>1, <2>2, FateStays
  <2>5. CASE r \in disputed
    <3>1. Fate(r)' = Fate(r)
      BY <2>1, <2>5, FateOf, FateNext
    <3> QED
      BY <2>4, <3>1 DEF fates
  <2>6. CASE r \notin disputed
    <3>1. status[r] = "pending" /\ refunds[r] = 0
      BY <2>3, <2>6 DEF FateInv, Undisputed
    <3>2. Fate(r) = "held" /\ Fate(r)' = "returned"
      BY <2>1, <2>2, <2>6, <3>1, FateOf, FateNext
    <3>3. fates' = [fates EXCEPT ![r] = "returned"]
      BY <2>4, <3>2, OneFate
    <3> QED
      BY <3>2, <3>3 DEF Promise!Return, Promise!Becomes, fates
  <2> QED
    BY <2>5, <2>6
<1>5. ASSUME NEW v \in Reviews, NEW r \in Requests, MarkRejected(v, r)
      PROVE  UNCHANGED fates
  <2>1. /\ UNCHANGED <<refunds, disputed>> /\ Refunded(r, v) /\ Listed(r, v)
        /\ status' = [status EXCEPT ![r] = "rejected"]
    BY <1>5 DEF MarkRejected, Refunded, Listed, Active, FateInv, OneAtATime
  <2>2. status'[r] = "rejected" /\ \A s \in Requests : s # r => status'[s] = status[s]
    BY <2>1 DEF WithdrawalTypeOK
  <2>3. \A s \in Requests : s # r => Fate(s)' = Fate(s)
    BY <2>1, <2>2, FateStays
  <2>4. r \notin disputed => status[r] = "pending" /\ refunds[r] = 1
    BY <2>1 DEF FateInv, Undisputed
  <2>5. Fate(r)' = Fate(r)
    BY <2>1, <2>2, <2>4, FateOf, FateNext
  <2> QED
    BY <2>3, <2>5 DEF fates
<1>6. ASSUME NEW v \in Reviews,
             \/ \E verdict \in {"approve", "reject"}, S \in SUBSET Requests : ReviewList(v, verdict, S)
             \/ Die(v)
      PROVE  Promise!PromiseNext
  <2>1. UNCHANGED <<status, refunds>> /\ disputed \subseteq disputed'
    BY <1>6 DEF ReviewList, Die
  <2>2. \E S \in SUBSET {r \in Requests : fates[r] # "none"} : Promise!Dispute(S)
    BY <2>1, DisputeStep
  <2> QED
    BY <2>2 DEF Promise!PromiseNext, fates
<1>7. ASSUME \/ \E u \in Users : SaveBank(u)
             \/ \E r \in Requests : RequestRead(r) \/ RequestRefuse(r)
             \/ \E v \in Reviews, r \in Requests : RefundRead(v, r)
             \/ \E p \in Payments : PaymentRead(p) \/ PaymentWrite(p)
             \/ UNCHANGED vars
      PROVE  UNCHANGED <<status, refunds, disputed>>
  BY <1>7 DEF SaveBank, RequestRead, RequestRefuse, RefundRead, PaymentRead, PaymentWrite, vars
<1> QED
  BY <1>1, <1>2, <1>3, <1>4, <1>5, <1>6, <1>7
     DEF Next, UserStep, ReviewStep, Promise!PromiseNext

-----------------------------------------------------------------------------
(* The theorems *)

LEMMA WithdrawalInvariant == Spec => [](WalletInv /\ FateInv)
<1>1. Init => WalletInv /\ FateInv
  BY WalletInit, FateInit
<1>2. WalletInv /\ FateInv /\ [Next]_vars => (WalletInv /\ FateInv)'
  BY WalletStep, FateStep DEF WalletInv
<1> QED
  BY <1>1, <1>2, PTL DEF Spec

\* No balance becomes negative: Wallet.debit compares with the balance it writes.
THEOREM WithdrawalTypesHold == Spec => []WithdrawalTypeOK
<1>1. WalletInv /\ FateInv => WithdrawalTypeOK
  BY DEF WalletInv
<1> QED
  BY <1>1, WithdrawalInvariant, PTL

\* Requests, refunds and payments keep a wallet exact that nobody else had in hand.
THEOREM WalletsExact == Spec => []WalletIsDue
<1>1. WalletInv /\ FateInv => WalletIsDue
  BY DEF WalletInv
<1> QED
  BY <1>1, WithdrawalInvariant, PTL

\* No rejected request goes without its refund, whoever dies or overlaps.
THEOREM RejectedAreRefunded == Spec => []RejectedWasRefunded
<1>1. WalletInv /\ FateInv => RejectedWasRefunded
  BY DEF FateInv
<1> QED
  BY <1>1, WithdrawalInvariant, PTL

\* The views and the admin actions implement WithdrawalPromise: what one review
\* handled is paid out or refunded, once and for all.
THEOREM ImplementsPromise == Spec => KeepsWithdrawalPromise
<1>1. Init => Promise!PromiseInit
  BY PromiseInitially
<1>2. (WalletInv /\ FateInv) /\ (WalletInv /\ FateInv)' /\ [Next]_vars
        => [Promise!PromiseNext]_fates
  BY PromiseStep DEF WalletInv
<1>3. Init /\ [](WalletInv /\ FateInv) /\ [][Next]_vars
        => Promise!PromiseInit /\ [][Promise!PromiseNext]_fates
  BY <1>1, <1>2, PTL
<1> QED
  BY <1>3, WithdrawalInvariant, PTL DEF Spec, KeepsWithdrawalPromise, Promise!PromiseSpec, fates
=============================================================================
