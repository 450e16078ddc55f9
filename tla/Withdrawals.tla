----------------------------- MODULE Withdrawals -----------------------------
(***************************************************************************)
(* Withdrawals from a wallet to a bank account.  WithdrawalRequestView     *)
(* debits the wallet it read before; staff approve and reject the pending  *)
(* requests in the admin site, one after the other from a list read once,  *)
(* without a lock or a transaction.                                        *)
(***************************************************************************)
EXTENDS Integers

CONSTANTS
    Users,
    Requests,    \* the withdrawal requests
    Reviews,     \* the admin actions, each run once on a selection of requests
    Payments,    \* credits from elsewhere (SquadWebhook)
    Owner,       \* Owner[r]
    Amount,      \* Amount[r], in kobo, at least the minimum of the serializer
    Payee,       \* Payee[p]
    Paid,        \* Paid[p], in kobo
    Deposit,     \* Deposit[u]: the balance at first
    Faults       \* TRUE: a review may die

ASSUME RequestsAssumption == Owner \in [Requests -> Users] /\ Amount \in [Requests -> Nat \ {0}]
ASSUME PaymentsAssumption == Payee \in [Payments -> Users] /\ Paid \in [Payments -> Nat]
ASSUME DepositAssumption  == Deposit \in [Users -> Nat]
ASSUME DistinctAssumption == /\ Requests \cap Reviews = {} /\ Requests \cap Payments = {}
                             /\ Reviews \cap Payments = {}
ASSUME FaultsAssumption   == Faults \in BOOLEAN

VARIABLES
    balance,   \* balance[u]: Wallet.balance
    verified,  \* the users with a bank account (bank_account_verified)
    request,   \* request[r]: progress of the view, and the balance it has read
    status,    \* status[r]: WithdrawalRequest.status
    review,    \* review[v]: progress of an admin action
    payment,   \* payment[p]: progress of a credit, and the balance it has read
    refunds,   \* refunds[r]: how often the amount was credited back
    due,       \* due[u]: the deposit and payments, less requests, and refunds
    stale,     \* the users whose wallet changed while somebody had it in hand
    disputed   \* the requests that two reviews listed, or one left half rejected

vars == <<balance, verified, request, status, review, payment, refunds, due, stale, disputed>>

RequestStates == [pc : {"idle", "read", "done", "refused"}, seen : Nat]
ReviewStates  == [pc : {"idle", "list", "read", "refunded", "done", "dead"},
                  verdict : {"approve", "reject"}, todo : SUBSET Requests, doing : SUBSET Requests,
                  seen : Nat]
PaymentStates == [pc : {"idle", "read", "done"}, seen : Nat]

Init ==
    /\ balance  = Deposit
    /\ verified = {}
    /\ request  = [r \in Requests |-> [pc |-> "idle", seen |-> 0]]
    /\ status   = [r \in Requests |-> "none"]
    /\ review   = [v \in Reviews |-> [pc |-> "idle", verdict |-> "approve", todo |-> {},
                                      doing |-> {}, seen |-> 0]]
    /\ payment  = [p \in Payments |-> [pc |-> "idle", seen |-> 0]]
    /\ refunds  = [r \in Requests |-> 0]
    /\ due      = Deposit
    /\ stale    = {}
    /\ disputed = {}

-----------------------------------------------------------------------------
(* Who has a wallet or a request in hand *)

\* The processes other than x that have read the balance of u and not written it.
Reading(u, x) ==
    {r \in Requests \ {x} : Owner[r] = u /\ request[r].pc = "read"}
      \cup {v \in Reviews \ {x} : review[v].pc = "read" /\ \E r \in review[v].doing : Owner[r] = u}
      \cup {p \in Payments \ {x} : Payee[p] = u /\ payment[p].pc = "read"}

\* The absolute write of the balance of u by x makes what the others read stale.
StaleAfter(u, x) == stale \cup {w \in {u} : Reading(w, x) # {}}

Active(v) == review[v].pc \in {"list", "read", "refunded"}

Listed(r, v) == Active(v) /\ r \in review[v].todo

-----------------------------------------------------------------------------
(* The user: BankAccountSaveView and WithdrawalRequestView *)

SaveBank(u) ==
    /\ u \notin verified
    /\ verified' = verified \cup {u}
    /\ UNCHANGED <<balance, request, status, review, payment, refunds, due, stale, disputed>>

\* The view reads the wallet, and answers 400 without a bank account.
RequestRead(r) ==
    /\ request[r].pc = "idle"
    /\ Owner[r] \in verified
    /\ request' = [request EXCEPT ![r] = [pc |-> "read", seen |-> balance[Owner[r]]]]
    /\ UNCHANGED <<balance, verified, status, review, payment, refunds, due, stale, disputed>>

\* Wallet.debit raises ValueError otherwise.
Sufficient(r) == request[r].seen >= Amount[r]

\* Mutant of Debited: debit(save=False), the balance is not saved.
DebitedNowhere(r) == request[r].seen

Debited(r) == request[r].seen - Amount[r]

\* The debit and the new row are one transaction.
RequestDebit(r) ==
    LET u == Owner[r] IN
    /\ request[r].pc = "read"
    /\ Sufficient(r)
    /\ balance' = [balance EXCEPT ![u] = Debited(r)]
    /\ due'     = [due EXCEPT ![u] = @ - Amount[r]]
    /\ status'  = [status EXCEPT ![r] = "pending"]
    /\ request' = [request EXCEPT ![r].pc = "done"]
    /\ stale'   = StaleAfter(u, r)
    /\ UNCHANGED <<verified, review, payment, refunds, disputed>>

RequestRefuse(r) ==
    /\ request[r].pc = "read"
    /\ ~Sufficient(r)
    /\ request' = [request EXCEPT ![r].pc = "refused"]
    /\ UNCHANGED <<balance, verified, status, review, payment, refunds, due, stale, disputed>>

-----------------------------------------------------------------------------
(* The staff: approve_withdrawals and reject_withdrawals *)

\* Mutant of Pending: the selection is not filtered.
PendingOrNot(S) == {r \in S : status[r] # "none"}

Pending(S) == {r \in S : status[r] = "pending"}

\* The pending ones of the selection S are read once, as a list.  (The exists()
\* before it only shortens an empty list.)
ReviewList(v, verdict, S) ==
    /\ review[v].pc = "idle"
    /\ Pending(S) # {}
    /\ review' = [review EXCEPT ![v] = [pc |-> "list", verdict |-> verdict, todo |-> Pending(S),
                                        doing |-> {}, seen |-> 0]]
    /\ disputed' = disputed \cup {r \in Pending(S) : \E w \in Reviews \ {v} : Listed(r, w)}
    /\ UNCHANGED <<balance, verified, request, status, payment, refunds, due, stale>>

\* One request is through; the review ends with the last one.
Finish(v, r) ==
    review' = [review EXCEPT ![v] =
                 [@ EXCEPT !.pc    = IF review[v].todo = {r} THEN "done" ELSE "list",
                           !.todo  = review[v].todo \ {r},
                           !.doing = {}]]

\* Mutant of Approve: update_fields without 'status'.
ApproveUnsaved(v, r) ==
    /\ review[v].pc = "list" /\ review[v].verdict = "approve" /\ r \in review[v].todo
    /\ Finish(v, r)
    /\ UNCHANGED <<balance, verified, request, status, payment, refunds, due, stale, disputed>>

\* The status of the row is written, whatever it has become.
Approve(v, r) ==
    /\ review[v].pc = "list" /\ review[v].verdict = "approve" /\ r \in review[v].todo
    /\ status' = [status EXCEPT ![r] = "processing"]
    /\ Finish(v, r)
    /\ UNCHANGED <<balance, verified, request, payment, refunds, due, stale, disputed>>

\* withdrawal.wallet is read for each request, when it is its turn.
RefundRead(v, r) ==
    /\ review[v].pc = "list" /\ review[v].verdict = "reject" /\ r \in review[v].todo
    /\ review' = [review EXCEPT ![v] =
                    [@ EXCEPT !.pc = "read", !.doing = {r}, !.seen = balance[Owner[r]]]]
    /\ UNCHANGED <<balance, verified, request, status, payment, refunds, due, stale, disputed>>

\* Wallet.credit saves the balance, in a transaction of its own.
Refund(v, r) ==
    LET u == Owner[r] IN
    /\ review[v].pc = "read" /\ r \in review[v].doing
    /\ balance' = [balance EXCEPT ![u] = review[v].seen + Amount[r]]
    /\ due'     = [due EXCEPT ![u] = @ + Amount[r]]
    /\ refunds' = [refunds EXCEPT ![r] = @ + 1]
    /\ review'  = [review EXCEPT ![v].pc = "refunded"]
    /\ stale'   = StaleAfter(u, v)
    /\ UNCHANGED <<verified, request, status, payment, disputed>>

\* The status is saved in another transaction.
MarkRejected(v, r) ==
    /\ review[v].pc = "refunded" /\ r \in review[v].doing
    /\ status' = [status EXCEPT ![r] = "rejected"]
    /\ Finish(v, r)
    /\ UNCHANGED <<balance, verified, request, payment, refunds, due, stale, disputed>>

\* The process dies, or the database fails: what was committed stays.
Die(v) ==
    /\ Faults
    /\ Active(v)
    /\ review'   = [review EXCEPT ![v].pc = "dead"]
    /\ disputed' = disputed \cup {r \in review[v].doing : review[v].pc = "refunded"}
    /\ UNCHANGED <<balance, verified, request, status, payment, refunds, due, stale>>

-----------------------------------------------------------------------------
(* A credit from elsewhere: the balance is read, and saved later on *)

PaymentRead(p) ==
    /\ payment[p].pc = "idle"
    /\ payment' = [payment EXCEPT ![p] = [pc |-> "read", seen |-> balance[Payee[p]]]]
    /\ UNCHANGED <<balance, verified, request, status, review, refunds, due, stale, disputed>>

PaymentWrite(p) ==
    LET u == Payee[p] IN
    /\ payment[p].pc = "read"
    /\ balance' = [balance EXCEPT ![u] = payment[p].seen + Paid[p]]
    /\ due'     = [due EXCEPT ![u] = @ + Paid[p]]
    /\ payment' = [payment EXCEPT ![p].pc = "done"]
    /\ stale'   = StaleAfter(u, p)
    /\ UNCHANGED <<verified, request, status, review, refunds, disputed>>

-----------------------------------------------------------------------------
UserStep(r) == RequestRead(r) \/ RequestDebit(r) \/ RequestRefuse(r)

ReviewStep(v) ==
    \E r \in Requests : Approve(v, r) \/ RefundRead(v, r) \/ Refund(v, r) \/ MarkRejected(v, r)

Next ==
    \/ \E u \in Users : SaveBank(u)
    \/ \E r \in Requests : UserStep(r)
    \/ \E v \in Reviews :
          \/ \E verdict \in {"approve", "reject"}, S \in SUBSET Requests : ReviewList(v, verdict, S)
          \/ ReviewStep(v)
          \/ Die(v)
    \/ \E p \in Payments : PaymentRead(p) \/ PaymentWrite(p)

Spec == Init /\ [][Next]_vars

\* A review that has started goes on.  Nobody has to start one.
Fairness == \A v \in Reviews : WF_vars(ReviewStep(v))

FairSpec == Spec /\ Fairness

-----------------------------------------------------------------------------
WithdrawalTypeOK ==
    /\ balance \in [Users -> Nat] /\ due \in [Users -> Int]
    /\ verified \subseteq Users /\ stale \subseteq Users /\ disputed \subseteq Requests
    /\ request \in [Requests -> RequestStates]
    /\ status \in [Requests -> {"none", "pending", "processing", "rejected"}]
    /\ review \in [Reviews -> ReviewStates]
    /\ payment \in [Payments -> PaymentStates]
    /\ refunds \in [Requests -> Nat]

\* Requests, refunds and payments never lose each other's writes, unless one had
\* read the wallet before another wrote it (views.py 227-244, admin.py 80).
WalletIsDue == \A u \in Users \ stale : balance[u] = due[u]

\* A rejected request was refunded, also when the review died or two overlapped:
\* the credit is saved before the status (admin.py 80-88).
RejectedWasRefunded == \A r \in Requests : status[r] = "rejected" => refunds[r] > 0

\* Every request that a review has listed is settled, unless the review dies.
ReviewSettles ==
    \A v \in Reviews, r \in Requests :
        Listed(r, v) ~> (status[r] \in {"processing", "rejected"} \/ review[v].pc = "dead")

\* Where the amount of r is; "lost" is not a place it can be.
Fate(r) ==
    CASE r \in disputed                                          -> "disputed"
      [] r \notin disputed /\ status[r] = "none"                 -> "none"
      [] r \notin disputed /\ status[r] = "pending" /\ refunds[r] = 0    -> "held"
      [] r \notin disputed /\ status[r] = "processing" /\ refunds[r] = 0 -> "paid"
      [] r \notin disputed /\ status[r] \in {"pending", "rejected"} /\ refunds[r] = 1 -> "returned"
      [] OTHER                                                   -> "lost"

Promise == INSTANCE WithdrawalPromise WITH fate <- [r \in Requests |-> Fate(r)]

\* A request that one review handled to its end is paid out or refunded, never
\* both and never twice.
KeepsWithdrawalPromise == Promise!PromiseSpec
=============================================================================
