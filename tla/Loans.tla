-------------------------------- MODULE Loans --------------------------------
(***************************************************************************)
(* Loans out of the demo float.  LoanApplyView and LoanRepayView lock the  *)
(* float's row, but neither the loan nor the wallet; the Monday task       *)
(* process_weekly_loan_repayments reads all loans and wallets at its start *)
(* and locks nothing.                                                      *)
(***************************************************************************)
EXTENDS Integers, FiniteSets

CONSTANTS
    Users,
    Float,        \* the account of DemoFloat
    Applications, \* the LoanApplyView requests; each may become a loan
    Repayments,   \* the LoanRepayView requests
    Applicant,    \* Applicant[a]
    Amount,       \* Amount[a], in kobo
    Rate,         \* percent of interest
    Terms,        \* weekly instalments (4 in the code)
    Repaid,       \* Repaid[p]: the application whose loan p repays
    Offer,        \* Offer[p]: the amount p offers
    Deposit,      \* Deposit[c]: the balance of account c at first
    Weeks,        \* bound: Mondays
    Faults        \* TRUE: the task may die

Accounts == Users \cup {Float}

ASSUME UsersAssumption        == Float \notin Users
ASSUME ApplicationsAssumption == /\ Applicant \in [Applications -> Users]
                                 /\ Amount \in [Applications -> Nat] /\ Rate \in Nat
                                 /\ Terms \in Nat \ {0}
                                 \* at least 500 naira (serializers.py:17)
                                 /\ \A a \in Applications : Amount[a] >= Terms
ASSUME RepaymentsAssumption   == /\ Repaid \in [Repayments -> Applications]
                                 /\ Offer \in [Repayments -> Nat \ {0}]
                                 /\ Repayments \cap Applications = {}
ASSUME DepositAssumption      == Deposit \in [Accounts -> Nat]
ASSUME BoundsAssumption       == Weeks \in Nat /\ Faults \in BOOLEAN

VARIABLES
    balance,   \* balance[c]: Wallet.balance, DemoFloat.balance
    loan,      \* loan[a]: the loan of application a
    apply,     \* apply[a]: progress of the application
    repay,     \* repay[p]: progress of the repayment, and the loan it has read
    run,       \* the Monday task, and all that it has read
    week,      \* Mondays so far
    ledger,    \* ledger[c]: the balance according to the amounts moved
    taken,     \* taken[a]: what was debited for loan a
    stale,     \* accounts that changed while somebody had them in hand
    disputed,  \* loans that changed so, or whose deduction died half way
    raced      \* users with two applications under way at once

vars == <<balance, loan, apply, repay, run, week, ledger, taken, stale, disputed, raced>>

-----------------------------------------------------------------------------
(* Amounts and schedules *)

\* quantize(0.01) of n / d: to the nearest kobo, half to even.
Quantize(n, d) ==
    LET whole == n \div d
        rest  == 2 * (n % d)
    IN  IF rest > d \/ (rest = d /\ whole % 2 = 1) THEN whole + 1 ELSE whole

Total(a)  == Quantize(Amount[a] * (100 + Rate), 100)
Weekly(a) == Quantize(Total(a), Terms)

Instalments == 1..Terms

Loan == [status : {"none", "active", "partial", "repaid", "defaulted"}, repaid : Nat,
         paid : SUBSET Instalments, missed : SUBSET Instalments, since : Nat]

NoLoan == [status |-> "none", repaid |-> 0, paid |-> {}, missed |-> {}, since |-> 0]

\* Mutant of Open: a loan that was repaid in part is not counted.
OpenActive(x) == x.status = "active"

\* Mutant of Open: a loan that was repaid is still in the queryset.
OpenOrRepaid(x) == x.status \in {"active", "partial", "repaid"}

Open(x) == x.status \in {"active", "partial"}

\* Mutant of Settled: what completes no instalment is not added.
SettledInFull(a, x, n, S) ==
    [x EXCEPT !.repaid = IF S = {} THEN @ ELSE @ + n,
              !.status = IF x.repaid + n >= Total(a) THEN "repaid" ELSE "partial",
              !.paid   = @ \cup S]

\* Mutant of Settled: only amount_repaid is in update_fields.
SettledUnsaved(a, x, n, S) == [x EXCEPT !.repaid = @ + n]

\* Loan x of a with n more repaid, and the instalments of S marked as paid.
Settled(a, x, n, S) ==
    [x EXCEPT !.repaid = @ + n,
              !.status = IF x.repaid + n >= Total(a) THEN "repaid" ELSE "partial",
              !.paid   = @ \cup S]

Sufficient(b, n) == b >= n

\* Mutant of Covered: an instalment paid in part counts as paid.
CoveredInPart(a, x, n) ==
    {i \in Instalments \ x.paid : Cardinality((1..i) \ x.paid) <= n \div Weekly(a) + 1}

\* The unpaid instalments that n pays for in full, in their order.
Covered(a, x, n) ==
    {i \in Instalments \ x.paid : Cardinality((1..i) \ x.paid) * Weekly(a) <= n}

\* The first unpaid instalment, if it is due.
Due(x) == {i \in Instalments \ x.paid : (1..(i - 1)) \subseteq x.paid /\ x.since + i <= week}

-----------------------------------------------------------------------------
ApplyStates == [pc : {"idle", "checked", "locked", "done", "refused", "aborted"},
                seen : Nat, float : Nat]
RepayStates == [pc : {"idle", "read", "wallet", "debited", "done", "refused", "aborted"},
                loan : Loan, amount : Nat, seen : Nat]
RunStates   == [pc : {"idle", "list", "defaulting", "debited", "saved", "float"},
                todo : SUBSET Applications, at : SUBSET Applications,
                loan : [Applications -> Loan], seen : [Applications -> Nat], float : Nat]

Init ==
    /\ balance  = Deposit
    /\ loan     = [a \in Applications |-> NoLoan]
    /\ apply    = [a \in Applications |-> [pc |-> "idle", seen |-> 0, float |-> 0]]
    /\ repay    = [p \in Repayments |-> [pc |-> "idle", loan |-> NoLoan, amount |-> 0, seen |-> 0]]
    /\ run      = [pc |-> "idle", todo |-> {}, at |-> {}, loan |-> [a \in Applications |-> NoLoan],
                   seen |-> [a \in Applications |-> 0], float |-> 0]
    /\ week     = 0
    /\ ledger   = Deposit
    /\ taken    = [a \in Applications |-> 0]
    /\ stale    = {}
    /\ disputed = {}
    /\ raced    = {}

-----------------------------------------------------------------------------
(* Who holds what, and who has what in hand *)

\* Mutant of HoldsFloat: an early return leaves the transaction open.
HoldsFloatRefused(a) == apply[a].pc \in {"locked", "refused"}

\* LoanApplyView has locked the float's row.
HoldsFloat(a) == apply[a].pc = "locked"

\* LoanRepayView has updated the rows of the wallet and the loan.
Debited(p) == repay[p].pc = "debited"

Borrower(p) == Applicant[Repaid[p]]

\* Mutant of FloatLocked: DemoFloat is read without select_for_update.
FloatUnlocked == FALSE

FloatLocked == \E a \in Applications : HoldsFloat(a)

WalletLocked(u) == \E p \in Repayments : Debited(p) /\ Borrower(p) = u
LoanLocked(a)   == \E p \in Repayments : Debited(p) /\ Repaid[p] = a

\* The requests other than x that have read the wallet of u and not written it.
Reading(u, x) ==
    {a \in Applications \ {x} : Applicant[a] = u /\ HoldsFloat(a)}
      \cup {p \in Repayments \ {x} : Borrower(p) = u /\ repay[p].pc \in {"wallet", "debited"}}

\* The task has read account c for another loan than those of X, or the float.
Listed(c, X) == \/ \E a \in run.todo \ X : Applicant[a] = c
                \/ c = Float /\ run.pc = "float"

\* Requests other than x that have read loan a and not written it.
Repaying(a, x) ==
    {p \in Repayments \ {x} : Repaid[p] = a /\ repay[p].pc \in {"read", "wallet", "debited"}}

\* The accounts of C that a write of x makes stale, and the loan a.
StaleAfter(C, x)    == stale \cup {c \in C : Reading(c, x) # {} \/ Listed(c, run.at \cup {x})}
DisputedAfter(a, x) == disputed \cup {b \in {a} : Repaying(b, x) # {}}

-----------------------------------------------------------------------------
(* LoanApplyView *)

\* The serializer finds no open loan of the user.  (The score is high enough.)
ApplyCheck(a) ==
    LET u     == Applicant[a]
        other == {b \in Applications : Applicant[b] = u}
    IN
    /\ apply[a].pc = "idle"
    /\ \/ /\ \E b \in other : Open(loan[b])
          /\ apply' = [apply EXCEPT ![a].pc = "refused"]
          /\ UNCHANGED raced
       \/ /\ \A b \in other : ~Open(loan[b])
          /\ apply' = [apply EXCEPT ![a].pc = "checked"]
          /\ raced' = raced \cup {v \in {u} : \E b \in other : apply[b].pc \in {"checked", "locked"}}
    /\ UNCHANGED <<balance, loan, repay, run, week, ledger, taken, stale, disputed>>

\* SELECT ... FOR UPDATE; DemoFloat.disburse raises ValueError when it is short.
\* user.wallet is read under the lock too.
ApplyLock(a) ==
    /\ apply[a].pc = "checked"
    /\ ~FloatLocked
    /\ apply' = [apply EXCEPT ![a] =
                   IF Sufficient(balance[Float], Amount[a])
                   THEN [pc |-> "locked", seen |-> balance[Applicant[a]], float |-> balance[Float]]
                   ELSE [@ EXCEPT !.pc = "refused"]]
    /\ UNCHANGED <<balance, loan, repay, run, week, ledger, taken, stale, disputed, raced>>

\* Float, loan and wallet are written in one transaction.  A loan granted after the
\* Monday run's hour, or on another day, has its first instalment due a week later.
ApplyCommit(a) ==
    LET u == Applicant[a] IN
    /\ apply[a].pc = "locked"
    /\ ~WalletLocked(u)
    /\ balance' = [balance EXCEPT ![u]     = apply[a].seen + Amount[a],
                                ![Float] = apply[a].float - Amount[a]]
    /\ ledger'  = [ledger EXCEPT ![u] = @ + Amount[a], ![Float] = @ - Amount[a]]
    /\ \E s \in {week, week + 1} :
          loan' = [loan EXCEPT ![a] = [NoLoan EXCEPT !.status = "active", !.since = s]]
    /\ apply'   = [apply EXCEPT ![a].pc = "done"]
    /\ stale'   = StaleAfter({u, Float}, a)
    /\ UNCHANGED <<repay, run, week, taken, disputed, raced>>

-----------------------------------------------------------------------------
(* LoanRepayView *)

\* The amount is capped at the outstanding balance.
RepayRead(p) ==
    LET x == loan[Repaid[p]]
        outstanding == Total(Repaid[p]) - x.repaid
    IN
    /\ repay[p].pc = "idle"
    /\ x.status # "none"
    /\ repay' = [repay EXCEPT ![p] =
                   IF Open(x)
                   THEN [pc |-> "read", loan |-> x, seen |-> 0,
                         amount |-> IF Offer[p] > outstanding THEN outstanding ELSE Offer[p]]
                   ELSE [@ EXCEPT !.pc = "refused"]]
    /\ UNCHANGED <<balance, loan, apply, run, week, ledger, taken, stale, disputed, raced>>

RepayWallet(p) ==
    LET b == balance[Borrower(p)] IN
    /\ repay[p].pc = "read"
    /\ repay' = [repay EXCEPT ![p] = IF Sufficient(b, repay[p].amount)
                                     THEN [@ EXCEPT !.pc = "wallet", !.seen = b]
                                     ELSE [@ EXCEPT !.pc = "refused"]]
    /\ UNCHANGED <<balance, loan, apply, run, week, ledger, taken, stale, disputed, raced>>

\* The UPDATEs of wallet and loan lock their rows until the transaction ends.
RepayDebit(p) ==
    /\ repay[p].pc = "wallet"
    /\ ~WalletLocked(Borrower(p))
    /\ repay' = [repay EXCEPT ![p].pc = "debited"]
    /\ UNCHANGED <<balance, loan, apply, run, week, ledger, taken, stale, disputed, raced>>

\* The float is locked and credited, and all is committed: the loan as it was read,
\* with the repayment.
RepayCommit(p) ==
    LET a == Repaid[p]
        u == Borrower(p)
        n == repay[p].amount
        x == repay[p].loan
    IN
    /\ repay[p].pc = "debited"
    /\ ~FloatLocked
    /\ balance' = [balance EXCEPT ![u] = repay[p].seen - n, ![Float] = @ + n]
    /\ ledger'  = [ledger EXCEPT ![u] = @ - n, ![Float] = @ + n]
    /\ loan'    = [loan EXCEPT ![a] = Settled(a, x, n, Covered(a, x, n))]
    /\ taken'   = [taken EXCEPT ![a] = @ + n]
    /\ repay'   = [repay EXCEPT ![p].pc = "done"]
    /\ stale'   = StaleAfter({u, Float}, p)
    /\ disputed' = DisputedAfter(a, p) \cup (run.todo \cap {a})
    /\ UNCHANGED <<apply, run, week, raced>>

\* An application that holds the float and a repayment that holds the same user's
\* wallet wait for each other: PostgreSQL aborts one of them.
Deadlock(a, p) ==
    apply[a].pc = "locked" /\ repay[p].pc = "debited" /\ Borrower(p) = Applicant[a]

BreakDeadlock(a, p) ==
    /\ Deadlock(a, p)
    /\ \/ apply' = [apply EXCEPT ![a].pc = "aborted"] /\ UNCHANGED repay
       \/ repay' = [repay EXCEPT ![p].pc = "aborted"] /\ UNCHANGED apply
    /\ UNCHANGED <<balance, loan, run, week, ledger, taken, stale, disputed, raced>>

-----------------------------------------------------------------------------
(* process_weekly_loan_repayments: every save is a transaction of its own *)

\* Loans and wallets are read in one query.
RunStart ==
    LET open == {a \in Applications : Open(loan[a])} IN
    /\ run.pc = "idle"
    /\ week < Weeks
    /\ week' = week + 1
    /\ run' = [pc   |-> IF open = {} THEN "idle" ELSE "list", todo |-> open, at |-> {},
               loan |-> [a \in Applications |-> IF a \in open THEN loan[a] ELSE NoLoan],
               seen |-> [a \in Applications |-> IF a \in open THEN balance[Applicant[a]] ELSE 0],
               float |-> 0]
    /\ UNCHANGED <<balance, loan, apply, repay, ledger, taken, stale, disputed, raced>>

\* The task is through with loan a.
Finish(a) == [run EXCEPT !.pc = IF run.todo \subseteq {a} THEN "idle" ELSE "list",
                         !.todo = @ \ {a}, !.at = {}, !.float = 0]

RunSkip(a) ==
    /\ run.pc = "list" /\ a \in run.todo
    /\ Due(run.loan[a]) = {}
    /\ run' = Finish(a)
    /\ UNCHANGED <<balance, loan, apply, repay, week, ledger, taken, stale, disputed, raced>>

\* The wallet is short: the schedule is saved with the instalment missed.
RunMiss(a) ==
    LET x      == run.loan[a]
        missed == x.missed \cup Due(x)
    IN
    /\ run.pc = "list" /\ a \in run.todo
    /\ Due(x) # {} /\ ~Sufficient(run.seen[a], Weekly(a))
    /\ ~LoanLocked(a)
    /\ loan' = [loan EXCEPT ![a] = [@ EXCEPT !.paid = x.paid, !.missed = missed]]
    /\ run'  = IF Cardinality(missed) >= 2 THEN [run EXCEPT !.pc = "defaulting", !.at = {a}]
                                           ELSE Finish(a)
    /\ disputed' = DisputedAfter(a, a)
    /\ UNCHANGED <<balance, apply, repay, week, ledger, taken, stale, raced>>

\* The task ends, whatever it had still to do.
Stopped == [run EXCEPT !.pc = "idle", !.todo = {}, !.at = {}, !.float = 0]

\* With two missed instalments in the schedule, the loan is in default.  The flag for
\* its borrower then stops the task: User has no field is_flagged.
RunDefault(a) ==
    /\ run.pc = "defaulting" /\ a \in run.at
    /\ ~LoanLocked(a)
    /\ loan' = [loan EXCEPT ![a].status = "defaulted"]
    /\ run'  = Stopped
    /\ disputed' = DisputedAfter(a, a)
    /\ UNCHANGED <<balance, apply, repay, week, ledger, taken, stale, raced>>

RunDebit(a) ==
    LET u == Applicant[a]
        n == Weekly(a)
    IN
    /\ run.pc = "list" /\ a \in run.todo
    /\ Due(run.loan[a]) # {} /\ Sufficient(run.seen[a], n)
    /\ ~WalletLocked(u)
    /\ balance' = [balance EXCEPT ![u] = run.seen[a] - n]
    /\ ledger'  = [ledger EXCEPT ![u] = @ - n]
    /\ taken'   = [taken EXCEPT ![a] = @ + n]
    /\ run'     = [run EXCEPT !.pc = "debited", !.at = {a}]
    /\ stale'   = StaleAfter({u}, a)
    /\ UNCHANGED <<loan, apply, repay, week, disputed, raced>>

RunSave(a) ==
    /\ run.pc = "debited" /\ a \in run.at
    /\ ~LoanLocked(a)
    /\ loan' = [loan EXCEPT ![a] = Settled(a, run.loan[a], Weekly(a), Due(run.loan[a]))]
    /\ run'  = [run EXCEPT !.pc = "saved", !.todo = @ \ {a}]
    /\ disputed' = DisputedAfter(a, a)
    /\ UNCHANGED <<balance, apply, repay, week, ledger, taken, stale, raced>>

\* DemoFloat.objects.get, without a lock.
RunFloatRead ==
    /\ run.pc = "saved"
    /\ run' = [run EXCEPT !.pc = "float", !.float = balance[Float]]
    /\ UNCHANGED <<balance, loan, apply, repay, week, ledger, taken, stale, disputed, raced>>

RunFloatWrite(a) ==
    /\ run.pc = "float" /\ a \in run.at
    /\ ~FloatLocked
    /\ balance' = [balance EXCEPT ![Float] = run.float + Weekly(a)]
    /\ ledger'  = [ledger EXCEPT ![Float] = @ + Weekly(a)]
    /\ run'     = Finish(a)
    /\ UNCHANGED <<loan, apply, repay, week, taken, stale, disputed, raced>>

\* The process dies: the remaining loans wait for next Monday.
RunDie ==
    /\ Faults
    /\ run.pc # "idle"
    /\ run' = Stopped
    /\ disputed' = disputed \cup {a \in run.at : run.pc = "debited"}
    /\ UNCHANGED <<balance, loan, apply, repay, week, ledger, taken, stale, raced>>

-----------------------------------------------------------------------------
ApplyStep(a) == ApplyLock(a) \/ ApplyCommit(a)
RepayStep(p) == RepayWallet(p) \/ RepayDebit(p) \/ RepayCommit(p)
RunStep(a)   == \/ RunSkip(a) \/ RunMiss(a) \/ RunDefault(a)
                \/ RunDebit(a) \/ RunSave(a) \/ RunFloatWrite(a)

Next ==
    \/ \E a \in Applications : ApplyCheck(a) \/ ApplyStep(a) \/ RunStep(a)
    \/ \E p \in Repayments : RepayRead(p) \/ RepayStep(p)
    \/ \E a \in Applications, p \in Repayments : BreakDeadlock(a, p)
    \/ RunStart \/ RunFloatRead \/ RunDie

Spec == Init /\ [][Next]_vars

\* gunicorn runs a request it has begun to its end, and PostgreSQL breaks deadlocks.
Fairness ==
    /\ \A a \in Applications : WF_vars(ApplyStep(a))
    /\ \A p \in Repayments : WF_vars(RepayStep(p))
    /\ \A a \in Applications, p \in Repayments : WF_vars(BreakDeadlock(a, p))

FairSpec == Spec /\ Fairness

-----------------------------------------------------------------------------
LoansTypeOK ==
    /\ balance \in [Accounts -> Nat] /\ ledger \in [Accounts -> Int]
    /\ loan \in [Applications -> Loan]
    /\ apply \in [Applications -> ApplyStates]
    /\ repay \in [Repayments -> RepayStates]
    /\ run \in RunStates
    /\ week \in 0..Weeks
    /\ taken \in [Applications -> Nat]
    /\ stale \subseteq Accounts /\ disputed \subseteq Applications /\ raced \subseteq Users

\* The float and the wallets hold what was moved, unless one changed while somebody
\* had it in hand: the row lock covers the float against requests, not against the
\* task (views.py 392, 520; tasks.py 200-203).
AccountsAreLedger == \A c \in Accounts \ stale : balance[c] = ledger[c]

\* What was debited for a loan is recorded in it, but for the deduction at work
\* (tasks.py 189-198).  Of a disputed loan nothing is said: a late save forgets what
\* was repaid since the loan was read, and a task that dies what it has just debited.
RepaidIsTaken ==
    \A a \in Applications \ disputed :
        loan[a].repaid = taken[a] - (IF run.pc = "debited" /\ a \in run.at THEN Weekly(a) ELSE 0)

\* No loan ever has an instalment or more on record on top of its total, although the
\* task does not look at what was repaid in part (views.py 490, tasks.py 131-149); and
\* no more than that was debited, unless the loan is disputed: a task that has listed
\* it before all of it was repaid takes a whole instalment more (tasks.py 152).
OverpaidByLessThanAnInstalment ==
    \A a \in Applications :
        /\ loan[a].repaid < Total(a) + Weekly(a)
        /\ a \in disputed \/ taken[a] < Total(a) + Weekly(a)

\* Instalments of a loan that is not disputed are marked as paid only when they are
\* paid for (views.py 505-515).
InstalmentsArePaidFor ==
    \A a \in Applications \ disputed : Cardinality(loan[a].paid) * Weekly(a) <= taken[a]

\* One open loan per user, unless two applications passed the check together, or a
\* late save reopened a loan that was repaid (serializers.py 23).
OneLoanUnlessRaced ==
    \A a, b \in Applications \ disputed :
        (/\ Applicant[a] = Applicant[b] /\ a # b
         /\ {loan[a].status, loan[b].status} \subseteq {"active", "partial"})
            => Applicant[a] \in raced

\* A loan that is repaid or in default is left alone, and nothing more is debited for
\* it, unless somebody had it in hand when it was closed (views.py 482, tasks.py 134).
ClosedLoansRest ==
    [][\A a \in Applications \ disputed' :
         loan[a].status \in {"repaid", "defaulted"}
             => loan'[a] = loan[a] /\ taken'[a] = taken[a]]_vars

\* Applications and repayments end, in spite of locks taken in opposite orders.
LoanRequestsEnd ==
    /\ \A a \in Applications :
          apply[a].pc = "checked" ~> apply[a].pc \in {"done", "refused", "aborted"}
    /\ \A p \in Repayments :
          repay[p].pc = "read" ~> repay[p].pc \in {"done", "refused", "aborted"}

\* README.md:356: "Missed 2+ installments -> loan marked DEFAULTED".  Between two runs
\* no open loan has two instalments that fell due and were not paid.
TwoMissedIsDefaulted ==
    \A a \in Applications :
        run.pc = "idle" /\ Open(loan[a])
            => Cardinality({i \in Instalments \ loan[a].paid : loan[a].since + i <= week}) < 2
=============================================================================
