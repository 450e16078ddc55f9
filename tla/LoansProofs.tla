---------------------------- MODULE LoansProofs -----------------------------
(***************************************************************************)
(* Proofs about Loans: for any users, loans, amounts, instalments and      *)
(* Mondays, float and wallets hold what was moved, and a loan records what *)
(* was taken for it, unless a second writer came in between.               *)
(***************************************************************************)
EXTENDS Loans, FiniteSetTheorems, NaturalsInduction, TLAPS

-----------------------------------------------------------------------------
(* What the requests under way and the task know *)

\* A request that goes on had found enough.
EnoughRead ==
    /\ \A a \in Applications : HoldsFloat(a) => Amount[a] <= apply[a].float
    /\ \A p \in Repayments : repay[p].pc \in {"wallet", "debited"}
                               => repay[p].amount <= repay[p].seen

\* Something is owed on an open loan.
OpenOwes == \A a \in Applications : Open(loan[a]) => loan[a].repaid < Total(a)

\* The task is at one loan, which it has still to do until the loan is saved.
RunShape ==
    /\ run.pc = "idle" => run.todo = {}
    /\ run.pc \in {"idle", "list"} => run.at = {}
    /\ run.pc \in {"defaulting", "debited"} => run.at \subseteq run.todo
    /\ \A a \in run.at : run.at = {a}

\* There is no loan before its application is through, and nobody has read one or
\* repaid it.
NotYetALoan ==
    /\ \A a \in Applications :
          apply[a].pc # "done" => loan[a].status = "none" /\ a \notin run.todo
    /\ \A p \in Repayments :
          repay[p].pc \in {"read", "wallet", "debited"} => loan[Repaid[p]].status # "none"
    /\ \A a \in Applications : loan[a].status = "none" => loan[a].repaid = 0

TypeInv == LoansTypeOK /\ EnoughRead /\ OpenOwes /\ RunShape /\ NotYetALoan

\* One application at a time has the float's row, and knows what is in it.
FloatHeld ==
    /\ \A a \in Applications, b \in Applications : HoldsFloat(a) /\ HoldsFloat(b) => a = b
    /\ \A a \in Applications : HoldsFloat(a) => apply[a].float = balance[Float]

\* The wallet that a request or the task has in hand is the wallet, unless it is stale.
WalletSeen ==
    /\ \A a \in Applications : HoldsFloat(a) /\ Applicant[a] \notin stale
                                 => apply[a].seen = balance[Applicant[a]]
    /\ \A p \in Repayments : repay[p].pc \in {"wallet", "debited"} /\ Borrower(p) \notin stale
                               => repay[p].seen = balance[Borrower(p)]
    /\ \A a \in run.todo \ run.at : Applicant[a] \notin stale
                                      => run.seen[a] = balance[Applicant[a]]

\* So is the float that the task has read.
FloatSeen == run.pc = "float" /\ Float \notin stale => run.float = balance[Float]

MoneyInv == TypeInv /\ FloatHeld /\ WalletSeen /\ FloatSeen /\ AccountsAreLedger

\* An undisputed loan is as those have read it who are going to write it.
LoanSeen ==
    /\ \A p \in Repayments :
          repay[p].pc \in {"read", "wallet", "debited"} /\ Repaid[p] \notin disputed =>
            /\ repay[p].loan = loan[Repaid[p]] /\ Open(loan[Repaid[p]])
            /\ repay[p].amount + loan[Repaid[p]].repaid <= Total(Repaid[p])
    /\ \A a \in run.todo \ disputed :
          (run.pc = "defaulting" /\ a \in run.at) \/ (run.loan[a] = loan[a] /\ Open(loan[a]))

\* What an undisputed loan records is less than a whole instalment too much, and
\* enough for the instalments that are marked.
LoanRecords ==
    \A a \in Applications \ disputed :
        /\ loan[a].repaid < Total(a) + Weekly(a)
        /\ Cardinality(loan[a].paid) * Weekly(a) <= loan[a].repaid

\* Whatever else has become of the loan meanwhile, whoever has read it will not add
\* more to what he has read than was owed then, or an instalment.
NeverFarOver ==
    /\ \A p \in Repayments : repay[p].pc \in {"read", "wallet", "debited"} =>
          repay[p].amount + repay[p].loan.repaid <= Total(Repaid[p])
    /\ \A a \in run.todo : run.loan[a].repaid < Total(a)
    /\ \A a \in Applications : loan[a].repaid < Total(a) + Weekly(a)

BoundInv == TypeInv /\ NeverFarOver

RecordInv == TypeInv /\ LoanSeen /\ LoanRecords /\ RepaidIsTaken

Checked(a) == apply[a].pc \in {"checked", "locked"}

\* An application under way beside another one, or beside an open loan, of the same
\* user has raced with it.
ChecksRaced ==
    \A a, b \in Applications :
        (/\ Applicant[a] = Applicant[b] /\ a # b /\ Checked(a)
         /\ Checked(b) \/ (b \notin disputed /\ Open(loan[b])))
            => Applicant[a] \in raced

OpenInv == RecordInv /\ ChecksRaced /\ OneLoanUnlessRaced

-----------------------------------------------------------------------------
(* Amounts and records *)

LEMMA QuotientIsNat ==
  ASSUME NEW n \in Nat, NEW d \in Nat \ {0}
  PROVE  n \div d \in Nat /\ n % d \in Nat /\ (d <= n => n \div d >= 1)
OBVIOUS

\* Rounding gives an amount in kobo, and at least one for at least one.
LEMMA QuantizeIsKobo ==
  ASSUME NEW n \in Nat, NEW d \in Nat \ {0}
  PROVE  Quantize(n, d) \in Nat /\ (d <= n => Quantize(n, d) >= 1)
<1> DEFINE whole == n \div d
           rest  == 2 * (n % d)
<1>1. whole \in Nat /\ rest \in Nat /\ (d <= n => whole >= 1)
  BY QuotientIsNat
<1> HIDE DEF whole, rest
<1>2. Quantize(n, d) = IF rest > d \/ (rest = d /\ whole % 2 = 1) THEN whole + 1 ELSE whole
  BY DEF Quantize, whole, rest
<1> QED
  BY <1>1, <1>2

LEMMA Amounts ==
  ASSUME NEW a \in Applications
  PROVE  /\ Applicant[a] \in Users /\ Applicant[a] # Float /\ Applicant[a] \in Accounts
         /\ Amount[a] \in Nat /\ a \notin Repayments
         /\ Total(a) \in Nat /\ Total(a) > 0 /\ Weekly(a) \in Nat /\ Weekly(a) > 0
<1>1. /\ Applicant[a] \in Users /\ Applicant[a] # Float /\ Applicant[a] \in Accounts
      /\ Amount[a] \in Nat /\ a \notin Repayments
  BY ApplicationsAssumption, RepaymentsAssumption, UsersAssumption DEF Accounts
<1>2. Rate \in Nat /\ Terms \in Nat \ {0} /\ Amount[a] >= Terms
  BY ApplicationsAssumption
<1> DEFINE n == Amount[a] * (100 + Rate)
<1>3. n \in Nat /\ n >= 100 * Terms
  <2>1. n = 100 * Amount[a] + Amount[a] * Rate
    BY <1>1, <1>2
  <2>2. Amount[a] * Rate \in Nat
    BY <1>1, <1>2
  <2> QED
    BY <1>1, <1>2, <2>1, <2>2
<1> HIDE DEF n
<1>4. Total(a) = Quantize(n, 100)
  BY DEF Total, n
<1>5. Total(a) \in Nat /\ Total(a) >= Terms
  <2>1. n \div 100 \in Nat /\ n % 100 \in Nat /\ n \div 100 >= Terms
    BY <1>2, <1>3
  <2> QED
    BY <1>2, <1>4, <2>1 DEF Quantize
<1>6. Weekly(a) \in Nat /\ Weekly(a) >= 1
  BY <1>2, <1>5, QuantizeIsKobo DEF Weekly
<1> QED
  BY <1>1, <1>2, <1>5, <1>6

LEMMA RepaymentParts ==
  ASSUME NEW p \in Repayments
  PROVE  /\ Repaid[p] \in Applications /\ Borrower(p) = Applicant[Repaid[p]]
         /\ Borrower(p) \in Users /\ Borrower(p) # Float /\ Borrower(p) \in Accounts
         /\ Offer[p] \in Nat /\ Offer[p] > 0 /\ p \notin Applications
BY RepaymentsAssumption, Amounts DEF Borrower

LEMMA FloatIsAccount == Float \in Accounts
BY DEF Accounts

\* What a repayment makes of a loan.
LEMMA SettledLoan ==
  ASSUME NEW a \in Applications, NEW x \in Loan, NEW n \in Nat, NEW S \in SUBSET Instalments
  PROVE  LET y == Settled(a, x, n, S) IN
           /\ y \in Loan /\ y.repaid = x.repaid + n /\ y.paid = x.paid \cup S
           /\ y.status = IF x.repaid + n >= Total(a) THEN "repaid" ELSE "partial"
           /\ Open(y) => y.repaid < Total(a)
<1>1. Total(a) \in Nat /\ x.repaid \in Nat
  BY Amounts DEF Loan
<1>2. x.repaid + n \in Nat
  BY <1>1
<1> DEFINE y == Settled(a, x, n, S)
<1>3. /\ y.repaid = x.repaid + n /\ y.paid = x.paid \cup S
      /\ y.status = IF x.repaid + n >= Total(a) THEN "repaid" ELSE "partial"
      /\ y \in Loan
  BY <1>2 DEF Settled, Loan
<1> HIDE DEF y
<1>4. Open(y) => y.repaid < Total(a)
  BY <1>1, <1>2, <1>3 DEF Open
<1> QED
  BY <1>3, <1>4 DEF y

-----------------------------------------------------------------------------
(* What a step does to the record of a request or of the task *)

ApplyMoves(a) ==
    \/ apply'[a].pc \in {"refused", "aborted"}
    \/ apply[a].pc = "idle" /\ apply'[a].pc = "checked"
    \/ /\ apply[a].pc = "checked" /\ apply'[a].pc = "locked" /\ ~FloatLocked
       /\ apply'[a].seen = balance[Applicant[a]] /\ apply'[a].float = balance[Float]
       /\ Amount[a] <= balance[Float]

\* The steps of an application before its commit change its own record only.
LEMMA ApplyRecord ==
  ASSUME LoansTypeOK, NEW a \in Applications,
         \/ ApplyCheck(a) \/ ApplyLock(a)
         \/ \E p \in Repayments : BreakDeadlock(a, p) /\ UNCHANGED repay
  PROVE  /\ apply' \in [Applications -> ApplyStates]
         /\ \A b \in Applications : b # a => apply'[b] = apply[b]
         /\ ApplyMoves(a) \/ UNCHANGED apply
         /\ apply[a].pc # "done" \/ UNCHANGED apply
<1>1. apply \in [Applications -> ApplyStates] /\ apply[a] \in ApplyStates
  BY DEF LoansTypeOK
<1>2. balance[Applicant[a]] \in Nat /\ balance[Float] \in Nat /\ Amount[a] \in Nat
  BY Amounts, FloatIsAccount DEF LoansTypeOK
<1>3. ASSUME NEW r \in ApplyStates, apply' = [apply EXCEPT ![a] = r]
      PROVE  /\ apply' \in [Applications -> ApplyStates] /\ apply'[a] = r
             /\ \A b \in Applications : b # a => apply'[b] = apply[b]
  BY <1>1, <1>3
<1>4. ASSUME NEW pc \in {"checked", "refused", "aborted"},
             apply' = [apply EXCEPT ![a] = [apply[a] EXCEPT !.pc = pc]]
      PROVE  /\ apply' \in [Applications -> ApplyStates] /\ apply'[a].pc = pc
             /\ \A b \in Applications : b # a => apply'[b] = apply[b]
  <2>1. [apply[a] EXCEPT !.pc = pc] \in ApplyStates /\ [apply[a] EXCEPT !.pc = pc].pc = pc
    BY <1>1 DEF ApplyStates
  <2> QED
    BY <1>3, <1>4, <2>1
<1>5. CASE ApplyCheck(a)
  <2>1. /\ apply[a].pc = "idle"
        /\ \E pc \in {"checked", "refused"} : apply' = [apply EXCEPT ![a] = [apply[a] EXCEPT !.pc = pc]]
    BY <1>5 DEF ApplyCheck
  <2> QED
    BY <1>4, <2>1 DEF ApplyMoves
<1>6. CASE ApplyLock(a)
  <2>1. CASE Sufficient(balance[Float], Amount[a])
    <3> DEFINE r == [pc |-> "locked", seen |-> balance[Applicant[a]], float |-> balance[Float]]
    <3>1. r \in ApplyStates /\ r.pc = "locked" /\ r.seen = balance[Applicant[a]] /\ r.float = balance[Float]
      BY <1>2 DEF ApplyStates
    <3>2. apply' = [apply EXCEPT ![a] = r] /\ apply[a].pc = "checked" /\ ~FloatLocked
      BY <1>6, <2>1 DEF ApplyLock
    <3>3. Amount[a] <= balance[Float]
      BY <1>2, <2>1 DEF Sufficient
    <3> HIDE DEF r
    <3> QED
      BY <1>3, <3>1, <3>2, <3>3 DEF ApplyMoves
  <2>2. CASE ~Sufficient(balance[Float], Amount[a])
    <3>1. apply' = [apply EXCEPT ![a] = [apply[a] EXCEPT !.pc = "refused"]] /\ apply[a].pc = "checked"
      BY <1>6, <2>2 DEF ApplyLock
    <3> QED
      BY <1>4, <3>1 DEF ApplyMoves
  <2> QED
    BY <2>1, <2>2
<1>7. ASSUME NEW p \in Repayments, BreakDeadlock(a, p), UNCHANGED repay
      PROVE  /\ apply' \in [Applications -> ApplyStates]
             /\ \A b \in Applications : b # a => apply'[b] = apply[b]
             /\ ApplyMoves(a) \/ UNCHANGED apply
             /\ apply[a].pc # "done" \/ UNCHANGED apply
  <2>1. /\ apply[a].pc = "locked"
        /\ \/ apply' = [apply EXCEPT ![a] = [apply[a] EXCEPT !.pc = "aborted"]]
           \/ UNCHANGED apply
    BY <1>7 DEF BreakDeadlock, Deadlock
  <2> QED
    BY <1>1, <1>4, <2>1 DEF ApplyMoves
<1> QED
  BY <1>5, <1>6, <1>7

RepayMoves(p) ==
    LET a == Repaid[p]  u == Borrower(p)
    IN
    \/ repay'[p].pc \in {"refused", "aborted"}
    \/ /\ repay'[p].pc = "read" /\ repay'[p].loan = loan[a] /\ Open(loan[a])
       /\ repay'[p].amount + loan[a].repaid <= Total(a)
    \/ /\ repay[p].pc = "read" /\ repay'[p].pc = "wallet"
       /\ repay'[p].loan = repay[p].loan /\ repay'[p].amount = repay[p].amount
       /\ repay'[p].seen = balance[u] /\ repay[p].amount <= balance[u]
    \/ /\ repay[p].pc = "wallet" /\ repay'[p].pc = "debited" /\ ~WalletLocked(u)
       /\ repay'[p].loan = repay[p].loan /\ repay'[p].amount = repay[p].amount
       /\ repay'[p].seen = repay[p].seen

\* The steps of a repayment before its commit change its own record only.
LEMMA RepayRecord ==
  ASSUME LoansTypeOK, OpenOwes, NEW p \in Repayments,
         \/ RepayRead(p) \/ RepayWallet(p) \/ RepayDebit(p)
         \/ \E a \in Applications : BreakDeadlock(a, p) /\ UNCHANGED apply
  PROVE  /\ repay' \in [Repayments -> RepayStates]
         /\ \A q \in Repayments : q # p => repay'[q] = repay[q]
         /\ RepayMoves(p) \/ UNCHANGED repay
<1>1. repay \in [Repayments -> RepayStates] /\ repay[p] \in RepayStates
  BY DEF LoansTypeOK
<1> DEFINE a == Repaid[p]
           u == Borrower(p)
<1>2. a \in Applications /\ loan[a] \in Loan /\ balance[u] \in Nat /\ Offer[p] \in Nat
  BY RepaymentParts DEF LoansTypeOK
<1>3. ASSUME NEW r \in RepayStates, repay' = [repay EXCEPT ![p] = r]
      PROVE  /\ repay' \in [Repayments -> RepayStates] /\ repay'[p] = r
             /\ \A q \in Repayments : q # p => repay'[q] = repay[q]
  BY <1>1, <1>3
<1>4. ASSUME NEW pc \in {"refused", "debited", "aborted"},
             repay' = [repay EXCEPT ![p] = [repay[p] EXCEPT !.pc = pc]]
      PROVE  /\ repay' \in [Repayments -> RepayStates] /\ repay'[p].pc = pc
             /\ \A q \in Repayments : q # p => repay'[q] = repay[q]
             /\ repay'[p].loan = repay[p].loan /\ repay'[p].amount = repay[p].amount
             /\ repay'[p].seen = repay[p].seen
  <2> DEFINE r == [repay[p] EXCEPT !.pc = pc]
  <2>1. /\ r \in RepayStates /\ r.pc = pc /\ r.loan = repay[p].loan
        /\ r.amount = repay[p].amount /\ r.seen = repay[p].seen
    BY <1>1 DEF RepayStates
  <2> HIDE DEF r
  <2>2. repay' = [repay EXCEPT ![p] = r]
    BY <1>4 DEF r
  <2> QED
    BY <1>3, <2>1, <2>2
<1>5. CASE RepayRead(p)
  <2>1. CASE Open(loan[a])
    <3> DEFINE left == Total(a) - loan[a].repaid
               n == IF Offer[p] > left THEN left ELSE Offer[p]
               r == [pc |-> "read", loan |-> loan[a], seen |-> 0, amount |-> n]
    <3>1. n \in Nat /\ n + loan[a].repaid <= Total(a)
      <4>1. loan[a].repaid \in Nat /\ Total(a) \in Nat /\ loan[a].repaid < Total(a)
        BY <1>2, <2>1, Amounts DEF Loan, OpenOwes
      <4> QED
        BY <1>2, <4>1
    <3>2. repay' = [repay EXCEPT ![p] = r]
      BY <1>5, <2>1 DEF RepayRead
    <3> HIDE DEF n
    <3>3. r \in RepayStates /\ r.pc = "read" /\ r.loan = loan[a] /\ r.amount = n
      BY <1>2, <3>1 DEF RepayStates
    <3> HIDE DEF r
    <3> QED
      BY <1>3, <2>1, <3>1, <3>2, <3>3 DEF RepayMoves
  <2>2. CASE ~Open(loan[a])
    <3>1. repay' = [repay EXCEPT ![p] = [repay[p] EXCEPT !.pc = "refused"]]
      BY <1>5, <2>2 DEF RepayRead
    <3> QED
      BY <1>4, <3>1 DEF RepayMoves
  <2> QED
    BY <2>1, <2>2
<1>6. CASE RepayWallet(p)
  <2>1. CASE Sufficient(balance[u], repay[p].amount)
    <3> DEFINE r == [repay[p] EXCEPT !.pc = "wallet", !.seen = balance[u]]
    <3>1. /\ r \in RepayStates /\ r.pc = "wallet" /\ r.loan = repay[p].loan
          /\ r.amount = repay[p].amount /\ r.seen = balance[u]
      BY <1>1, <1>2 DEF RepayStates
    <3>2. repay' = [repay EXCEPT ![p] = r] /\ repay[p].pc = "read"
      BY <1>6, <2>1 DEF RepayWallet
    <3>3. repay[p].amount <= balance[u]
      <4>1. repay[p].amount \in Nat
        BY <1>1 DEF RepayStates
      <4> QED
        BY <1>2, <2>1, <4>1 DEF Sufficient
    <3> HIDE DEF r
    <3> QED
      BY <1>3, <3>1, <3>2, <3>3 DEF RepayMoves
  <2>2. CASE ~Sufficient(balance[u], repay[p].amount)
    <3>1. repay' = [repay EXCEPT ![p] = [repay[p] EXCEPT !.pc = "refused"]]
      BY <1>6, <2>2 DEF RepayWallet
    <3> QED
      BY <1>4, <3>1 DEF RepayMoves
  <2> QED
    BY <2>1, <2>2
<1>7. CASE RepayDebit(p)
  <2>1. /\ repay' = [repay EXCEPT ![p] = [repay[p] EXCEPT !.pc = "debited"]]
        /\ repay[p].pc = "wallet" /\ ~WalletLocked(u)
    BY <1>7 DEF RepayDebit
  <2> QED
    BY <1>4, <2>1 DEF RepayMoves
<1>8. ASSUME NEW b \in Applications, BreakDeadlock(b, p), UNCHANGED apply
      PROVE  /\ repay' \in [Repayments -> RepayStates]
             /\ \A q \in Repayments : q # p => repay'[q] = repay[q]
             /\ RepayMoves(p) \/ UNCHANGED repay
  <2>1. \/ repay' = [repay EXCEPT ![p] = [repay[p] EXCEPT !.pc = "aborted"]]
        \/ UNCHANGED repay
    BY <1>8 DEF BreakDeadlock
  <2> QED
    BY <1>1, <1>4, <2>1 DEF RepayMoves
<1> QED
  BY <1>5, <1>6, <1>7, <1>8

Through(a) ==
    /\ \/ (run.pc = "list" /\ a \in run.todo)
       \/ (run.pc = "float" /\ a \in run.at)
    /\ run'.pc \in {"idle", "list"} /\ run'.todo = run.todo \ {a} /\ run'.at = {}
    /\ run'.pc = "idle" => run'.todo = {}

Ends == run'.pc = "idle" /\ run'.todo = {} /\ run'.at = {}

Takes(a) ==
    /\ run.pc = "list" /\ a \in run.todo
    /\ run'.pc \in {"defaulting", "debited"} /\ run'.todo = run.todo /\ run'.at = {a}

Saves(a) ==
    /\ run.pc = "debited" /\ a \in run.at
    /\ run'.pc = "saved" /\ run'.todo = run.todo \ {a} /\ run'.at = run.at

\* A step of the task finishes a loan, ends the run, or goes on with the loan.
LEMMA RunRecord ==
  ASSUME LoansTypeOK, NEW a \in Applications, RunStep(a)
  PROVE  /\ run' \in RunStates /\ run'.loan = run.loan /\ run'.seen = run.seen
         /\ RunSkip(a) \/ RunFloatWrite(a) => Through(a)
         /\ RunMiss(a) => Through(a) \/ (Takes(a) /\ run'.pc = "defaulting")
         /\ RunDefault(a) => Ends /\ run.pc = "defaulting" /\ a \in run.at
         /\ RunDebit(a) => Takes(a) /\ run'.pc = "debited"
         /\ RunSave(a) => Saves(a)
<1>1. run \in RunStates
  BY DEF LoansTypeOK
<1>2. ASSUME run' = Finish(a)
      PROVE  /\ run' \in RunStates /\ run'.loan = run.loan /\ run'.seen = run.seen
             /\ run'.pc \in {"idle", "list"} /\ run'.todo = run.todo \ {a} /\ run'.at = {}
             /\ run'.pc = "idle" => run'.todo = {}
  <2>1. PICK pc \in {"idle", "list"} :
          pc = (IF run.todo \subseteq {a} THEN "idle" ELSE "list") /\ (pc = "idle" => run.todo \subseteq {a})
    OBVIOUS
  <2>2. run' = [run EXCEPT !.pc = pc, !.todo = run.todo \ {a}, !.at = {}, !.float = 0]
    BY <1>2, <2>1 DEF Finish
  <2>3. run' \in RunStates /\ run'.pc = pc /\ run'.todo = run.todo \ {a} /\ run'.at = {}
        /\ run'.loan = run.loan /\ run'.seen = run.seen
    BY <1>1, <2>2 DEF RunStates
  <2> QED
    BY <2>1, <2>3
<1>3. ASSUME NEW pc \in {"defaulting", "debited"}, run' = [run EXCEPT !.pc = pc, !.at = {a}]
      PROVE  /\ run' \in RunStates /\ run'.loan = run.loan /\ run'.seen = run.seen
             /\ run'.pc = pc /\ run'.todo = run.todo /\ run'.at = {a}
  BY <1>1, <1>3 DEF RunStates
<1>4. CASE RunSkip(a)
  BY <1>2, <1>4 DEF RunSkip, RunMiss, RunFloatWrite, RunDefault, RunDebit, RunSave, Through
<1>5. CASE RunFloatWrite(a)
  BY <1>2, <1>5 DEF RunSkip, RunMiss, RunFloatWrite, RunDefault, RunDebit, RunSave, Through
<1>6. CASE RunMiss(a)
  <2>1. /\ run.pc = "list" /\ a \in run.todo
        /\ run' = Finish(a) \/ run' = [run EXCEPT !.pc = "defaulting", !.at = {a}]
    BY <1>6 DEF RunMiss
  <2>2. ~RunSkip(a) /\ ~RunFloatWrite(a) /\ ~RunDefault(a) /\ ~RunDebit(a) /\ ~RunSave(a)
    BY <1>6 DEF RunSkip, RunMiss, RunFloatWrite, RunDefault, RunDebit, RunSave
  <2>3. CASE run' = Finish(a)
    BY <1>2, <2>1, <2>2, <2>3 DEF Through
  <2>4. CASE run' = [run EXCEPT !.pc = "defaulting", !.at = {a}]
    BY <1>3, <2>1, <2>2, <2>4 DEF Takes
  <2> QED
    BY <2>1, <2>3, <2>4
<1>7. CASE RunDefault(a)
  <2>1. run' = [run EXCEPT !.pc = "idle", !.todo = {}, !.at = {}, !.float = 0]
    BY <1>7 DEF RunDefault, Stopped
  <2>2. run' \in RunStates /\ Ends /\ run'.loan = run.loan /\ run'.seen = run.seen
    BY <1>1, <2>1 DEF RunStates, Ends
  <2> QED
    BY <1>7, <2>2 DEF RunSkip, RunMiss, RunFloatWrite, RunDefault, RunDebit, RunSave
<1>8. CASE RunDebit(a)
  BY <1>3, <1>8 DEF RunSkip, RunMiss, RunFloatWrite, RunDefault, RunDebit, RunSave, Takes
<1>9. CASE RunSave(a)
  <2>1. run' = [run EXCEPT !.pc = "saved", !.todo = run.todo \ {a}]
    BY <1>9 DEF RunSave
  <2>2. run' \in RunStates /\ run'.loan = run.loan /\ run'.seen = run.seen
        /\ run'.pc = "saved" /\ run'.todo = run.todo \ {a} /\ run'.at = run.at
    BY <1>1, <2>1 DEF RunStates
  <2> QED
    BY <1>9, <2>2 DEF RunSkip, RunMiss, RunFloatWrite, RunDefault, RunDebit, RunSave, Saves
<1> QED
  BY <1>4, <1>5, <1>6, <1>7, <1>8, <1>9 DEF RunStep

\* The shape of the task's record goes with these moves.
LEMMA ShapeKept ==
  ASSUME LoansTypeOK, RunShape, NEW a \in Applications, Through(a) \/ Ends \/ Takes(a) \/ Saves(a)
  PROVE  RunShape' /\ run'.todo \subseteq run.todo
<1>1. run \in RunStates
  BY DEF LoansTypeOK
<1> QED
  BY <1>1 DEF RunShape, Through, Ends, Takes, Saves, RunStates

-----------------------------------------------------------------------------
(* Types, and what they rest on *)

LEMMA TypeInit == Init => TypeInv
<1> SUFFICES ASSUME Init PROVE TypeInv
  OBVIOUS
<1>1. NoLoan \in Loan /\ NoLoan.status = "none"
  BY DEF NoLoan, Loan
<1>2. /\ apply \in [Applications -> ApplyStates] /\ \A a \in Applications : apply[a].pc = "idle"
  BY DEF Init, ApplyStates
<1>3. /\ repay \in [Repayments -> RepayStates] /\ \A p \in Repayments : repay[p].pc = "idle"
  BY <1>1 DEF Init, RepayStates
<1>4. run \in RunStates /\ run.pc = "idle" /\ run.todo = {} /\ run.at = {}
  BY <1>1 DEF Init, RunStates
<1>5. /\ loan \in [Applications -> Loan]
      /\ \A a \in Applications : loan[a].status = "none" /\ loan[a].repaid = 0
  BY <1>1 DEF Init, NoLoan
<1>6. LoansTypeOK
  BY <1>2, <1>3, <1>4, <1>5, DepositAssumption, BoundsAssumption DEF Init, LoansTypeOK
<1> QED
  BY <1>2, <1>3, <1>4, <1>5, <1>6 DEF TypeInv, EnoughRead, OpenOwes, RunShape, NotYetALoan, HoldsFloat, Open

LEMMA TypeApply ==
  ASSUME TypeInv, NEW a \in Applications,
         \/ ApplyCheck(a) \/ ApplyLock(a)
         \/ \E p \in Repayments : BreakDeadlock(a, p) /\ UNCHANGED repay
  PROVE  TypeInv'
<1> USE DEF TypeInv
<1>1. UNCHANGED <<balance, loan, repay, run, week, ledger, taken, stale, disputed>>
  BY DEF ApplyCheck, ApplyLock, BreakDeadlock
<1>2. /\ apply' \in [Applications -> ApplyStates]
      /\ \A b \in Applications : b # a => apply'[b] = apply[b]
      /\ ApplyMoves(a) \/ UNCHANGED apply
      /\ apply[a].pc # "done" \/ UNCHANGED apply
  BY ApplyRecord
<1>3. raced' \subseteq Users
  BY Amounts DEF ApplyCheck, ApplyLock, BreakDeadlock, LoansTypeOK
<1>4. LoansTypeOK'
  BY <1>1, <1>2, <1>3 DEF LoansTypeOK
<1>5. EnoughRead'
  BY <1>1, <1>2 DEF EnoughRead, HoldsFloat, ApplyMoves
<1>6. OpenOwes' /\ RunShape' /\ NotYetALoan'
  BY <1>1, <1>2 DEF OpenOwes, RunShape, NotYetALoan, ApplyMoves, Open
<1> QED
  BY <1>4, <1>5, <1>6

\* The loan that an application makes.
LEMMA CommittedLoan ==
  ASSUME LoansTypeOK, NEW a \in Applications, ApplyCommit(a)
  PROVE  /\ loan' \in [Applications -> Loan]
         /\ loan'[a].status = "active" /\ loan'[a].repaid = 0 /\ loan'[a].paid = {}
         /\ \A b \in Applications : b # a => loan'[b] = loan[b]
         /\ apply' \in [Applications -> ApplyStates] /\ apply[a].pc = "locked" /\ apply'[a].pc = "done"
         /\ \A b \in Applications : b # a => apply'[b] = apply[b]
<1>1. PICK s \in {week, week + 1} : loan' = [loan EXCEPT ![a] = [NoLoan EXCEPT !.status = "active", !.since = s]]
  BY DEF ApplyCommit
<1>7. s \in Nat
  BY BoundsAssumption DEF LoansTypeOK
<1> DEFINE y == [NoLoan EXCEPT !.status = "active", !.since = s]
<1>2. y \in Loan /\ y.status = "active" /\ y.repaid = 0 /\ y.paid = {}
  BY <1>7 DEF NoLoan, Loan
<1> HIDE DEF y
<1>3. loan' = [loan EXCEPT ![a] = y] /\ loan \in [Applications -> Loan]
  BY <1>1 DEF y, LoansTypeOK
<1>4. apply[a] \in ApplyStates /\ apply \in [Applications -> ApplyStates]
  BY DEF LoansTypeOK
<1>5. apply' = [apply EXCEPT ![a] = [apply[a] EXCEPT !.pc = "done"]] /\ apply[a].pc = "locked"
  BY DEF ApplyCommit
<1>6. [apply[a] EXCEPT !.pc = "done"] \in ApplyStates /\ [apply[a] EXCEPT !.pc = "done"].pc = "done"
  BY <1>4 DEF ApplyStates
<1> QED
  BY <1>2, <1>3, <1>4, <1>5, <1>6

\* What an application moves.
LEMMA ApplyMoney ==
  ASSUME TypeInv, NEW a \in Applications, ApplyCommit(a)
  PROVE  LET u == Applicant[a] IN
         /\ balance' \in [Accounts -> Nat] /\ ledger' \in [Accounts -> Int]
         /\ balance'[u] = apply[a].seen + Amount[a] /\ balance'[Float] = apply[a].float - Amount[a]
         /\ ledger'[u] = ledger[u] + Amount[a] /\ ledger'[Float] = ledger[Float] - Amount[a]
         /\ \A c \in Accounts \ {u, Float} : balance'[c] = balance[c] /\ ledger'[c] = ledger[c]
         /\ stale' \subseteq Accounts
<1> DEFINE u == Applicant[a]
<1>1. apply[a].seen \in Nat /\ apply[a].float \in Nat /\ Amount[a] <= apply[a].float
  BY DEF TypeInv, LoansTypeOK, ApplyStates, EnoughRead, HoldsFloat, ApplyCommit
<1>2. /\ balance' = [balance EXCEPT ![u] = apply[a].seen + Amount[a], ![Float] = apply[a].float - Amount[a]]
      /\ ledger' = [ledger EXCEPT ![u] = @ + Amount[a], ![Float] = @ - Amount[a]]
      /\ stale' = StaleAfter({u, Float}, a)
  BY DEF ApplyCommit
<1>3. balance \in [Accounts -> Nat] /\ ledger \in [Accounts -> Int] /\ stale \subseteq Accounts
  BY DEF TypeInv, LoansTypeOK
<1>4. u \in Accounts /\ Float \in Accounts /\ u # Float /\ Amount[a] \in Nat
  BY Amounts, FloatIsAccount
<1>5. stale' \subseteq Accounts
  BY <1>2, <1>3, <1>4 DEF StaleAfter
<1> HIDE DEF u
<1>6. /\ balance' \in [Accounts -> Nat]
      /\ balance'[u] = apply[a].seen + Amount[a] /\ balance'[Float] = apply[a].float - Amount[a]
  BY <1>1, <1>2, <1>3, <1>4
<1>7. /\ ledger' \in [Accounts -> Int]
      /\ ledger'[u] = ledger[u] + Amount[a] /\ ledger'[Float] = ledger[Float] - Amount[a]
  BY <1>2, <1>3, <1>4
<1>8. \A c \in Accounts \ {u, Float} : balance'[c] = balance[c] /\ ledger'[c] = ledger[c]
  BY <1>2, <1>3
<1> QED
  BY <1>5, <1>6, <1>7, <1>8 DEF u

LEMMA TypeApplyCommit ==
  ASSUME TypeInv, NEW a \in Applications, ApplyCommit(a)
  PROVE  TypeInv'
<1> USE DEF TypeInv
<1>1. UNCHANGED <<repay, run, week, taken, disputed, raced>>
  BY DEF ApplyCommit
<1>2. LoansTypeOK'
  BY <1>1, CommittedLoan, ApplyMoney DEF LoansTypeOK
<1>3. EnoughRead'
  BY <1>1, CommittedLoan DEF EnoughRead, HoldsFloat
<1>4. OpenOwes'
  BY CommittedLoan, Amounts DEF OpenOwes, Open
<1>5. RunShape'
  BY <1>1 DEF RunShape
<1>6. NotYetALoan'
  BY <1>1, CommittedLoan, RepaymentParts DEF NotYetALoan
<1> QED
  BY <1>2, <1>3, <1>4, <1>5, <1>6

LEMMA TypeRepay ==
  ASSUME TypeInv, NEW p \in Repayments,
         \/ RepayRead(p) \/ RepayWallet(p) \/ RepayDebit(p)
         \/ \E a \in Applications : BreakDeadlock(a, p) /\ UNCHANGED apply
  PROVE  TypeInv'
<1> USE DEF TypeInv
<1>1. UNCHANGED <<balance, loan, apply, run, week, ledger, taken, stale, disputed, raced>>
  BY DEF RepayRead, RepayWallet, RepayDebit, BreakDeadlock
<1>2. /\ repay' \in [Repayments -> RepayStates]
      /\ \A q \in Repayments : q # p => repay'[q] = repay[q]
      /\ RepayMoves(p) \/ UNCHANGED repay
  BY RepayRecord
<1>3. LoansTypeOK'
  BY <1>1, <1>2 DEF LoansTypeOK
<1>4. EnoughRead'
  BY <1>1, <1>2 DEF EnoughRead, HoldsFloat, RepayMoves
<1>5. OpenOwes' /\ RunShape'
  BY <1>1 DEF OpenOwes, RunShape, Open
<1>6. NotYetALoan'
  BY <1>1, <1>2 DEF NotYetALoan, RepayMoves, Open
<1> QED
  BY <1>3, <1>4, <1>5, <1>6

\* What a repayment makes of the loan, and whose loan it is.
LEMMA RepaidLoan ==
  ASSUME TypeInv, NEW p \in Repayments, RepayCommit(p)
  PROVE  LET a == Repaid[p]  x == repay[p].loan  n == repay[p].amount IN
         /\ x \in Loan /\ n \in Nat /\ x.repaid \in Nat /\ loan[a] \in Loan /\ loan[a].status # "none"
         /\ loan' \in [Applications -> Loan]
         /\ loan'[a].repaid = x.repaid + n /\ loan'[a].paid = x.paid \cup Covered(a, x, n)
         /\ loan'[a].status = IF x.repaid + n >= Total(a) THEN "repaid" ELSE "partial"
         /\ Open(loan'[a]) => loan'[a].repaid < Total(a)
         /\ \A b \in Applications : b # a => loan'[b] = loan[b]
         /\ taken' \in [Applications -> Nat] /\ taken'[a] = taken[a] + n
         /\ \A b \in Applications : b # a => taken'[b] = taken[b]
         /\ repay' \in [Repayments -> RepayStates] /\ repay[p].pc = "debited" /\ repay'[p].pc = "done"
         /\ \A q \in Repayments : q # p => repay'[q] = repay[q]
<1> DEFINE a == Repaid[p]
           x == repay[p].loan
           n == repay[p].amount
           S == Covered(a, x, n)
           y == Settled(a, x, n, S)
<1>1. a \in Applications
  BY RepaymentParts
<1>2. repay[p] \in RepayStates /\ repay \in [Repayments -> RepayStates]
  BY DEF TypeInv, LoansTypeOK
<1>3. x \in Loan /\ n \in Nat /\ x.repaid \in Nat
  BY <1>2 DEF RepayStates, Loan
<1>4. /\ repay[p].pc = "debited"
      /\ repay' = [repay EXCEPT ![p] = [repay[p] EXCEPT !.pc = "done"]]
      /\ loan' = [loan EXCEPT ![a] = y]
      /\ taken' = [taken EXCEPT ![a] = @ + n]
  BY DEF RepayCommit
<1>5. [repay[p] EXCEPT !.pc = "done"] \in RepayStates /\ [repay[p] EXCEPT !.pc = "done"].pc = "done"
  BY <1>2 DEF RepayStates
<1>6. /\ repay' \in [Repayments -> RepayStates] /\ repay'[p].pc = "done"
      /\ \A q \in Repayments : q # p => repay'[q] = repay[q]
  BY <1>2, <1>4, <1>5
<1>7. loan[a].status # "none"
  BY <1>4 DEF TypeInv, NotYetALoan
<1>8. S \in SUBSET Instalments
  BY DEF Covered
<1> HIDE DEF S
<1>9. /\ y \in Loan /\ y.repaid = x.repaid + n /\ y.paid = x.paid \cup S
      /\ y.status = IF x.repaid + n >= Total(a) THEN "repaid" ELSE "partial"
      /\ Open(y) => y.repaid < Total(a)
  BY <1>1, <1>3, <1>8, SettledLoan
<1> HIDE DEF y, x, n
<1>10. loan \in [Applications -> Loan] /\ taken \in [Applications -> Nat] /\ loan[a] \in Loan
  BY <1>1 DEF TypeInv, LoansTypeOK
<1>11. /\ loan' \in [Applications -> Loan] /\ loan'[a] = y
       /\ \A b \in Applications : b # a => loan'[b] = loan[b]
  BY <1>1, <1>4, <1>9, <1>10
<1>12. /\ taken' \in [Applications -> Nat] /\ taken'[a] = taken[a] + n
       /\ \A b \in Applications : b # a => taken'[b] = taken[b]
  BY <1>1, <1>3, <1>4, <1>10
<1> QED
  BY <1>3, <1>4, <1>6, <1>7, <1>9, <1>10, <1>11, <1>12 DEF x, n, S

\* What a repayment moves.
LEMMA RepayMoney ==
  ASSUME TypeInv, NEW p \in Repayments, RepayCommit(p)
  PROVE  LET u == Borrower(p)  n == repay[p].amount IN
         /\ n \in Nat /\ balance' \in [Accounts -> Nat] /\ ledger' \in [Accounts -> Int]
         /\ balance'[u] = repay[p].seen - n /\ balance'[Float] = balance[Float] + n
         /\ ledger'[u] = ledger[u] - n /\ ledger'[Float] = ledger[Float] + n
         /\ \A c \in Accounts \ {u, Float} : balance'[c] = balance[c] /\ ledger'[c] = ledger[c]
         /\ stale' \subseteq Accounts
<1> DEFINE u == Borrower(p)
           n == repay[p].amount
<1>1. n \in Nat /\ repay[p].seen \in Nat /\ n <= repay[p].seen
  BY DEF TypeInv, LoansTypeOK, RepayStates, EnoughRead, RepayCommit
<1>2. /\ balance' = [balance EXCEPT ![u] = repay[p].seen - n, ![Float] = @ + n]
      /\ ledger' = [ledger EXCEPT ![u] = @ - n, ![Float] = @ + n]
      /\ stale' = StaleAfter({u, Float}, p)
  BY DEF RepayCommit
<1>3. balance \in [Accounts -> Nat] /\ ledger \in [Accounts -> Int] /\ stale \subseteq Accounts
  BY DEF TypeInv, LoansTypeOK
<1>4. u \in Accounts /\ Float \in Accounts /\ u # Float
  BY RepaymentParts, FloatIsAccount
<1>5. stale' \subseteq Accounts
  BY <1>2, <1>3, <1>4 DEF StaleAfter
<1> HIDE DEF u, n
<1>6. /\ balance' \in [Accounts -> Nat]
      /\ balance'[u] = repay[p].seen - n /\ balance'[Float] = balance[Float] + n
  BY <1>1, <1>2, <1>3, <1>4
<1>7. /\ ledger' \in [Accounts -> Int]
      /\ ledger'[u] = ledger[u] - n /\ ledger'[Float] = ledger[Float] + n
  BY <1>1, <1>2, <1>3, <1>4
<1>8. \A c \in Accounts \ {u, Float} : balance'[c] = balance[c] /\ ledger'[c] = ledger[c]
  BY <1>2, <1>3
<1> QED
  BY <1>1, <1>5, <1>6, <1>7, <1>8 DEF u, n

LEMMA TypeRepayCommit ==
  ASSUME TypeInv, NEW p \in Repayments, RepayCommit(p)
  PROVE  TypeInv'
<1> USE DEF TypeInv
<1>1. UNCHANGED <<apply, run, week, raced>>
  BY DEF RepayCommit
<1> DEFINE a == Repaid[p]
<1>2. a \in Applications
  BY RepaymentParts
<1>3. /\ loan' \in [Applications -> Loan] /\ taken' \in [Applications -> Nat]
      /\ \A b \in Applications : b # a => loan'[b] = loan[b]
      /\ Open(loan'[a]) => loan'[a].repaid < Total(a)
      /\ loan[a].status # "none" /\ loan'[a].status # "none"
      /\ repay' \in [Repayments -> RepayStates] /\ repay'[p].pc = "done"
      /\ \A q \in Repayments : q # p => repay'[q] = repay[q]
  BY RepaidLoan
<1>4. disputed' \subseteq Applications
  BY <1>2 DEF RepayCommit, DisputedAfter, LoansTypeOK
<1>5. LoansTypeOK'
  BY <1>1, <1>3, <1>4, RepayMoney DEF LoansTypeOK
<1> HIDE DEF a
<1>6. EnoughRead'
  BY <1>1, <1>3 DEF EnoughRead, HoldsFloat
<1>7. OpenOwes'
  BY <1>2, <1>3 DEF OpenOwes, Open
<1>8. RunShape'
  BY <1>1 DEF RunShape
<1>9. NotYetALoan'
  BY <1>1, <1>2, <1>3, RepaymentParts DEF NotYetALoan
<1> QED
  BY <1>5, <1>6, <1>7, <1>8, <1>9

\* The loans and wallets that the task has read.
LEMMA StartedRun ==
  ASSUME LoansTypeOK, RunStart
  PROVE  /\ run' \in RunStates /\ run.pc = "idle" /\ run'.pc \in {"idle", "list"} /\ run'.at = {}
         /\ run'.pc = "idle" => run'.todo = {}
         /\ run'.todo = {a \in Applications : Open(loan[a])}
         /\ \A a \in run'.todo : run'.loan[a] = loan[a] /\ run'.seen[a] = balance[Applicant[a]]
         /\ week' \in 0..Weeks
<1> DEFINE open == {a \in Applications : Open(loan[a])}
           read == [a \in Applications |-> IF a \in open THEN loan[a] ELSE NoLoan]
           seen == [a \in Applications |-> IF a \in open THEN balance[Applicant[a]] ELSE 0]
<1>1. NoLoan \in Loan
  BY DEF NoLoan, Loan
<1>2. read \in [Applications -> Loan] /\ seen \in [Applications -> Nat] /\ open \subseteq Applications
  BY <1>1, Amounts DEF LoansTypeOK
<1>3. \A a \in open : a \in Applications /\ read[a] = loan[a] /\ seen[a] = balance[Applicant[a]]
  OBVIOUS
<1>4. /\ run' = [pc |-> IF open = {} THEN "idle" ELSE "list", todo |-> open, at |-> {},
                 loan |-> read, seen |-> seen, float |-> 0]
      /\ run.pc = "idle" /\ week < Weeks /\ week' = week + 1
  BY DEF RunStart
<1> HIDE DEF open, read, seen
<1>5. /\ run' \in RunStates /\ run'.pc \in {"idle", "list"} /\ run'.at = {} /\ run'.todo = open
      /\ run'.pc = "idle" => open = {}
      /\ run'.loan = read /\ run'.seen = seen
  BY <1>2, <1>4 DEF RunStates
<1>6. week' \in 0..Weeks
  BY <1>4, BoundsAssumption DEF LoansTypeOK
<1> QED
  BY <1>3, <1>4, <1>5, <1>6 DEF open

LEMMA TypeRunStart ==
  ASSUME TypeInv, RunStart
  PROVE  TypeInv'
<1> USE DEF TypeInv
<1>1. UNCHANGED <<balance, loan, apply, repay, ledger, taken, stale, disputed, raced>>
  BY DEF RunStart
<1>2. /\ run' \in RunStates /\ run'.pc \in {"idle", "list"} /\ run'.at = {}
      /\ run'.pc = "idle" => run'.todo = {}
      /\ run'.todo = {a \in Applications : Open(loan[a])}
      /\ week' \in 0..Weeks
  BY StartedRun
<1>3. LoansTypeOK'
  BY <1>1, <1>2 DEF LoansTypeOK
<1>4. EnoughRead' /\ OpenOwes'
  BY <1>1 DEF EnoughRead, OpenOwes, HoldsFloat, Open
<1>5. RunShape'
  BY <1>2 DEF RunShape
<1>6. NotYetALoan'
  BY <1>1, <1>2 DEF NotYetALoan, Open
<1> QED
  BY <1>3, <1>4, <1>5, <1>6

\* What the task makes of the loan it is at.
LEMMA RunLoan ==
  ASSUME TypeInv, NEW a \in Applications
  PROVE  /\ RunMiss(a) => /\ loan' \in [Applications -> Loan]
                          /\ loan'[a].status = loan[a].status /\ loan'[a].repaid = loan[a].repaid
                          /\ loan'[a].paid = run.loan[a].paid
         /\ RunDefault(a) => /\ loan' \in [Applications -> Loan]
                             /\ loan'[a].status = "defaulted" /\ loan'[a].repaid = loan[a].repaid
                             /\ loan'[a].paid = loan[a].paid
         /\ RunSave(a) => /\ loan' \in [Applications -> Loan]
                          /\ loan'[a].repaid = run.loan[a].repaid + Weekly(a)
                          /\ loan'[a].paid = run.loan[a].paid \cup Due(run.loan[a])
                          /\ loan'[a].status \in {"repaid", "partial"}
                          /\ Open(loan'[a]) => loan'[a].repaid < Total(a)
         /\ RunMiss(a) \/ RunDefault(a) \/ RunSave(a) =>
              /\ \A b \in Applications : b # a => loan'[b] = loan[b]
              /\ apply[a].pc = "done"
<1> DEFINE x == run.loan[a]
<1>1. loan \in [Applications -> Loan] /\ loan[a] \in Loan /\ x \in Loan
  BY DEF TypeInv, LoansTypeOK, RunStates
<1>2. Due(x) \in SUBSET Instalments /\ Weekly(a) \in Nat
  BY Amounts DEF Due
<1>3. ASSUME NEW y \in Loan, loan' = [loan EXCEPT ![a] = y]
      PROVE  /\ loan' \in [Applications -> Loan] /\ loan'[a] = y
             /\ \A b \in Applications : b # a => loan'[b] = loan[b]
  BY <1>1, <1>3
<1>4. ASSUME RunMiss(a) \/ RunDefault(a) \/ RunSave(a)
      PROVE  apply[a].pc = "done"
  <2>1. a \in run.todo
    BY <1>4 DEF RunMiss, RunDefault, RunSave, TypeInv, RunShape
  <2> QED
    BY <2>1 DEF TypeInv, NotYetALoan
<1>5. ASSUME RunMiss(a)
      PROVE  /\ loan' \in [Applications -> Loan]
             /\ loan'[a].status = loan[a].status /\ loan'[a].repaid = loan[a].repaid
             /\ loan'[a].paid = run.loan[a].paid
             /\ \A b \in Applications : b # a => loan'[b] = loan[b]
  <2> DEFINE y == [loan[a] EXCEPT !.paid = x.paid, !.missed = x.missed \cup Due(x)]
  <2>1. loan' = [loan EXCEPT ![a] = y]
    BY <1>5 DEF RunMiss
  <2>2. y \in Loan /\ y.status = loan[a].status /\ y.repaid = loan[a].repaid /\ y.paid = x.paid
    BY <1>1, <1>2 DEF Loan
  <2> HIDE DEF y
  <2> QED
    BY <1>3, <2>1, <2>2
<1>6. ASSUME RunDefault(a)
      PROVE  /\ loan' \in [Applications -> Loan]
             /\ loan'[a].status = "defaulted" /\ loan'[a].repaid = loan[a].repaid
             /\ loan'[a].paid = loan[a].paid
             /\ \A b \in Applications : b # a => loan'[b] = loan[b]
  <2> DEFINE y == [loan[a] EXCEPT !.status = "defaulted"]
  <2>1. loan' = [loan EXCEPT ![a] = y]
    BY <1>6 DEF RunDefault
  <2>2. y \in Loan /\ y.status = "defaulted" /\ y.repaid = loan[a].repaid /\ y.paid = loan[a].paid
    BY <1>1 DEF Loan
  <2> HIDE DEF y
  <2> QED
    BY <1>3, <2>1, <2>2
<1>7. ASSUME RunSave(a)
      PROVE  /\ loan' \in [Applications -> Loan]
             /\ loan'[a].repaid = run.loan[a].repaid + Weekly(a)
             /\ loan'[a].paid = run.loan[a].paid \cup Due(run.loan[a])
             /\ loan'[a].status \in {"repaid", "partial"}
             /\ Open(loan'[a]) => loan'[a].repaid < Total(a)
             /\ \A b \in Applications : b # a => loan'[b] = loan[b]
  <2> DEFINE y == Settled(a, x, Weekly(a), Due(x))
  <2>1. loan' = [loan EXCEPT ![a] = y]
    BY <1>7 DEF RunSave
  <2>2. /\ y \in Loan /\ y.repaid = x.repaid + Weekly(a) /\ y.paid = x.paid \cup Due(x)
        /\ y.status \in {"repaid", "partial"}
        /\ Open(y) => y.repaid < Total(a)
    BY <1>1, <1>2, SettledLoan
  <2> HIDE DEF y
  <2> QED
    BY <1>3, <2>1, <2>2
<1> QED
  BY <1>4, <1>5, <1>6, <1>7

\* What the task moves.
LEMMA RunMoney ==
  ASSUME TypeInv, NEW a \in Applications
  PROVE  LET u == Applicant[a]  n == Weekly(a) IN
         /\ RunDebit(a) =>
              /\ balance' \in [Accounts -> Nat] /\ ledger' \in [Accounts -> Int]
              /\ taken' \in [Applications -> Nat] /\ stale' \subseteq Accounts
              /\ balance'[u] = run.seen[a] - n /\ ledger'[u] = ledger[u] - n
              /\ \A c \in Accounts \ {u} : balance'[c] = balance[c] /\ ledger'[c] = ledger[c]
              /\ taken'[a] = taken[a] + n
              /\ \A b \in Applications : b # a => taken'[b] = taken[b]
         /\ RunFloatWrite(a) =>
              /\ balance' \in [Accounts -> Nat] /\ ledger' \in [Accounts -> Int]
              /\ balance'[Float] = run.float + n /\ ledger'[Float] = ledger[Float] + n
              /\ \A c \in Accounts \ {Float} : balance'[c] = balance[c] /\ ledger'[c] = ledger[c]
<1> DEFINE u == Applicant[a]
           n == Weekly(a)
<1>1. /\ balance \in [Accounts -> Nat] /\ ledger \in [Accounts -> Int] /\ stale \subseteq Accounts
      /\ run.seen[a] \in Nat /\ run.float \in Nat /\ taken \in [Applications -> Nat]
  BY DEF TypeInv, LoansTypeOK, RunStates
<1>2. u \in Accounts /\ Float \in Accounts /\ n \in Nat
  BY Amounts, FloatIsAccount
<1>3. ASSUME RunDebit(a)
      PROVE  /\ balance' = [balance EXCEPT ![u] = run.seen[a] - n]
             /\ ledger' = [ledger EXCEPT ![u] = @ - n] /\ taken' = [taken EXCEPT ![a] = @ + n]
             /\ n <= run.seen[a] /\ stale' \subseteq Accounts
  BY <1>1, <1>2, <1>3 DEF RunDebit, Sufficient, StaleAfter
<1>4. ASSUME RunFloatWrite(a)
      PROVE  /\ balance' = [balance EXCEPT ![Float] = run.float + n]
             /\ ledger' = [ledger EXCEPT ![Float] = @ + n]
  BY <1>4 DEF RunFloatWrite
<1> HIDE DEF u, n
<1>5. ASSUME RunDebit(a)
      PROVE  /\ balance' \in [Accounts -> Nat] /\ ledger' \in [Accounts -> Int]
             /\ taken' \in [Applications -> Nat] /\ stale' \subseteq Accounts
             /\ balance'[u] = run.seen[a] - n /\ ledger'[u] = ledger[u] - n
             /\ \A c \in Accounts \ {u} : balance'[c] = balance[c] /\ ledger'[c] = ledger[c]
             /\ taken'[a] = taken[a] + n
             /\ \A b \in Applications : b # a => taken'[b] = taken[b]
  BY <1>1, <1>2, <1>3, <1>5
<1>6. ASSUME RunFloatWrite(a)
      PROVE  /\ balance' \in [Accounts -> Nat] /\ ledger' \in [Accounts -> Int]
             /\ balance'[Float] = run.float + n /\ ledger'[Float] = ledger[Float] + n
             /\ \A c \in Accounts \ {Float} : balance'[c] = balance[c] /\ ledger'[c] = ledger[c]
  BY <1>1, <1>2, <1>4, <1>6
<1> QED
  BY <1>5, <1>6 DEF u, n

LEMMA TypeRun ==
  ASSUME TypeInv, NEW a \in Applications, RunStep(a)
  PROVE  TypeInv'
<1> USE DEF TypeInv
<1>1. UNCHANGED <<apply, repay, week, raced>>
  BY DEF RunStep, RunSkip, RunMiss, RunDefault, RunDebit, RunSave, RunFloatWrite
<1>2. run' \in RunStates /\ RunShape' /\ run'.todo \subseteq run.todo
  <2>1. Through(a) \/ Ends \/ Takes(a) \/ Saves(a)
    BY RunRecord DEF RunStep
  <2> QED
    BY <2>1, RunRecord, ShapeKept
<1>3. EnoughRead'
  BY <1>1 DEF EnoughRead, HoldsFloat
<1>4. CASE UNCHANGED <<loan, disputed>>
  <2>1. /\ balance' \in [Accounts -> Nat] /\ ledger' \in [Accounts -> Int]
        /\ taken' \in [Applications -> Nat] /\ stale' \subseteq Accounts
    <3>1. CASE RunSkip(a) \/ RunMiss(a) \/ RunDefault(a) \/ RunSave(a)
      BY <3>1 DEF RunSkip, RunMiss, RunDefault, RunSave, LoansTypeOK
    <3>2. CASE RunDebit(a)
      BY <3>2, RunMoney
    <3>3. CASE RunFloatWrite(a)
      BY <3>3, RunMoney DEF RunFloatWrite, LoansTypeOK
    <3> QED
      BY <3>1, <3>2, <3>3 DEF RunStep
  <2>2. LoansTypeOK'
    BY <1>1, <1>2, <1>4, <2>1 DEF LoansTypeOK
  <2>3. OpenOwes' /\ NotYetALoan'
    BY <1>1, <1>2, <1>4 DEF OpenOwes, NotYetALoan, Open
  <2> QED
    BY <1>2, <1>3, <2>2, <2>3
<1>5. CASE RunMiss(a) \/ RunDefault(a) \/ RunSave(a)
  <2>1. UNCHANGED <<balance, ledger, taken, stale>> /\ disputed' \subseteq Applications
    BY <1>5 DEF RunMiss, RunDefault, RunSave, DisputedAfter, LoansTypeOK
  <2>2. /\ loan' \in [Applications -> Loan] /\ apply[a].pc = "done"
        /\ \A b \in Applications : b # a => loan'[b] = loan[b]
        /\ \/ loan'[a].status = loan[a].status /\ loan'[a].repaid = loan[a].repaid
           \/ loan'[a].status # "none"
        /\ Open(loan'[a]) => loan'[a].repaid < Total(a)
    BY <1>5, RunLoan DEF Open, OpenOwes
  <2>3. LoansTypeOK'
    BY <1>1, <1>2, <2>1, <2>2 DEF LoansTypeOK
  <2>4. OpenOwes'
    BY <2>2 DEF OpenOwes, Open
  <2>5. NotYetALoan'
    BY <1>1, <1>2, <2>2, RepaymentParts DEF NotYetALoan
  <2> QED
    BY <1>2, <1>3, <2>3, <2>4, <2>5
<1> QED
  BY <1>4, <1>5 DEF RunStep, RunSkip, RunDebit, RunFloatWrite

\* The task reads the float, or dies.
LEMMA RunAlone ==
  ASSUME TypeInv, RunFloatRead \/ RunDie
  PROVE  /\ UNCHANGED <<balance, loan, apply, repay, week, ledger, taken, stale, raced>>
         /\ run' \in RunStates /\ run'.loan = run.loan /\ run'.seen = run.seen
         /\ RunFloatRead => /\ run.pc = "saved" /\ run'.pc = "float" /\ run'.float = balance[Float]
                            /\ run'.todo = run.todo /\ run'.at = run.at
         /\ RunDie => Ends
<1>1. run \in RunStates /\ balance[Float] \in Nat
  BY FloatIsAccount DEF TypeInv, LoansTypeOK
<1>2. CASE RunFloatRead
  <2>1. run' = [run EXCEPT !.pc = "float", !.float = balance[Float]] /\ run.pc = "saved"
    BY <1>2 DEF RunFloatRead
  <2>2. /\ run' \in RunStates /\ run'.loan = run.loan /\ run'.seen = run.seen
        /\ run'.pc = "float" /\ run'.float = balance[Float] /\ run'.todo = run.todo /\ run'.at = run.at
    BY <1>1, <2>1 DEF RunStates
  <2>3. ~RunDie
    BY <2>2 DEF RunDie, Stopped, RunStates
  <2> QED
    BY <1>2, <2>1, <2>2, <2>3 DEF RunFloatRead
<1>3. CASE RunDie
  <2>1. run' = [run EXCEPT !.pc = "idle", !.todo = {}, !.at = {}, !.float = 0]
    BY <1>3 DEF RunDie, Stopped
  <2>2. run' \in RunStates /\ run'.loan = run.loan /\ run'.seen = run.seen /\ Ends
    BY <1>1, <2>1 DEF RunStates, Ends
  <2>3. ~RunFloatRead
    BY <2>2 DEF RunFloatRead, RunStates, Ends
  <2> QED
    BY <1>3, <2>2, <2>3 DEF RunDie
<1> QED
  BY <1>2, <1>3

LEMMA TypeRunAlone ==
  ASSUME TypeInv, RunFloatRead \/ RunDie
  PROVE  TypeInv'
<1> USE DEF TypeInv
<1>1. /\ UNCHANGED <<balance, loan, apply, repay, week, ledger, taken, stale, raced>>
      /\ run' \in RunStates /\ run'.todo \subseteq run.todo
      /\ RunShape'
  BY RunAlone DEF RunShape, Ends
<1>2. disputed' \subseteq Applications
  BY DEF RunFloatRead, RunDie, LoansTypeOK, RunStates
<1>3. LoansTypeOK'
  BY <1>1, <1>2 DEF LoansTypeOK
<1>4. EnoughRead' /\ OpenOwes' /\ NotYetALoan'
  BY <1>1 DEF EnoughRead, OpenOwes, NotYetALoan, HoldsFloat, Open
<1> QED
  BY <1>1, <1>3, <1>4

\* The steps, by what they write.
LEMMA Steps ==
  ASSUME Next
  PROVE  \/ \E a \in Applications :
              \/ ApplyCheck(a) \/ ApplyLock(a)
              \/ \E p \in Repayments : BreakDeadlock(a, p) /\ UNCHANGED repay
         \/ \E a \in Applications : ApplyCommit(a)
         \/ \E p \in Repayments :
              \/ RepayRead(p) \/ RepayWallet(p) \/ RepayDebit(p)
              \/ \E a \in Applications : BreakDeadlock(a, p) /\ UNCHANGED apply
         \/ \E p \in Repayments : RepayCommit(p)
         \/ RunStart
         \/ \E a \in Applications : RunStep(a)
         \/ RunFloatRead \/ RunDie
<1>1. CASE \E a \in Applications : ApplyCheck(a) \/ ApplyStep(a) \/ RunStep(a)
  BY <1>1 DEF ApplyStep
<1>2. CASE \E p \in Repayments : RepayRead(p) \/ RepayStep(p)
  BY <1>2 DEF RepayStep
<1>3. ASSUME NEW a \in Applications, NEW p \in Repayments, BreakDeadlock(a, p)
      PROVE  \/ BreakDeadlock(a, p) /\ UNCHANGED repay
             \/ BreakDeadlock(a, p) /\ UNCHANGED apply
  BY <1>3 DEF BreakDeadlock
<1>4. CASE RunStart \/ RunFloatRead \/ RunDie
  BY <1>4
<1> QED
  BY <1>1, <1>2, <1>3, <1>4 DEF Next

LEMMA TypeNext == TypeInv /\ [Next]_vars => TypeInv'
<1> SUFFICES ASSUME TypeInv, [Next]_vars PROVE TypeInv'
  OBVIOUS
<1>1. CASE Next
  BY <1>1, Steps, TypeApply, TypeApplyCommit, TypeRepay, TypeRepayCommit, TypeRunStart,
     TypeRun, TypeRunAlone
<1>2. CASE UNCHANGED vars
  <2>1. LoansTypeOK'
    BY <1>2 DEF vars, TypeInv, LoansTypeOK
  <2>2. EnoughRead' /\ OpenOwes' /\ RunShape' /\ NotYetALoan'
    BY <1>2 DEF vars, TypeInv, EnoughRead, OpenOwes, RunShape, NotYetALoan, HoldsFloat, Open
  <2> QED
    BY <2>1, <2>2 DEF TypeInv
<1> QED
  BY <1>1, <1>2

-----------------------------------------------------------------------------
(* Float and wallets hold what was moved *)

LEMMA MoneyInit == Init => MoneyInv
<1> SUFFICES ASSUME Init PROVE MoneyInv
  OBVIOUS
<1>1. /\ \A a \in Applications : apply[a].pc = "idle"
      /\ \A p \in Repayments : repay[p].pc = "idle"
      /\ run.pc = "idle" /\ run.todo = {} /\ balance = ledger
  BY DEF Init
<1>2. FloatHeld /\ WalletSeen /\ FloatSeen /\ AccountsAreLedger
  BY <1>1 DEF FloatHeld, WalletSeen, FloatSeen, AccountsAreLedger, HoldsFloat
<1> QED
  BY <1>2, TypeInit DEF MoneyInv

LEMMA MoneyApply ==
  ASSUME MoneyInv, NEW a \in Applications,
         \/ ApplyCheck(a) \/ ApplyLock(a)
         \/ \E p \in Repayments : BreakDeadlock(a, p) /\ UNCHANGED repay
  PROVE  FloatHeld' /\ WalletSeen' /\ FloatSeen' /\ AccountsAreLedger'
<1> USE DEF MoneyInv
<1>1. UNCHANGED <<balance, loan, repay, run, week, ledger, taken, stale, disputed>>
  BY DEF ApplyCheck, ApplyLock, BreakDeadlock
<1>2. /\ \A b \in Applications : b # a => apply'[b] = apply[b]
      /\ ApplyMoves(a) \/ UNCHANGED apply
  BY ApplyRecord DEF TypeInv
<1>3. FloatHeld'
  BY <1>1, <1>2 DEF FloatHeld, HoldsFloat, FloatLocked, ApplyMoves
<1>4. WalletSeen'
  BY <1>1, <1>2 DEF WalletSeen, HoldsFloat, ApplyMoves
<1>5. FloatSeen' /\ AccountsAreLedger'
  BY <1>1 DEF FloatSeen, AccountsAreLedger
<1> QED
  BY <1>3, <1>4, <1>5

\* Whoever else has account c in hand when request or loan x writes it makes it stale.
LEMMA StaleWhenRead ==
  ASSUME NEW C, NEW c \in C, NEW x, c \notin StaleAfter(C, x)
  PROVE  /\ c \notin stale
         /\ \A a \in Applications \ {x} : Applicant[a] = c => ~HoldsFloat(a)
         /\ \A p \in Repayments \ {x} : Borrower(p) = c => repay[p].pc \notin {"wallet", "debited"}
         /\ \A a \in run.todo \ (run.at \cup {x}) : Applicant[a] # c
         /\ c = Float => run.pc # "float"
<1>1. Reading(c, x) = {} /\ ~Listed(c, run.at \cup {x}) /\ c \notin stale
  BY DEF StaleAfter
<1>2. \A a \in Applications \ {x} : Applicant[a] = c => ~HoldsFloat(a)
  BY <1>1 DEF Reading
<1>3. \A p \in Repayments \ {x} : Borrower(p) = c => repay[p].pc \notin {"wallet", "debited"}
  BY <1>1 DEF Reading
<1> QED
  BY <1>1, <1>2, <1>3 DEF Listed

LEMMA StaleGrows ==
  ASSUME NEW C, NEW x
  PROVE  /\ stale \subseteq StaleAfter(C, x)
         /\ \A c \in StaleAfter(C, x) : c \in stale \/ c \in C
BY DEF StaleAfter

LEMMA MoneyApplyCommit ==
  ASSUME MoneyInv, NEW a \in Applications, ApplyCommit(a)
  PROVE  FloatHeld' /\ WalletSeen' /\ FloatSeen' /\ AccountsAreLedger'
<1> USE DEF MoneyInv
<1> DEFINE u == Applicant[a]
<1>1. /\ UNCHANGED <<repay, run>> /\ stale' = StaleAfter({u, Float}, a)
      /\ HoldsFloat(a)
  BY DEF ApplyCommit, HoldsFloat
<1>2. /\ balance'[u] = apply[a].seen + Amount[a] /\ balance'[Float] = apply[a].float - Amount[a]
      /\ ledger'[u] = ledger[u] + Amount[a] /\ ledger'[Float] = ledger[Float] - Amount[a]
      /\ \A c \in Accounts \ {u, Float} : balance'[c] = balance[c] /\ ledger'[c] = ledger[c]
  BY ApplyMoney
<1>3. /\ apply'[a].pc = "done"
      /\ \A b \in Applications : b # a => apply'[b] = apply[b]
  BY CommittedLoan DEF TypeInv
<1>4. u \in Accounts /\ u # Float /\ u \in {u, Float} /\ Float \in {u, Float} /\ Float \in Accounts
      /\ a \notin Repayments
  BY Amounts, FloatIsAccount
<1>5. stale \subseteq stale'
  BY <1>1, StaleGrows
<1>6. u \notin stale' =>
        /\ u \notin stale
        /\ \A b \in Applications \ {a} : Applicant[b] = u => ~HoldsFloat(b)
        /\ \A p \in Repayments \ {a} : Borrower(p) = u => repay[p].pc \notin {"wallet", "debited"}
        /\ \A b \in run.todo \ (run.at \cup {a}) : Applicant[b] # u
  BY <1>1, <1>4, StaleWhenRead
<1>7. Float \notin stale' => Float \notin stale /\ run.pc # "float"
  BY <1>1, <1>4, StaleWhenRead
<1>8. FloatHeld'
  BY <1>1, <1>3 DEF FloatHeld, HoldsFloat
<1>9. a \notin run.todo
  BY <1>1 DEF TypeInv, NotYetALoan, HoldsFloat
<1>10. \A b \in Applications : Applicant[b] \in Accounts /\ Applicant[b] # Float
  BY Amounts
<1>11. \A p \in Repayments : Borrower(p) \in Accounts /\ Borrower(p) # Float
  BY RepaymentParts
<1>12. run.todo \subseteq Applications
  BY DEF TypeInv, LoansTypeOK, RunStates
<1>13. apply[a].float = balance[Float]
  BY <1>1 DEF FloatHeld
<1>14. u \notin stale => apply[a].seen = balance[u]
  BY <1>1 DEF WalletSeen
<1> HIDE DEF u
<1>15. WalletSeen'
  <2>1. ASSUME NEW b \in Applications, HoldsFloat(b)', Applicant[b] \notin stale'
        PROVE  apply'[b].seen = balance'[Applicant[b]]
    <3>1. b # a /\ HoldsFloat(b) /\ apply'[b] = apply[b]
      BY <1>3, <2>1 DEF HoldsFloat
    <3>2. Applicant[b] # u
      BY <1>6, <2>1, <3>1
    <3> QED
      BY <1>2, <1>5, <1>10, <2>1, <3>1, <3>2 DEF WalletSeen
  <2>2. ASSUME NEW p \in Repayments, repay[p].pc \in {"wallet", "debited"}, Borrower(p) \notin stale'
        PROVE  repay[p].seen = balance'[Borrower(p)]
    <3>1. Borrower(p) # u
      BY <1>4, <1>6, <2>2
    <3> QED
      BY <1>2, <1>5, <1>11, <2>2, <3>1 DEF WalletSeen
  <2>3. ASSUME NEW b \in run.todo \ run.at, Applicant[b] \notin stale'
        PROVE  run.seen[b] = balance'[Applicant[b]]
    <3>1. Applicant[b] # u
      BY <1>6, <1>9, <2>3
    <3> QED
      BY <1>2, <1>5, <1>10, <1>12, <2>3, <3>1 DEF WalletSeen
  <2> QED
    BY <1>1, <2>1, <2>2, <2>3 DEF WalletSeen
<1>16. FloatSeen'
  BY <1>1, <1>7 DEF FloatSeen
<1>17. AccountsAreLedger'
  BY <1>2, <1>4, <1>5, <1>7, <1>13, <1>14 DEF AccountsAreLedger
<1> QED
  BY <1>8, <1>15, <1>16, <1>17

LEMMA MoneyRepay ==
  ASSUME MoneyInv, NEW p \in Repayments,
         \/ RepayRead(p) \/ RepayWallet(p) \/ RepayDebit(p)
         \/ \E a \in Applications : BreakDeadlock(a, p) /\ UNCHANGED apply
  PROVE  FloatHeld' /\ WalletSeen' /\ FloatSeen' /\ AccountsAreLedger'
<1> USE DEF MoneyInv
<1>1. UNCHANGED <<balance, loan, apply, run, week, ledger, taken, stale, disputed, raced>>
  BY DEF RepayRead, RepayWallet, RepayDebit, BreakDeadlock
<1>2. /\ \A q \in Repayments : q # p => repay'[q] = repay[q]
      /\ RepayMoves(p) \/ UNCHANGED repay
  BY RepayRecord DEF TypeInv
<1>3. FloatHeld' /\ FloatSeen' /\ AccountsAreLedger'
  BY <1>1 DEF FloatHeld, HoldsFloat, FloatSeen, AccountsAreLedger
<1>4. WalletSeen'
  BY <1>1, <1>2 DEF WalletSeen, HoldsFloat, RepayMoves
<1> QED
  BY <1>3, <1>4

LEMMA MoneyRepayCommit ==
  ASSUME MoneyInv, NEW p \in Repayments, RepayCommit(p)
  PROVE  FloatHeld' /\ WalletSeen' /\ FloatSeen' /\ AccountsAreLedger'
<1> USE DEF MoneyInv
<1> DEFINE u == Borrower(p)
<1>1. /\ UNCHANGED <<apply, run>> /\ stale' = StaleAfter({u, Float}, p)
      /\ ~FloatLocked /\ repay[p].pc = "debited"
  BY DEF RepayCommit
<1>2. LET n == repay[p].amount IN
      /\ n \in Nat
      /\ balance'[u] = repay[p].seen - n /\ balance'[Float] = balance[Float] + n
      /\ ledger'[u] = ledger[u] - n /\ ledger'[Float] = ledger[Float] + n
      /\ \A c \in Accounts \ {u, Float} : balance'[c] = balance[c] /\ ledger'[c] = ledger[c]
  BY RepayMoney
<1>3. /\ repay'[p].pc = "done"
      /\ \A q \in Repayments : q # p => repay'[q] = repay[q]
  BY RepaidLoan
<1>4. u \in Accounts /\ u # Float /\ u \in {u, Float} /\ Float \in {u, Float} /\ Float \in Accounts
      /\ p \notin Applications
  BY RepaymentParts, FloatIsAccount
<1>5. stale \subseteq stale'
  BY <1>1, StaleGrows
<1>6. run.todo \subseteq Applications
  BY DEF TypeInv, LoansTypeOK, RunStates
<1>7. u \notin stale' =>
        /\ u \notin stale
        /\ \A q \in Repayments \ {p} : Borrower(q) = u => repay[q].pc \notin {"wallet", "debited"}
        /\ \A b \in run.todo \ (run.at \cup {p}) : Applicant[b] # u
  BY <1>1, <1>4, StaleWhenRead
<1>8. Float \notin stale' => Float \notin stale /\ run.pc # "float"
  BY <1>1, <1>4, StaleWhenRead
<1>9. \A b \in Applications : ~HoldsFloat(b)
  BY <1>1 DEF FloatLocked
<1>10. FloatHeld'
  BY <1>1, <1>9 DEF FloatHeld, HoldsFloat
<1>11. \A b \in Applications : Applicant[b] \in Accounts /\ Applicant[b] # Float
  BY Amounts
<1>12. \A q \in Repayments : Borrower(q) \in Accounts /\ Borrower(q) # Float
  BY RepaymentParts
<1>13. u \notin stale => repay[p].seen = balance[u]
  BY <1>1 DEF WalletSeen
<1> HIDE DEF u
<1>14. WalletSeen'
  <2>1. ASSUME NEW q \in Repayments, repay'[q].pc \in {"wallet", "debited"}, Borrower(q) \notin stale'
        PROVE  repay'[q].seen = balance'[Borrower(q)]
    <3>1. q # p /\ repay'[q] = repay[q]
      BY <1>3, <2>1
    <3>2. Borrower(q) # u
      BY <1>7, <2>1, <3>1
    <3> QED
      BY <1>2, <1>5, <1>12, <2>1, <3>1, <3>2 DEF WalletSeen
  <2>2. ASSUME NEW b \in run.todo \ run.at, Applicant[b] \notin stale'
        PROVE  run.seen[b] = balance'[Applicant[b]]
    <3>1. Applicant[b] # u
      BY <1>4, <1>6, <1>7, <2>2
    <3> QED
      BY <1>2, <1>5, <1>6, <1>11, <2>2, <3>1 DEF WalletSeen
  <2> QED
    BY <1>1, <1>9, <2>1, <2>2 DEF WalletSeen, HoldsFloat
<1>15. FloatSeen'
  BY <1>1, <1>8 DEF FloatSeen
<1>16. AccountsAreLedger'
  BY <1>2, <1>4, <1>5, <1>8, <1>13 DEF AccountsAreLedger
<1> QED
  BY <1>10, <1>14, <1>15, <1>16

LEMMA MoneyRunStart ==
  ASSUME MoneyInv, RunStart
  PROVE  FloatHeld' /\ WalletSeen' /\ FloatSeen' /\ AccountsAreLedger'
<1> USE DEF MoneyInv
<1>1. UNCHANGED <<balance, loan, apply, repay, ledger, taken, stale, disputed, raced>>
  BY DEF RunStart
<1>2. /\ run'.pc \in {"idle", "list"}
      /\ \A a \in run'.todo : run'.seen[a] = balance[Applicant[a]]
  BY StartedRun DEF TypeInv
<1>3. FloatHeld' /\ FloatSeen' /\ AccountsAreLedger'
  BY <1>1, <1>2 DEF FloatHeld, FloatSeen, AccountsAreLedger, HoldsFloat
<1>4. WalletSeen'
  BY <1>1, <1>2 DEF WalletSeen, HoldsFloat
<1> QED
  BY <1>3, <1>4

\* A step of the task leaves it with loans it had still to do, and the wallets it has read.
LEMMA RunLeaves ==
  ASSUME TypeInv, NEW a \in Applications, RunStep(a)
  PROVE  /\ run'.seen = run.seen /\ run'.todo \subseteq Applications
         /\ run'.todo \ run'.at \subseteq run.todo \ run.at
         /\ RunDebit(a) => run'.todo \ run'.at = run.todo \ {a} /\ run.at = {}
         /\ run'.pc # "float"
<1>1. run \in RunStates /\ run' \in RunStates
  BY RunRecord DEF TypeInv, LoansTypeOK
<1>2. run.at \subseteq {a} \/ run.pc \in {"idle", "list"}
  BY <1>1, RunRecord DEF RunStep, Through, Ends, Takes, Saves, TypeInv, RunShape, RunDefault
<1>3. RunShape
  BY DEF TypeInv
<1>4. /\ run'.seen = run.seen /\ run'.todo \subseteq Applications /\ run'.pc # "float"
      /\ RunDebit(a) => run'.todo = run.todo /\ run'.at = {a} /\ run.pc = "list"
  BY <1>1, RunRecord DEF RunStep, Through, Ends, Takes, Saves, TypeInv, RunStates
<1>5. run'.todo \ run'.at \subseteq run.todo \ run.at
  BY <1>2, <1>3, RunRecord DEF RunStep, Through, Ends, Takes, Saves, TypeInv, RunShape
<1> QED
  BY <1>3, <1>4, <1>5 DEF RunShape

LEMMA MoneyRun ==
  ASSUME MoneyInv, NEW a \in Applications, RunStep(a)
  PROVE  FloatHeld' /\ WalletSeen' /\ FloatSeen' /\ AccountsAreLedger'
<1> USE DEF MoneyInv
<1> DEFINE u == Applicant[a]
<1>1. UNCHANGED <<apply, repay>>
  BY DEF RunStep, RunSkip, RunMiss, RunDefault, RunDebit, RunSave, RunFloatWrite
<1>2. /\ run'.seen = run.seen /\ run'.todo \subseteq Applications
      /\ run'.todo \ run'.at \subseteq run.todo \ run.at
      /\ RunDebit(a) => run'.todo \ run'.at = run.todo \ {a} /\ run.at = {}
      /\ run'.pc # "float"
  BY RunLeaves
<1>3. FloatSeen'
  BY <1>2 DEF FloatSeen
<1>4. u \in Accounts /\ u # Float /\ u \in {u} /\ a \notin Repayments /\ Float \in Accounts
      /\ Weekly(a) \in Nat
  BY Amounts, FloatIsAccount
<1>5. \A b \in Applications : Applicant[b] \in Accounts /\ Applicant[b] # Float
  BY Amounts
<1>6. \A q \in Repayments : Borrower(q) \in Accounts /\ Borrower(q) # Float
  BY RepaymentParts
<1>7. CASE RunSkip(a) \/ RunMiss(a) \/ RunDefault(a) \/ RunSave(a)
  <2>1. UNCHANGED <<balance, ledger, stale>>
    BY <1>7 DEF RunSkip, RunMiss, RunDefault, RunSave
  <2>2. FloatHeld' /\ AccountsAreLedger'
    BY <1>1, <2>1 DEF FloatHeld, AccountsAreLedger, HoldsFloat
  <2>3. WalletSeen'
    BY <1>1, <1>2, <2>1 DEF WalletSeen, HoldsFloat
  <2> QED
    BY <1>3, <2>2, <2>3
<1>8. CASE RunFloatWrite(a)
  <2>1. /\ balance'[Float] = run.float + Weekly(a) /\ ledger'[Float] = ledger[Float] + Weekly(a)
        /\ \A c \in Accounts \ {Float} : balance'[c] = balance[c] /\ ledger'[c] = ledger[c]
    BY <1>8, RunMoney
  <2>2. UNCHANGED stale /\ ~FloatLocked /\ run.pc = "float"
    BY <1>8 DEF RunFloatWrite
  <2>3. FloatHeld'
    BY <1>1, <2>2 DEF FloatHeld, FloatLocked, HoldsFloat
  <2>4. WalletSeen'
    BY <1>1, <1>2, <1>5, <1>6, <2>1, <2>2 DEF WalletSeen, HoldsFloat
  <2>5. AccountsAreLedger'
    BY <1>4, <2>1, <2>2 DEF AccountsAreLedger, FloatSeen
  <2> QED
    BY <1>3, <2>3, <2>4, <2>5
<1>9. CASE RunDebit(a)
  <2>1. /\ balance'[u] = run.seen[a] - Weekly(a) /\ ledger'[u] = ledger[u] - Weekly(a)
        /\ \A c \in Accounts \ {u} : balance'[c] = balance[c] /\ ledger'[c] = ledger[c]
    BY <1>9, RunMoney
  <2>2. /\ stale' = StaleAfter({u}, a) /\ a \in run.todo
        /\ run'.todo \ run'.at = run.todo \ {a} /\ run.at = {}
    BY <1>2, <1>9 DEF RunDebit
  <2>3. stale \subseteq stale' /\ \A c \in stale' : c \in stale \/ c = u
    BY <2>2, StaleGrows
  <2>4. u \notin stale' =>
          /\ u \notin stale
          /\ \A b \in Applications \ {a} : Applicant[b] = u => ~HoldsFloat(b)
          /\ \A q \in Repayments \ {a} : Borrower(q) = u => repay[q].pc \notin {"wallet", "debited"}
          /\ \A b \in run.todo \ (run.at \cup {a}) : Applicant[b] # u
    BY <1>4, <2>2, StaleWhenRead
  <2>5. u \notin stale => run.seen[a] = balance[u]
    BY <2>2 DEF WalletSeen
  <2>6. ~HoldsFloat(a)
    BY <2>2 DEF TypeInv, NotYetALoan, HoldsFloat
  <2>7. run.todo \subseteq Applications
    BY DEF TypeInv, LoansTypeOK, RunStates
  <2> HIDE DEF u
  <2>8. FloatHeld'
    BY <1>1, <1>4, <2>1 DEF FloatHeld, HoldsFloat
  <2>9. WalletSeen'
    <3>1. ASSUME NEW b \in Applications, HoldsFloat(b), Applicant[b] \notin stale'
          PROVE  apply[b].seen = balance'[Applicant[b]]
      <4>1. Applicant[b] # u
        BY <2>4, <2>6, <3>1
      <4> QED
        BY <1>5, <2>1, <2>3, <3>1, <4>1 DEF WalletSeen
    <3>2. ASSUME NEW q \in Repayments, repay[q].pc \in {"wallet", "debited"}, Borrower(q) \notin stale'
          PROVE  repay[q].seen = balance'[Borrower(q)]
      <4>1. Borrower(q) # u
        BY <1>4, <2>4, <3>2
      <4> QED
        BY <1>6, <2>1, <2>3, <3>2, <4>1 DEF WalletSeen
    <3>3. ASSUME NEW b \in run.todo \ {a}, Applicant[b] \notin stale'
          PROVE  run.seen[b] = balance'[Applicant[b]]
      <4>1. Applicant[b] # u
        BY <2>2, <2>4, <3>3
      <4> QED
        BY <1>5, <2>1, <2>2, <2>3, <2>7, <3>3, <4>1 DEF WalletSeen
    <3> QED
      BY <1>1, <1>2, <2>2, <3>1, <3>2, <3>3 DEF WalletSeen, HoldsFloat
  <2>10. AccountsAreLedger'
    BY <1>4, <2>1, <2>3, <2>5 DEF AccountsAreLedger
  <2> QED
    BY <1>3, <2>8, <2>9, <2>10
<1> QED
  BY <1>7, <1>8, <1>9 DEF RunStep

LEMMA MoneyRunAlone ==
  ASSUME MoneyInv, RunFloatRead \/ RunDie
  PROVE  FloatHeld' /\ WalletSeen' /\ FloatSeen' /\ AccountsAreLedger'
<1> USE DEF MoneyInv
<1>1. /\ UNCHANGED <<balance, loan, apply, repay, ledger, stale>>
      /\ run'.seen = run.seen /\ run'.todo \ run'.at \subseteq run.todo \ run.at
      /\ run'.pc = "float" => run'.float = balance[Float]
  BY RunAlone DEF Ends
<1>2. FloatHeld' /\ AccountsAreLedger'
  BY <1>1 DEF FloatHeld, AccountsAreLedger, HoldsFloat
<1>3. FloatSeen'
  BY <1>1 DEF FloatSeen
<1>4. WalletSeen'
  BY <1>1 DEF WalletSeen, HoldsFloat
<1> QED
  BY <1>2, <1>3, <1>4

LEMMA MoneyNext == MoneyInv /\ [Next]_vars => MoneyInv'
<1> SUFFICES ASSUME MoneyInv, [Next]_vars PROVE MoneyInv'
  OBVIOUS
<1>1. TypeInv'
  BY TypeNext DEF MoneyInv
<1>2. CASE Next
  <2>1. FloatHeld' /\ WalletSeen' /\ FloatSeen' /\ AccountsAreLedger'
    BY <1>2, Steps, MoneyApply, MoneyApplyCommit, MoneyRepay, MoneyRepayCommit, MoneyRunStart,
       MoneyRun, MoneyRunAlone
  <2> QED
    BY <1>1, <2>1 DEF MoneyInv
<1>3. CASE UNCHANGED vars
  <2>1. FloatHeld' /\ WalletSeen' /\ FloatSeen' /\ AccountsAreLedger'
    BY <1>3 DEF vars, MoneyInv, FloatHeld, WalletSeen, FloatSeen, AccountsAreLedger, HoldsFloat
  <2> QED
    BY <1>1, <2>1 DEF MoneyInv
<1> QED
  BY <1>2, <1>3

-----------------------------------------------------------------------------
(* Instalments *)

LEMMA Furthest ==
  ASSUME NEW C, IsFiniteSet(C), C \subseteq Nat, C # {}
  PROVE  \E m \in C : \A i \in C : i <= m
<1> DEFINE Above(i) == {j \in C : j > i}
           T == {Above(i) : i \in C}
<1>1. T \subseteq FiniteSubsetsOf(C) /\ T # {}
  <2>1. \A V \in SUBSET C : IsFiniteSet(V)
    BY FS_Subset
  <2>2. T \subseteq SUBSET C /\ T # {}
    OBVIOUS
  <2> QED
    BY <2>1, <2>2 DEF FiniteSubsetsOf
<1>2. IsWellFoundedOn(StrictSubsetOrdering(C), FiniteSubsetsOf(C))
  BY FS_StrictSubsetOrderingWellFounded
<1>3. PICK U \in T : \A V \in T : <<V, U>> \notin StrictSubsetOrdering(C)
  BY <1>1, <1>2, WFMin
<1>4. PICK m \in C : U = Above(m)
  BY <1>3
<1>5. ASSUME NEW i \in C, i > m PROVE FALSE
  <2>4. i \in Nat /\ m \in Nat /\ (\A j \in C : j \in Nat /\ (j > i => j > m)) /\ ~(i > i)
    BY <1>5
  <2>1. Above(i) \subseteq Above(m) /\ i \in Above(m) /\ i \notin Above(i)
    <3>1. \A j \in Above(i) : j \in Above(m)
      BY <2>4
    <3>2. i \in Above(m) /\ i \notin Above(i)
      BY <1>5, <2>4
    <3> QED
      BY <3>1, <3>2
  <2>2. Above(i) # U /\ Above(i) \in SUBSET C /\ U \in SUBSET C
    BY <1>4, <2>1
  <2>3. <<Above(i), U>> \in StrictSubsetOrdering(C)
    BY <1>4, <2>1, <2>2 DEF StrictSubsetOrdering
  <2> QED
    BY <1>3, <2>3
<1> QED
  BY <1>5

LEMMA Schedule ==
  ASSUME NEW S \in SUBSET Instalments
  PROVE  S \subseteq Nat /\ IsFiniteSet(S) /\ Cardinality(S) \in Nat
<1>1. IsFiniteSet(Instalments) /\ Instalments \subseteq Nat
  BY ApplicationsAssumption, FS_Interval DEF Instalments
<1> QED
  BY <1>1, FS_Subset, FS_CardinalityType

\* The instalments that an amount covers are paid for by it.
LEMMA CoveredArePaidFor ==
  ASSUME NEW a \in Applications, NEW x \in Loan, NEW n \in Nat
  PROVE  Cardinality(x.paid \cup Covered(a, x, n)) * Weekly(a) <= Cardinality(x.paid) * Weekly(a) + n
<1> DEFINE C == Covered(a, x, n)
           w == Weekly(a)
<1>1. x.paid \in SUBSET Instalments /\ C \in SUBSET Instalments /\ C \cap x.paid = {}
  BY DEF Loan, Covered
<1>2. w \in Nat
  BY Amounts
<1>3. /\ IsFiniteSet(C) /\ C \subseteq Nat /\ Cardinality(C) \in Nat
      /\ IsFiniteSet(x.paid) /\ Cardinality(x.paid) \in Nat
  BY <1>1, Schedule
<1>4. Cardinality(C) * w <= n
  <2>1. CASE C = {}
    BY <1>2, <2>1, FS_EmptySet
  <2>2. CASE C # {}
    <3>1. PICK m \in C : \A i \in C : i <= m
      BY <1>3, <2>2, Furthest
    <3> DEFINE P == (1..m) \ x.paid
    <3>2. C \subseteq P
      BY <1>1, <1>3, <3>1 DEF Instalments
    <3>3. m \in Nat /\ IsFiniteSet(1..m)
      BY <1>3, FS_Interval
    <3>4. IsFiniteSet(P) /\ Cardinality(P) \in Nat
      BY <3>3, FS_Subset, FS_CardinalityType
    <3>5. Cardinality(C) <= Cardinality(P)
      BY <3>2, <3>4, FS_Subset
    <3>6. Cardinality(P) * w <= n
      BY <3>1 DEF Covered
    <3> HIDE DEF C, w, P
    <3>7. Cardinality(C) * w <= Cardinality(P) * w
      <4> DEFINE c == Cardinality(C)
                 d == Cardinality(P) - c
      <4>1. c \in Nat /\ d \in Nat /\ Cardinality(P) = c + d
        BY <1>3, <3>4, <3>5
      <4> HIDE DEF c, d
      <4>2. (c + d) * w = c * w + d * w /\ d * w \in Nat /\ c * w \in Nat
        BY <1>2, <4>1
      <4>3. c * w <= (c + d) * w
        BY <4>2
      <4> QED
        BY <4>1, <4>3 DEF c
    <3>8. Cardinality(C) * w \in Nat /\ Cardinality(P) * w \in Nat
      BY <1>2, <1>3, <3>4
    <3> QED
      BY <3>6, <3>7, <3>8
  <2> QED
    BY <2>1, <2>2
<1>5. Cardinality(x.paid \cup C) = Cardinality(x.paid) + Cardinality(C)
  <2>1. Cardinality(x.paid \cap C) = 0
    BY <1>1, FS_EmptySet
  <2> HIDE DEF C
  <2>2. Cardinality(x.paid \cup C) = Cardinality(x.paid) + Cardinality(C) - Cardinality(x.paid \cap C)
    BY <1>3, FS_Union
  <2> QED
    BY <1>3, <2>1, <2>2
<1> DEFINE c == Cardinality(C)
           d == Cardinality(x.paid)
<1> HIDE DEF C, w, c, d
<1>6. (d + c) * w = d * w + c * w /\ c * w \in Nat /\ d * w \in Nat
  BY <1>2, <1>3 DEF c, d
<1> QED
  BY <1>4, <1>5, <1>6 DEF C, w, c, d

\* One instalment at most is the first that is due.
LEMMA DueIsPaidFor ==
  ASSUME NEW a \in Applications, NEW x \in Loan
  PROVE  Cardinality(x.paid \cup Due(x)) * Weekly(a) <= Cardinality(x.paid) * Weekly(a) + Weekly(a)
<1>1. \A i, j \in Due(x) : i = j
  <2>1. ASSUME NEW i \in Due(x), NEW j \in Due(x), i < j PROVE FALSE
    <3>1. i \in Instalments /\ j \in Instalments /\ i \notin x.paid /\ 1..(j - 1) \subseteq x.paid
      BY <2>1 DEF Due
    <3>2. i \in 1..(j - 1)
      BY <2>1, <3>1, ApplicationsAssumption DEF Instalments
    <3> QED
      BY <3>1, <3>2
  <2>2. Due(x) \subseteq Int
    BY ApplicationsAssumption DEF Due, Instalments
  <2> QED
    BY <2>1, <2>2
<1>2. x.paid \in SUBSET Instalments
  BY DEF Loan
<1> DEFINE d == Cardinality(x.paid)
           c == Cardinality(x.paid \cup Due(x))
           w == Weekly(a)
<1>3. IsFiniteSet(x.paid) /\ d \in Nat /\ w \in Nat
  BY <1>2, Schedule, Amounts
<1>4. c = d \/ c = d + 1
  <2>1. CASE Due(x) = {}
    <3>1. x.paid \cup Due(x) = x.paid
      BY <2>1
    <3> QED
      BY <3>1
  <2>2. CASE Due(x) # {}
    <3>1. PICK i \in Due(x) : Due(x) = {i}
      BY <1>1, <2>2
    <3> QED
      BY <1>3, <3>1, FS_AddElement
  <2> QED
    BY <2>1, <2>2
<1> HIDE DEF c, d, w
<1>5. (d + 1) * w = d * w + w /\ d * w \in Nat
  BY <1>3
<1> QED
  BY <1>3, <1>4, <1>5 DEF c, d, w

-----------------------------------------------------------------------------
(* A loan records what was taken for it *)

LEMMA NoInstalments ==
  ASSUME NEW a \in Applications
  PROVE  0 < Total(a) + Weekly(a) /\ Cardinality({}) * Weekly(a) <= 0
<1>1. Total(a) \in Nat /\ Total(a) > 0 /\ Weekly(a) \in Nat
  BY Amounts
<1>2. Cardinality({}) = 0
  BY FS_EmptySet
<1> QED
  BY <1>1, <1>2

LEMMA RecordInit == Init => RecordInv
<1> SUFFICES ASSUME Init PROVE RecordInv
  OBVIOUS
<1>1. /\ \A p \in Repayments : repay[p].pc = "idle"
      /\ run.pc = "idle" /\ run.todo = {} /\ run.at = {}
      /\ \A a \in Applications : loan[a].repaid = 0 /\ loan[a].paid = {} /\ taken[a] = 0
  BY DEF Init, NoLoan
<1>2. LoanSeen /\ RepaidIsTaken
  BY <1>1 DEF LoanSeen, RepaidIsTaken
<1>3. LoanRecords
  BY <1>1, NoInstalments DEF LoanRecords
<1> QED
  BY <1>2, <1>3, TypeInit DEF RecordInv

\* Steps that leave loans and deductions alone.
LEMMA RecordApply ==
  ASSUME RecordInv, NEW a \in Applications,
         \/ ApplyCheck(a) \/ ApplyLock(a)
         \/ \E p \in Repayments : BreakDeadlock(a, p) /\ UNCHANGED repay
  PROVE  LoanSeen' /\ LoanRecords' /\ RepaidIsTaken'
<1>1. UNCHANGED <<balance, loan, repay, run, week, ledger, taken, stale, disputed>>
  BY DEF ApplyCheck, ApplyLock, BreakDeadlock
<1> QED
  BY <1>1 DEF RecordInv, LoanSeen, LoanRecords, RepaidIsTaken, Open

LEMMA RecordApplyCommit ==
  ASSUME RecordInv, NEW a \in Applications, ApplyCommit(a)
  PROVE  LoanSeen' /\ LoanRecords' /\ RepaidIsTaken'
<1> USE DEF RecordInv
<1>1. UNCHANGED <<repay, run, taken, disputed>>
  BY DEF ApplyCommit
<1>2. /\ loan'[a].status = "active" /\ loan'[a].repaid = 0 /\ loan'[a].paid = {}
      /\ \A b \in Applications : b # a => loan'[b] = loan[b]
      /\ apply[a].pc = "locked"
  BY CommittedLoan DEF TypeInv
<1>3. loan[a].status = "none" /\ loan[a].repaid = 0 /\ a \notin run.todo
  BY <1>2 DEF TypeInv, NotYetALoan
<1>4. \A p \in Repayments : repay[p].pc \in {"read", "wallet", "debited"} => Repaid[p] # a
  BY <1>3 DEF TypeInv, NotYetALoan
<1>5. LoanSeen'
  <2>1. run.todo \subseteq Applications
    BY DEF TypeInv, LoansTypeOK, RunStates
  <2>2. \A p \in Repayments : Repaid[p] \in Applications
    BY RepaymentParts
  <2> QED
    BY <1>1, <1>2, <1>3, <1>4, <2>1, <2>2 DEF LoanSeen, Open
<1>6. LoanRecords'
  <2>1. loan'[a].repaid < Total(a) + Weekly(a) /\ Cardinality(loan'[a].paid) * Weekly(a) <= loan'[a].repaid
    BY <1>2, NoInstalments
  <2> QED
    BY <1>1, <1>2, <2>1 DEF LoanRecords
<1>7. RepaidIsTaken'
  BY <1>1, <1>2, <1>3 DEF RepaidIsTaken
<1> QED
  BY <1>5, <1>6, <1>7

LEMMA RecordRepay ==
  ASSUME RecordInv, NEW p \in Repayments,
         \/ RepayRead(p) \/ RepayWallet(p) \/ RepayDebit(p)
         \/ \E a \in Applications : BreakDeadlock(a, p) /\ UNCHANGED apply
  PROVE  LoanSeen' /\ LoanRecords' /\ RepaidIsTaken'
<1> USE DEF RecordInv
<1>1. UNCHANGED <<balance, loan, apply, run, week, ledger, taken, stale, disputed, raced>>
  BY DEF RepayRead, RepayWallet, RepayDebit, BreakDeadlock
<1>2. /\ \A q \in Repayments : q # p => repay'[q] = repay[q]
      /\ RepayMoves(p) \/ UNCHANGED repay
  BY RepayRecord DEF TypeInv
<1>3. LoanRecords' /\ RepaidIsTaken'
  BY <1>1 DEF LoanRecords, RepaidIsTaken
<1>4. LoanSeen'
  BY <1>1, <1>2 DEF LoanSeen, RepayMoves, Open
<1> QED
  BY <1>3, <1>4

\* Whoever else has loan a in hand when x writes it makes it disputed.
LEMMA DisputedWhenRead ==
  ASSUME NEW a, NEW x, a \notin DisputedAfter(a, x)
  PROVE  /\ a \notin disputed
         /\ \A p \in Repayments \ {x} : Repaid[p] = a => repay[p].pc \notin {"read", "wallet", "debited"}
<1>1. a \notin disputed /\ Repaying(a, x) = {}
  BY DEF DisputedAfter
<1> QED
  BY <1>1 DEF Repaying

LEMMA DisputedGrows ==
  ASSUME NEW a, NEW x
  PROVE  disputed \subseteq DisputedAfter(a, x)
BY DEF DisputedAfter

LEMMA RecordRepayCommit ==
  ASSUME RecordInv, NEW p \in Repayments, RepayCommit(p)
  PROVE  LoanSeen' /\ LoanRecords' /\ RepaidIsTaken'
<1> USE DEF RecordInv
<1> DEFINE a == Repaid[p]
           x == repay[p].loan
           n == repay[p].amount
<1>1. UNCHANGED run /\ disputed' = DisputedAfter(a, p) \cup (run.todo \cap {a})
  BY DEF RepayCommit
<1>2. /\ x \in Loan /\ n \in Nat /\ x.repaid \in Nat
      /\ loan'[a].repaid = x.repaid + n /\ loan'[a].paid = x.paid \cup Covered(a, x, n)
      /\ \A b \in Applications : b # a => loan'[b] = loan[b]
      /\ taken'[a] = taken[a] + n
      /\ \A b \in Applications : b # a => taken'[b] = taken[b]
      /\ repay[p].pc = "debited" /\ repay'[p].pc = "done"
      /\ \A q \in Repayments : q # p => repay'[q] = repay[q]
  BY RepaidLoan
<1>3. a \in Applications
  BY RepaymentParts
<1>4. disputed \subseteq disputed'
  BY <1>1, DisputedGrows
<1>5. a \notin disputed' =>
        /\ a \notin disputed /\ a \notin run.todo
        /\ \A q \in Repayments \ {p} : Repaid[q] = a => repay[q].pc \notin {"read", "wallet", "debited"}
  BY <1>1, DisputedWhenRead
<1>6. a \notin disputed => x = loan[a] /\ n + loan[a].repaid <= Total(a)
  BY <1>2 DEF LoanSeen
<1>7. run.todo \subseteq Applications
  BY DEF TypeInv, LoansTypeOK, RunStates
<1>8. \A q \in Repayments : Repaid[q] \in Applications
  BY RepaymentParts
<1>9. taken[a] \in Nat
  BY <1>3 DEF TypeInv, LoansTypeOK
<1>10. a \notin disputed' => ~(run.pc = "debited" /\ a \in run.at)
  BY <1>5 DEF TypeInv, RunShape
<1>11. Cardinality(loan'[a].paid) * Weekly(a) <= Cardinality(x.paid) * Weekly(a) + n
  BY <1>2, <1>3, CoveredArePaidFor
<1>12. Cardinality(loan'[a].paid) * Weekly(a) \in Nat /\ Cardinality(x.paid) * Weekly(a) \in Nat
  <2>1. loan'[a].paid \in SUBSET Instalments /\ x.paid \in SUBSET Instalments
    BY <1>2 DEF Loan, Covered
  <2> QED
    BY <1>3, <2>1, Schedule, Amounts
<1>13. Total(a) \in Nat /\ Weekly(a) \in Nat /\ Weekly(a) > 0
  BY <1>3, Amounts
<1> HIDE DEF a, x, n
<1>14. LoanSeen'
  <2>1. ASSUME NEW q \in Repayments, repay'[q].pc \in {"read", "wallet", "debited"},
               Repaid[q] \notin disputed'
        PROVE  /\ repay'[q].loan = loan'[Repaid[q]] /\ Open(loan'[Repaid[q]])
               /\ repay'[q].amount + loan'[Repaid[q]].repaid <= Total(Repaid[q])
    <3>1. q # p /\ repay'[q] = repay[q]
      BY <1>2, <2>1
    <3>2. Repaid[q] # a
      BY <1>5, <2>1, <3>1
    <3>3. loan'[Repaid[q]] = loan[Repaid[q]] /\ Repaid[q] \notin disputed
      BY <1>2, <1>4, <1>8, <2>1, <3>2
    <3> QED
      BY <2>1, <3>1, <3>3 DEF LoanSeen
  <2>2. ASSUME NEW b \in run.todo \ disputed'
        PROVE  (run.pc = "defaulting" /\ b \in run.at) \/ (run.loan[b] = loan'[b] /\ Open(loan'[b]))
    <3>1. b # a /\ b \notin disputed
      BY <1>4, <1>5, <2>2
    <3>2. loan'[b] = loan[b]
      BY <1>2, <1>7, <2>2, <3>1
    <3> QED
      BY <2>2, <3>1, <3>2 DEF LoanSeen
  <2> QED
    BY <1>1, <2>1, <2>2 DEF LoanSeen, Open
<1>15. LoanRecords'
  <2>1. ASSUME a \notin disputed'
        PROVE  loan'[a].repaid < Total(a) + Weekly(a) /\ Cardinality(loan'[a].paid) * Weekly(a) <= loan'[a].repaid
    <3>1. x = loan[a] /\ n + x.repaid <= Total(a) /\ Cardinality(x.paid) * Weekly(a) <= x.repaid
      BY <1>3, <1>5, <1>6, <2>1 DEF LoanRecords
    <3>2. loan'[a].repaid = x.repaid + n /\ x.repaid \in Nat /\ n \in Nat
      BY <1>2
    <3> QED
      BY <1>11, <1>12, <1>13, <3>1, <3>2
  <2> QED
    BY <1>2, <1>4, <2>1 DEF LoanRecords
<1>16. RepaidIsTaken'
  <2>1. ASSUME a \notin disputed' PROVE loan'[a].repaid = taken'[a]
    BY <1>2, <1>3, <1>5, <1>6, <1>9, <1>10, <2>1 DEF RepaidIsTaken
  <2>2. \A b \in Applications : taken'[b] \in Int
    BY TypeRepayCommit DEF TypeInv, LoansTypeOK
  <2> QED
    BY <1>1, <1>2, <1>4, <1>10, <2>1, <2>2 DEF RepaidIsTaken
<1> QED
  BY <1>14, <1>15, <1>16

LEMMA RecordRunStart ==
  ASSUME RecordInv, RunStart
  PROVE  LoanSeen' /\ LoanRecords' /\ RepaidIsTaken'
<1> USE DEF RecordInv
<1>1. UNCHANGED <<balance, loan, apply, repay, ledger, taken, stale, disputed, raced>>
  BY DEF RunStart
<1>2. /\ run.pc = "idle" /\ run'.pc \in {"idle", "list"} /\ run'.at = {}
      /\ run'.todo = {a \in Applications : Open(loan[a])}
      /\ \A a \in run'.todo : run'.loan[a] = loan[a]
  BY StartedRun DEF TypeInv
<1>3. LoanSeen'
  BY <1>1, <1>2 DEF LoanSeen, Open
<1>4. LoanRecords'
  BY <1>1 DEF LoanRecords
<1>5. RepaidIsTaken'
  BY <1>1, <1>2 DEF RepaidIsTaken
<1> QED
  BY <1>3, <1>4, <1>5

\* The step of the task at loan a, for the loans.
LEMMA RunAtLoan ==
  ASSUME RecordInv, NEW a \in Applications, RunStep(a)
  PROVE  /\ UNCHANGED repay
         /\ disputed \subseteq disputed'
         /\ run'.loan = run.loan /\ run'.todo \subseteq run.todo /\ run.todo \subseteq Applications
         /\ \A b \in Applications : b # a => loan'[b] = loan[b] /\ taken'[b] = taken[b]
         /\ run.at \subseteq {a} \/ run.pc \in {"idle", "list"}
         /\ run'.at \subseteq {a}
         /\ RunShape /\ RunShape'
<1>1. UNCHANGED repay
  BY DEF RunStep, RunSkip, RunMiss, RunDefault, RunDebit, RunSave, RunFloatWrite
<1>2. disputed \subseteq disputed'
  BY DisputedGrows DEF RunStep, RunSkip, RunMiss, RunDefault, RunDebit, RunSave, RunFloatWrite
<1>3. run'.loan = run.loan /\ run'.todo \subseteq run.todo /\ run.todo \subseteq Applications
  <2>1. run'.loan = run.loan /\ (Through(a) \/ Ends \/ Takes(a) \/ Saves(a))
    BY RunRecord DEF RunStep, RecordInv, TypeInv
  <2> QED
    BY <2>1, ShapeKept DEF RecordInv, TypeInv, LoansTypeOK, RunStates
<1>4. \A b \in Applications : b # a => loan'[b] = loan[b] /\ taken'[b] = taken[b]
  <2>1. CASE RunSkip(a) \/ RunFloatWrite(a)
    BY <2>1 DEF RunSkip, RunFloatWrite
  <2>2. CASE RunDebit(a)
    BY <2>2, RunMoney DEF RunDebit, RecordInv
  <2>3. CASE RunMiss(a) \/ RunDefault(a) \/ RunSave(a)
    BY <2>3, RunLoan DEF RunMiss, RunDefault, RunSave, RecordInv
  <2> QED
    BY <2>1, <2>2, <2>3 DEF RunStep
<1>5. /\ run.at \subseteq {a} \/ run.pc \in {"idle", "list"}
      /\ run'.at \subseteq {a}
  <2>1. run \in RunStates /\ RunShape
    BY DEF RecordInv, TypeInv, LoansTypeOK
  <2> QED
    BY <2>1, RunRecord DEF RunStep, Through, Ends, Takes, Saves, RunShape, RunDefault, RecordInv, TypeInv
<1>6. RunShape /\ RunShape'
  BY TypeRun DEF RecordInv, TypeInv
<1> QED
  BY <1>1, <1>2, <1>3, <1>4, <1>5, <1>6

\* What the step makes of loan a: nothing, a missed instalment, a default, a deduction
\* or the record of one.
LEMMA RunFacts ==
  ASSUME RecordInv, NEW a \in Applications
  PROVE  /\ RunSkip(a) \/ RunFloatWrite(a) =>
              /\ UNCHANGED <<loan, taken, disputed>>
              /\ run.pc # "debited" /\ run'.pc \in {"idle", "list"} /\ a \notin run'.todo
         /\ RunMiss(a) =>
              /\ a \in run.todo /\ run.pc = "list" /\ UNCHANGED taken /\ disputed' = DisputedAfter(a, a)
              /\ loan'[a].status = loan[a].status /\ loan'[a].repaid = loan[a].repaid
              /\ loan'[a].paid = run.loan[a].paid
              /\ \/ run'.pc \in {"idle", "list"} /\ a \notin run'.todo
                 \/ run'.pc = "defaulting" /\ run'.at = {a}
         /\ RunDefault(a) =>
              /\ run.pc = "defaulting" /\ a \in run.at
              /\ UNCHANGED taken /\ disputed' = DisputedAfter(a, a)
              /\ loan'[a].status = "defaulted" /\ loan'[a].repaid = loan[a].repaid
              /\ loan'[a].paid = loan[a].paid
              /\ run'.pc = "idle" /\ run'.todo = {}
         /\ RunDebit(a) =>
              /\ a \in run.todo /\ run.pc = "list" /\ UNCHANGED <<loan, disputed>>
              /\ taken'[a] = taken[a] + Weekly(a)
              /\ run'.pc = "debited" /\ run'.at = {a}
         /\ RunSave(a) =>
              /\ run.pc = "debited" /\ run.at = {a} /\ a \in run.todo
              /\ UNCHANGED taken /\ disputed' = DisputedAfter(a, a)
              /\ loan'[a].repaid = run.loan[a].repaid + Weekly(a)
              /\ loan'[a].paid = run.loan[a].paid \cup Due(run.loan[a])
              /\ loan'[a].status \in {"repaid", "partial"}
              /\ run'.pc = "saved" /\ a \notin run'.todo
<1> USE DEF RecordInv, TypeInv
<1>1. ASSUME RunSkip(a) \/ RunFloatWrite(a)
      PROVE  /\ UNCHANGED <<loan, taken, disputed>>
             /\ run.pc # "debited" /\ run'.pc \in {"idle", "list"} /\ a \notin run'.todo
  <2>1. Through(a)
    BY <1>1, RunRecord DEF RunStep
  <2> QED
    BY <1>1, <2>1 DEF RunSkip, RunFloatWrite, Through
<1>2. ASSUME RunMiss(a)
      PROVE  /\ a \in run.todo /\ run.pc = "list" /\ UNCHANGED taken /\ disputed' = DisputedAfter(a, a)
             /\ loan'[a].status = loan[a].status /\ loan'[a].repaid = loan[a].repaid
             /\ loan'[a].paid = run.loan[a].paid
             /\ \/ run'.pc \in {"idle", "list"} /\ a \notin run'.todo
                \/ run'.pc = "defaulting" /\ run'.at = {a}
  <2>1. Through(a) \/ (Takes(a) /\ run'.pc = "defaulting")
    BY <1>2, RunRecord DEF RunStep
  <2>2. /\ \/ run'.pc \in {"idle", "list"} /\ a \notin run'.todo
           \/ run'.pc = "defaulting" /\ run'.at = {a}
    BY <2>1 DEF Through, Takes
  <2>3. /\ a \in run.todo /\ run.pc = "list" /\ UNCHANGED taken /\ disputed' = DisputedAfter(a, a)
    BY <1>2 DEF RunMiss
  <2> QED
    BY <1>2, <2>2, <2>3, RunLoan
<1>3. ASSUME RunDefault(a)
      PROVE  /\ run.pc = "defaulting" /\ a \in run.at
             /\ UNCHANGED taken /\ disputed' = DisputedAfter(a, a)
             /\ loan'[a].status = "defaulted" /\ loan'[a].repaid = loan[a].repaid
             /\ loan'[a].paid = loan[a].paid
             /\ run'.pc = "idle" /\ run'.todo = {}
  <2>1. Ends /\ run.pc = "defaulting" /\ a \in run.at
    BY <1>3, RunRecord DEF RunStep
  <2>2. UNCHANGED taken /\ disputed' = DisputedAfter(a, a)
    BY <1>3 DEF RunDefault
  <2> QED
    BY <1>3, <2>1, <2>2, RunLoan DEF Ends
<1>4. ASSUME RunDebit(a)
      PROVE  /\ a \in run.todo /\ run.pc = "list" /\ UNCHANGED <<loan, disputed>>
             /\ taken'[a] = taken[a] + Weekly(a)
             /\ run'.pc = "debited" /\ run'.at = {a}
  <2>1. Takes(a) /\ run'.pc = "debited"
    BY <1>4, RunRecord DEF RunStep
  <2>2. a \in run.todo /\ run.pc = "list" /\ UNCHANGED <<loan, disputed>>
    BY <1>4 DEF RunDebit
  <2> QED
    BY <1>4, <2>1, <2>2, RunMoney DEF Takes
<1>5. ASSUME RunSave(a)
      PROVE  /\ run.pc = "debited" /\ run.at = {a} /\ a \in run.todo
             /\ UNCHANGED taken /\ disputed' = DisputedAfter(a, a)
             /\ loan'[a].repaid = run.loan[a].repaid + Weekly(a)
             /\ loan'[a].paid = run.loan[a].paid \cup Due(run.loan[a])
             /\ loan'[a].status \in {"repaid", "partial"}
             /\ run'.pc = "saved" /\ a \notin run'.todo
  <2>1. Saves(a)
    BY <1>5, RunRecord DEF RunStep
  <2>2. UNCHANGED taken /\ disputed' = DisputedAfter(a, a)
    BY <1>5 DEF RunSave
  <2> QED
    BY <1>5, <2>1, <2>2, RunLoan DEF Saves, RunShape
<1> QED
  BY <1>1, <1>2, <1>3, <1>4, <1>5

LEMMA SeenRun ==
  ASSUME RecordInv, NEW a \in Applications, RunStep(a)
  PROVE  LoanSeen'
<1> USE DEF RecordInv
<1>1. /\ UNCHANGED repay
      /\ disputed \subseteq disputed'
      /\ run'.loan = run.loan /\ run'.todo \subseteq run.todo /\ run.todo \subseteq Applications
      /\ \A b \in Applications : b # a => loan'[b] = loan[b] /\ taken'[b] = taken[b]
      /\ run.at \subseteq {a} \/ run.pc \in {"idle", "list"}
      /\ run'.at \subseteq {a}
  BY RunAtLoan
<1>2. \A p \in Repayments : Repaid[p] \in Applications /\ p # a
  BY RepaymentParts
<1>3. loan' = loan \/ disputed' = DisputedAfter(a, a)
  BY RunFacts DEF RunStep
<1>4. loan' # loan /\ a \notin disputed' =>
        \A p \in Repayments : Repaid[p] = a => repay[p].pc \notin {"read", "wallet", "debited"}
  BY <1>2, <1>3, DisputedWhenRead
<1>5. ASSUME NEW p \in Repayments, repay[p].pc \in {"read", "wallet", "debited"}, Repaid[p] \notin disputed'
      PROVE  /\ repay[p].loan = loan'[Repaid[p]] /\ Open(loan'[Repaid[p]])
             /\ repay[p].amount + loan'[Repaid[p]].repaid <= Total(Repaid[p])
  <2>1. loan'[Repaid[p]] = loan[Repaid[p]]
    BY <1>1, <1>2, <1>4, <1>5
  <2> QED
    BY <1>1, <1>5, <2>1 DEF LoanSeen
<1>6. ASSUME NEW b \in run'.todo \ disputed'
      PROVE  (run'.pc = "defaulting" /\ b \in run'.at) \/ (run.loan[b] = loan'[b] /\ Open(loan'[b]))
  <2>1. b \in run.todo /\ b \in Applications /\ b \notin disputed
    BY <1>1, <1>6
  <2>2. CASE b = a
    BY <1>6, <2>1, <2>2, RunFacts DEF RunStep, LoanSeen
  <2>3. CASE b # a
    <3>1. loan'[b] = loan[b]
      BY <1>1, <2>1, <2>3
    <3>2. run.loan[b] = loan[b] /\ Open(loan[b])
      BY <1>1, <2>1, <2>3 DEF LoanSeen
    <3> QED
      BY <3>1, <3>2
  <2> QED
    BY <2>2, <2>3
<1> QED
  BY <1>1, <1>5, <1>6 DEF LoanSeen, Open

LEMMA RecordsRun ==
  ASSUME RecordInv, NEW a \in Applications, RunStep(a)
  PROVE  LoanRecords' /\ RepaidIsTaken'
<1> USE DEF RecordInv
<1>1. /\ disputed \subseteq disputed'
      /\ \A b \in Applications : b # a => loan'[b] = loan[b] /\ taken'[b] = taken[b]
      /\ run.at \subseteq {a} \/ run.pc \in {"idle", "list"}
      /\ run'.at \subseteq {a}
      /\ RunShape /\ RunShape'
  BY RunAtLoan
<1>2. Total(a) \in Nat /\ Weekly(a) \in Nat /\ Weekly(a) > 0
  BY Amounts
<1>3. /\ taken[a] \in Nat /\ loan[a] \in Loan /\ loan[a].repaid \in Nat /\ run.loan[a] \in Loan
      /\ run.loan[a].repaid \in Nat
  BY DEF TypeInv, LoansTypeOK, RunStates, Loan
<1>4. \A b \in Applications : taken[b] \in Int /\ loan[b].repaid \in Int
  BY DEF TypeInv, LoansTypeOK, Loan
<1>5. ASSUME a \notin disputed'
      PROVE  /\ loan'[a].repaid < Total(a) + Weekly(a)
             /\ Cardinality(loan'[a].paid) * Weekly(a) <= loan'[a].repaid
             /\ loan'[a].repaid = taken'[a] - (IF run'.pc = "debited" /\ a \in run'.at THEN Weekly(a) ELSE 0)
  <2>1. /\ a \notin disputed
        /\ loan[a].repaid < Total(a) + Weekly(a)
        /\ Cardinality(loan[a].paid) * Weekly(a) <= loan[a].repaid
        /\ loan[a].repaid = taken[a] - (IF run.pc = "debited" /\ a \in run.at THEN Weekly(a) ELSE 0)
    BY <1>1, <1>5 DEF LoanRecords, RepaidIsTaken
  <2>2. CASE RunSkip(a) \/ RunFloatWrite(a)
    BY <2>1, <2>2, RunFacts
  <2>3. CASE RunMiss(a)
    <3>1. run.loan[a] = loan[a]
      BY <2>1, <2>3, RunFacts DEF LoanSeen
    <3>2. /\ loan'[a].repaid = loan[a].repaid /\ loan'[a].paid = loan[a].paid
          /\ taken'[a] = taken[a] /\ run.pc = "list" /\ run'.pc # "debited"
      BY <2>3, <3>1, RunFacts
    <3> QED
      BY <2>1, <3>2
  <2>4. CASE RunDefault(a)
    <3>1. /\ loan'[a].repaid = loan[a].repaid /\ loan'[a].paid = loan[a].paid
          /\ taken'[a] = taken[a] /\ run.pc = "defaulting" /\ run'.pc = "idle"
      BY <2>4, RunFacts
    <3> QED
      BY <2>1, <3>1
  <2>5. CASE RunDebit(a)
    <3>1. /\ loan'[a] = loan[a] /\ taken'[a] = taken[a] + Weekly(a)
          /\ run.pc = "list" /\ run'.pc = "debited" /\ a \in run'.at
      BY <2>5, RunFacts
    <3> QED
      BY <1>2, <1>3, <2>1, <3>1
  <2>6. CASE RunSave(a)
    <3>1. /\ run.pc = "debited" /\ a \in run.at /\ run'.pc = "saved" /\ a \in run.todo
          /\ taken'[a] = taken[a] /\ loan'[a].repaid = run.loan[a].repaid + Weekly(a)
          /\ loan'[a].paid = run.loan[a].paid \cup Due(run.loan[a])
      BY <2>6, RunFacts
    <3>2. run.loan[a] = loan[a] /\ Open(loan[a])
      BY <2>1, <3>1 DEF LoanSeen
    <3>3. loan[a].repaid < Total(a)
      BY <3>2 DEF TypeInv, OpenOwes
    <3>4. Cardinality(loan'[a].paid) * Weekly(a) <= Cardinality(loan[a].paid) * Weekly(a) + Weekly(a)
      BY <1>3, <3>1, <3>2, DueIsPaidFor
    <3>5. Cardinality(loan'[a].paid) * Weekly(a) \in Nat /\ Cardinality(loan[a].paid) * Weekly(a) \in Nat
      <4>1. loan'[a].paid \in SUBSET Instalments /\ loan[a].paid \in SUBSET Instalments
        BY <1>3, <3>1 DEF Loan, Due
      <4> QED
        BY <1>2, <4>1, Schedule
    <3>6. Cardinality(loan'[a].paid) * Weekly(a) <= loan'[a].repaid
      BY <1>2, <1>3, <2>1, <3>1, <3>2, <3>4, <3>5
    <3>7. loan'[a].repaid < Total(a) + Weekly(a)
      BY <1>2, <1>3, <3>1, <3>2, <3>3
    <3>8. loan'[a].repaid = taken'[a]
      BY <1>2, <1>3, <2>1, <3>1, <3>2
    <3> QED
      BY <1>3, <3>1, <3>6, <3>7, <3>8
  <2> QED
    BY <2>2, <2>3, <2>4, <2>5, <2>6 DEF RunStep
<1>6. ASSUME NEW b \in Applications, b # a, b \notin disputed'
      PROVE  /\ loan'[b].repaid < Total(b) + Weekly(b)
             /\ Cardinality(loan'[b].paid) * Weekly(b) <= loan'[b].repaid
             /\ loan'[b].repaid = taken'[b] - (IF run'.pc = "debited" /\ b \in run'.at THEN Weekly(b) ELSE 0)
  <2>1. loan'[b] = loan[b] /\ taken'[b] = taken[b] /\ b \notin disputed /\ b \notin run'.at
    BY <1>1, <1>6
  <2>2. ~(run.pc = "debited" /\ b \in run.at)
    BY <1>1, <1>6
  <2> QED
    BY <1>4, <2>1, <2>2 DEF LoanRecords, RepaidIsTaken
<1> QED
  BY <1>5, <1>6 DEF LoanRecords, RepaidIsTaken

LEMMA RecordRunAlone ==
  ASSUME RecordInv, RunFloatRead \/ RunDie
  PROVE  LoanSeen' /\ LoanRecords' /\ RepaidIsTaken'
<1> USE DEF RecordInv
<1>1. /\ UNCHANGED <<balance, loan, apply, repay, week, ledger, taken, stale, raced>>
      /\ run' \in RunStates /\ run'.loan = run.loan /\ run'.seen = run.seen
      /\ RunFloatRead => /\ run.pc = "saved" /\ run'.pc = "float"
                         /\ run'.todo = run.todo /\ run'.at = run.at
      /\ RunDie => Ends
  BY RunAlone
<1>2. disputed \subseteq disputed' /\ (RunFloatRead => disputed' = disputed)
  BY DEF RunFloatRead, RunDie
<1>3. LoanRecords'
  BY <1>1, <1>2 DEF LoanRecords
<1>4. LoanSeen'
  <2>1. CASE RunFloatRead
    BY <1>1, <1>2, <2>1 DEF LoanSeen, Open
  <2>2. CASE RunDie
    BY <1>1, <1>2, <2>2 DEF LoanSeen, Open, Ends
  <2> QED
    BY <2>1, <2>2
<1>5. RepaidIsTaken'
  <2>1. CASE RunFloatRead
    BY <1>1, <1>2, <2>1 DEF RepaidIsTaken
  <2>2. CASE RunDie
    <3>1. \A a \in Applications \ disputed' : a \notin disputed /\ ~(run.pc = "debited" /\ a \in run.at)
      BY <2>2 DEF RunDie
    <3>2. run'.pc = "idle"
      BY <1>1, <2>2 DEF Ends
    <3> QED
      BY <1>1, <3>1, <3>2 DEF RepaidIsTaken
  <2> QED
    BY <2>1, <2>2
<1> QED
  BY <1>3, <1>4, <1>5

LEMMA RecordNext == RecordInv /\ [Next]_vars => RecordInv'
<1> SUFFICES ASSUME RecordInv, [Next]_vars PROVE RecordInv'
  OBVIOUS
<1>1. TypeInv'
  BY TypeNext DEF RecordInv
<1>2. CASE Next
  <2>1. LoanSeen' /\ LoanRecords' /\ RepaidIsTaken'
    BY <1>2, Steps, RecordApply, RecordApplyCommit, RecordRepay, RecordRepayCommit, RecordRunStart,
       SeenRun, RecordsRun, RecordRunAlone
  <2> QED
    BY <1>1, <2>1 DEF RecordInv
<1>3. CASE UNCHANGED vars
  <2>1. LoanSeen' /\ LoanRecords' /\ RepaidIsTaken'
    BY <1>3 DEF vars, RecordInv, LoanSeen, LoanRecords, RepaidIsTaken, Open
  <2> QED
    BY <1>1, <2>1 DEF RecordInv
<1> QED
  BY <1>2, <1>3

LEMMA BoundInit == Init => BoundInv
<1> SUFFICES ASSUME Init PROVE BoundInv
  OBVIOUS
<1>1. TypeInv
  BY TypeInit
<1>2. \A p \in Repayments : repay[p].pc = "idle"
  BY DEF Init
<1>3. run.todo = {} /\ \A a \in Applications : loan[a].repaid = 0
  BY DEF Init, NoLoan
<1>4. \A a \in Applications : 0 < Total(a) + Weekly(a)
  BY Amounts
<1> QED
  BY <1>1, <1>2, <1>3, <1>4 DEF BoundInv, NeverFarOver

LEMMA BoundRepay ==
  ASSUME BoundInv, NEW p \in Repayments,
         \/ RepayRead(p) \/ RepayWallet(p) \/ RepayDebit(p)
         \/ \E a \in Applications : BreakDeadlock(a, p) /\ UNCHANGED apply
  PROVE  NeverFarOver'
<1> USE DEF BoundInv
<1>1. UNCHANGED <<loan, run>>
  BY DEF RepayRead, RepayWallet, RepayDebit, BreakDeadlock
<1>2. /\ \A q \in Repayments : q # p => repay'[q] = repay[q]
      /\ RepayMoves(p) \/ UNCHANGED repay
  BY RepayRecord DEF TypeInv
<1> QED
  BY <1>1, <1>2 DEF NeverFarOver, RepayMoves

LEMMA BoundRepayCommit ==
  ASSUME BoundInv, NEW p \in Repayments, RepayCommit(p)
  PROVE  NeverFarOver'
<1> DEFINE a == Repaid[p]
<1>1. /\ repay[p].pc = "debited" /\ repay'[p].pc = "done"
      /\ \A q \in Repayments : q # p => repay'[q] = repay[q]
      /\ \A b \in Applications : b # a => loan'[b] = loan[b]
      /\ loan'[a].repaid = repay[p].loan.repaid + repay[p].amount
      /\ repay[p].loan.repaid \in Nat /\ repay[p].amount \in Nat
  BY RepaidLoan DEF BoundInv
<1>2. a \in Applications /\ Total(a) \in Nat /\ Weekly(a) \in Nat /\ Weekly(a) > 0
  BY RepaymentParts, Amounts
<1>3. loan'[a].repaid < Total(a) + Weekly(a)
  BY <1>1, <1>2 DEF BoundInv, NeverFarOver
<1>4. UNCHANGED run
  BY DEF RepayCommit
<1> QED
  BY <1>1, <1>3, <1>4 DEF BoundInv, NeverFarOver

LEMMA BoundRun ==
  ASSUME BoundInv, NEW a \in Applications, RunStep(a)
  PROVE  NeverFarOver'
<1>0. TypeInv /\ run \in RunStates
  BY DEF BoundInv, TypeInv, LoansTypeOK
<1>1. run'.loan = run.loan /\ run'.todo \subseteq run.todo
  BY <1>0, RunRecord DEF RunStep, Through, Ends, Takes, Saves, TypeInv, RunShape, RunStates
<1>2. UNCHANGED repay
  BY DEF RunStep, RunSkip, RunMiss, RunDefault, RunDebit, RunSave, RunFloatWrite
<1>3. ASSUME NEW b \in Applications
      PROVE  loan'[b].repaid < Total(b) + Weekly(b)
  <2>1. CASE RunMiss(a) \/ RunDefault(a)
    <3>1. loan'[b].repaid = loan[b].repaid
      BY <1>0, <2>1, RunLoan
    <3> QED
      BY <3>1 DEF BoundInv, NeverFarOver
  <2>2. CASE RunSave(a)
    <3>1. /\ loan'[a].repaid = run.loan[a].repaid + Weekly(a)
          /\ \A c \in Applications : c # a => loan'[c] = loan[c]
      BY <1>0, <2>2, RunLoan
    <3>2. a \in run.todo
      BY <1>0, <2>2 DEF RunSave, TypeInv, RunShape
    <3>3. run.loan[a].repaid \in Nat /\ Total(a) \in Nat /\ Weekly(a) \in Nat
      BY <1>0, Amounts DEF RunStates, Loan
    <3>4. run.loan[a].repaid < Total(a)
      BY <3>2 DEF BoundInv, NeverFarOver
    <3>5. loan'[a].repaid < Total(a) + Weekly(a)
      BY <3>1, <3>3, <3>4
    <3> QED
      BY <3>1, <3>5 DEF BoundInv, NeverFarOver
  <2>3. CASE RunSkip(a) \/ RunDebit(a) \/ RunFloatWrite(a)
    <3>1. UNCHANGED loan
      BY <2>3 DEF RunSkip, RunDebit, RunFloatWrite
    <3> QED
      BY <3>1 DEF BoundInv, NeverFarOver
  <2> QED
    BY <2>1, <2>2, <2>3 DEF RunStep
<1> QED
  BY <1>1, <1>2, <1>3 DEF BoundInv, NeverFarOver

LEMMA BoundOthers ==
  ASSUME BoundInv,
         \/ \E a \in Applications :
              \/ ApplyCheck(a) \/ ApplyLock(a) \/ ApplyCommit(a)
              \/ \E p \in Repayments : BreakDeadlock(a, p) /\ UNCHANGED repay
         \/ RunStart \/ RunFloatRead \/ RunDie \/ UNCHANGED vars
  PROVE  NeverFarOver'
<1> USE DEF BoundInv
<1>1. ASSUME NEW a \in Applications,
             \/ ApplyCheck(a) \/ ApplyLock(a)
             \/ \E p \in Repayments : BreakDeadlock(a, p) /\ UNCHANGED repay
      PROVE  UNCHANGED <<loan, repay, run>>
  BY <1>1 DEF ApplyCheck, ApplyLock, BreakDeadlock
<1>2. ASSUME NEW a \in Applications, ApplyCommit(a)
      PROVE  NeverFarOver'
  <2>1. loan'[a].repaid = 0 /\ \A b \in Applications : b # a => loan'[b] = loan[b]
    BY <1>2, CommittedLoan DEF TypeInv
  <2>2. 0 < Total(a) + Weekly(a)
    BY Amounts
  <2>3. UNCHANGED <<repay, run>>
    BY <1>2 DEF ApplyCommit
  <2> QED
    BY <2>1, <2>2, <2>3 DEF NeverFarOver
<1>3. ASSUME RunStart
      PROVE  NeverFarOver'
  <2>1. /\ \A a \in run'.todo : a \in Applications /\ Open(loan[a]) /\ run'.loan[a] = loan[a]
    BY <1>3, StartedRun DEF TypeInv
  <2>2. UNCHANGED <<loan, repay>>
    BY <1>3 DEF RunStart
  <2> QED
    BY <2>1, <2>2 DEF NeverFarOver, TypeInv, OpenOwes
<1>4. ASSUME RunFloatRead \/ RunDie
      PROVE  UNCHANGED <<loan, repay>> /\ run'.loan = run.loan /\ run'.todo \subseteq run.todo
  <2>1. run \in RunStates
    BY DEF TypeInv, LoansTypeOK
  <2> QED
    BY <1>4, <2>1 DEF RunFloatRead, RunDie, Stopped, RunStates
<1>5. UNCHANGED <<loan, repay, run>> => NeverFarOver'
  BY DEF NeverFarOver
<1>6. UNCHANGED <<loan, repay>> /\ run'.loan = run.loan /\ run'.todo \subseteq run.todo => NeverFarOver'
  BY DEF NeverFarOver
<1>7. UNCHANGED vars => UNCHANGED <<loan, repay, run>>
  BY DEF vars
<1> QED
  BY <1>1, <1>2, <1>3, <1>4, <1>5, <1>6, <1>7

LEMMA BoundNext == BoundInv /\ [Next]_vars => BoundInv'
<1> SUFFICES ASSUME BoundInv, [Next]_vars PROVE BoundInv'
  OBVIOUS
<1>1. TypeInv'
  BY TypeNext DEF BoundInv
<1>2. NeverFarOver'
  BY Steps, BoundRepay, BoundRepayCommit, BoundRun, BoundOthers
<1> QED
  BY <1>1, <1>2 DEF BoundInv

\* What was taken, then, and what it pays for.
LEMMA RecordGives ==
  ASSUME RecordInv, BoundInv
  PROVE  OverpaidByLessThanAnInstalment /\ InstalmentsArePaidFor
<1> SUFFICES ASSUME NEW a \in Applications \ disputed
             PROVE  /\ taken[a] < Total(a) + Weekly(a)
                    /\ Cardinality(loan[a].paid) * Weekly(a) <= taken[a]
  BY DEF OverpaidByLessThanAnInstalment, InstalmentsArePaidFor, BoundInv, NeverFarOver
<1>1. Total(a) \in Nat /\ Weekly(a) \in Nat
  BY Amounts
<1>2. taken[a] \in Nat /\ loan[a] \in Loan /\ loan[a].repaid \in Nat
  BY DEF RecordInv, TypeInv, LoansTypeOK, Loan
<1>3. /\ loan[a].repaid < Total(a) + Weekly(a)
      /\ Cardinality(loan[a].paid) * Weekly(a) <= loan[a].repaid
      /\ loan[a].repaid = taken[a] - (IF run.pc = "debited" /\ a \in run.at THEN Weekly(a) ELSE 0)
  BY DEF RecordInv, LoanRecords, RepaidIsTaken
<1>4. Cardinality(loan[a].paid) * Weekly(a) \in Nat
  <2>1. loan[a].paid \in SUBSET Instalments
    BY <1>2 DEF Loan
  <2> QED
    BY <1>1, <2>1, Schedule
<1>5. run.pc = "debited" /\ a \in run.at => loan[a].repaid < Total(a)
  <2>1. run.pc = "debited" /\ a \in run.at => Open(loan[a])
    BY DEF RecordInv, LoanSeen, TypeInv, RunShape
  <2> QED
    BY <2>1 DEF RecordInv, TypeInv, OpenOwes
<1> QED
  BY <1>1, <1>2, <1>3, <1>4, <1>5

-----------------------------------------------------------------------------
(* One open loan per user *)

LEMMA OpenInit == Init => OpenInv
<1> SUFFICES ASSUME Init PROVE OpenInv
  OBVIOUS
<1>1. /\ \A a \in Applications : apply[a].pc = "idle"
      /\ \A a \in Applications : loan[a].status = "none"
  BY DEF Init, NoLoan
<1> QED
  BY <1>1, RecordInit DEF OpenInv, ChecksRaced, OneLoanUnlessRaced, Checked, Open

\* Steps that neither check an application nor open an undisputed loan.
LEMMA OpensNothing ==
  ASSUME OpenInv, UNCHANGED <<apply, raced>>, disputed \subseteq disputed',
         \A b \in Applications \ disputed' : Open(loan'[b]) => Open(loan[b])
  PROVE  ChecksRaced' /\ OneLoanUnlessRaced'
<1>1. ChecksRaced'
  BY DEF OpenInv, ChecksRaced, Checked, Open
<1>2. OneLoanUnlessRaced'
  BY DEF OpenInv, OneLoanUnlessRaced, Open
<1> QED
  BY <1>1, <1>2

LEMMA OpenApply ==
  ASSUME OpenInv, NEW a \in Applications,
         \/ ApplyCheck(a) \/ ApplyLock(a)
         \/ \E p \in Repayments : BreakDeadlock(a, p) /\ UNCHANGED repay
  PROVE  ChecksRaced' /\ OneLoanUnlessRaced'
<1>1. UNCHANGED <<loan, disputed>>
  BY DEF ApplyCheck, ApplyLock, BreakDeadlock
<1>2. /\ \A b \in Applications : b # a => apply'[b] = apply[b]
      /\ ApplyMoves(a) \/ UNCHANGED apply
  BY ApplyRecord DEF OpenInv, RecordInv, TypeInv
<1>3. raced \subseteq raced'
  BY DEF ApplyCheck, ApplyLock, BreakDeadlock
<1>4. OneLoanUnlessRaced'
  BY <1>1, <1>3 DEF OpenInv, OneLoanUnlessRaced
<1>5. ASSUME NEW b \in Applications, Applicant[a] = Applicant[b], a # b, Checked(a)', ~Checked(a),
             Checked(b) \/ (b \notin disputed /\ Open(loan[b]))
      PROVE  Applicant[a] \in raced'
  <2>1. apply[a].pc = "idle" /\ apply'[a].pc = "checked"
    BY <1>2, <1>5 DEF ApplyMoves, Checked
  <2>2. ApplyCheck(a)
    BY <2>1 DEF ApplyLock, BreakDeadlock, Deadlock
  <2>3. apply \in [Applications -> ApplyStates]
    BY DEF OpenInv, RecordInv, TypeInv, LoansTypeOK
  <2>4. ~(\E c \in Applications : Applicant[c] = Applicant[a] /\ Open(loan[c]))
    <3>1. ASSUME apply' = [apply EXCEPT ![a].pc = "refused"] PROVE FALSE
      <4>1. apply'[a] = [apply[a] EXCEPT !.pc = "refused"] /\ apply[a] \in ApplyStates
        BY <2>3, <3>1
      <4>2. apply'[a].pc = "refused"
        BY <4>1 DEF ApplyStates
      <4> QED
        BY <2>1, <4>2
    <3> QED
      BY <2>2, <3>1 DEF ApplyCheck
  <2>5. Checked(b)
    BY <1>5, <2>4
  <2>6. raced' = raced \cup {v \in {Applicant[a]} :
                   \E c \in {d \in Applications : Applicant[d] = Applicant[a]} :
                      apply[c].pc \in {"checked", "locked"}}
    BY <2>2, <2>4 DEF ApplyCheck
  <2> QED
    BY <1>5, <2>5, <2>6 DEF Checked
<1>6. ChecksRaced'
  <2>1. ASSUME NEW b \in Applications, NEW c \in Applications,
               Applicant[b] = Applicant[c], b # c, Checked(b)',
               Checked(c)' \/ (c \notin disputed /\ Open(loan[c]))
        PROVE  Applicant[b] \in raced'
    <3>1. \A d \in Applications : d # a => (Checked(d)' <=> Checked(d))
      BY <1>2 DEF Checked
    <3>2. CASE Checked(b) /\ (Checked(c) \/ (c \notin disputed /\ Open(loan[c])))
      BY <1>3, <2>1, <3>2 DEF OpenInv, ChecksRaced
    <3>3. CASE b = a /\ ~Checked(a)
      BY <1>5, <2>1, <3>1, <3>3
    <3>4. CASE c = a /\ ~Checked(a) /\ Checked(a)'
      BY <1>5, <2>1, <3>1, <3>4
    <3> QED
      BY <2>1, <3>1, <3>2, <3>3, <3>4
  <2> QED
    BY <1>1, <2>1 DEF ChecksRaced, Open
<1> QED
  BY <1>4, <1>6

LEMMA OpenApplyCommit ==
  ASSUME OpenInv, NEW a \in Applications, ApplyCommit(a)
  PROVE  ChecksRaced' /\ OneLoanUnlessRaced'
<1>1. UNCHANGED <<disputed, raced>>
  BY DEF ApplyCommit
<1>2. /\ \A b \in Applications : b # a => loan'[b] = loan[b] /\ apply'[b] = apply[b]
      /\ Checked(a) /\ ~Checked(a)'
  BY CommittedLoan DEF OpenInv, RecordInv, TypeInv, Checked
<1>3. \A b \in Applications : b # a => (Checked(b)' <=> Checked(b))
  BY <1>2 DEF Checked
<1>4. \A b \in Applications :
        (/\ Applicant[a] = Applicant[b] /\ a # b
         /\ Checked(b) \/ (b \notin disputed /\ Open(loan[b])))
            => Applicant[a] \in raced
  BY <1>2 DEF OpenInv, ChecksRaced
<1>5. ChecksRaced'
  <2>1. ASSUME NEW b \in Applications, NEW c \in Applications,
               Applicant[b] = Applicant[c], b # c, Checked(b)',
               Checked(c)' \/ (c \notin disputed /\ Open(loan'[c]))
        PROVE  Applicant[b] \in raced
    <3>1. b # a /\ Checked(b)
      BY <1>2, <1>3, <2>1
    <3>2. CASE c = a
      BY <1>4, <2>1, <3>1, <3>2
    <3>3. CASE c # a
      BY <1>2, <1>3, <2>1, <3>1, <3>3 DEF OpenInv, ChecksRaced
    <3> QED
      BY <3>2, <3>3
  <2> QED
    BY <1>1, <2>1 DEF ChecksRaced, Open
<1>6. OneLoanUnlessRaced'
  <2>1. ASSUME NEW b \in Applications \ disputed, NEW c \in Applications \ disputed,
               Applicant[b] = Applicant[c], b # c, Open(loan'[b]), Open(loan'[c])
        PROVE  Applicant[b] \in raced
    <3>1. CASE b # a /\ c # a
      BY <1>2, <2>1, <3>1 DEF OpenInv, OneLoanUnlessRaced, Open
    <3>2. CASE b = a
      BY <1>2, <1>4, <2>1, <3>2
    <3>3. CASE c = a
      BY <1>2, <1>4, <2>1, <3>3
    <3> QED
      BY <3>1, <3>2, <3>3
  <2> QED
    BY <1>1, <2>1 DEF OneLoanUnlessRaced, Open
<1> QED
  BY <1>5, <1>6

LEMMA OpenRepayCommit ==
  ASSUME OpenInv, NEW p \in Repayments, RepayCommit(p)
  PROVE  ChecksRaced' /\ OneLoanUnlessRaced'
<1>1. UNCHANGED <<apply, raced>> /\ disputed \subseteq disputed'
  BY DisputedGrows DEF RepayCommit
<1>2. /\ \A b \in Applications : b # Repaid[p] => loan'[b] = loan[b]
      /\ repay[p].pc = "debited"
  BY RepaidLoan DEF OpenInv, RecordInv
<1>3. Repaid[p] \notin disputed => Open(loan[Repaid[p]])
  BY <1>2 DEF OpenInv, RecordInv, LoanSeen
<1>4. \A b \in Applications \ disputed' : Open(loan'[b]) => Open(loan[b])
  BY <1>1, <1>2, <1>3
<1> QED
  BY <1>1, <1>4, OpensNothing

LEMMA OpenRun ==
  ASSUME OpenInv, NEW a \in Applications, RunStep(a)
  PROVE  ChecksRaced' /\ OneLoanUnlessRaced'
<1>1. UNCHANGED <<apply, raced>>
  BY DEF RunStep, RunSkip, RunMiss, RunDefault, RunDebit, RunSave, RunFloatWrite
<1>2. /\ disputed \subseteq disputed'
      /\ \A b \in Applications : b # a => loan'[b] = loan[b]
  BY RunAtLoan DEF OpenInv
<1>3. a \notin disputed' /\ Open(loan'[a]) => Open(loan[a])
  <2>1. CASE RunSkip(a) \/ RunFloatWrite(a) \/ RunDebit(a)
    BY <2>1 DEF RunSkip, RunFloatWrite, RunDebit
  <2>2. CASE RunMiss(a)
    BY <2>2, RunFacts DEF Open, OpenInv
  <2>3. CASE RunDefault(a)
    BY <2>3, RunFacts DEF Open, OpenInv
  <2>4. CASE RunSave(a)
    BY <1>2, <2>4, RunFacts DEF OpenInv, RecordInv, LoanSeen
  <2> QED
    BY <2>1, <2>2, <2>3, <2>4 DEF RunStep
<1>4. \A b \in Applications \ disputed' : Open(loan'[b]) => Open(loan[b])
  BY <1>2, <1>3
<1> QED
  BY <1>1, <1>2, <1>4, OpensNothing

LEMMA OpenOthers ==
  ASSUME OpenInv,
         \/ \E p \in Repayments :
              \/ RepayRead(p) \/ RepayWallet(p) \/ RepayDebit(p)
              \/ \E a \in Applications : BreakDeadlock(a, p) /\ UNCHANGED apply
         \/ RunStart \/ RunFloatRead \/ RunDie
         \/ UNCHANGED vars
  PROVE  ChecksRaced' /\ OneLoanUnlessRaced'
<1>1. UNCHANGED <<apply, raced, loan>> /\ disputed \subseteq disputed'
  BY DEF RepayRead, RepayWallet, RepayDebit, BreakDeadlock, RunStart, RunFloatRead, RunDie, vars
<1>2. \A b \in Applications \ disputed' : Open(loan'[b]) => Open(loan[b])
  BY <1>1
<1> QED
  BY <1>1, <1>2, OpensNothing

LEMMA OpenNext == OpenInv /\ [Next]_vars => OpenInv'
<1> SUFFICES ASSUME OpenInv, [Next]_vars PROVE OpenInv'
  OBVIOUS
<1>1. RecordInv'
  BY RecordNext DEF OpenInv
<1>2. ChecksRaced' /\ OneLoanUnlessRaced'
  <2>1. CASE Next
    BY <2>1, Steps, OpenApply, OpenApplyCommit, OpenRepayCommit, OpenRun, OpenOthers
  <2>2. CASE UNCHANGED vars
    BY <2>2, OpenOthers
  <2> QED
    BY <2>1, <2>2
<1> QED
  BY <1>1, <1>2 DEF OpenInv

-----------------------------------------------------------------------------
(* Closed loans *)

Closed(x) == x.status \in {"repaid", "defaulted"}

\* A loan that the task is about to put in default is open.
OpenInDefault == \A a \in run.at \ disputed : run.pc = "defaulting" => Open(loan[a])

RestInv == RecordInv /\ OpenInDefault

LEMMA RestInit == Init => RestInv
  BY RecordInit DEF RestInv, OpenInDefault, Init

\* A step of the task is about one loan, which it has found open.
LEMMA RestRun ==
  ASSUME RestInv, NEW a \in Applications, RunStep(a)
  PROVE  /\ OpenInDefault'
         /\ \A b \in Applications \ disputed' :
               Closed(loan[b]) => loan'[b] = loan[b] /\ taken'[b] = taken[b]
<1> USE DEF RestInv
<1>1. /\ disputed \subseteq disputed' /\ run'.at \subseteq {a}
      /\ \A b \in Applications : b # a => loan'[b] = loan[b] /\ taken'[b] = taken[b]
  BY RunAtLoan
<1>2. a \in run.todo /\ run.pc # "defaulting" /\ a \notin disputed => Open(loan[a])
  BY DEF RecordInv, LoanSeen
<1>3. CASE RunSkip(a) \/ RunFloatWrite(a)
  BY <1>1, <1>3, RunFacts DEF OpenInDefault
<1>4. CASE RunMiss(a)
  <2>1. a \notin disputed' => Open(loan[a]) /\ Open(loan'[a])
    BY <1>1, <1>2, <1>4, RunFacts DEF Open
  <2> QED
    BY <1>1, <2>1 DEF OpenInDefault, Open, Closed
<1>5. CASE RunDefault(a)
  <2>1. a \notin disputed' => Open(loan[a])
    BY <1>1, <1>5, RunFacts DEF OpenInDefault
  <2>2. run'.pc = "idle"
    BY <1>5, RunFacts
  <2> QED
    BY <1>1, <2>1, <2>2 DEF OpenInDefault, Open, Closed
<1>6. CASE RunDebit(a)
  <2>1. a \notin disputed' => Open(loan[a])
    BY <1>1, <1>2, <1>6, RunFacts
  <2>2. run'.pc = "debited"
    BY <1>6, RunFacts
  <2> QED
    BY <1>1, <2>1, <2>2 DEF OpenInDefault, Open, Closed
<1>7. CASE RunSave(a)
  <2>1. a \notin disputed' => Open(loan[a])
    BY <1>1, <1>2, <1>7, RunFacts
  <2>2. run'.pc = "saved"
    BY <1>7, RunFacts
  <2> QED
    BY <1>1, <2>1, <2>2 DEF OpenInDefault, Open, Closed
<1> QED
  BY <1>3, <1>4, <1>5, <1>6, <1>7 DEF RunStep

\* What a repayment under the task's hands writes is disputed.
LEMMA RestRepayCommit ==
  ASSUME RestInv, NEW p \in Repayments, RepayCommit(p)
  PROVE  /\ OpenInDefault'
         /\ \A b \in Applications \ disputed' :
               Closed(loan[b]) => loan'[b] = loan[b] /\ taken'[b] = taken[b]
<1> USE DEF RestInv
<1> DEFINE a == Repaid[p]
<1>1. UNCHANGED run /\ disputed' = DisputedAfter(a, p) \cup (run.todo \cap {a})
  BY DEF RepayCommit
<1>2. /\ \A b \in Applications : b # a => loan'[b] = loan[b] /\ taken'[b] = taken[b]
      /\ repay[p].pc = "debited"
  BY RepaidLoan DEF RecordInv
<1>3. disputed \subseteq disputed' /\ (a \notin disputed' => a \notin run.todo)
  BY <1>1, DisputedGrows
<1>4. a \notin disputed => Open(loan[a])
  BY <1>2 DEF RecordInv, LoanSeen
<1>5. run.pc = "defaulting" => run.at \subseteq run.todo /\ run.at \subseteq Applications
  BY DEF RecordInv, TypeInv, RunShape, LoansTypeOK, RunStates
<1>6. OpenInDefault'
  BY <1>1, <1>2, <1>3, <1>5 DEF OpenInDefault, Open
<1> QED
  BY <1>2, <1>3, <1>4, <1>6 DEF Open, Closed

\* A loan is made where there was none, and the task has none such in hand.
LEMMA RestApplyCommit ==
  ASSUME RestInv, NEW a \in Applications, ApplyCommit(a)
  PROVE  /\ OpenInDefault'
         /\ \A b \in Applications \ disputed' :
               Closed(loan[b]) => loan'[b] = loan[b] /\ taken'[b] = taken[b]
<1> USE DEF RestInv
<1>1. UNCHANGED <<run, taken, disputed>>
  BY DEF ApplyCommit
<1>2. /\ \A b \in Applications : b # a => loan'[b] = loan[b]
      /\ Open(loan'[a]) /\ apply[a].pc = "locked"
  BY CommittedLoan DEF RecordInv, TypeInv, Open
<1>3. loan[a].status = "none"
  BY <1>2 DEF RecordInv, TypeInv, NotYetALoan
<1>4. run.at \subseteq Applications
  BY DEF RecordInv, TypeInv, LoansTypeOK, RunStates
<1>5. OpenInDefault'
  BY <1>1, <1>2, <1>4 DEF OpenInDefault, Open
<1> QED
  BY <1>1, <1>2, <1>3, <1>5 DEF Closed

LEMMA RestOthers ==
  ASSUME RestInv, UNCHANGED <<loan, taken>>, disputed \subseteq disputed',
         run' = run \/ run'.pc # "defaulting"
  PROVE  /\ OpenInDefault'
         /\ \A b \in Applications \ disputed' :
               Closed(loan[b]) => loan'[b] = loan[b] /\ taken'[b] = taken[b]
  BY DEF RestInv, OpenInDefault, Open

LEMMA RestNext ==
  ASSUME RestInv, [Next]_vars
  PROVE  /\ RestInv'
         /\ \A b \in Applications \ disputed' :
               Closed(loan[b]) => loan'[b] = loan[b] /\ taken'[b] = taken[b]
<1>1. RecordInv'
  BY RecordNext DEF RestInv
<1>2. CASE \/ \E a \in Applications : ApplyCheck(a) \/ ApplyLock(a)
           \/ \E a \in Applications, p \in Repayments : BreakDeadlock(a, p)
           \/ \E p \in Repayments : RepayRead(p) \/ RepayWallet(p) \/ RepayDebit(p)
           \/ UNCHANGED vars
  <2>1. UNCHANGED <<loan, taken, disputed, run>>
    BY <1>2 DEF ApplyCheck, ApplyLock, BreakDeadlock, RepayRead, RepayWallet, RepayDebit, vars
  <2> QED
    BY <1>1, <2>1, RestOthers DEF RestInv
<1>3. CASE RunStart \/ RunFloatRead \/ RunDie
  <2>1. UNCHANGED <<loan, taken>> /\ disputed \subseteq disputed'
    BY <1>3 DEF RunStart, RunFloatRead, RunDie
  <2>2. run'.pc # "defaulting"
    <3>1. CASE RunStart
      BY <3>1 DEF RunStart
    <3>2. CASE RunFloatRead \/ RunDie
      BY <3>2, RunAlone DEF Ends, RestInv, RecordInv
    <3> QED
      BY <1>3, <3>1, <3>2
  <2> QED
    BY <1>1, <2>1, <2>2, RestOthers DEF RestInv
<1>4. CASE \E a \in Applications : ApplyCommit(a) \/ RunStep(a)
  BY <1>1, <1>4, RestApplyCommit, RestRun DEF RestInv
<1>5. CASE \E p \in Repayments : RepayCommit(p)
  BY <1>1, <1>5, RestRepayCommit DEF RestInv
<1> QED
  BY <1>2, <1>3, <1>4, <1>5 DEF Next, ApplyStep, RepayStep

-----------------------------------------------------------------------------
(* No interleaving of applications, repayments and Mondays makes a balance, an amount  *)
(* taken or a repayment negative (views.py 379-558, tasks.py 120-209).                 *)
THEOREM LoansTypesHold == Spec => []LoansTypeOK
<1>1. TypeInv => LoansTypeOK
  BY DEF TypeInv
<1> QED
  BY TypeInit, TypeNext, <1>1, PTL DEF Spec

(* Float and wallets hold what was lent, repaid and deducted, unless one changed while *)
(* somebody had it in hand: views.py 392 and 520 lock the float, tasks.py 200-203 does *)
(* not.                                                                                *)
THEOREM AccountsExact == Spec => []AccountsAreLedger
<1>1. MoneyInv => AccountsAreLedger
  BY DEF MoneyInv
<1> QED
  BY MoneyInit, MoneyNext, <1>1, PTL DEF Spec

(* What a loan has on record as repaid is what was debited for it, unless it changed   *)
(* in somebody's hands or the task died between its two saves (tasks.py 189-198).      *)
THEOREM RecordsExact == Spec => []RepaidIsTaken
<1>1. RecordInv => RepaidIsTaken
  BY DEF RecordInv
<1> QED
  BY RecordInit, RecordNext, <1>1, PTL DEF Spec

(* No loan has a whole instalment too much on record, and of one that did not change   *)
(* in somebody's hands, nor lost a deduction, no more was debited either: the cap of   *)
(* views.py 490 is on what was owed when the loan was read, and tasks.py 131-152 debit *)
(* an instalment whatever is left.                                                     *)
THEOREM OverpaymentBounded == Spec => []OverpaidByLessThanAnInstalment
<1>1. RecordInv /\ BoundInv => OverpaidByLessThanAnInstalment
  BY RecordGives
<1> QED
  BY RecordInit, RecordNext, BoundInit, BoundNext, <1>1, PTL DEF Spec

(* Instalments that are marked as paid were paid for (views.py 505-515).               *)
THEOREM MarkedArePaidFor == Spec => []InstalmentsArePaidFor
<1>1. RecordInv /\ BoundInv => InstalmentsArePaidFor
  BY RecordGives
<1> QED
  BY RecordInit, RecordNext, BoundInit, BoundNext, <1>1, PTL DEF Spec

(* Two open loans of one user need two applications that were checked side by side, or *)
(* a save that came too late (serializers.py 23, views.py 388).                        *)
THEOREM OneOpenLoan == Spec => []OneLoanUnlessRaced
<1>1. OpenInv => OneLoanUnlessRaced
  BY DEF OpenInv
<1> QED
  BY OpenInit, OpenNext, <1>1, PTL DEF Spec

(* A loan that is repaid or in default is left alone, and nothing more is debited for  *)
(* it, unless somebody had it in hand when it was closed (views.py 482, tasks.py 134). *)
THEOREM ClosedLoansAreLeftAlone == Spec => ClosedLoansRest
<1>1. RestInv /\ [Next]_vars
        => [\A a \in Applications \ disputed' :
              loan[a].status \in {"repaid", "defaulted"}
                  => loan'[a] = loan[a] /\ taken'[a] = taken[a]]_vars
  BY RestNext DEF Closed
<1>2. RestInv /\ [Next]_vars => RestInv'
  BY RestNext
<1> QED
  BY RestInit, <1>1, <1>2, PTL DEF Spec, ClosedLoansRest
=============================================================================
