-------------------------- MODULE JobEscrowProofs ---------------------------
(***************************************************************************)
(* Proofs about EscrowPool and about the composed system.  Whatever reads  *)
(* and writes of fund requests, transfers and release tasks overlap, for   *)
(* any number of each, no wallet goes negative, and a wallet differs from  *)
(* its ledger only if it was written while another process had it in hand, *)
(* and then only to one side.  The invariants of the two parts carry over to *)
(* the composed system: a step of one part is a step of the other's        *)
(* environment.                                                            *)
(*                                                                         *)
(* At the end, what the employer gets who confirms each job once and meets *)
(* no fault: escrow covers every release, no release is tried twice, and   *)
(* the system implements EscrowPromise.                                    *)
(***************************************************************************)
EXTENDS JobEscrow, JobLifecycleProofs, TLAPS

-----------------------------------------------------------------------------
(* The pool *)

\* What a process that is under way remembers of the wallets it read agrees
\* with the ledger as the wallets themselves do: what others have committed
\* since it read them is on record in heldOver and paidOver.

\* A fund request remembers a balance that covers the job, from which nothing
\* was taken that the ledger does not show.
FundTallies(r) ==
    fund[r].pc \in {"wallet", "locked"} =>
        /\ fund[r].balance >= Total(r[2])
        /\ Deposit[Owner[r[2]]] <= fund[r].balance + spent[Owner[r[2]]]
        /\ EscrowTallies(Owner[r[2]], fund[r].escrow)
        /\ BalanceTallies(Owner[r[2]], fund[r].balance)

MatchTallies(p) ==
    match[p].pc = "read" => EscrowTallies(Owner[Reference[p]], match[p].escrow)

\* A release task that goes on remembers enough escrow for its payment.
ReleaseTallies(t) ==
    /\ release[t].pc \in {"worker", "employer", "debited"} =>
          CreditTallies(t[3], release[t].credit)
    /\ release[t].pc \in {"employer", "debited"} =>
          /\ release[t].escrow >= Pay[t[2]]
          /\ EscrowTallies(Owner[t[2]], release[t].escrow)
    /\ release[t].pc = "debited" => PlatformTallies(release[t].platform)

FundSnapshots    == \A r \in FundRequests : FundTallies(r)
MatchSnapshots   == \A p \in Payments : MatchTallies(p)
ReleaseSnapshots == \A t \in Tasks : ReleaseTallies(t)

\* The attempts that ended are the payments, at most; a task that runs was sent.
Attempts ==
    \A t \in Tasks :
        /\ paid[t] <= release[t].tries + 1
        /\ release[t].pc \in {"queued", "worker", "employer", "debited"} =>
              paid[t] <= release[t].tries
        /\ paid[t] > 0 \/ release[t].pc # "queued" => t \in sent

PoolInv ==
    /\ PoolTypeOK
    /\ FundSnapshots /\ MatchSnapshots /\ ReleaseSnapshots
    /\ Attempts
    /\ WalletsAreLedger
    /\ DebitsAreRecorded

-----------------------------------------------------------------------------
(* Amounts *)

\* The platform's fee is never negative and never more than the pay.
LEMMA FeeBounds ==
  ASSUME NEW gross \in Nat
  PROVE  Fee(gross) \in 0..gross
<1> DEFINE share == gross * FeePercent
           whole == share \div 100
           rest  == share % 100
<1>1. share \in Nat /\ share <= 100 * gross
  BY FeeAssumption
<1> HIDE DEF share
<1>2. /\ whole \in Nat /\ rest \in 0..99
      /\ share = 100 * whole + rest
  BY <1>1
<1> HIDE DEF whole, rest
<1>3. Fee(gross) = IF rest > 50 \/ (rest = 50 /\ whole % 2 = 1) THEN whole + 1 ELSE whole
  BY DEF Fee, share, whole, rest
<1> QED
  BY <1>1, <1>2, <1>3

\* What a job costs, what a worker gets and what the platform gets are amounts.
LEMMA Amounts ==
  ASSUME NEW j \in Jobs
  PROVE  /\ Pay[j] \in Nat /\ Total(j) \in Nat
         /\ Fee(Pay[j]) \in Nat /\ Net(j) \in Nat
<1>1. Pay[j] \in Nat /\ Needed[j] \in Nat
  BY PayAssumption, NeededAssumption
<1>2. Fee(Pay[j]) \in 0..Pay[j]
  BY <1>1, FeeBounds
<1>3. Total(j) \in Nat
  BY <1>1 DEF Total
<1> QED
  BY <1>1, <1>2, <1>3 DEF Net

LEMMA FundParts == \A r \in FundRequests : r[2] \in Jobs /\ Owner[r[2]] \in Employers
  BY OwnerAssumption DEF FundRequests

LEMMA TaskParts == \A t \in Tasks : t[2] \in Jobs /\ t[3] \in Workers /\ Owner[t[2]] \in Employers
  BY OwnerAssumption DEF Tasks

-----------------------------------------------------------------------------
(* Initially *)

LEMMA PoolInvInit == PoolInit => PoolInv
<1> SUFFICES ASSUME PoolInit PROVE PoolInv
  OBVIOUS
<1>1. fund \in [FundRequests -> FundStates] /\ match \in [Payments -> MatchStates]
  BY DEF PoolInit, FundStates, MatchStates
<1>2. release \in [Tasks -> ReleaseStates]
  BY RetriesAssumption DEF PoolInit, ReleaseStates
<1>3. PoolTypeOK
  BY <1>1, <1>2, DepositAssumption DEF PoolInit, PoolTypeOK
<1>4. FundSnapshots /\ MatchSnapshots
  BY DEF PoolInit, FundRequests, FundSnapshots, MatchSnapshots, FundTallies, MatchTallies
<1>6. \A t \in Tasks : release[t].pc = "queued" /\ release[t].tries = 0 /\ paid[t] = 0
  BY DEF PoolInit
<1>7. ReleaseSnapshots /\ Attempts
  BY <1>6 DEF ReleaseSnapshots, ReleaseTallies, Attempts
<1>5. WalletsAreLedger /\ DebitsAreRecorded
  BY DepositAssumption DEF PoolInit, WalletsAreLedger, DebitsAreRecorded,
     EscrowTallies, BalanceTallies, CreditTallies, PlatformTallies
<1> QED
  BY <1>3, <1>4, <1>5, <1>7 DEF PoolInv

-----------------------------------------------------------------------------
(* What a step leaves alone *)

\* Rows are only ever added to the ledger, names to its history.
LedgerGrows ==
    /\ \A e \in Employers :
          hold[e] <= hold'[e] /\ spent[e] <= spent'[e] /\ released[e] <= released'[e]
    /\ \A w \in Workers : earned[w] <= earned'[w]
    /\ fees <= fees'
    /\ heldOver \subseteq heldOver' /\ paidOver \subseteq paidOver'

\* A row added for a wallet leaves its name in the history.
HoldNoted(e) == e \in heldOver' \/ (hold'[e] = hold[e] /\ spent'[e] = spent[e])
PayNoted(e)  == e \in paidOver' \/ released'[e] = released[e]
EarnNoted(w) == w \in paidOver' \/ earned'[w] = earned[w]
FeesNoted    == Platform \in paidOver' \/ fees' = fees

\* ... if the process has the wallet in hand.
FundNoted(r) ==
    fund[r].pc \in {"wallet", "locked"} => HoldNoted(Owner[r[2]]) /\ PayNoted(Owner[r[2]])

MatchNoted(p) ==
    match[p].pc = "read" => HoldNoted(Owner[Reference[p]]) /\ PayNoted(Owner[Reference[p]])

ReleaseNoted(t) ==
    /\ release[t].pc \in {"worker", "employer", "debited"} => EarnNoted(t[3])
    /\ release[t].pc \in {"employer", "debited"} => HoldNoted(Owner[t[2]]) /\ PayNoted(Owner[t[2]])
    /\ release[t].pc = "debited" => FeesNoted

\* An amount that agrees with the ledger goes on agreeing with it.
LEMMA EscrowStays ==
  ASSUME PoolTypeOK, PoolTypeOK', LedgerGrows, NEW e \in Employers, HoldNoted(e), PayNoted(e),
         NEW x \in Nat, EscrowTallies(e, x)
  PROVE  /\ e \notin paidOver' => x + released'[e] <= hold'[e]
         /\ e \notin heldOver' => hold'[e] <= x + released'[e]
<1>1. /\ hold[e] \in Nat /\ hold'[e] \in Nat /\ released[e] \in Nat /\ released'[e] \in Nat
  BY DEF PoolTypeOK
<1>2. /\ hold[e] <= hold'[e] /\ released[e] <= released'[e]
      /\ e \notin paidOver' => e \notin paidOver /\ released'[e] = released[e]
      /\ e \notin heldOver' => e \notin heldOver /\ hold'[e] = hold[e]
  BY DEF LedgerGrows, HoldNoted, PayNoted
<1>3. ASSUME e \notin paidOver' PROVE x + released'[e] <= hold'[e]
  BY <1>1, <1>2, <1>3 DEF EscrowTallies
<1>4. ASSUME e \notin heldOver' PROVE hold'[e] <= x + released'[e]
  BY <1>1, <1>2, <1>4 DEF EscrowTallies
<1> QED
  BY <1>3, <1>4

LEMMA BalanceStays ==
  ASSUME PoolTypeOK, PoolTypeOK', LedgerGrows, NEW e \in Employers, HoldNoted(e),
         NEW x \in Nat, BalanceTallies(e, x), Deposit[e] <= x + spent[e]
  PROVE  /\ e \notin heldOver' => x + spent'[e] <= Deposit[e]
         /\ Deposit[e] <= x + spent'[e]
<1>1. spent[e] \in Nat /\ spent'[e] \in Nat /\ Deposit[e] \in Nat
  BY DepositAssumption DEF PoolTypeOK
<1>2. /\ spent[e] <= spent'[e]
      /\ e \notin heldOver' => e \notin heldOver /\ spent'[e] = spent[e]
  BY DEF LedgerGrows, HoldNoted
<1> QED
  BY <1>1, <1>2 DEF BalanceTallies

LEMMA CreditStays ==
  ASSUME PoolTypeOK, PoolTypeOK', LedgerGrows, NEW w \in Workers, EarnNoted(w),
         NEW x \in Nat, CreditTallies(w, x)
  PROVE  /\ x <= earned'[w]
         /\ w \notin paidOver' => earned'[w] <= x
<1>1. earned[w] \in Nat /\ earned'[w] \in Nat
  BY DEF PoolTypeOK
<1>2. /\ earned[w] <= earned'[w]
      /\ w \notin paidOver' => w \notin paidOver /\ earned'[w] = earned[w]
  BY DEF LedgerGrows, EarnNoted
<1> QED
  BY <1>1, <1>2 DEF CreditTallies

LEMMA PlatformStays ==
  ASSUME PoolTypeOK, PoolTypeOK', LedgerGrows, FeesNoted, NEW x \in Nat, PlatformTallies(x)
  PROVE  /\ x <= fees'
         /\ PlatformExists /\ Platform \notin paidOver' => fees' <= x
<1>1. fees \in Nat /\ fees' \in Nat
  BY DEF PoolTypeOK
<1>2. /\ fees <= fees'
      /\ Platform \notin paidOver' => Platform \notin paidOver /\ fees' = fees
  BY DEF LedgerGrows, FeesNoted
<1> QED
  BY <1>1, <1>2 DEF PlatformTallies

LEMMA FundFrame ==
  ASSUME PoolInv, PoolTypeOK', LedgerGrows, NEW r \in FundRequests,
         fund'[r] = fund[r], FundNoted(r)
  PROVE  FundTallies(r)'
<1> DEFINE e == Owner[r[2]]
           f == fund[r]
<1>1. e \in Employers /\ f \in FundStates /\ PoolTypeOK
  BY FundParts DEF PoolInv, PoolTypeOK
<1>2. f.balance \in Nat /\ f.escrow \in Nat
  BY <1>1 DEF FundStates
<1> SUFFICES ASSUME f.pc \in {"wallet", "locked"}
             PROVE  /\ f.balance >= Total(r[2])
                    /\ Deposit[e] <= f.balance + spent'[e]
                    /\ e \notin paidOver' => f.escrow + released'[e] <= hold'[e]
                    /\ e \notin heldOver' => hold'[e] <= f.escrow + released'[e]
                    /\ e \notin heldOver' => f.balance + spent'[e] <= Deposit[e]
  BY DEF FundTallies, EscrowTallies, BalanceTallies
<1>3. /\ f.balance >= Total(r[2])
      /\ Deposit[e] <= f.balance + spent[e]
      /\ EscrowTallies(e, f.escrow) /\ BalanceTallies(e, f.balance)
  BY DEF PoolInv, FundSnapshots, FundTallies
<1>4. HoldNoted(e) /\ PayNoted(e)
  BY DEF FundNoted
<1> HIDE DEF e, f
<1>5. /\ e \notin paidOver' => f.escrow + released'[e] <= hold'[e]
      /\ e \notin heldOver' => hold'[e] <= f.escrow + released'[e]
  BY <1>1, <1>2, <1>3, <1>4, EscrowStays
<1>6. /\ e \notin heldOver' => f.balance + spent'[e] <= Deposit[e]
      /\ Deposit[e] <= f.balance + spent'[e]
  BY <1>1, <1>2, <1>3, <1>4, BalanceStays
<1> QED
  BY <1>3, <1>5, <1>6

LEMMA MatchFrame ==
  ASSUME PoolInv, PoolTypeOK', LedgerGrows, NEW p \in Payments,
         match'[p] = match[p], MatchNoted(p)
  PROVE  MatchTallies(p)'
<1> DEFINE e == Owner[Reference[p]]
           m == match[p]
<1>1. e \in Employers /\ m \in MatchStates /\ PoolTypeOK
  BY OwnerAssumption, ReferenceAssumption DEF PoolInv, PoolTypeOK
<1>2. m.escrow \in Nat
  BY <1>1 DEF MatchStates
<1> SUFFICES ASSUME m.pc = "read"
             PROVE  /\ e \notin paidOver' => m.escrow + released'[e] <= hold'[e]
                    /\ e \notin heldOver' => hold'[e] <= m.escrow + released'[e]
  BY DEF MatchTallies, EscrowTallies
<1>3. EscrowTallies(e, m.escrow)
  BY DEF PoolInv, MatchSnapshots, MatchTallies
<1>4. HoldNoted(e) /\ PayNoted(e)
  BY DEF MatchNoted
<1> HIDE DEF e, m
<1> QED
  BY <1>1, <1>2, <1>3, <1>4, EscrowStays

LEMMA ReleaseFrame ==
  ASSUME PoolInv, PoolTypeOK', LedgerGrows, NEW t \in Tasks,
         release'[t] = release[t], ReleaseNoted(t)
  PROVE  ReleaseTallies(t)'
<1> DEFINE e == Owner[t[2]]
           w == t[3]
           r == release[t]
<1>1. w \in Workers /\ e \in Employers /\ r \in ReleaseStates /\ PoolTypeOK
  BY TaskParts DEF PoolInv, PoolTypeOK
<1>2. r.credit \in Nat /\ r.escrow \in Nat /\ r.platform \in Nat
  BY <1>1 DEF ReleaseStates
<1>3. /\ r.pc \in {"worker", "employer", "debited"} => CreditTallies(w, r.credit)
      /\ r.pc \in {"employer", "debited"} => r.escrow >= Pay[t[2]] /\ EscrowTallies(e, r.escrow)
      /\ r.pc = "debited" => PlatformTallies(r.platform)
  BY DEF PoolInv, ReleaseSnapshots, ReleaseTallies
<1>4. /\ r.pc \in {"worker", "employer", "debited"} => EarnNoted(w)
      /\ r.pc \in {"employer", "debited"} => HoldNoted(e) /\ PayNoted(e)
      /\ r.pc = "debited" => FeesNoted
  BY DEF ReleaseNoted
<1>5. (ReleaseTallies(t)') =
        (/\ r.pc \in {"worker", "employer", "debited"} =>
               /\ r.credit <= earned'[w]
               /\ w \notin paidOver' => earned'[w] <= r.credit
         /\ r.pc \in {"employer", "debited"} =>
               /\ r.escrow >= Pay[t[2]]
               /\ e \notin paidOver' => r.escrow + released'[e] <= hold'[e]
               /\ e \notin heldOver' => hold'[e] <= r.escrow + released'[e]
         /\ r.pc = "debited" =>
               /\ r.platform <= fees'
               /\ PlatformExists /\ Platform \notin paidOver' => fees' <= r.platform)
  BY DEF ReleaseTallies, EscrowTallies, CreditTallies, PlatformTallies
<1> HIDE DEF e, w, r
<1>6. ASSUME r.pc \in {"worker", "employer", "debited"}
      PROVE  /\ r.credit <= earned'[w]
             /\ w \notin paidOver' => earned'[w] <= r.credit
  BY <1>1, <1>2, <1>3, <1>4, <1>6, CreditStays
<1>7. ASSUME r.pc \in {"employer", "debited"}
      PROVE  /\ r.escrow >= Pay[t[2]]
             /\ e \notin paidOver' => r.escrow + released'[e] <= hold'[e]
             /\ e \notin heldOver' => hold'[e] <= r.escrow + released'[e]
  BY <1>1, <1>2, <1>3, <1>4, <1>7, EscrowStays
<1>8. ASSUME r.pc = "debited"
      PROVE  /\ r.platform <= fees'
             /\ PlatformExists /\ Platform \notin paidOver' => fees' <= r.platform
  BY <1>1, <1>2, <1>3, <1>4, <1>8, PlatformStays
<1> QED
  BY <1>5, <1>6, <1>7, <1>8

\* Requests and tasks that do not touch the tasks or the queue keep what is
\* known of them.
LEMMA ReleasesUntouched ==
  ASSUME PoolInv, PoolTypeOK', LedgerGrows, UNCHANGED <<paid, release>>, sent \subseteq sent',
         \A t \in Tasks : ReleaseNoted(t)
  PROVE  ReleaseSnapshots' /\ Attempts'
<1>1. ReleaseSnapshots'
  BY ReleaseFrame DEF ReleaseSnapshots
<1>2. Attempts'
  BY DEF PoolInv, Attempts
<1> QED
  BY <1>1, <1>2

LEMMA FundsUntouched ==
  ASSUME PoolInv, PoolTypeOK', LedgerGrows, UNCHANGED fund, \A r \in FundRequests : FundNoted(r)
  PROVE  FundSnapshots'
BY FundFrame DEF FundSnapshots

LEMMA MatchesUntouched ==
  ASSUME PoolInv, PoolTypeOK', LedgerGrows, UNCHANGED match, \A p \in Payments : MatchNoted(p)
  PROVE  MatchSnapshots'
BY MatchFrame DEF MatchSnapshots

LEMMA WalletsUntouched ==
  ASSUME PoolInv, UNCHANGED <<wallets, ledger>>
  PROVE  /\ LedgerGrows /\ WalletsAreLedger' /\ DebitsAreRecorded'
         /\ \A r \in FundRequests : FundNoted(r)
         /\ \A p \in Payments : MatchNoted(p)
         /\ \A t \in Tasks : ReleaseNoted(t)
<1>1. LedgerGrows
  BY DEF PoolInv, PoolTypeOK, LedgerGrows, ledger
<1>2. WalletsAreLedger' /\ DebitsAreRecorded'
  BY DEF PoolInv, WalletsAreLedger, DebitsAreRecorded, wallets, ledger,
     EscrowTallies, BalanceTallies, CreditTallies, PlatformTallies
<1>3. (\A x : HoldNoted(x) /\ PayNoted(x) /\ EarnNoted(x)) /\ FeesNoted
  BY DEF HoldNoted, PayNoted, EarnNoted, FeesNoted, ledger
<1>4. (\A r \in FundRequests : FundNoted(r)) /\ (\A p \in Payments : MatchNoted(p))
  BY <1>3 DEF FundNoted, MatchNoted
<1>5. \A t \in Tasks : ReleaseNoted(t)
  BY <1>3 DEF ReleaseNoted
<1> QED
  BY <1>1, <1>2, <1>4, <1>5

\* A wallet that one of these processes has read is in hand.
LEMMA HasIsInHand ==
  ASSUME NEW F, NEW P, NEW T
  PROVE  /\ \A r \in F : fund[r].pc \in {"wallet", "locked"} => Owner[r[2]] \in InHand(F, P, T)
         /\ \A p \in P : match[p].pc = "read" => Owner[Reference[p]] \in InHand(F, P, T)
         /\ \A t \in T :
               /\ release[t].pc \in {"worker", "employer", "debited"} => t[3] \in InHand(F, P, T)
               /\ release[t].pc \in {"employer", "debited"} => Owner[t[2]] \in InHand(F, P, T)
               /\ release[t].pc = "debited" => Platform \in InHand(F, P, T)
<1> DEFINE f == UNION {FundHas(r) : r \in F}
           m == UNION {MatchHas(p) : p \in P}
           l == UNION {ReleaseHas(t) : t \in T}
<1>0. InHand(F, P, T) = f \cup m \cup l
  BY DEF InHand
<1>1. \A r \in F : FundHas(r) \subseteq f
  OBVIOUS
<1>2. \A p \in P : MatchHas(p) \subseteq m
  OBVIOUS
<1>3. \A t \in T : ReleaseHas(t) \subseteq l
  OBVIOUS
<1> HIDE DEF f, m, l
<1>4. \A t \in T :
         /\ release[t].pc = "worker"   => ReleaseHas(t) = {t[3]}
         /\ release[t].pc = "employer" => ReleaseHas(t) = {t[3], Owner[t[2]]}
         /\ release[t].pc = "debited"  => ReleaseHas(t) = {t[3], Owner[t[2]], Platform}
  BY DEF ReleaseHas
<1>5. \A t \in T :
         /\ release[t].pc \in {"worker", "employer", "debited"} => t[3] \in InHand(F, P, T)
         /\ release[t].pc \in {"employer", "debited"} => Owner[t[2]] \in InHand(F, P, T)
         /\ release[t].pc = "debited" => Platform \in InHand(F, P, T)
  BY <1>0, <1>3, <1>4
<1> QED
  BY <1>0, <1>1, <1>2, <1>5 DEF FundHas, MatchHas

-----------------------------------------------------------------------------
(* Fund requests *)

LEMMA FundInv ==
  ASSUME PoolInv, NEW r \in FundRequests, FundReadJob(r) \/ FundStep(r)
  PROVE  PoolInv'
<1> DEFINE j == r[2]
           e == Owner[j]
<1>t. PoolTypeOK
  BY DEF PoolInv
<1>j. /\ j \in Jobs /\ e \in Employers
      /\ Total(j) \in Nat /\ Deposit[e] \in Nat
  BY FundParts, Amounts, DepositAssumption
<1>n. /\ balance[e] \in Nat /\ escrow[e] \in Nat
      /\ hold[e] \in Nat /\ spent[e] \in Nat /\ released[e] \in Nat
      /\ fund[r] \in FundStates
  BY <1>j, <1>t DEF PoolTypeOK
<1>f. fund[r].balance \in Nat /\ fund[r].escrow \in Nat
  BY <1>n DEF FundStates
<1> HIDE DEF j, e
<1>1. CASE FundReadJob(r) \/ FundReadWallet(r) \/ FundWriteWallet(r)
  <2>1. UNCHANGED <<funded, sent, wallets, ledger, match, release>>
    BY <1>1 DEF FundReadJob, FundReadWallet, FundWriteWallet
  <2>2. \A q \in FundRequests : q # r => fund'[q] = fund[q]
    BY <1>1, <1>t DEF FundReadJob, FundReadWallet, FundWriteWallet, PoolTypeOK
  <2>3. /\ fund' \in [FundRequests -> FundStates]
        /\ fund'[r].pc \in {"wallet", "locked"} =>
              /\ fund'[r].balance >= Total(j)
              /\ Deposit[e] <= fund'[r].balance + spent[e]
              /\ EscrowTallies(e, fund'[r].escrow) /\ BalanceTallies(e, fund'[r].balance)
    <3>1. CASE FundReadJob(r)
      <4>1. fund' = [fund EXCEPT ![r] = [@ EXCEPT !.pc = "job"]]
        BY <3>1 DEF FundReadJob
      <4>2. [fund[r] EXCEPT !.pc = "job"] \in FundStates
        BY <1>n DEF FundStates
      <4>3. fund'[r].pc = "job"
        BY <1>n, <1>t, <4>1 DEF PoolTypeOK, FundStates
      <4> QED
        BY <1>t, <4>1, <4>2, <4>3 DEF PoolTypeOK
    <3>2. CASE FundReadWallet(r)
      <4>1. CASE balance[e] < Total(j)
        <5>1. fund' = [fund EXCEPT ![r] = [pc |-> "done", balance |-> 0, escrow |-> 0]]
          BY <3>2, <4>1 DEF FundReadWallet, e, j
        <5>2. [pc |-> "done", balance |-> 0, escrow |-> 0] \in FundStates
          BY DEF FundStates
        <5> QED
          BY <1>t, <5>1, <5>2 DEF PoolTypeOK
      <4>2. CASE ~(balance[e] < Total(j))
        <5>1. fund' = [fund EXCEPT ![r] =
                         [pc |-> "wallet", balance |-> balance[e], escrow |-> escrow[e]]]
          BY <3>2, <4>2 DEF FundReadWallet, e, j
        <5>2. [pc |-> "wallet", balance |-> balance[e], escrow |-> escrow[e]] \in FundStates
          BY <1>n DEF FundStates
        <5>3. fund'[r].balance = balance[e] /\ fund'[r].escrow = escrow[e]
          BY <1>t, <5>1 DEF PoolTypeOK
        <5>4. /\ EscrowTallies(e, escrow[e]) /\ BalanceTallies(e, balance[e])
              /\ Deposit[e] <= balance[e] + spent[e]
          BY <1>j DEF PoolInv, WalletsAreLedger, DebitsAreRecorded
        <5>5. fund' \in [FundRequests -> FundStates]
          BY <1>t, <5>1, <5>2 DEF PoolTypeOK
        <5>6. balance[e] >= Total(j)
          BY <1>j, <1>n, <4>2
        <5> QED
          BY <5>3, <5>4, <5>5, <5>6
      <4> QED
        BY <4>1, <4>2
    <3>3. CASE FundWriteWallet(r)
      <4>1. fund' = [fund EXCEPT ![r] = [@ EXCEPT !.pc = "locked"]] /\ fund[r].pc = "wallet"
        BY <3>3 DEF FundWriteWallet
      <4>2. [fund[r] EXCEPT !.pc = "locked"] \in FundStates
        BY <1>n DEF FundStates
      <4>3. fund'[r].balance = fund[r].balance /\ fund'[r].escrow = fund[r].escrow
        BY <1>n, <1>t, <4>1 DEF PoolTypeOK, FundStates
      <4>4. /\ fund[r].balance >= Total(j)
            /\ Deposit[e] <= fund[r].balance + spent[e]
            /\ EscrowTallies(e, fund[r].escrow) /\ BalanceTallies(e, fund[r].balance)
        BY <4>1 DEF PoolInv, FundSnapshots, FundTallies, e, j
      <4>5. fund' \in [FundRequests -> FundStates]
        BY <1>t, <4>1, <4>2 DEF PoolTypeOK
      <4> QED
        BY <4>3, <4>4, <4>5
    <3> QED
      BY <1>1, <3>1, <3>2, <3>3
  <2>4. PoolTypeOK'
    BY <1>t, <2>1, <2>3 DEF PoolTypeOK, wallets, ledger
  <2>5. /\ LedgerGrows /\ WalletsAreLedger' /\ DebitsAreRecorded'
        /\ \A q \in FundRequests : FundNoted(q)
        /\ \A q \in Payments : MatchNoted(q)
        /\ \A q \in Tasks : ReleaseNoted(q)
    BY <2>1, WalletsUntouched
  <2>6. FundSnapshots'
    <3> SUFFICES ASSUME NEW q \in FundRequests PROVE FundTallies(q)'
      BY DEF FundSnapshots
    <3>1. CASE q = r
      BY <2>1, <2>3, <3>1 DEF FundTallies, EscrowTallies, BalanceTallies, e, j, ledger
    <3>2. CASE q # r
      BY <2>2, <2>4, <2>5, <3>2, FundFrame
    <3> QED
      BY <3>1, <3>2
  <2>7. MatchSnapshots' /\ ReleaseSnapshots' /\ Attempts'
    BY <2>1, <2>4, <2>5, MatchesUntouched, ReleasesUntouched DEF ledger
  <2> QED
    BY <2>4, <2>5, <2>6, <2>7 DEF PoolInv
<1>2. CASE FundCommit(r)
  <2> DEFINE others == InHand(FundRequests \ {r}, Payments, Tasks)
  <2>1. /\ fund[r].pc = "locked"
        /\ balance' = [balance EXCEPT ![e] = fund[r].balance - Total(j)]
        /\ escrow'  = [escrow EXCEPT ![e] = fund[r].escrow + Total(j)]
        /\ funded'  = [funded EXCEPT ![j] = TRUE]
        /\ hold'    = [hold EXCEPT ![e] = @ + Total(j)]
        /\ spent'   = [spent EXCEPT ![e] = @ + Total(j)]
        /\ heldOver' = heldOver \cup ({e} \cap others)
        /\ fund'    = [fund EXCEPT ![r] = [pc |-> "done", balance |-> 0, escrow |-> 0]]
        /\ UNCHANGED <<sent, credit, platform, released, earned, fees, paid, paidOver, match, release>>
    BY <1>2 DEF FundCommit, e, j
  <2> HIDE DEF others
  <2>2. /\ fund[r].balance >= Total(j)
        /\ Deposit[e] <= fund[r].balance + spent[e]
        /\ EscrowTallies(e, fund[r].escrow) /\ BalanceTallies(e, fund[r].balance)
    BY <2>1 DEF PoolInv, FundSnapshots, FundTallies, e, j
  <2>3. [pc |-> "done", balance |-> 0, escrow |-> 0] \in FundStates
    BY DEF FundStates
  <2>4. /\ fund[r].balance - Total(j) \in Nat /\ fund[r].escrow + Total(j) \in Nat
        /\ hold[e] + Total(j) \in Nat /\ spent[e] + Total(j) \in Nat
    BY <1>f, <1>j, <1>n, <2>2
  <2>5. PoolTypeOK'
    BY <1>j, <1>t, <2>1, <2>3, <2>4 DEF PoolTypeOK
  <2>6. LedgerGrows
    BY <1>j, <1>n, <1>t, <2>1, <2>4 DEF LedgerGrows, PoolTypeOK
  <2>e. /\ escrow'[e] = fund[r].escrow + Total(j) /\ balance'[e] = fund[r].balance - Total(j)
        /\ hold'[e] = hold[e] + Total(j) /\ spent'[e] = spent[e] + Total(j)
        /\ released'[e] = released[e]
    BY <1>j, <1>t, <2>1 DEF PoolTypeOK
  <2>7. WalletsAreLedger'
    <3>1. ASSUME NEW d \in Employers PROVE EscrowTallies(d, escrow[d])' /\ BalanceTallies(d, balance[d])'
      <4>1. CASE d = e
        <5>1. e \notin heldOver' => e \notin heldOver
          BY <2>1
        <5>2. EscrowTallies(e, escrow[e])'
          BY <1>f, <1>j, <1>n, <2>1, <2>2, <2>e, <5>1 DEF EscrowTallies
        <5>3. BalanceTallies(e, balance[e])'
          BY <1>f, <1>j, <1>n, <2>2, <2>e, <5>1 DEF BalanceTallies
        <5> QED
          BY <4>1, <5>2, <5>3
      <4>2. CASE d # e
        <5>1. /\ escrow'[d] = escrow[d] /\ balance'[d] = balance[d] /\ hold'[d] = hold[d]
              /\ spent'[d] = spent[d] /\ released'[d] = released[d]
              /\ d \notin paidOver' => d \notin paidOver
              /\ d \notin heldOver' => d \notin heldOver
          BY <1>t, <2>1, <4>2 DEF PoolTypeOK
        <5>2. EscrowTallies(d, escrow[d]) /\ BalanceTallies(d, balance[d])
          BY DEF PoolInv, WalletsAreLedger
        <5> QED
          BY <5>1, <5>2 DEF EscrowTallies, BalanceTallies
      <4> QED
        BY <4>1, <4>2
    <3>2. (\A w \in Workers : CreditTallies(w, credit[w])') /\ PlatformTallies(platform)'
      BY <2>1 DEF PoolInv, WalletsAreLedger, CreditTallies, PlatformTallies
    <3> QED
      BY <3>1, <3>2 DEF WalletsAreLedger
  <2>8. DebitsAreRecorded'
    <3>1. ASSUME NEW d \in Employers PROVE Deposit[d] <= balance'[d] + spent'[d]
      <4>1. CASE d = e
        BY <1>f, <1>j, <1>n, <2>2, <2>e, <4>1
      <4>2. CASE d # e
        BY <1>t, <2>1, <4>2 DEF PoolTypeOK, PoolInv, DebitsAreRecorded
      <4> QED
        BY <4>1, <4>2
    <3> QED
      BY <3>1 DEF DebitsAreRecorded
  <2>i. \A x : (x # e => HoldNoted(x)) /\ (e \in others => HoldNoted(x)) /\ PayNoted(x) /\ EarnNoted(x)
    BY <1>t, <2>1 DEF PoolTypeOK, HoldNoted, PayNoted, EarnNoted
  <2>h. /\ \A q \in FundRequests : q # r => FundNoted(q)
        /\ \A q \in Payments : MatchNoted(q)
        /\ \A q \in Tasks : ReleaseNoted(q)
    <3>1. /\ \A q \in FundRequests \ {r} : fund[q].pc \in {"wallet", "locked"} => Owner[q[2]] \in others
          /\ \A q \in Payments : match[q].pc = "read" => Owner[Reference[q]] \in others
          /\ \A q \in Tasks : release[q].pc \in {"employer", "debited"} => Owner[q[2]] \in others
      BY HasIsInHand DEF others
    <3>2. FeesNoted
      BY <2>1 DEF FeesNoted
    <3> QED
      BY <2>i, <3>1, <3>2 DEF FundNoted, MatchNoted, ReleaseNoted
  <2>9. FundSnapshots'
    <3> SUFFICES ASSUME NEW q \in FundRequests PROVE FundTallies(q)'
      BY DEF FundSnapshots
    <3>1. CASE q = r
      <4>1. fund'[r].pc = "done"
        BY <1>t, <2>1 DEF PoolTypeOK
      <4> QED
        BY <3>1, <4>1 DEF FundTallies
    <3>2. CASE q # r
      <4>1. fund'[q] = fund[q]
        BY <1>t, <2>1, <3>2 DEF PoolTypeOK
      <4> QED
        BY <2>5, <2>6, <2>h, <3>2, <4>1, FundFrame
    <3> QED
      BY <3>1, <3>2
  <2>10. MatchSnapshots' /\ ReleaseSnapshots' /\ Attempts'
    BY <2>1, <2>5, <2>6, <2>h, MatchesUntouched, ReleasesUntouched
  <2> QED
    BY <2>5, <2>7, <2>8, <2>9, <2>10 DEF PoolInv
<1> QED
  BY <1>1, <1>2 DEF FundStep

-----------------------------------------------------------------------------
(* Transfers *)

LEMMA MatchInv ==
  ASSUME PoolInv, NEW p \in Payments, MatchPick(p) \/ MatchStep(p)
  PROVE  PoolInv'
<1> DEFINE j == Reference[p]
           e == Owner[j]
<1>t. PoolTypeOK
  BY DEF PoolInv
<1>j. j \in Jobs /\ e \in Employers /\ Amount[p] \in Nat
  BY ReferenceAssumption, OwnerAssumption, AmountAssumption
<1>n. escrow[e] \in Nat /\ hold[e] \in Nat /\ released[e] \in Nat /\ match[p] \in MatchStates
  BY <1>j, <1>t DEF PoolTypeOK
<1>f. match[p].escrow \in Nat
  BY <1>n DEF MatchStates
<1> HIDE DEF j, e
<1>1. CASE MatchPick(p) \/ MatchWriteJob(p) \/ MatchReadWallet(p)
  <2>1. UNCHANGED <<funded, sent, wallets, ledger, fund, release>>
    BY <1>1 DEF MatchPick, MatchWriteJob, MatchReadWallet
  <2>2. \A q \in Payments : q # p => match'[q] = match[q]
    BY <1>1, <1>t DEF MatchPick, MatchWriteJob, MatchReadWallet, PoolTypeOK
  <2>3. /\ match' \in [Payments -> MatchStates]
        /\ match'[p].pc = "read" => EscrowTallies(e, match'[p].escrow)
    <3>1. ASSUME NEW s \in {"unmatched", "picked", "locked"},
                 match' = [match EXCEPT ![p] = [@ EXCEPT !.pc = s]]
          PROVE  match' \in [Payments -> MatchStates] /\ match'[p].pc # "read"
      <4>1. [match[p] EXCEPT !.pc = s] \in MatchStates /\ [match[p] EXCEPT !.pc = s].pc = s
        BY <1>n DEF MatchStates
      <4> QED
        BY <1>t, <3>1, <4>1 DEF PoolTypeOK
    <3>2. CASE MatchPick(p)
      <4>1. \E s \in {"unmatched", "picked"} : match' = [match EXCEPT ![p] = [@ EXCEPT !.pc = s]]
        BY <3>2 DEF MatchPick
      <4> QED
        BY <3>1, <4>1
    <3>3. CASE MatchWriteJob(p)
      BY <3>1, <3>3 DEF MatchWriteJob
    <3>4. CASE MatchReadWallet(p)
      <4>1. match' = [match EXCEPT ![p] = [pc |-> "read", escrow |-> escrow[e]]]
        BY <3>4 DEF MatchReadWallet, e, j
      <4>2. [pc |-> "read", escrow |-> escrow[e]] \in MatchStates
        BY <1>n DEF MatchStates
      <4>3. EscrowTallies(e, escrow[e])
        BY <1>j DEF PoolInv, WalletsAreLedger
      <4>4. match'[p].escrow = escrow[e] /\ match' \in [Payments -> MatchStates]
        BY <1>t, <4>1, <4>2 DEF PoolTypeOK
      <4> QED
        BY <4>3, <4>4
    <3> QED
      BY <1>1, <3>2, <3>3, <3>4
  <2>4. PoolTypeOK'
    BY <1>t, <2>1, <2>3 DEF PoolTypeOK, wallets, ledger
  <2>5. /\ LedgerGrows /\ WalletsAreLedger' /\ DebitsAreRecorded'
        /\ \A q \in FundRequests : FundNoted(q)
        /\ \A q \in Payments : MatchNoted(q)
        /\ \A q \in Tasks : ReleaseNoted(q)
    BY <2>1, WalletsUntouched
  <2>6. MatchSnapshots'
    <3> SUFFICES ASSUME NEW q \in Payments PROVE MatchTallies(q)'
      BY DEF MatchSnapshots
    <3>1. CASE q = p
      BY <2>1, <2>3, <3>1 DEF MatchTallies, EscrowTallies, e, j, ledger
    <3>2. CASE q # p
      BY <2>2, <2>4, <2>5, <3>2, MatchFrame
    <3> QED
      BY <3>1, <3>2
  <2>7. FundSnapshots' /\ ReleaseSnapshots' /\ Attempts'
    BY <2>1, <2>4, <2>5, FundsUntouched, ReleasesUntouched DEF ledger
  <2> QED
    BY <2>4, <2>5, <2>6, <2>7 DEF PoolInv
<1>2. CASE MatchCommit(p)
  <2> DEFINE others == InHand(FundRequests, Payments \ {p}, Tasks)
  <2>1. /\ match[p].pc = "read"
        /\ escrow' = [escrow EXCEPT ![e] = match[p].escrow + Amount[p]]
        /\ funded' = [funded EXCEPT ![j] = TRUE]
        /\ hold'   = [hold EXCEPT ![e] = @ + Amount[p]]
        /\ heldOver' = heldOver \cup ({e} \cap others)
        /\ match'  = [match EXCEPT ![p] = [pc |-> "done", escrow |-> 0]]
        /\ UNCHANGED <<sent, balance, credit, platform, spent, released, earned, fees, paid, paidOver,
                       fund, release>>
    BY <1>2 DEF MatchCommit, e, j
  <2> HIDE DEF others
  <2>2. EscrowTallies(e, match[p].escrow)
    BY <2>1 DEF PoolInv, MatchSnapshots, MatchTallies, e, j
  <2>3. [pc |-> "done", escrow |-> 0] \in MatchStates
    BY DEF MatchStates
  <2>4. PoolTypeOK'
    BY <1>f, <1>j, <1>n, <1>t, <2>1, <2>3 DEF PoolTypeOK
  <2>5. LedgerGrows
    BY <1>j, <1>n, <1>t, <2>1 DEF LedgerGrows, PoolTypeOK
  <2>e. /\ escrow'[e] = match[p].escrow + Amount[p]
        /\ hold'[e] = hold[e] + Amount[p] /\ released'[e] = released[e]
    BY <1>j, <1>t, <2>1 DEF PoolTypeOK
  <2>6. WalletsAreLedger'
    <3>1. ASSUME NEW d \in Employers PROVE EscrowTallies(d, escrow[d])'
      <4>1. CASE d = e
        <5>1. e \notin heldOver' => e \notin heldOver
          BY <2>1
        <5> QED
          BY <1>f, <1>j, <1>n, <2>1, <2>2, <2>e, <4>1, <5>1 DEF EscrowTallies
      <4>2. CASE d # e
        <5>1. /\ escrow'[d] = escrow[d] /\ hold'[d] = hold[d] /\ released'[d] = released[d]
              /\ d \notin paidOver' => d \notin paidOver
              /\ d \notin heldOver' => d \notin heldOver
          BY <1>t, <2>1, <4>2 DEF PoolTypeOK
        <5>2. EscrowTallies(d, escrow[d])
          BY DEF PoolInv, WalletsAreLedger
        <5> QED
          BY <5>1, <5>2 DEF EscrowTallies
      <4> QED
        BY <4>1, <4>2
    <3>2. ASSUME NEW d \in Employers PROVE BalanceTallies(d, balance[d])'
      <4>1. BalanceTallies(d, balance[d]) /\ UNCHANGED <<balance, spent>> /\ heldOver \subseteq heldOver'
        BY <2>1 DEF PoolInv, WalletsAreLedger
      <4> QED
        BY <4>1 DEF BalanceTallies
    <3>3. (\A w \in Workers : CreditTallies(w, credit[w])') /\ PlatformTallies(platform)'
      BY <2>1 DEF PoolInv, WalletsAreLedger, CreditTallies, PlatformTallies
    <3> QED
      BY <3>1, <3>2, <3>3 DEF WalletsAreLedger
  <2>7. DebitsAreRecorded'
    BY <2>1 DEF PoolInv, DebitsAreRecorded
  <2>i. \A x : (x # e => HoldNoted(x)) /\ (e \in others => HoldNoted(x)) /\ PayNoted(x) /\ EarnNoted(x)
    BY <1>t, <2>1 DEF PoolTypeOK, HoldNoted, PayNoted, EarnNoted
  <2>h. /\ \A q \in FundRequests : FundNoted(q)
        /\ \A q \in Payments : q # p => MatchNoted(q)
        /\ \A q \in Tasks : ReleaseNoted(q)
    <3>1. /\ \A q \in FundRequests : fund[q].pc \in {"wallet", "locked"} => Owner[q[2]] \in others
          /\ \A q \in Payments \ {p} : match[q].pc = "read" => Owner[Reference[q]] \in others
          /\ \A q \in Tasks : release[q].pc \in {"employer", "debited"} => Owner[q[2]] \in others
      BY HasIsInHand DEF others
    <3>2. FeesNoted
      BY <2>1 DEF FeesNoted
    <3> QED
      BY <2>i, <3>1, <3>2 DEF FundNoted, MatchNoted, ReleaseNoted
  <2>8. MatchSnapshots'
    <3> SUFFICES ASSUME NEW q \in Payments PROVE MatchTallies(q)'
      BY DEF MatchSnapshots
    <3>1. CASE q = p
      <4>1. match'[p].pc = "done"
        BY <1>t, <2>1 DEF PoolTypeOK
      <4> QED
        BY <3>1, <4>1 DEF MatchTallies
    <3>2. CASE q # p
      <4>1. match'[q] = match[q]
        BY <1>t, <2>1, <3>2 DEF PoolTypeOK
      <4> QED
        BY <2>4, <2>5, <2>h, <3>2, <4>1, MatchFrame
    <3> QED
      BY <3>1, <3>2
  <2>9. FundSnapshots' /\ ReleaseSnapshots' /\ Attempts'
    BY <2>1, <2>4, <2>5, <2>h, FundsUntouched, ReleasesUntouched
  <2> QED
    BY <2>4, <2>5, <2>6, <2>7, <2>8, <2>9 DEF PoolInv
<1> QED
  BY <1>1, <1>2 DEF MatchStep

\* Whichever of the two transactions PostgreSQL aborts, it leaves no trace.
LEMMA DeadlockInv ==
  ASSUME PoolInv, NEW r \in FundRequests, NEW p \in Payments, BreakDeadlock(r, p)
  PROVE  PoolInv'
<1>t. PoolTypeOK
  BY DEF PoolInv
<1>1. UNCHANGED <<funded, sent, wallets, ledger, release>>
  BY DEF BreakDeadlock
<1>2. /\ LedgerGrows /\ WalletsAreLedger' /\ DebitsAreRecorded'
      /\ \A q \in FundRequests : FundNoted(q)
      /\ \A q \in Payments : MatchNoted(q)
      /\ \A q \in Tasks : ReleaseNoted(q)
  BY <1>1, WalletsUntouched
<1>3. CASE fund' = [fund EXCEPT ![r] = [pc |-> "done", balance |-> 0, escrow |-> 0]]
           /\ UNCHANGED match
  <2>1. [pc |-> "done", balance |-> 0, escrow |-> 0] \in FundStates
    BY DEF FundStates
  <2>2. PoolTypeOK'
    BY <1>1, <1>3, <1>t, <2>1 DEF PoolTypeOK, wallets, ledger
  <2>3. \A q \in FundRequests : fund'[q].pc = "done" \/ fund'[q] = fund[q]
    BY <1>3, <1>t DEF PoolTypeOK
  <2>4. FundSnapshots'
    <3> SUFFICES ASSUME NEW q \in FundRequests PROVE FundTallies(q)'
      BY DEF FundSnapshots
    <3>1. CASE fund'[q].pc = "done"
      BY <3>1 DEF FundTallies
    <3>2. CASE fund'[q] = fund[q]
      BY <1>2, <2>2, <3>2, FundFrame
    <3> QED
      BY <2>3, <3>1, <3>2
  <2> QED
    BY <1>1, <1>2, <1>3, <2>2, <2>4, MatchesUntouched, ReleasesUntouched DEF PoolInv, ledger
<1>4. CASE match' = [match EXCEPT ![p] = [pc |-> "lost", escrow |-> 0]] /\ UNCHANGED fund
  <2>1. [pc |-> "lost", escrow |-> 0] \in MatchStates
    BY DEF MatchStates
  <2>2. PoolTypeOK'
    BY <1>1, <1>4, <1>t, <2>1 DEF PoolTypeOK, wallets, ledger
  <2>3. \A q \in Payments : match'[q].pc = "lost" \/ match'[q] = match[q]
    BY <1>4, <1>t DEF PoolTypeOK
  <2>4. MatchSnapshots'
    <3> SUFFICES ASSUME NEW q \in Payments PROVE MatchTallies(q)'
      BY DEF MatchSnapshots
    <3>1. CASE match'[q].pc = "lost"
      BY <3>1 DEF MatchTallies
    <3>2. CASE match'[q] = match[q]
      BY <1>2, <2>2, <3>2, MatchFrame
    <3> QED
      BY <2>3, <3>1, <3>2
  <2> QED
    BY <1>1, <1>2, <1>4, <2>2, <2>4, FundsUntouched, ReleasesUntouched DEF PoolInv, ledger
<1> QED
  BY <1>3, <1>4 DEF BreakDeadlock

-----------------------------------------------------------------------------
(* Release tasks *)

\* A retry counts as a new attempt; without one the task has failed.
LEMMA RetriedState ==
  ASSUME NEW r \in ReleaseStates
  PROVE  /\ Retried(r) \in ReleaseStates
         /\ \/ Retried(r).pc = "queued" /\ Retried(r).tries = r.tries + 1
            \/ Retried(r).pc = "failed" /\ Retried(r).tries = r.tries
<1>1. r.tries \in 0..MaxRetries
  BY DEF ReleaseStates
<1>2. CASE r.tries < MaxRetries
  <2>1. Retried(r) = [pc |-> "queued", tries |-> r.tries + 1,
                      credit |-> 0, escrow |-> 0, platform |-> 0]
    BY <1>2 DEF Retried
  <2>2. r.tries + 1 \in 0..MaxRetries
    BY <1>1, <1>2, RetriesAssumption
  <2> QED
    BY <2>1, <2>2 DEF ReleaseStates
<1>3. CASE ~(r.tries < MaxRetries)
  <2>1. Retried(r) = [pc |-> "failed", tries |-> r.tries,
                      credit |-> 0, escrow |-> 0, platform |-> 0]
    BY <1>3 DEF Retried
  <2> QED
    BY <1>1, <2>1 DEF ReleaseStates
<1> QED
  BY <1>2, <1>3

\* A step that only moves task t on, to a state that is in order.
LEMMA ReleaseMoves ==
  ASSUME PoolInv, NEW t \in Tasks, t \in sent, NEW r \in ReleaseStates,
         release' = [release EXCEPT ![t] = r],
         UNCHANGED <<funded, sent, wallets, ledger, fund, match>>,
         r.pc \in {"worker", "employer", "debited"} => CreditTallies(t[3], r.credit),
         r.pc \in {"employer", "debited"} =>
            r.escrow >= Pay[t[2]] /\ EscrowTallies(Owner[t[2]], r.escrow),
         r.pc = "debited" => PlatformTallies(r.platform),
         paid[t] <= r.tries + 1,
         r.pc \in {"queued", "worker", "employer", "debited"} => paid[t] <= r.tries
  PROVE  PoolInv'
<1>t. PoolTypeOK
  BY DEF PoolInv
<1>1. /\ LedgerGrows /\ WalletsAreLedger' /\ DebitsAreRecorded'
      /\ \A q \in FundRequests : FundNoted(q)
      /\ \A q \in Payments : MatchNoted(q)
      /\ \A q \in Tasks : ReleaseNoted(q)
  BY WalletsUntouched
<1>2. PoolTypeOK'
  BY <1>t DEF PoolTypeOK, wallets, ledger
<1>3. release'[t] = r /\ \A u \in Tasks : u # t => release'[u] = release[u]
  BY <1>t DEF PoolTypeOK
<1>4. UNCHANGED <<earned, hold, released, heldOver, paidOver, fees, paid>>
  BY DEF ledger
<1>5. ReleaseSnapshots'
  <2> SUFFICES ASSUME NEW u \in Tasks PROVE ReleaseTallies(u)'
    BY DEF ReleaseSnapshots
  <2>1. CASE u = t
    BY <1>3, <1>4, <2>1 DEF ReleaseTallies, EscrowTallies, CreditTallies, PlatformTallies
  <2>2. CASE u # t
    BY <1>1, <1>2, <1>3, <2>2, ReleaseFrame
  <2> QED
    BY <2>1, <2>2
<1>6. Attempts'
  <2> SUFFICES ASSUME NEW u \in Tasks
               PROVE  /\ paid[u] <= release'[u].tries + 1
                      /\ release'[u].pc \in {"queued", "worker", "employer", "debited"} =>
                            paid[u] <= release'[u].tries
                      /\ paid[u] > 0 \/ release'[u].pc # "queued" => u \in sent
    BY <1>4 DEF Attempts
  <2>1. CASE u = t
    BY <1>3, <2>1
  <2>2. CASE u # t
    BY <1>3, <2>2 DEF PoolInv, Attempts
  <2> QED
    BY <2>1, <2>2
<1> QED
  BY <1>1, <1>2, <1>5, <1>6, FundsUntouched, MatchesUntouched DEF PoolInv

LEMMA ReleaseInv ==
  ASSUME PoolInv, NEW t \in Tasks,
         ReleaseStep(t) \/ ReleaseNotifyFails(t) \/ ReleaseKilled(t)
  PROVE  PoolInv'
<1> DEFINE j == t[2]
           w == t[3]
           e == Owner[j]
           r == release[t]
<1>t. PoolTypeOK
  BY DEF PoolInv
<1>j. /\ j \in Jobs /\ w \in Workers /\ e \in Employers
      /\ Pay[j] \in Nat /\ Net(j) \in Nat /\ Fee(Pay[j]) \in Nat
  BY TaskParts, Amounts
<1>r. r \in ReleaseStates
  BY <1>t DEF PoolTypeOK
<1>f. /\ r.tries \in 0..MaxRetries
      /\ r.credit \in Nat /\ r.escrow \in Nat /\ r.platform \in Nat
  BY <1>r DEF ReleaseStates
<1>n. /\ escrow[e] \in Nat /\ credit[w] \in Nat /\ platform \in Nat
      /\ hold[e] \in Nat /\ released[e] \in Nat
      /\ earned[w] \in Nat /\ fees \in Nat /\ paid[t] \in Nat
  BY <1>j, <1>t DEF PoolTypeOK
<1>w. EscrowTallies(e, escrow[e]) /\ CreditTallies(w, credit[w]) /\ PlatformTallies(platform)
  BY <1>j DEF PoolInv, WalletsAreLedger
<1>s. /\ r.pc \in {"worker", "employer", "debited"} => CreditTallies(w, r.credit)
      /\ r.pc \in {"employer", "debited"} => r.escrow >= Pay[j] /\ EscrowTallies(e, r.escrow)
      /\ r.pc = "debited" => PlatformTallies(r.platform)
  BY DEF PoolInv, ReleaseSnapshots, ReleaseTallies
<1>a. /\ paid[t] <= r.tries + 1
      /\ r.pc \in {"queued", "worker", "employer", "debited"} => paid[t] <= r.tries
      /\ r.pc # "queued" => t \in sent
  BY DEF PoolInv, Attempts
<1>q. ASSUME release' = [release EXCEPT ![t] = Retried(r)], r.pc # "queued",
             UNCHANGED <<funded, sent, wallets, ledger, fund, match>>
      PROVE  PoolInv'
  <2>1. /\ Retried(r) \in ReleaseStates
        /\ \/ Retried(r).pc = "queued" /\ Retried(r).tries = r.tries + 1
           \/ Retried(r).pc = "failed" /\ Retried(r).tries = r.tries
    BY <1>r, RetriedState
  <2>2. t \in sent
    BY <1>a, <1>q
  <2> HIDE DEF r
  <2>3. paid[t] <= Retried(r).tries + 1
    BY <1>a, <1>f, <1>n, <2>1
  <2>4. Retried(r).pc = "queued" => paid[t] <= Retried(r).tries
    BY <1>a, <1>f, <1>n, <2>1
  <2> QED
    BY <1>q, <2>1, <2>2, <2>3, <2>4, ReleaseMoves
<1> HIDE DEF j, w, e, r
<1>1. CASE ReleaseReadWorker(t)
  <2> DEFINE new == [r EXCEPT !.pc = "worker", !.credit = credit[w]]
  <2>1. /\ t \in sent /\ r.pc = "queued"
        /\ release' = [release EXCEPT ![t] = new]
        /\ UNCHANGED <<funded, sent, wallets, ledger, fund, match>>
    BY <1>1 DEF ReleaseReadWorker, r, w
  <2>2. /\ new \in ReleaseStates
        /\ new.pc = "worker" /\ new.credit = credit[w] /\ new.tries = r.tries
    BY <1>n, <1>r DEF ReleaseStates
  <2> HIDE DEF new
  <2>3. CreditTallies(t[3], new.credit)
    BY <1>w, <2>2 DEF w
  <2> QED
    BY <1>a, <2>1, <2>2, <2>3, ReleaseMoves
<1>2. CASE ReleaseReadEmployer(t)
  <2>1. /\ r.pc = "worker"
        /\ UNCHANGED <<funded, sent, wallets, ledger, fund, match>>
    BY <1>2 DEF ReleaseReadEmployer, r
  <2>2. CASE Covers(e, j)
    <3> DEFINE new == [r EXCEPT !.pc = "employer", !.escrow = escrow[e]]
    <3>1. release' = [release EXCEPT ![t] = new]
      BY <1>2, <2>2 DEF ReleaseReadEmployer, r, e, j
    <3>2. /\ new \in ReleaseStates /\ new.pc = "employer" /\ new.escrow = escrow[e]
          /\ new.credit = r.credit /\ new.tries = r.tries
      BY <1>n, <1>r DEF ReleaseStates
    <3> HIDE DEF new
    <3>3. new.escrow >= Pay[t[2]] /\ EscrowTallies(Owner[t[2]], new.escrow)
      BY <1>w, <2>2, <3>2 DEF Covers, e, j
    <3>4. CreditTallies(t[3], new.credit)
      BY <1>s, <2>1, <3>2 DEF w
    <3> QED
      BY <1>a, <2>1, <3>1, <3>2, <3>3, <3>4, ReleaseMoves
  <2>3. CASE ~Covers(e, j)
    <3>1. release' = [release EXCEPT ![t] = Retried(r)]
      BY <1>2, <2>3 DEF ReleaseReadEmployer, r, e, j
    <3> QED
      BY <1>q, <2>1, <3>1
  <2> QED
    BY <2>2, <2>3
<1>3. CASE ReleaseDebit(t)
  <2> DEFINE new == [r EXCEPT !.pc = "debited", !.platform = platform]
  <2>1. /\ r.pc = "employer"
        /\ release' = [release EXCEPT ![t] = new]
        /\ UNCHANGED <<funded, sent, wallets, ledger, fund, match>>
    BY <1>3 DEF ReleaseDebit, r
  <2>2. /\ new \in ReleaseStates /\ new.pc = "debited" /\ new.platform = platform
        /\ new.credit = r.credit /\ new.escrow = r.escrow /\ new.tries = r.tries
    BY <1>n, <1>r DEF ReleaseStates
  <2> HIDE DEF new
  <2>3. /\ CreditTallies(t[3], new.credit) /\ new.escrow >= Pay[t[2]]
        /\ EscrowTallies(Owner[t[2]], new.escrow) /\ PlatformTallies(new.platform)
    BY <1>s, <1>w, <2>1, <2>2 DEF w, e, j
  <2> QED
    BY <1>a, <2>1, <2>2, <2>3, ReleaseMoves
<1>4. CASE ReleaseNotify(t)
  <2> DEFINE new == [r EXCEPT !.pc = "done"]
  <2>1. /\ r.pc = "committed"
        /\ release' = [release EXCEPT ![t] = new]
        /\ UNCHANGED <<funded, sent, wallets, ledger, fund, match>>
    BY <1>4 DEF ReleaseNotify, r
  <2>2. new \in ReleaseStates /\ new.pc = "done" /\ new.tries = r.tries
    BY <1>r DEF ReleaseStates
  <2> HIDE DEF new
  <2> QED
    BY <1>a, <2>1, <2>2, ReleaseMoves
<1>5. CASE ReleaseNotifyFails(t)
  BY <1>5, <1>q DEF ReleaseNotifyFails, r
<1>6. CASE ReleaseKilled(t)
  <2> DEFINE new == [pc |-> "failed", tries |-> r.tries, credit |-> 0, escrow |-> 0, platform |-> 0]
  <2>1. /\ r.pc # "queued"
        /\ release' = [release EXCEPT ![t] = new]
        /\ UNCHANGED <<funded, sent, wallets, ledger, fund, match>>
    BY <1>6 DEF ReleaseKilled, r
  <2>2. new \in ReleaseStates /\ new.pc = "failed" /\ new.tries = r.tries
    BY <1>f DEF ReleaseStates
  <2> HIDE DEF new
  <2> QED
    BY <1>a, <2>1, <2>2, ReleaseMoves
<1>7. CASE ReleaseCommit(t)
  <2> DEFINE new == [r EXCEPT !.pc = "committed", !.credit = 0, !.escrow = 0, !.platform = 0]
             others == InHand(FundRequests, Payments, Tasks \ {t})
  <2>1. /\ r.pc = "debited"
        /\ escrow'   = [escrow EXCEPT ![e] = r.escrow - Pay[j]]
        /\ credit'   = [credit EXCEPT ![w] = r.credit + Net(j)]
        /\ platform' = IF PlatformExists THEN r.platform + Fee(Pay[j]) ELSE platform
        /\ released' = [released EXCEPT ![e] = @ + Pay[j]]
        /\ earned'   = [earned EXCEPT ![w] = @ + Net(j)]
        /\ fees'     = fees + Fee(Pay[j])
        /\ paid'     = [paid EXCEPT ![t] = @ + 1]
        /\ paidOver' = paidOver \cup ({e, w, Platform} \cap others)
        /\ release'  = [release EXCEPT ![t] = new]
        /\ UNCHANGED <<funded, sent, balance, hold, spent, heldOver, fund, match>>
    BY <1>7 DEF ReleaseCommit, Gross, r, w, e, j
  <2>2. new \in ReleaseStates /\ new.pc = "committed" /\ new.tries = r.tries
    BY <1>r DEF ReleaseStates
  <2> HIDE DEF new, others
  <2>3. /\ CreditTallies(w, r.credit) /\ r.escrow >= Pay[j] /\ EscrowTallies(e, r.escrow)
        /\ PlatformTallies(r.platform) /\ paid[t] <= r.tries /\ t \in sent
    BY <1>a, <1>s, <2>1
  <2>p. /\ paidOver \subseteq paidOver'
        /\ paidOver' \subseteq Employers \cup Workers \cup {Platform}
    BY <1>j, <1>t, <2>1 DEF PoolTypeOK
  <2>4. /\ r.escrow - Pay[j] \in Nat /\ r.credit + Net(j) \in Nat
        /\ released[e] + Pay[j] \in Nat /\ earned[w] + Net(j) \in Nat
        /\ platform' \in Nat /\ fees' \in Nat /\ fees <= fees'
    BY <1>f, <1>j, <1>n, <2>1, <2>3
  <2>5. PoolTypeOK'
    BY <1>j, <1>n, <1>t, <2>1, <2>2, <2>4, <2>p DEF PoolTypeOK
  <2>6. LedgerGrows
    BY <1>j, <1>n, <1>t, <2>1, <2>4, <2>p DEF LedgerGrows, PoolTypeOK
  <2>7. WalletsAreLedger'
    <3>1. ASSUME NEW d \in Employers PROVE EscrowTallies(d, escrow[d])' /\ BalanceTallies(d, balance[d])'
      <4>1. CASE d = e
        <5>1. /\ escrow'[e] = r.escrow - Pay[j] /\ released'[e] = released[e] + Pay[j]
              /\ hold'[e] = hold[e]
          BY <1>j, <1>t, <2>1 DEF PoolTypeOK
        <5>2. (e \notin paidOver' => e \notin paidOver) /\ heldOver' = heldOver
          BY <2>1, <2>p

        <5>3. EscrowTallies(e, escrow[e])'
          BY <1>f, <1>j, <1>n, <2>3, <5>1, <5>2 DEF EscrowTallies
        <5> QED
          BY <2>1, <4>1, <5>3 DEF PoolInv, WalletsAreLedger, BalanceTallies
      <4>2. CASE d # e
        <5>1. /\ escrow'[d] = escrow[d] /\ balance'[d] = balance[d] /\ hold'[d] = hold[d]
              /\ spent'[d] = spent[d] /\ released'[d] = released[d]
              /\ d \notin paidOver' => d \notin paidOver
              /\ d \notin heldOver' => d \notin heldOver
          BY <1>t, <2>1, <4>2, <2>p DEF PoolTypeOK
        <5>2. EscrowTallies(d, escrow[d]) /\ BalanceTallies(d, balance[d])
          BY DEF PoolInv, WalletsAreLedger
        <5> QED
          BY <5>1, <5>2 DEF EscrowTallies, BalanceTallies
      <4> QED
        BY <4>1, <4>2
    <3>2. ASSUME NEW v \in Workers PROVE CreditTallies(v, credit[v])'
      <4>1. CASE v = w
        <5>1. credit'[w] = r.credit + Net(j) /\ earned'[w] = earned[w] + Net(j)
          BY <1>j, <1>t, <2>1 DEF PoolTypeOK
        <5>2. w \notin paidOver' => w \notin paidOver
          BY <2>p
        <5> QED
          BY <1>f, <1>j, <1>n, <2>3, <4>1, <5>1, <5>2 DEF CreditTallies
      <4>2. CASE v # w
        <5>1. credit'[v] = credit[v] /\ earned'[v] = earned[v] /\ (v \notin paidOver' => v \notin paidOver)
          BY <1>t, <2>1, <2>p, <4>2 DEF PoolTypeOK
        <5>2. CreditTallies(v, credit[v])
          BY DEF PoolInv, WalletsAreLedger
        <5> QED
          BY <5>1, <5>2 DEF CreditTallies
      <4> QED
        BY <4>1, <4>2
    <3>3. PlatformTallies(platform)'
      <4>1. Platform \notin paidOver' => Platform \notin paidOver
        BY <2>p
      <4>2. CASE PlatformExists
        BY <1>f, <1>j, <1>n, <2>1, <2>3, <4>1, <4>2 DEF PlatformTallies
      <4>3. CASE ~PlatformExists
        BY <1>j, <1>n, <1>w, <2>1, <4>3 DEF PlatformTallies
      <4> QED
        BY <4>2, <4>3
    <3> QED
      BY <3>1, <3>2, <3>3 DEF WalletsAreLedger
  <2>8. DebitsAreRecorded'
    BY <2>1 DEF PoolInv, DebitsAreRecorded
  <2>9. release'[t] = new /\ \A u \in Tasks : u # t => release'[u] = release[u] /\ paid'[u] = paid[u]
    BY <1>t, <2>1 DEF PoolTypeOK
  <2>i. \A x : /\ HoldNoted(x)
               /\ (x # e \/ x \in others) => PayNoted(x)
               /\ (x # w \/ x \in others) => EarnNoted(x)
               /\ Platform \in others => FeesNoted
    BY <1>t, <2>1 DEF PoolTypeOK, HoldNoted, PayNoted, EarnNoted, FeesNoted
  <2>h. /\ \A q \in FundRequests : FundNoted(q)
        /\ \A q \in Payments : MatchNoted(q)
        /\ \A q \in Tasks : q # t => ReleaseNoted(q)
    <3>1. /\ \A q \in FundRequests : fund[q].pc \in {"wallet", "locked"} => Owner[q[2]] \in others
          /\ \A q \in Payments : match[q].pc = "read" => Owner[Reference[q]] \in others
          /\ \A q \in Tasks \ {t} :
                /\ release[q].pc \in {"worker", "employer", "debited"} => q[3] \in others
                /\ release[q].pc \in {"employer", "debited"} => Owner[q[2]] \in others
                /\ release[q].pc = "debited" => Platform \in others
      BY HasIsInHand DEF others
    <3> QED
      BY <2>i, <3>1 DEF FundNoted, MatchNoted, ReleaseNoted
  <2>10. ReleaseSnapshots'
    <3> SUFFICES ASSUME NEW u \in Tasks PROVE ReleaseTallies(u)'
      BY DEF ReleaseSnapshots
    <3>1. CASE u = t
      BY <2>2, <2>9, <3>1 DEF ReleaseTallies
    <3>2. CASE u # t
      BY <2>5, <2>6, <2>9, <2>h, <3>2, ReleaseFrame
    <3> QED
      BY <3>1, <3>2
  <2>11. Attempts'
    <3> SUFFICES ASSUME NEW u \in Tasks
                 PROVE  /\ paid'[u] <= release'[u].tries + 1
                        /\ release'[u].pc \in {"queued", "worker", "employer", "debited"} =>
                              paid'[u] <= release'[u].tries
                        /\ paid'[u] > 0 \/ release'[u].pc # "queued" => u \in sent
      BY <2>1 DEF Attempts
    <3>1. CASE u = t
      <4>1. paid'[t] = paid[t] + 1
        BY <1>t, <2>1 DEF PoolTypeOK
      <4> QED
        BY <1>f, <1>n, <2>2, <2>3, <2>9, <3>1, <4>1
    <3>2. CASE u # t
      BY <2>9, <3>2 DEF PoolInv, Attempts
    <3> QED
      BY <3>1, <3>2
  <2>12. FundSnapshots' /\ MatchSnapshots'
    BY <2>1, <2>5, <2>6, <2>h, FundsUntouched, MatchesUntouched
  <2> QED
    BY <2>5, <2>7, <2>8, <2>10, <2>11, <2>12 DEF PoolInv
<1> QED
  BY <1>1, <1>2, <1>3, <1>4, <1>5, <1>6, <1>7 DEF ReleaseStep

-----------------------------------------------------------------------------
LEMMA PoolInvStep == PoolInv /\ [PoolNext]_poolVars => PoolInv'
<1> SUFFICES ASSUME PoolInv, [PoolNext]_poolVars PROVE PoolInv'
  OBVIOUS
<1>1. CASE PoolEnvironment \/ UNCHANGED poolVars
  <2>1. /\ sent \subseteq sent' /\ sent' \subseteq Tasks
        /\ UNCHANGED <<funded, wallets, ledger, fund, match, release>>
    BY <1>1 DEF PoolEnvironment, poolVars, poolPrivate, PoolInv, PoolTypeOK
  <2>2. PoolTypeOK'
    BY <2>1 DEF PoolInv, PoolTypeOK, wallets, ledger
  <2>3. /\ LedgerGrows /\ WalletsAreLedger' /\ DebitsAreRecorded'
        /\ \A q \in FundRequests : FundNoted(q)
        /\ \A q \in Payments : MatchNoted(q)
        /\ \A q \in Tasks : ReleaseNoted(q)
    BY <2>1, WalletsUntouched
  <2> QED
    BY <2>1, <2>2, <2>3, FundsUntouched, MatchesUntouched, ReleasesUntouched DEF PoolInv, ledger
<1>2. CASE PoolStep
  BY <1>2, FundInv, MatchInv, DeadlockInv, ReleaseInv DEF PoolStep
<1> QED
  BY <1>1, <1>2 DEF PoolNext

LEMMA PoolInvariant == PoolSpec => []PoolInv
  BY PoolInvInit, PoolInvStep, PTL DEF PoolSpec

-----------------------------------------------------------------------------
(* The theorems *)

\* No wallet, snapshot or sum is ever negative: debit_escrow and debit are
\* reached only with enough money, however stale the balance they work on.
THEOREM PoolTypesHold == PoolSpec => []PoolTypeOK
<1>1. PoolInv => PoolTypeOK
  BY DEF PoolInv
<1> QED
  BY <1>1, PoolInvariant, PTL

\* Escrow, balance, pay and fees are what the ledger adds up to, unless a
\* wallet was written while another process had it in hand; and then the error
\* is to the side the writer's kind says.
THEOREM WalletsTally == PoolSpec => []WalletsAreLedger
<1>1. PoolInv => WalletsAreLedger
  BY DEF PoolInv
<1> QED
  BY <1>1, PoolInvariant, PTL

\* No employer loses balance that the ledger does not show as held.
THEOREM NoUnrecordedDebit == PoolSpec => []DebitsAreRecorded
<1>1. PoolInv => DebitsAreRecorded
  BY DEF PoolInv
<1> QED
  BY <1>1, PoolInvariant, PTL

\* A task pays at most once per attempt, and only if it was sent.
THEOREM PaidPerAttempt == PoolSpec => []PaymentsWithinAttempts
<1>1. PoolInv => PaymentsWithinAttempts
  BY DEF PoolInv, Attempts, PaymentsWithinAttempts
<1> QED
  BY <1>1, PoolInvariant, PTL

-----------------------------------------------------------------------------
(* The composition *)


LEMMA PoolStepIsJobEnvironment ==
  ASSUME PoolStep, UNCHANGED jobPrivate
  PROVE  JobEnvironment \/ UNCHANGED jobVars
<1>1. ASSUME NEW r \in FundRequests, FundReadJob(r) \/ FundStep(r)
      PROVE  JobEnvironment \/ UNCHANGED jobVars
  <2>1. CASE FundCommit(r)
    <3>1. r[2] \in Jobs
      BY FundParts
    <3> QED
      BY <2>1, <3>1 DEF FundCommit, JobEnvironment
  <2> QED
    BY <1>1, <2>1 DEF FundStep, FundReadJob, FundReadWallet, FundWriteWallet, jobVars, jobPrivate
<1>2. ASSUME NEW p \in Payments, MatchPick(p) \/ MatchStep(p)
      PROVE  JobEnvironment \/ UNCHANGED jobVars
  <2>1. CASE MatchCommit(p)
    <3>1. Reference[p] \in Jobs
      BY ReferenceAssumption
    <3> QED
      BY <2>1, <3>1 DEF MatchCommit, JobEnvironment
  <2> QED
    BY <1>2, <2>1 DEF MatchStep, MatchPick, MatchWriteJob, MatchReadWallet, jobVars, jobPrivate
<1>3. ASSUME NEW r \in FundRequests, NEW p \in Payments, BreakDeadlock(r, p)
      PROVE  UNCHANGED jobVars
  BY <1>3 DEF BreakDeadlock, jobVars, jobPrivate
<1>4. ASSUME NEW t \in Tasks, ReleaseStep(t) \/ ReleaseNotifyFails(t) \/ ReleaseKilled(t)
      PROVE  UNCHANGED jobVars
  BY <1>4 DEF ReleaseStep, ReleaseReadWorker, ReleaseReadEmployer, ReleaseDebit, ReleaseCommit,
     ReleaseNotify, ReleaseNotifyFails, ReleaseKilled, jobVars, jobPrivate
<1> QED
  BY <1>1, <1>2, <1>3, <1>4 DEF PoolStep

\* The composed system behaves, for the jobs, like the lifecycle alone.
THEOREM ImplementsJobSpec == Spec => JobSpec
<1>1. Init => JobInit
  BY DEF Init
<1>2. [Next]_vars => [JobNext]_jobVars
  BY PoolStepIsJobEnvironment DEF Next, JobNext, vars, jobVars, jobPrivate
<1> QED
  BY <1>1, <1>2, PTL DEF Spec, JobSpec

LEMMA JobStepIsPoolEnvironment ==
  ASSUME JobStep, JobTypeOK', sent \subseteq sent', UNCHANGED funded, UNCHANGED poolPrivate
  PROVE  PoolEnvironment
<1>1. sent' = sent \cup sent' /\ sent' \in SUBSET Tasks
  BY DEF JobTypeOK
<1> QED
  BY <1>1 DEF PoolEnvironment

LEMMA JobStepKeeps ==
  ASSUME JobStep
  PROVE  sent \subseteq sent' /\ UNCHANGED funded
<1>1. ASSUME NEW k \in AcceptClicks, NEW j \in Jobs, NEW w \in Workers,
             \/ AcceptCheck(k, j, w)    \/ AcceptInsert(k, j, w)
             \/ AcceptConflict(k, j, w) \/ AcceptCommit(k, j, w)
      PROVE  sent \subseteq sent' /\ UNCHANGED funded
  BY <1>1 DEF AcceptCheck, AcceptInsert, AcceptConflict, AcceptCommit
<1>2. ASSUME NEW k \in CompleteClicks, NEW j \in Jobs,
             \/ \E only \in {Workers} \cup {{w} : w \in Workers} : CompleteCheck(k, j, only)
             \/ CompleteExists(k, j) \/ CompleteCapture(k, j) \/ CompleteUpdate(k, j)
      PROVE  sent \subseteq sent' /\ UNCHANGED funded
  BY <1>2 DEF CompleteCheck, CompleteExists, CompleteCapture, CompleteUpdate
<1>3. ASSUME NEW k \in CompleteClicks, NEW j \in Jobs,
             CompleteCommit(k, j) \/ CompleteRollback(k, j)
      PROVE  sent \subseteq sent' /\ UNCHANGED funded
  BY <1>3 DEF CompleteCommit, CompleteRollback
<1> QED
  BY <1>1, <1>2, <1>3 DEF JobStep

\* The composed system behaves, for the money, like the pool alone.
THEOREM ImplementsPoolSpec == Spec => PoolSpec
<1>1. Init => PoolInit
  BY DEF Init
<1>2. JobTypeOK' /\ [Next]_vars => [PoolNext]_poolVars
  <2> SUFFICES ASSUME JobTypeOK', [Next]_vars PROVE [PoolNext]_poolVars
    OBVIOUS
  <2>1. CASE JobStep /\ UNCHANGED poolPrivate
    BY <2>1, JobStepIsPoolEnvironment, JobStepKeeps DEF PoolNext
  <2>2. CASE PoolStep
    BY <2>2 DEF PoolNext
  <2>3. CASE UNCHANGED vars
    BY <2>3 DEF vars, poolVars
  <2> QED
    BY <2>1, <2>2, <2>3 DEF Next
<1>3. Spec => []JobTypeOK
  BY ImplementsJobSpec, JobTypesHold, PTL
<1> QED
  BY <1>1, <1>2, <1>3, PTL DEF Spec, PoolSpec

\* Escrow is paid only to workers who accepted a job that was funded: neither
\* part shows it alone, the release task checks nothing of it.
THEOREM PaidWereAccepted == Spec => []PaidWorkerWasAccepted
<1>1. JobInv /\ PoolInv => PaidWorkerWasAccepted
  <2> SUFFICES ASSUME JobInv, PoolInv, NEW t \in Tasks, paid[t] > 0
               PROVE  app[t[2], t[3]] # "none" /\ funded[t[2]]
    BY DEF PaidWorkerWasAccepted
  <2>1. t \in sent
    BY DEF PoolInv, Attempts
  <2>2. app[t[2], t[3]] # "none"
    BY <2>1 DEF JobInv, ReleaseOnlyForAccepted
  <2>3. t[2] \in Jobs /\ t[3] \in Workers
    BY TaskParts
  <2>4. t[3] \in Applied(t[2])
    BY <2>2, <2>3 DEF Applied
  <2> QED
    BY <2>2, <2>3, <2>4 DEF JobInv, FundedBeforeAccepted
<1> QED
  BY <1>1, ImplementsJobSpec, ImplementsPoolSpec, JobInvariant, PoolInvariant, PTL

-----------------------------------------------------------------------------
(* The employer who is careful *)

\* Nothing makes a release fail or run twice ...
OneCompletion  == \A k \in CompleteClicks, l \in CompleteClicks : k = l

\* ... no other job shares the escrow, so no write of one job's money undoes
\* that of another ...
JobPerEmployer == \A i \in Jobs, j \in Jobs : Owner[i] = Owner[j] => i = j

\* ... and a transfer that funds a job pays for all of it.
TransfersCover == \A p \in Payments : Amount[p] >= Total(Reference[p])

Careful == ~Faults /\ OneCompletion /\ JobPerEmployer /\ TransfersCover

\* The release tasks of a job that have not paid yet, and what is still to go
\* out of escrow for it: the whole job, until a completion names the workers.
Owed(j)        == {t \in sent : t[2] = j /\ paid[t] = 0}
Outstanding(j) == IF \E t \in sent : t[2] = j
                  THEN Pay[j] * Cardinality(Owed(j))
                  ELSE Total(j)

\* Only a completion that has ended sent tasks.
SentIsDone == \A t \in sent : complete[t[1], t[2]].pc = "done"

\* A task has paid if and only if it came past its commit, and paid once.
PaidAtCommit ==
    \A t \in Tasks : paid[t] = IF release[t].pc \in {"committed", "done"} THEN 1 ELSE 0

\* No task ever had to be tried again.
FirstAttempt == \A t \in Tasks : release[t].tries = 0 /\ release[t].pc # "failed"

\* The escrow of a funded job, and what a task under way remembers of it,
\* cover what is still to go out.
PoolCovers == \A j \in Jobs : funded[j] => escrow[Owner[j]] >= Outstanding(j)
TasksCover ==
    \A t \in Tasks :
        release[t].pc \in {"employer", "debited"} => release[t].escrow >= Outstanding(t[2])

CarefulInv == FirstAttempt /\ PoolCovers /\ TasksCover

-----------------------------------------------------------------------------
(* Sums and counts *)

\* A sum of equal pays is their number times the pay.
LEMMA SumOfEqual ==
  ASSUME NEW S, IsFiniteSet(S), NEW p \in Nat, \A t \in S : Pay[t[2]] = p
  PROVE  MapThenSumSet(LAMBDA t : Pay[t[2]], S) = p * Cardinality(S)
<1> DEFINE Sums(f) == f = [s \in SUBSET S |->
              IF s = {} THEN 0
              ELSE LET x == CHOOSE y \in s : TRUE IN Pay[x[2]] + f[s \ {x}]]
           witness == [s \in SUBSET S |-> p * Cardinality(s)]
<1>1. MapThenSumSet(LAMBDA t : Pay[t[2]], S) = (CHOOSE f : Sums(f))[S]
  BY DEF MapThenSumSet, MapThenFoldSet
<1>2. \A s \in SUBSET S : IsFiniteSet(s) /\ Cardinality(s) \in Nat
  BY FS_Subset, FS_CardinalityType
<1>3. \A s \in SUBSET S : s # {} =>
         /\ (CHOOSE y \in s : TRUE) \in s
         /\ Pay[(CHOOSE y \in s : TRUE)[2]] = p
         /\ s \ {CHOOSE y \in s : TRUE} \in SUBSET S
         /\ Cardinality(s) = Cardinality(s \ {CHOOSE y \in s : TRUE}) + 1
  <2> SUFFICES ASSUME NEW s \in SUBSET S, s # {}
               PROVE  /\ (CHOOSE y \in s : TRUE) \in s
                      /\ Pay[(CHOOSE y \in s : TRUE)[2]] = p
                      /\ s \ {CHOOSE y \in s : TRUE} \in SUBSET S
                      /\ Cardinality(s) = Cardinality(s \ {CHOOSE y \in s : TRUE}) + 1
    OBVIOUS
  <2> DEFINE x == CHOOSE y \in s : TRUE
  <2>1. x \in s
    OBVIOUS
  <2> HIDE DEF x
  <2>2. Cardinality(s \ {x}) = Cardinality(s) - 1
    BY <1>2, <2>1, FS_RemoveElement
  <2>3. Cardinality(s) = Cardinality(s \ {x}) + 1
    BY <1>2, <2>2
  <2>4. Pay[x[2]] = p /\ s \ {x} \in SUBSET S
    BY <2>1
  <2> QED
    BY <2>1, <2>3, <2>4 DEF x
<1>4. Sums(witness)
  <2>1. ASSUME NEW s \in SUBSET S
        PROVE  witness[s] = IF s = {} THEN 0
                            ELSE LET x == CHOOSE y \in s : TRUE IN Pay[x[2]] + witness[s \ {x}]
    <3>1. CASE s = {}
      <4>1. Cardinality(s) = 0
        BY <3>1, FS_EmptySet
      <4> QED
        BY <3>1, <4>1
    <3>2. CASE s # {}
      <4> DEFINE rest == s \ {CHOOSE y \in s : TRUE}
      <4>1. /\ Pay[(CHOOSE y \in s : TRUE)[2]] = p /\ rest \in SUBSET S
            /\ Cardinality(s) = Cardinality(rest) + 1
        BY <1>3, <3>2
      <4>2. witness[rest] = p * Cardinality(rest) /\ Cardinality(rest) \in Nat
        BY <1>2, <4>1
      <4>3. witness[s] = p + p * Cardinality(rest)
        BY <4>1, <4>2
      <4> HIDE DEF witness
      <4> QED
        BY <3>2, <4>1, <4>2, <4>3
    <3> QED
      BY <3>1, <3>2
  <2> QED
    BY <2>1
<1> DEFINE sums == CHOOSE f : Sums(f)
<1>5. Sums(sums)
  BY <1>4
<1> HIDE DEF sums
<1>6. \A s \in SUBSET S :
         sums[s] = IF s = {} THEN 0
                   ELSE LET x == CHOOSE y \in s : TRUE IN Pay[x[2]] + sums[s \ {x}]
  BY <1>5
<1> HIDE DEF Sums, witness
<1> DEFINE wrong == {s \in SUBSET S : sums[s] # p * Cardinality(s)}
<1>7. wrong = {}
  <2> SUFFICES ASSUME wrong # {} PROVE FALSE
    OBVIOUS
  <2>1. PICK s \in wrong : \A u \in wrong : u \subseteq s => u = s
    <3>1. wrong \subseteq SUBSET S
      OBVIOUS
    <3> HIDE DEF wrong
    <3> QED
      BY <3>1, Minimal
  <2>2. s \in SUBSET S /\ sums[s] # p * Cardinality(s)
    OBVIOUS
  <2>3. CASE s = {}
    <3>1. sums[s] = 0 /\ Cardinality(s) = 0
      BY <1>6, <2>2, <2>3, FS_EmptySet
    <3> QED
      BY <2>2, <3>1
  <2>4. CASE s # {}
    <3> DEFINE rest == s \ {CHOOSE y \in s : TRUE}
    <3>1. /\ Pay[(CHOOSE y \in s : TRUE)[2]] = p /\ rest \in SUBSET S
          /\ Cardinality(s) = Cardinality(rest) + 1
          /\ (CHOOSE y \in s : TRUE) \in s
      BY <1>3, <2>2, <2>4
    <3>2. sums[s] = p + sums[rest]
      BY <1>6, <2>2, <2>4, <3>1
    <3>3. rest \subseteq s /\ rest # s
      BY <3>1
    <3> HIDE DEF rest
    <3>4. rest \notin wrong
      BY <2>1, <3>3
    <3>5. sums[rest] = p * Cardinality(rest) /\ Cardinality(rest) \in Nat
      BY <1>2, <3>1, <3>4
    <3>6. sums[s] = p * Cardinality(s)
      BY <3>1, <3>2, <3>5
    <3> QED
      BY <2>2, <3>6
  <2> QED
    BY <2>3, <2>4
<1>8. sums[S] = p * Cardinality(S)
  BY <1>7
<1> QED
  BY <1>1, <1>8 DEF sums

LEMMA LargerProducts ==
  \A p, m, n \in Nat : m <= n => p * m \in Nat /\ p * m <= p * n
<1> SUFFICES ASSUME NEW p \in Nat, NEW m \in Nat, NEW n \in Nat, m <= n
             PROVE  p * m \in Nat /\ p * m <= p * n
  OBVIOUS
<1>1. n - m \in Nat /\ n = m + (n - m)
  OBVIOUS
<1>2. p * (n - m) \in Nat /\ p * n = p * m + p * (n - m) /\ p * m \in Nat /\ p * n \in Nat
  BY <1>1
<1> QED
  BY <1>2

\* Tasks of one completion that name different workers are no more than these.
LEMMA TasksCounted ==
  ASSUME OneCompletion, NEW j \in Jobs, NEW W \in SUBSET Workers,
         NEW T \in SUBSET Tasks, \A t \in T : t[2] = j /\ t[3] \in W
  PROVE  /\ IsFiniteSet(T) /\ Cardinality(T) \in Nat
         /\ Cardinality(T) <= Cardinality(W) /\ Cardinality(W) \in Nat
<1> DEFINE V == {w \in W : \E t \in T : t[3] = w}
           f == [w \in V |-> CHOOSE t \in T : t[3] = w]
<1>1. IsFiniteSet(W)
  BY WorkersAssumption, FS_Subset
<1>2. IsFiniteSet(V) /\ Cardinality(V) <= Cardinality(W)
  BY <1>1, FS_Subset
<1>3. \A s \in T, t \in T : s[3] = t[3] => s = t
  BY DEF Tasks, OneCompletion
<1>4. \A w \in V : f[w] \in T /\ f[w][3] = w
  OBVIOUS
<1>5. \A t \in T : t[3] \in V /\ f[t[3]] = t
  <2> SUFFICES ASSUME NEW t \in T PROVE t[3] \in V /\ f[t[3]] = t
    OBVIOUS
  <2>1. t[3] \in V
    OBVIOUS
  <2> QED
    BY <1>3, <1>4, <2>1
<1>6. f \in [V -> T]
  BY <1>4
<1> HIDE DEF V, f
<1>7. f \in Surjection(V, T)
  BY <1>5, <1>6 DEF Surjection
<1>8. IsFiniteSet(T) /\ Cardinality(T) <= Cardinality(V)
  BY <1>2, <1>7, FS_Surjection
<1>9. Cardinality(T) \in Nat /\ Cardinality(V) \in Nat /\ Cardinality(W) \in Nat
  BY <1>1, <1>2, <1>8, FS_CardinalityType
<1> QED
  BY <1>2, <1>8, <1>9

\* What is owed for a job is covered by what it costs, as long as the job has
\* no more workers than it asked for.
LEMMA OwedCounted ==
  ASSUME JobTypeOK, ReleaseOnlyForAccepted, NotOverfull, OneCompletion, NEW j \in Jobs
  PROVE  /\ IsFiniteSet(Owed(j)) /\ Cardinality(Owed(j)) \in 0..Needed[j]
         /\ Outstanding(j) \in Nat /\ Outstanding(j) <= Total(j)
<1>1. /\ Owed(j) \in SUBSET Tasks /\ Applied(j) \in SUBSET Workers
      /\ \A t \in Owed(j) : t[2] = j /\ t[3] \in Applied(j)
  <2>1. \A t \in sent : t \in Tasks /\ app[t[2], t[3]] # "none"
    BY DEF JobTypeOK, ReleaseOnlyForAccepted
  <2> QED
    BY <2>1, TaskParts DEF Owed, Applied
<1>2. /\ IsFiniteSet(Owed(j)) /\ Cardinality(Owed(j)) \in Nat
      /\ Cardinality(Owed(j)) <= Cardinality(Applied(j)) /\ Cardinality(Applied(j)) \in Nat
  BY <1>1, TasksCounted
<1>3. Pay[j] \in Nat /\ Needed[j] \in Nat /\ Cardinality(Applied(j)) <= Needed[j]
  BY PayAssumption, NeededAssumption DEF NotOverfull
<1> DEFINE c == Cardinality(Owed(j))
           a == Cardinality(Applied(j))
<1>4. c \in Nat /\ a \in Nat /\ c <= a /\ a <= Needed[j]
  BY <1>2, <1>3
<1>5. Outstanding(j) \in {Pay[j] * c, Pay[j] * Needed[j]}
  BY DEF Outstanding, Total
<1> HIDE DEF c, a
<1>6. c \in 0..Needed[j]
  BY <1>3, <1>4
<1>7. Pay[j] * c \in Nat /\ Pay[j] * Needed[j] \in Nat /\ Pay[j] * c <= Pay[j] * Needed[j]
  BY <1>3, <1>6, LargerProducts
<1> QED
  BY <1>2, <1>5, <1>6, <1>7 DEF c, Total

-----------------------------------------------------------------------------
(* Completions without faults *)

LEMMA SentIsDoneStep ==
  ASSUME JobTypeOK, SentIsDone, ~Faults, [JobNext]_jobVars
  PROVE  SentIsDone'
<1> SUFFICES ASSUME NEW t \in sent' PROVE complete'[t[1], t[2]].pc = "done"
  BY DEF SentIsDone
<1>t. /\ complete \in [CompleteRequests -> Completions]
      /\ \A u \in sent : u[1] \in CompleteClicks /\ u[2] \in Jobs
  BY DEF JobTypeOK, Tasks
<1>1. ASSUME UNCHANGED <<sent, complete>> PROVE complete'[t[1], t[2]].pc = "done"
  BY <1>1 DEF SentIsDone
<1>2. ASSUME NEW k \in CompleteClicks, NEW j \in Jobs, complete[k, j].pc # "done",
             NEW new, complete' = [complete EXCEPT ![<<k, j>>] = new], UNCHANGED sent
      PROVE  complete'[t[1], t[2]].pc = "done"
  <2>1. complete[t[1], t[2]].pc = "done" /\ <<t[1], t[2]>> \in CompleteRequests
    BY <1>2, <1>t DEF SentIsDone, CompleteRequests
  <2>2. <<t[1], t[2]>> # <<k, j>>
    BY <1>2, <2>1
  <2> QED
    BY <1>2, <1>t, <2>1, <2>2
<1>3. ASSUME NEW k \in CompleteClicks, NEW j \in Jobs, CompleteCommit(k, j)
      PROVE  complete'[t[1], t[2]].pc = "done"
  <2>1. /\ complete' = [complete EXCEPT ![<<k, j>>].pc = "done"]
        /\ sent' = sent \cup ({k} \X {j} \X complete[k, j].ids)
    BY <1>3 DEF CompleteCommit
  <2>2. <<k, j>> \in CompleteRequests /\ complete[k, j] \in Completions
    BY <1>t DEF CompleteRequests
  <2>3. complete'[k, j].pc = "done"
    BY <1>t, <2>1, <2>2 DEF Completions
  <2>4. CASE t[1] = k /\ t[2] = j
    BY <2>3, <2>4
  <2>5. CASE ~ (t[1] = k /\ t[2] = j)
    <3>1. t \in sent
      BY <2>1, <2>5
    <3>2. complete[t[1], t[2]].pc = "done" /\ <<t[1], t[2]>> \in CompleteRequests
      BY <1>t, <3>1 DEF SentIsDone, CompleteRequests
    <3>3. <<t[1], t[2]>> # <<k, j>>
      BY <2>5
    <3> QED
      BY <1>t, <2>1, <3>2, <3>3
  <2> QED
    BY <2>4, <2>5
<1>4. CASE JobEnvironment \/ UNCHANGED jobVars
  BY <1>1, <1>4 DEF JobEnvironment, jobPrivate, jobVars
<1>5. ASSUME NEW k \in AcceptClicks, NEW j \in Jobs, NEW w \in Workers,
             \/ AcceptCheck(k, j, w)    \/ AcceptInsert(k, j, w)
             \/ AcceptConflict(k, j, w) \/ AcceptCommit(k, j, w)
      PROVE  complete'[t[1], t[2]].pc = "done"
  BY <1>1, <1>5 DEF AcceptCheck, AcceptInsert, AcceptConflict, AcceptCommit
<1>6. ASSUME NEW k \in CompleteClicks, NEW j \in Jobs, NEW only \in SUBSET Workers,
             CompleteCheck(k, j, only)
      PROVE  complete'[t[1], t[2]].pc = "done"
  BY <1>2, <1>6 DEF CompleteCheck
<1>7. ASSUME NEW k \in CompleteClicks, NEW j \in Jobs,
             CompleteExists(k, j) \/ CompleteCapture(k, j) \/ CompleteUpdate(k, j)
      PROVE  complete'[t[1], t[2]].pc = "done"
  <2>1. CASE CompleteExists(k, j)
    BY <1>2, <2>1 DEF CompleteExists
  <2>2. CASE CompleteCapture(k, j)
    BY <1>2, <2>2 DEF CompleteCapture
  <2>3. CASE CompleteUpdate(k, j)
    BY <1>2, <2>3 DEF CompleteUpdate
  <2> QED
    BY <1>7, <2>1, <2>2, <2>3
<1>8. CASE JobStep
  <2>1. \A only \in {Workers} \cup {{w} : w \in Workers} : only \in SUBSET Workers
    OBVIOUS
  <2>2. \A k \in CompleteClicks, j \in Jobs : ~CompleteRollback(k, j)
    BY DEF CompleteRollback
  <2> QED
    BY <1>3, <1>5, <1>6, <1>7, <1>8, <2>1, <2>2 DEF JobStep
<1> QED
  BY <1>4, <1>8 DEF JobNext

\* Without faults a task that is queued was sent by a completion that ended.
LEMMA SentIsDoneInvariant == ASSUME ~Faults PROVE JobSpec => []SentIsDone
<1>1. JobInit => SentIsDone
  BY DEF JobInit, SentIsDone
<1>2. JobTypeOK /\ SentIsDone /\ [JobNext]_jobVars => SentIsDone'
  BY SentIsDoneStep
<1> QED
  BY <1>1, <1>2, JobTypesHold, PTL DEF JobSpec

-----------------------------------------------------------------------------
(* Payments without faults *)

\* The states of a task that has committed its payment.
LEMMA PaidAtCommitStep ==
  ASSUME PoolTypeOK, PaidAtCommit, ~Faults, [PoolNext]_poolVars
  PROVE  PaidAtCommit'
<1> SUFFICES ASSUME NEW u \in Tasks
             PROVE  paid'[u] = IF release'[u].pc \in {"committed", "done"} THEN 1 ELSE 0
  BY DEF PaidAtCommit
<1>t. /\ release \in [Tasks -> ReleaseStates] /\ paid \in [Tasks -> Nat]
      /\ paid[u] = IF release[u].pc \in {"committed", "done"} THEN 1 ELSE 0
  BY DEF PoolTypeOK, PaidAtCommit
<1>1. ASSUME UNCHANGED <<paid, release>>
      PROVE  paid'[u] = IF release'[u].pc \in {"committed", "done"} THEN 1 ELSE 0
  BY <1>1, <1>t
<1>2. ASSUME NEW t \in Tasks, NEW new,
             release' = [release EXCEPT ![t] = new], UNCHANGED paid,
             new.pc \in {"committed", "done"} <=> release[t].pc \in {"committed", "done"}
      PROVE  paid'[u] = IF release'[u].pc \in {"committed", "done"} THEN 1 ELSE 0
  BY <1>2, <1>t
<1>3. CASE PoolEnvironment \/ UNCHANGED poolVars
  BY <1>1, <1>3 DEF PoolEnvironment, poolVars, poolPrivate, ledger
<1>4. ASSUME NEW r \in FundRequests, FundReadJob(r) \/ FundStep(r)
      PROVE  UNCHANGED <<paid, release>>
  BY <1>4 DEF FundStep, FundReadJob, FundReadWallet, FundWriteWallet, FundCommit, ledger
<1>5. ASSUME NEW p \in Payments, MatchPick(p) \/ MatchStep(p)
      PROVE  UNCHANGED <<paid, release>>
  BY <1>5 DEF MatchStep, MatchPick, MatchWriteJob, MatchReadWallet, MatchCommit, ledger
<1>6. ASSUME NEW r \in FundRequests, NEW p \in Payments, BreakDeadlock(r, p)
      PROVE  UNCHANGED <<paid, release>>
  BY <1>6 DEF BreakDeadlock, ledger
<1>7. ASSUME NEW t \in Tasks, ReleaseStep(t)
      PROVE  paid'[u] = IF release'[u].pc \in {"committed", "done"} THEN 1 ELSE 0
  <2>r. release[t] \in ReleaseStates
    BY <1>t
  <2>1. CASE ReleaseReadWorker(t)
    <3> DEFINE new == [release[t] EXCEPT !.pc = "worker", !.credit = credit[t[3]]]
    <3>1. release' = [release EXCEPT ![t] = new] /\ release[t].pc = "queued" /\ UNCHANGED paid
      BY <2>1 DEF ReleaseReadWorker, ledger
    <3>2. new.pc = "worker"
      BY <2>r DEF ReleaseStates
    <3> HIDE DEF new
    <3> QED
      BY <1>2, <3>1, <3>2
  <2>2. CASE ReleaseReadEmployer(t)
    <3> DEFINE new == IF Covers(Owner[t[2]], t[2])
                      THEN [release[t] EXCEPT !.pc = "employer", !.escrow = escrow[Owner[t[2]]]]
                      ELSE Retried(release[t])
    <3>1. release' = [release EXCEPT ![t] = new] /\ release[t].pc = "worker" /\ UNCHANGED paid
      BY <2>2 DEF ReleaseReadEmployer, ledger
    <3>2. new.pc \in {"employer", "queued", "failed"}
      BY <2>r DEF ReleaseStates, Retried
    <3> HIDE DEF new
    <3> QED
      BY <1>2, <3>1, <3>2
  <2>3. CASE ReleaseDebit(t)
    <3> DEFINE new == [release[t] EXCEPT !.pc = "debited", !.platform = platform]
    <3>1. release' = [release EXCEPT ![t] = new] /\ release[t].pc = "employer" /\ UNCHANGED paid
      BY <2>3 DEF ReleaseDebit, ledger
    <3>2. new.pc = "debited"
      BY <2>r DEF ReleaseStates
    <3> HIDE DEF new
    <3> QED
      BY <1>2, <3>1, <3>2
  <2>4. CASE ReleaseNotify(t)
    <3> DEFINE new == [release[t] EXCEPT !.pc = "done"]
    <3>1. release' = [release EXCEPT ![t] = new] /\ release[t].pc = "committed" /\ UNCHANGED paid
      BY <2>4 DEF ReleaseNotify, ledger
    <3>2. new.pc = "done"
      BY <2>r DEF ReleaseStates
    <3> HIDE DEF new
    <3> QED
      BY <1>2, <3>1, <3>2
  <2>5. CASE ReleaseCommit(t)
    <3> DEFINE new == [release[t] EXCEPT !.pc = "committed", !.credit = 0, !.escrow = 0,
                                         !.platform = 0]
    <3>1. /\ release' = [release EXCEPT ![t] = new] /\ release[t].pc = "debited"
          /\ paid' = [paid EXCEPT ![t] = @ + 1]
      BY <2>5 DEF ReleaseCommit
    <3>2. new.pc = "committed"
      BY <2>r DEF ReleaseStates
    <3> HIDE DEF new
    <3>3. CASE u = t
      BY <1>t, <3>1, <3>2, <3>3
    <3>4. CASE u # t
      BY <1>t, <3>1, <3>4
    <3> QED
      BY <3>3, <3>4
  <2> QED
    BY <1>7, <2>1, <2>2, <2>3, <2>4, <2>5 DEF ReleaseStep
<1>8. CASE PoolStep
  <2>1. \A t \in Tasks : ~ReleaseNotifyFails(t) /\ ~ReleaseKilled(t)
    BY DEF ReleaseNotifyFails, ReleaseKilled
  <2> QED
    BY <1>1, <1>4, <1>5, <1>6, <1>7, <1>8, <2>1 DEF PoolStep
<1> QED
  BY <1>3, <1>8 DEF PoolNext

\* Without faults a task pays once, and it has paid exactly if it came past its
\* commit.
LEMMA PaidAtCommitInvariant == ASSUME ~Faults PROVE PoolSpec => []PaidAtCommit
<1>1. PoolInit => PaidAtCommit
  BY DEF PoolInit, PaidAtCommit
<1>2. PoolTypeOK /\ PaidAtCommit /\ [PoolNext]_poolVars => PaidAtCommit'
  BY PaidAtCommitStep
<1> QED
  BY <1>1, <1>2, PoolTypesHold, PTL DEF PoolSpec

-----------------------------------------------------------------------------
(* What is outstanding never grows *)

LEMMA OutstandingKept ==
  ASSUME UNCHANGED <<sent, paid>>, NEW j \in Jobs
  PROVE  Outstanding(j)' = Outstanding(j)
BY DEF Outstanding, Owed

\* A completion names no more workers than the job paid for.
LEMMA CompletionLowers ==
  ASSUME JobInv, PoolTypeOK, NotOverfull, OneCompletion, SentIsDone,
         NEW k \in CompleteClicks, NEW j \in Jobs, CompleteCommit(k, j), UNCHANGED paid,
         NEW i \in Jobs
  PROVE  Outstanding(i)' \in Nat /\ Outstanding(i)' <= Outstanding(i)
<1>1. /\ complete[k, j].pc = "updated"
      /\ sent' = sent \cup ({k} \X {j} \X complete[k, j].ids)
  BY DEF CompleteCommit
<1>2. /\ Outstanding(i) \in Nat /\ JobTypeOK /\ ReleaseOnlyForAccepted
      /\ complete[k, j].ids \subseteq Applied(j)
  BY <1>1, OwedCounted DEF JobInv, CapturedApplied
<1>3. CASE i # j \/ complete[k, j].ids = {}
  <2>1. \A t : t[2] = i => (t \in sent' <=> t \in sent)
    BY <1>1, <1>3
  <2>2. /\ Owed(i)' = Owed(i)
        /\ (\E t \in sent' : t[2] = i) <=> (\E t \in sent : t[2] = i)
    BY <2>1 DEF Owed
  <2>3. Outstanding(i)' = Outstanding(i)
    BY <2>2 DEF Outstanding
  <2>4. \A m, n : m \in Nat /\ n = m => n \in Nat /\ n <= m
    OBVIOUS
  <2> QED
    BY <1>2, <2>3, <2>4
<1>4. CASE i = j /\ complete[k, j].ids # {}
  <2>1. \A t \in sent : t[2] # j
    BY <1>1, <1>2 DEF JobTypeOK, Tasks, SentIsDone, OneCompletion
  <2>2. Outstanding(i) = Pay[j] * Needed[j]
    BY <1>4, <2>1 DEF Outstanding, Total
  <2>3. \A t \in Owed(i)' : t \in {k} \X {j} \X complete[k, j].ids
    BY <1>1, <1>4, <2>1 DEF Owed
  <2>4. /\ Owed(i)' \in SUBSET Tasks /\ Applied(j) \in SUBSET Workers
        /\ \A t \in Owed(i)' : t[2] = j /\ t[3] \in Applied(j)
    BY <1>2, <2>3 DEF Tasks, Applied
  <2>5. /\ Cardinality(Owed(i)') \in Nat /\ Cardinality(Applied(j)) \in Nat
        /\ Cardinality(Owed(i)') <= Cardinality(Applied(j))
    BY <2>4, TasksCounted
  <2>6. Cardinality(Applied(j)) <= Needed[j] /\ Pay[j] \in Nat /\ Needed[j] \in Nat
    BY PayAssumption, NeededAssumption DEF NotOverfull
  <2>7. Outstanding(i)' = Pay[j] * Cardinality(Owed(i)')
    <3>1. PICK w \in complete[k, j].ids : TRUE
      BY <1>4
    <3>2. <<k, j, w>> \in sent'
      BY <1>1, <3>1
    <3>3. \E t \in sent' : t[2] = i
      BY <1>4, <3>2
    <3> QED
      BY <1>4, <3>3 DEF Outstanding
  <2>8. \A p, m, n \in Nat : m <= n => p * m \in Nat /\ p * m <= p * n
    BY LargerProducts
  <2>9. Cardinality(Owed(i)') <= Needed[j]
    BY <2>5, <2>6
  <2> QED
    BY <2>2, <2>5, <2>6, <2>7, <2>8, <2>9
<1> QED
  BY <1>3, <1>4

\* A task under way is for a funded job, and its pay is outstanding.
LEMMA TaskIsOwed ==
  ASSUME JobInv, PoolInv, PaidAtCommit, NotOverfull, OneCompletion,
         NEW t \in Tasks, release[t].pc \in {"worker", "employer", "debited"}
  PROVE  /\ t \in Owed(t[2]) /\ funded[t[2]]
         /\ Outstanding(t[2]) = Pay[t[2]] * Cardinality(Owed(t[2]))
         /\ Cardinality(Owed(t[2])) \in Nat \ {0}
         /\ Outstanding(t[2]) \in Nat /\ Outstanding(t[2]) >= Pay[t[2]]
<1>1. t \in sent /\ paid[t] = 0
  BY DEF PoolInv, Attempts, PaidAtCommit
<1>2. t[2] \in Jobs /\ t[3] \in Workers /\ Pay[t[2]] \in Nat
  BY TaskParts, PayAssumption
<1>3. t \in Owed(t[2])
  BY <1>1 DEF Owed
<1>4. t[3] \in Applied(t[2])
  BY <1>1, <1>2 DEF JobInv, ReleaseOnlyForAccepted, Applied
<1>5. funded[t[2]]
  BY <1>2, <1>4 DEF JobInv, FundedBeforeAccepted
<1>6. Outstanding(t[2]) = Pay[t[2]] * Cardinality(Owed(t[2]))
  BY <1>1 DEF Outstanding
<1>7. /\ IsFiniteSet(Owed(t[2])) /\ Cardinality(Owed(t[2])) \in Nat
      /\ Outstanding(t[2]) \in Nat
  BY <1>2, OwedCounted DEF JobInv
<1>8. Cardinality(Owed(t[2])) # 0
  BY <1>3, <1>7, FS_EmptySet
<1>9. Pay[t[2]] * 1 <= Pay[t[2]] * Cardinality(Owed(t[2]))
  <2>1. 1 <= Cardinality(Owed(t[2]))
    BY <1>7, <1>8
  <2> QED
    BY <1>2, <1>7, <2>1, LargerProducts
<1>10. Outstanding(t[2]) >= Pay[t[2]]
  BY <1>2, <1>6, <1>7, <1>9
<1> QED
  BY <1>3, <1>5, <1>6, <1>7, <1>8, <1>10

\* A payment takes the pay of one worker off what is outstanding.
LEMMA PaymentLowers ==
  ASSUME JobInv, PoolInv, PaidAtCommit, NotOverfull, OneCompletion,
         NEW t \in Tasks, ReleaseCommit(t), NEW i \in Jobs
  PROVE  Outstanding(i)' = IF i = t[2] THEN Outstanding(i) - Pay[i] ELSE Outstanding(i)
<1>1. release[t].pc = "debited" /\ paid' = [paid EXCEPT ![t] = @ + 1] /\ sent' = sent
  BY DEF ReleaseCommit
<1>2. /\ paid \in [Tasks -> Nat] /\ sent \subseteq Tasks
  BY DEF PoolInv, PoolTypeOK
<1>3. \A u \in sent : paid'[u] = 0 <=> u # t /\ paid[u] = 0
  BY <1>1, <1>2
<1>4. CASE i # t[2]
  <2>1. Owed(i)' = Owed(i)
    BY <1>1, <1>3, <1>4 DEF Owed
  <2> QED
    BY <1>1, <1>4, <2>1 DEF Outstanding
<1>5. CASE i = t[2]
  <2>1. Owed(i)' = Owed(i) \ {t}
    BY <1>1, <1>3 DEF Owed
  <2>2. /\ t \in Owed(i) /\ Outstanding(i) = Pay[i] * Cardinality(Owed(i))
        /\ Cardinality(Owed(i)) \in Nat \ {0}
    BY <1>1, <1>5, TaskIsOwed
  <2>3. IsFiniteSet(Owed(i)) /\ Pay[i] \in Nat
    BY OwedCounted, PayAssumption DEF JobInv
  <2>4. Cardinality(Owed(i)') = Cardinality(Owed(i)) - 1
    BY <2>1, <2>2, <2>3, FS_RemoveElement
  <2>5. Outstanding(i)' = Pay[i] * Cardinality(Owed(i)')
    <3>1. \E u \in sent' : u[2] = i
      BY <1>1, <2>2 DEF Owed
    <3> QED
      BY <3>1 DEF Outstanding
  <2> DEFINE n == Cardinality(Owed(i))
  <2>6. n \in Nat \ {0} /\ Outstanding(i) = Pay[i] * n /\ Outstanding(i)' = Pay[i] * (n - 1)
    BY <2>2, <2>4, <2>5
  <2> HIDE DEF n
  <2>7. Pay[i] * (n - 1) = Pay[i] * n - Pay[i]
    BY <2>3, <2>6
  <2> QED
    BY <1>5, <2>6, <2>7
<1> QED
  BY <1>4, <1>5

-----------------------------------------------------------------------------
(* The escrow of a careful employer *)

\* Steps that move no money: what is outstanding may only become less.
LEMMA NothingMoves ==
  ASSUME CarefulInv, PoolTypeOK, UNCHANGED <<funded, escrow, release>>,
         \A j \in Jobs : Outstanding(j) \in Nat /\ Outstanding(j)' \in Nat
                         /\ Outstanding(j)' <= Outstanding(j)
  PROVE  CarefulInv'
<1>1. FirstAttempt'
  BY DEF CarefulInv, FirstAttempt
<1>2. PoolCovers'
  <2> SUFFICES ASSUME NEW j \in Jobs, funded[j] PROVE escrow[Owner[j]] >= Outstanding(j)'
    BY DEF PoolCovers
  <2>1. escrow[Owner[j]] >= Outstanding(j) /\ escrow[Owner[j]] \in Nat
    BY OwnerAssumption DEF CarefulInv, PoolCovers, PoolTypeOK
  <2>2. Outstanding(j) \in Nat /\ Outstanding(j)' \in Nat /\ Outstanding(j)' <= Outstanding(j)
    OBVIOUS
  <2>3. \A l, m, n \in Nat : l >= m /\ n <= m => l >= n
    OBVIOUS
  <2> QED
    BY <2>1, <2>2, <2>3
<1>3. TasksCover'
  <2> SUFFICES ASSUME NEW t \in Tasks, release[t].pc \in {"employer", "debited"}
               PROVE  release[t].escrow >= Outstanding(t[2])'
    BY DEF TasksCover
  <2>1. release[t].escrow >= Outstanding(t[2]) /\ release[t].escrow \in Nat
    BY DEF CarefulInv, TasksCover, PoolTypeOK, ReleaseStates
  <2>2. t[2] \in Jobs
    BY TaskParts
  <2>3. /\ Outstanding(t[2]) \in Nat /\ Outstanding(t[2])' \in Nat
        /\ Outstanding(t[2])' <= Outstanding(t[2])
    BY <2>2
  <2>4. \A l, m, n \in Nat : l >= m /\ n <= m => l >= n
    OBVIOUS
  <2> QED
    BY <2>1, <2>3, <2>4
<1> QED
  BY <1>1, <1>2, <1>3 DEF CarefulInv

\* Whoever funds a job writes an escrow that covers the job, however old the
\* escrow it had read.
LEMMA FundingCovers ==
  ASSUME CarefulInv, PoolTypeOK, JobPerEmployer, NEW j \in Jobs, NEW x \in Nat,
         \A i \in Jobs : Outstanding(i) \in Nat /\ Outstanding(i) <= Total(i),
         x >= Total(j),
         escrow' = [escrow EXCEPT ![Owner[j]] = x],
         funded' = [funded EXCEPT ![j] = TRUE],
         UNCHANGED <<sent, paid, release>>
  PROVE  CarefulInv'
<1>1. FirstAttempt'
  BY DEF CarefulInv, FirstAttempt
<1>2. PoolCovers'
  <2> SUFFICES ASSUME NEW i \in Jobs, funded'[i] PROVE escrow'[Owner[i]] >= Outstanding(i)
    BY OutstandingKept DEF PoolCovers
  <2>t. /\ Owner[i] \in Employers /\ escrow \in [Employers -> Nat]
        /\ funded \in [Jobs -> BOOLEAN] /\ Outstanding(i) \in Nat /\ Total(i) \in Nat
    BY OwnerAssumption, Amounts DEF PoolTypeOK
  <2>1. CASE i = j
    <3>1. escrow'[Owner[i]] = x /\ x >= Total(i)
      BY <2>1, <2>t
    <3>2. Outstanding(i) <= Total(i)
      OBVIOUS
    <3> QED
      BY <2>t, <3>1, <3>2
  <2>2. CASE i # j
    <3>1. Owner[i] # Owner[j]
      BY <2>2 DEF JobPerEmployer
    <3>2. funded[i] /\ escrow'[Owner[i]] = escrow[Owner[i]]
      BY <2>2, <2>t, <3>1
    <3> QED
      BY <3>2 DEF CarefulInv, PoolCovers
  <2> QED
    BY <2>1, <2>2
<1>3. TasksCover'
  <2> SUFFICES ASSUME NEW t \in Tasks, release[t].pc \in {"employer", "debited"}
               PROVE  release[t].escrow >= Outstanding(t[2])'
    BY DEF TasksCover
  <2>1. Outstanding(t[2])' = Outstanding(t[2])
    BY TaskParts, OutstandingKept
  <2> QED
    BY <2>1 DEF CarefulInv, TasksCover
<1> QED
  BY <1>1, <1>2, <1>3 DEF CarefulInv

\* A task that moves on without paying keeps the escrow it remembers.
LEMMA TaskMoves ==
  ASSUME CarefulInv, PoolTypeOK, NEW t \in Tasks, NEW new,
         new.tries = 0, new.pc # "failed",
         new.pc \in {"employer", "debited"} => new.escrow >= Outstanding(t[2]),
         release' = [release EXCEPT ![t] = new],
         UNCHANGED <<funded, sent, escrow, paid>>
  PROVE  CarefulInv'
<1>1. \A u \in Tasks : release'[u] = IF u = t THEN new ELSE release[u]
  BY DEF PoolTypeOK
<1>2. FirstAttempt'
  BY <1>1 DEF CarefulInv, FirstAttempt
<1>3. PoolCovers'
  BY OutstandingKept DEF CarefulInv, PoolCovers
<1>4. TasksCover'
  <2> SUFFICES ASSUME NEW u \in Tasks, release'[u].pc \in {"employer", "debited"}
               PROVE  release'[u].escrow >= Outstanding(u[2])'
    BY DEF TasksCover
  <2>1. Outstanding(u[2])' = Outstanding(u[2])
    BY TaskParts, OutstandingKept
  <2>2. CASE u = t
    BY <1>1, <2>1, <2>2
  <2>3. CASE u # t
    BY <1>1, <2>1, <2>3 DEF CarefulInv, TasksCover
  <2> QED
    BY <2>2, <2>3
<1> QED
  BY <1>2, <1>3, <1>4 DEF CarefulInv

\* The commit of a payment writes an escrow from which, at most, the pay of
\* one worker is missing, and that is what it paid.
LEMMA PaymentCovers ==
  ASSUME CarefulInv, JobInv, PoolInv, PaidAtCommit, NotOverfull, OneCompletion,
         JobPerEmployer, NEW t \in Tasks, ReleaseCommit(t)
  PROVE  CarefulInv'
<1> DEFINE j == t[2]
           new == [release[t] EXCEPT !.pc = "committed", !.credit = 0, !.escrow = 0,
                                     !.platform = 0]
<1>1. /\ release[t].pc = "debited"
      /\ escrow' = [escrow EXCEPT ![Owner[j]] = release[t].escrow - Pay[j]]
      /\ release' = [release EXCEPT ![t] = new]
      /\ UNCHANGED <<funded, sent>>
  BY DEF ReleaseCommit, Gross
<1>t. PoolTypeOK
  BY DEF PoolInv
<1>2. /\ new.pc = "committed" /\ new.tries = release[t].tries
      /\ release[t].escrow \in Nat
  BY <1>t DEF PoolTypeOK, ReleaseStates
<1> HIDE DEF new
<1>3. \A u \in Tasks : release'[u] = IF u = t THEN new ELSE release[u]
  BY <1>1, <1>t DEF PoolTypeOK
<1>4. /\ j \in Jobs /\ Owner[j] \in Employers /\ Pay[j] \in Nat
      /\ Outstanding(j) \in Nat /\ Outstanding(j) >= Pay[j]
      /\ release[t].escrow >= Outstanding(j)
  BY <1>1, TaskParts, PayAssumption, TaskIsOwed DEF CarefulInv, TasksCover
<1> HIDE DEF j
<1>5. ASSUME NEW i \in Jobs
      PROVE  /\ Outstanding(i)' = IF i = j THEN Outstanding(i) - Pay[i] ELSE Outstanding(i)
             /\ Outstanding(i) \in Nat
  BY <1>5, PaymentLowers, OwedCounted DEF JobInv, j
<1>6. FirstAttempt'
  BY <1>2, <1>3 DEF CarefulInv, FirstAttempt
<1>7. PoolCovers'
  <2> SUFFICES ASSUME NEW i \in Jobs, funded[i] PROVE escrow'[Owner[i]] >= Outstanding(i)'
    BY <1>1 DEF PoolCovers
  <2>1. CASE i = j
    <3>1. escrow'[Owner[j]] = release[t].escrow - Pay[j]
      BY <1>1, <1>4, <1>t DEF PoolTypeOK
    <3>2. Outstanding(j)' = Outstanding(j) - Pay[j]
      BY <1>4, <1>5
    <3>3. release[t].escrow - Pay[j] >= Outstanding(j) - Pay[j]
      BY <1>2, <1>4
    <3> QED
      BY <2>1, <3>1, <3>2, <3>3
  <2>2. CASE i # j
    <3>1. Owner[i] # Owner[j] /\ Owner[i] \in Employers
      BY <1>4, <2>2, OwnerAssumption DEF JobPerEmployer
    <3>2. escrow'[Owner[i]] = escrow[Owner[i]]
      BY <1>1, <1>t, <3>1 DEF PoolTypeOK
    <3>3. Outstanding(i)' = Outstanding(i)
      BY <1>5, <2>2
    <3> QED
      BY <3>2, <3>3 DEF CarefulInv, PoolCovers
  <2> QED
    BY <2>1, <2>2
<1>8. TasksCover'
  <2> SUFFICES ASSUME NEW u \in Tasks, release'[u].pc \in {"employer", "debited"}
               PROVE  release'[u].escrow >= Outstanding(u[2])'
    BY DEF TasksCover
  <2>1. u # t /\ release'[u] = release[u]
    BY <1>2, <1>3
  <2>2. release[u].escrow >= Outstanding(u[2]) /\ release[u].escrow \in Nat /\ u[2] \in Jobs
    BY <1>t, <2>1, TaskParts DEF CarefulInv, TasksCover, PoolTypeOK, ReleaseStates
  <2>3. Outstanding(u[2]) \in Nat /\ Outstanding(u[2])' <= Outstanding(u[2])
        /\ Outstanding(u[2])' \in Int
    <3>1. Outstanding(u[2]) \in Nat
      BY <1>5, <2>2
    <3>2. Outstanding(u[2])' \in {Outstanding(u[2]) - Pay[j], Outstanding(u[2])}
      BY <1>5, <2>2
    <3>3. \A m \in Nat, p \in Nat : \A n \in {m - p, m} : n <= m /\ n \in Int
      OBVIOUS
    <3> QED
      BY <1>4, <3>1, <3>2, <3>3
  <2>4. \A l \in Nat, m \in Nat, n \in Int : l >= m /\ n <= m => l >= n
    OBVIOUS
  <2> QED
    BY <2>1, <2>2, <2>3, <2>4
<1> QED
  BY <1>6, <1>7, <1>8 DEF CarefulInv

LEMMA QueueChanges ==
  ASSUME ~Faults, JobStep
  PROVE  \/ UNCHANGED sent
         \/ \E k \in CompleteClicks, j \in Jobs : CompleteCommit(k, j)
<1>1. ASSUME NEW k \in AcceptClicks, NEW j \in Jobs, NEW w \in Workers,
             \/ AcceptCheck(k, j, w)    \/ AcceptInsert(k, j, w)
             \/ AcceptConflict(k, j, w) \/ AcceptCommit(k, j, w)
      PROVE  UNCHANGED sent
  BY <1>1 DEF AcceptCheck, AcceptInsert, AcceptConflict, AcceptCommit
<1>2. ASSUME NEW k \in CompleteClicks, NEW j \in Jobs,
             \/ \E only \in {Workers} \cup {{w} : w \in Workers} : CompleteCheck(k, j, only)
             \/ CompleteExists(k, j) \/ CompleteCapture(k, j) \/ CompleteUpdate(k, j)
      PROVE  UNCHANGED sent
  BY <1>2 DEF CompleteCheck, CompleteExists, CompleteCapture, CompleteUpdate
<1>3. \A k \in CompleteClicks, j \in Jobs : ~CompleteRollback(k, j)
  BY DEF CompleteRollback
<1> QED
  BY <1>1, <1>2, <1>3 DEF JobStep

LEMMA CarefulInvStep ==
  ASSUME Careful, JobInv, PoolInv, PaidAtCommit, SentIsDone, NotOverfull, CarefulInv, [Next]_vars
  PROVE  CarefulInv'
<1>c. ~Faults /\ OneCompletion /\ JobPerEmployer /\ TransfersCover
  BY DEF Careful
<1>t. PoolTypeOK /\ JobTypeOK
  BY DEF PoolInv, JobInv
<1>o. \A j \in Jobs : Outstanding(j) \in Nat /\ Outstanding(j) <= Total(j)
  BY <1>c, OwedCounted DEF JobInv
<1>1. ASSUME UNCHANGED <<funded, sent, escrow, release, paid>> PROVE CarefulInv'
  <2>1. \A j \in Jobs : Outstanding(j)' = Outstanding(j)
    BY <1>1, OutstandingKept
  <2>2. \A m, n : m \in Nat /\ n = m => n \in Nat /\ n <= m
    OBVIOUS
  <2>3. \A j \in Jobs : Outstanding(j) \in Nat /\ Outstanding(j)' \in Nat
                        /\ Outstanding(j)' <= Outstanding(j)
    BY <1>o, <2>1, <2>2
  <2> QED
    BY <1>1, <1>t, <2>3, NothingMoves
<1>2. CASE JobStep /\ UNCHANGED poolPrivate
  <2>1. UNCHANGED <<funded, escrow, release, paid>>
    BY <1>2, JobStepKeeps DEF poolPrivate, wallets, ledger
  <2>2. CASE UNCHANGED sent
    BY <1>1, <2>1, <2>2
  <2>3. ASSUME NEW k \in CompleteClicks, NEW j \in Jobs, CompleteCommit(k, j)
        PROVE  CarefulInv'
    <3>1. \A i \in Jobs : Outstanding(i)' \in Nat /\ Outstanding(i)' <= Outstanding(i)
      BY <1>c, <1>t, <2>1, <2>3, CompletionLowers
    <3> QED
      BY <1>o, <1>t, <2>1, <3>1, NothingMoves
  <2> QED
    BY <1>2, <1>c, <2>2, <2>3, QueueChanges
<1>3. ASSUME NEW r \in FundRequests, FundReadJob(r) \/ FundStep(r)
      PROVE  CarefulInv'
  <2>1. CASE FundReadJob(r) \/ FundReadWallet(r) \/ FundWriteWallet(r)
    BY <1>1, <2>1 DEF FundReadJob, FundReadWallet, FundWriteWallet, wallets, ledger
  <2>2. CASE FundCommit(r)
    <3> DEFINE x == fund[r].escrow + Total(r[2])
    <3>1. r[2] \in Jobs /\ Total(r[2]) \in Nat /\ fund[r].escrow \in Nat
      BY <1>t, FundParts, Amounts DEF PoolTypeOK, FundStates
    <3>2. x \in Nat /\ x >= Total(r[2])
      BY <3>1
    <3>3. /\ escrow' = [escrow EXCEPT ![Owner[r[2]]] = x]
          /\ funded' = [funded EXCEPT ![r[2]] = TRUE]
          /\ UNCHANGED <<sent, paid, release>>
      BY <2>2 DEF FundCommit
    <3> HIDE DEF x
    <3> QED
      BY <1>c, <1>o, <1>t, <3>1, <3>2, <3>3, FundingCovers
  <2> QED
    BY <1>3, <2>1, <2>2 DEF FundStep
<1>4. ASSUME NEW p \in Payments, MatchPick(p) \/ MatchStep(p)
      PROVE  CarefulInv'
  <2>1. CASE MatchPick(p) \/ MatchWriteJob(p) \/ MatchReadWallet(p)
    BY <1>1, <2>1 DEF MatchPick, MatchWriteJob, MatchReadWallet, wallets, ledger
  <2>2. CASE MatchCommit(p)
    <3> DEFINE x == match[p].escrow + Amount[p]
               j == Reference[p]
    <3>1. j \in Jobs /\ Total(j) \in Nat /\ match[p].escrow \in Nat /\ Amount[p] \in Nat
      BY <1>t, ReferenceAssumption, AmountAssumption, Amounts DEF PoolTypeOK, MatchStates
    <3>2. x \in Nat /\ x >= Total(j)
      <4>1. Amount[p] >= Total(j)
        BY <1>c DEF TransfersCover
      <4> QED
        BY <3>1, <4>1
    <3>3. /\ escrow' = [escrow EXCEPT ![Owner[j]] = x]
          /\ funded' = [funded EXCEPT ![j] = TRUE]
          /\ UNCHANGED <<sent, paid, release>>
      BY <2>2 DEF MatchCommit
    <3> HIDE DEF x, j
    <3> QED
      BY <1>c, <1>o, <1>t, <3>1, <3>2, <3>3, FundingCovers
  <2> QED
    BY <1>4, <2>1, <2>2 DEF MatchStep
<1>5. ASSUME NEW r \in FundRequests, NEW p \in Payments, BreakDeadlock(r, p)
      PROVE  CarefulInv'
  BY <1>1, <1>5 DEF BreakDeadlock, wallets, ledger
<1>6. ASSUME NEW t \in Tasks, ReleaseStep(t)
      PROVE  CarefulInv'
  <2>r. release[t] \in ReleaseStates /\ release[t].tries = 0
    BY <1>t DEF PoolTypeOK, CarefulInv, FirstAttempt
  <2>1. CASE ReleaseReadWorker(t)
    <3> DEFINE new == [release[t] EXCEPT !.pc = "worker", !.credit = credit[t[3]]]
    <3>1. release' = [release EXCEPT ![t] = new] /\ UNCHANGED <<funded, sent, escrow, paid>>
      BY <2>1 DEF ReleaseReadWorker, wallets, ledger
    <3>2. new.pc = "worker" /\ new.tries = 0
      BY <2>r DEF ReleaseStates
    <3> HIDE DEF new
    <3> QED
      BY <1>t, <3>1, <3>2, TaskMoves
  <2>2. CASE ReleaseReadEmployer(t)
    <3> DEFINE e == Owner[t[2]]
               new == [release[t] EXCEPT !.pc = "employer", !.escrow = escrow[e]]
    <3>1. release[t].pc = "worker" /\ UNCHANGED <<funded, sent, escrow, paid>>
      BY <2>2 DEF ReleaseReadEmployer, wallets, ledger
    <3>2. funded[t[2]] /\ Outstanding(t[2]) \in Nat /\ Outstanding(t[2]) >= Pay[t[2]]
      BY <1>c, <3>1, TaskIsOwed
    <3>3. t[2] \in Jobs /\ e \in Employers /\ Pay[t[2]] \in Nat /\ escrow[e] \in Nat
      BY <1>t, TaskParts, PayAssumption DEF PoolTypeOK
    <3>4. escrow[e] >= Outstanding(t[2])
      BY <3>2, <3>3 DEF CarefulInv, PoolCovers
    <3>5. Covers(e, t[2])
      <4>1. \A l, m, n \in Nat : l >= m /\ m >= n => l >= n
        OBVIOUS
      <4>2. escrow[e] >= Pay[t[2]]
        BY <3>2, <3>3, <3>4, <4>1
      <4> QED
        BY <4>2 DEF Covers
    <3>6. release' = [release EXCEPT ![t] = new]
      BY <2>2, <3>5 DEF ReleaseReadEmployer
    <3>7. new.pc = "employer" /\ new.tries = 0 /\ new.escrow = escrow[e]
      BY <2>r DEF ReleaseStates
    <3> HIDE DEF new, e
    <3> QED
      BY <1>t, <3>1, <3>4, <3>6, <3>7, TaskMoves
  <2>3. CASE ReleaseDebit(t)
    <3> DEFINE new == [release[t] EXCEPT !.pc = "debited", !.platform = platform]
    <3>1. /\ release' = [release EXCEPT ![t] = new] /\ release[t].pc = "employer"
          /\ UNCHANGED <<funded, sent, escrow, paid>>
      BY <2>3 DEF ReleaseDebit, wallets, ledger
    <3>2. new.pc = "debited" /\ new.tries = 0 /\ new.escrow = release[t].escrow
      BY <2>r DEF ReleaseStates
    <3> HIDE DEF new
    <3>3. new.escrow >= Outstanding(t[2])
      BY <3>1, <3>2 DEF CarefulInv, TasksCover
    <3> QED
      BY <1>t, <3>1, <3>2, <3>3, TaskMoves
  <2>4. CASE ReleaseNotify(t)
    <3> DEFINE new == [release[t] EXCEPT !.pc = "done"]
    <3>1. release' = [release EXCEPT ![t] = new] /\ UNCHANGED <<funded, sent, escrow, paid>>
      BY <2>4 DEF ReleaseNotify, wallets, ledger
    <3>2. new.pc = "done" /\ new.tries = 0
      BY <2>r DEF ReleaseStates
    <3> HIDE DEF new
    <3> QED
      BY <1>t, <3>1, <3>2, TaskMoves
  <2>5. CASE ReleaseCommit(t)
    BY <1>c, <2>5, PaymentCovers
  <2> QED
    BY <1>6, <2>1, <2>2, <2>3, <2>4, <2>5 DEF ReleaseStep
<1>7. CASE PoolStep
  <2>1. \A t \in Tasks : ~ReleaseNotifyFails(t) /\ ~ReleaseKilled(t)
    BY <1>c DEF ReleaseNotifyFails, ReleaseKilled
  <2> QED
    BY <1>3, <1>4, <1>5, <1>6, <1>7, <2>1 DEF PoolStep
<1>8. CASE UNCHANGED vars
  BY <1>1, <1>8 DEF vars, poolPrivate, wallets, ledger
<1> QED
  BY <1>2, <1>7, <1>8 DEF Next

LEMMA CarefulInvariant == ASSUME Careful PROVE Spec /\ []NotOverfull => []CarefulInv
<1>1. Init => CarefulInv
  BY DEF Init, PoolInit, CarefulInv, FirstAttempt, PoolCovers, TasksCover
<1>2. JobInv /\ PoolInv /\ PaidAtCommit /\ SentIsDone /\ NotOverfull /\ CarefulInv /\ [Next]_vars
        => CarefulInv'
  BY CarefulInvStep
<1>3. ~Faults
  BY DEF Careful
<1>4. Spec => []JobInv /\ []PoolInv
  BY ImplementsJobSpec, ImplementsPoolSpec, JobInvariant, PoolInvariant, PTL
<1>5. JobSpec => []SentIsDone
  BY <1>3, SentIsDoneInvariant
<1>6. PoolSpec => []PaidAtCommit
  BY <1>3, PaidAtCommitInvariant
<1> QED
  BY <1>1, <1>2, <1>4, <1>5, <1>6, ImplementsJobSpec, ImplementsPoolSpec, PTL DEF Spec

\* Every release task of a careful employer finds the pool large enough, however
\* fund requests, transfers and releases overwrite one another's escrow.
THEOREM EscrowIsEnough ==
  ASSUME Careful
  PROVE  Spec /\ []NotOverfull => []EscrowCoversReleases
<1>1. JobInv /\ PoolInv /\ NotOverfull /\ CarefulInv => EscrowCoversReleases
  <2> SUFFICES ASSUME JobInv, PoolInv, NotOverfull, CarefulInv, NEW e \in Employers
               PROVE  escrow[e] >= MapThenSumSet(LAMBDA t : Pay[t[2]],
                                      {t \in sent : Owner[t[2]] = e /\ paid[t] = 0})
    BY DEF EscrowCoversReleases
  <2> DEFINE S == {t \in sent : Owner[t[2]] = e /\ paid[t] = 0}
  <2>t. escrow[e] \in Nat /\ \A t \in sent : t[2] \in Jobs /\ t[3] \in Workers
    BY TaskParts DEF PoolInv, PoolTypeOK
  <2>1. CASE S = {}
    <3> DEFINE none == 0
    <3>1. /\ IsFiniteSet(S) /\ Cardinality(S) = 0
          /\ none \in Nat /\ \A t \in S : Pay[t[2]] = none
      BY <2>1, FS_EmptySet
    <3> HIDE DEF S, none
    <3>2. MapThenSumSet(LAMBDA t : Pay[t[2]], S) = none * Cardinality(S)
      BY <3>1, SumOfEqual
    <3> QED
      BY <2>t, <3>1, <3>2 DEF S
  <2>2. ASSUME NEW u \in S
        PROVE  escrow[e] >= MapThenSumSet(LAMBDA t : Pay[t[2]], S)
    <3> DEFINE j == u[2]
    <3>1. j \in Jobs /\ Owner[j] = e /\ u \in sent /\ u[3] \in Workers
      BY <2>t
    <3>2. S = Owed(j)
      BY <2>t, <3>1 DEF Owed, Careful, JobPerEmployer
    <3>3. u[3] \in Applied(j)
      BY <3>1 DEF JobInv, ReleaseOnlyForAccepted, Applied
    <3>4. funded[j]
      BY <3>1, <3>3 DEF JobInv, FundedBeforeAccepted
    <3>5. IsFiniteSet(S) /\ Pay[j] \in Nat /\ \A t \in S : Pay[t[2]] = Pay[j]
      BY <3>1, <3>2, OwedCounted, PayAssumption DEF JobInv, Owed, Careful
    <3>6. Outstanding(j) = Pay[j] * Cardinality(S)
      BY <3>1, <3>2 DEF Outstanding
    <3>7. escrow[e] >= Outstanding(j)
      BY <3>1, <3>4 DEF CarefulInv, PoolCovers
    <3> HIDE DEF S
    <3>8. MapThenSumSet(LAMBDA t : Pay[t[2]], S) = Pay[j] * Cardinality(S)
      BY <3>5, SumOfEqual
    <3> QED
      BY <3>6, <3>7, <3>8
  <2> QED
    BY <2>1, <2>2
<1> QED
  BY <1>1, CarefulInvariant, ImplementsJobSpec, ImplementsPoolSpec, JobInvariant, PoolInvariant, PTL

\* As long as no two acceptances of a job overlap, that is all it takes.
THEOREM EscrowIsEnoughOneAtATime ==
  ASSUME Careful, \A j \in Jobs : Needed[j] > 0
  PROVE  Spec /\ []OneAtATime => []EscrowCoversReleases
<1>1. Spec /\ []NotOverfull => []EscrowCoversReleases
  BY EscrowIsEnough
<1>2. JobSpec /\ []OneAtATime => []NotOverfull
  BY NeverOverfull
<1> QED
  BY <1>1, <1>2, ImplementsJobSpec, PTL

\* Hence no release task of a careful employer is ever tried again, or fails.
THEOREM ReleasesSucceed ==
  ASSUME Careful
  PROVE  Spec /\ []NotOverfull => []FirstAttempt
<1>1. CarefulInv => FirstAttempt
  BY DEF CarefulInv
<1> QED
  BY <1>1, CarefulInvariant, PTL

-----------------------------------------------------------------------------
(* The promise *)

\* The tasks that have paid, and the payment each of them made.
PaidTasks  == {t \in Tasks : paid[t] = 1}
Payment(t) == <<t[2], t[3], <<t[1], 1>>>>

LEMMA PayoutsOfTasks == PaidAtCommit => Payouts = {Payment(u) : u \in PaidTasks}
<1> SUFFICES ASSUME PaidAtCommit PROVE Payouts = {Payment(t) : t \in PaidTasks}
  OBVIOUS
<1>1. \A t \in Tasks : paid[t] = 0 \/ paid[t] = 1
  BY DEF PaidAtCommit
<1>2. ASSUME NEW p \in Payouts PROVE p \in {Payment(t) : t \in PaidTasks}
  <2>1. PICK t \in Tasks : p \in {<<t[2], t[3], <<t[1], n>>>> : n \in 1..paid[t]}
    BY DEF Payouts
  <2>2. PICK n \in 1..paid[t] : p = <<t[2], t[3], <<t[1], n>>>>
    BY <2>1
  <2>3. paid[t] = 1 /\ n = 1
    BY <1>1, <2>2
  <2> QED
    BY <2>2, <2>3 DEF PaidTasks, Payment
<1>3. ASSUME NEW t \in PaidTasks PROVE Payment(t) \in Payouts
  <2>1. t \in Tasks /\ paid[t] = 1 /\ 1 \in 1..paid[t]
    BY DEF PaidTasks
  <2> QED
    BY <2>1 DEF Payouts, Payment
<1> QED
  BY <1>2, <1>3

LEMMA PromiseInit == Init => Promise!Init
<1> SUFFICES ASSUME Init PROVE Due = {} /\ Payouts = {}
  BY DEF Promise!Init
<1>1. sent = {} /\ \A t \in Tasks : paid[t] = 0
  BY DEF Init, PoolInit
<1> QED
  BY <1>1 DEF Due, Payouts

\* A completion confirms the workers it captured.
LEMMA CompletionConfirms ==
  ASSUME JobTypeOK, NEW k \in CompleteClicks, NEW j \in Jobs, CompleteCommit(k, j),
         UNCHANGED paid
  PROVE  Promise!Next
<1>1. /\ sent' = sent \cup ({k} \X {j} \X complete[k, j].ids)
      /\ complete[k, j].ids \in SUBSET Workers
  BY DEF CompleteCommit, JobTypeOK, CompleteRequests, Completions
<1>2. Due' = Due \cup {<<j, w>> : w \in complete[k, j].ids}
  <2>1. ASSUME NEW p \in Due' PROVE p \in Due \cup {<<j, w>> : w \in complete[k, j].ids}
    BY <1>1, <2>1 DEF Due
  <2>2. ASSUME NEW p \in Due PROVE p \in Due'
    BY <1>1, <2>2 DEF Due
  <2>3. ASSUME NEW w \in complete[k, j].ids PROVE <<j, w>> \in Due'
    <3>1. PICK t \in sent' : t = <<k, j, w>>
      BY <1>1
    <3>2. <<t[2], t[3]>> \in Due'
      BY DEF Due
    <3> QED
      BY <3>1, <3>2
  <2> QED
    BY <2>1, <2>2, <2>3
<1>3. Payouts' = Payouts
  BY DEF Payouts
<1>4. Promise!Confirm(j, complete[k, j].ids)
  BY <1>2, <1>3 DEF Promise!Confirm
<1> QED
  BY <1>1, <1>4 DEF Promise!Next

\* The commit of a release task pays a confirmed worker who was not paid.
LEMMA ReleasePaysOut ==
  ASSUME PoolInv, PaidAtCommit, PaidAtCommit', OneCompletion, NEW t \in Tasks, ReleaseCommit(t)
  PROVE  Promise!Next
<1>1. /\ release[t].pc = "debited" /\ sent' = sent
      /\ paid' = [paid EXCEPT ![t] = @ + 1]
  BY DEF ReleaseCommit
<1>2. t \in sent /\ paid[t] = 0
  BY <1>1 DEF PoolInv, Attempts, PaidAtCommit
<1>3. t[1] \in CompleteClicks /\ t[2] \in Jobs /\ t[3] \in Workers
  BY DEF Tasks
<1>4. PaidTasks' = PaidTasks \cup {t}
  <2>1. paid \in [Tasks -> Nat]
    BY DEF PoolInv, PoolTypeOK
  <2>2. \A u \in Tasks : paid'[u] = 1 <=> u = t \/ paid[u] = 1
    BY <1>1, <1>2, <2>1
  <2> QED
    BY <2>2 DEF PaidTasks
<1>5. Payouts' = Payouts \cup {Payment(t)}
  <2>1. Payouts' = {Payment(u) : u \in PaidTasks'}
    <3>1. (PaidAtCommit => Payouts = {Payment(u) : u \in PaidTasks})'
      BY PayoutsOfTasks, PTL
    <3> QED
      BY <3>1 DEF Payment
  <2> QED
    BY <1>4, <2>1, PayoutsOfTasks
<1>6. <<t[2], t[3]>> \in Due
  BY <1>2 DEF Due
<1>7. \A p \in Payouts : <<p[1], p[2]>> # <<t[2], t[3]>>
  <2> SUFFICES ASSUME NEW u \in PaidTasks, u[2] = t[2], u[3] = t[3] PROVE FALSE
    BY PayoutsOfTasks DEF Payment
  <2>1. u = t
    BY DEF PaidTasks, Tasks, OneCompletion
  <2> QED
    BY <1>2, <2>1 DEF PaidTasks
<1>8. <<t[1], 1>> \in CompleteClicks \X (1 .. MaxRetries + 1)
  BY <1>3, RetriesAssumption
<1>9. Promise!PayOut(t[2], t[3])
  <2>1. Due' = Due
    BY <1>1 DEF Due
  <2> QED
    BY <1>5, <1>6, <1>7, <1>8, <2>1 DEF Promise!PayOut, Payment
<1> QED
  BY <1>3, <1>9 DEF Promise!Next

LEMMA PromiseStep ==
  ASSUME JobTypeOK, PoolInv, PaidAtCommit, PaidAtCommit', ~Faults, OneCompletion, [Next]_vars
  PROVE  [Promise!Next]_(Promise!vars)
<1>1. ASSUME UNCHANGED <<sent, paid>> PROVE UNCHANGED Promise!vars
  BY <1>1 DEF Promise!vars, Due, Payouts
<1>2. CASE JobStep /\ UNCHANGED poolPrivate
  <2>1. UNCHANGED paid
    BY <1>2 DEF poolPrivate, ledger
  <2> QED
    BY <1>1, <1>2, <2>1, QueueChanges, CompletionConfirms
<1>3. ASSUME NEW r \in FundRequests, FundReadJob(r) \/ FundStep(r)
      PROVE  UNCHANGED <<sent, paid>>
  BY <1>3 DEF FundStep, FundReadJob, FundReadWallet, FundWriteWallet, FundCommit, ledger
<1>4. ASSUME NEW p \in Payments, MatchPick(p) \/ MatchStep(p)
      PROVE  UNCHANGED <<sent, paid>>
  BY <1>4 DEF MatchStep, MatchPick, MatchWriteJob, MatchReadWallet, MatchCommit, ledger
<1>5. ASSUME NEW r \in FundRequests, NEW p \in Payments, BreakDeadlock(r, p)
      PROVE  UNCHANGED <<sent, paid>>
  BY <1>5 DEF BreakDeadlock, ledger
<1>6. ASSUME NEW t \in Tasks, ReleaseStep(t), ~ReleaseCommit(t)
      PROVE  UNCHANGED <<sent, paid>>
  BY <1>6 DEF ReleaseStep, ReleaseReadWorker, ReleaseReadEmployer, ReleaseDebit, ReleaseNotify,
     ledger
<1>7. CASE PoolStep
  <2>1. \A t \in Tasks : ~ReleaseNotifyFails(t) /\ ~ReleaseKilled(t)
    BY DEF ReleaseNotifyFails, ReleaseKilled
  <2> QED
    BY <1>1, <1>3, <1>4, <1>5, <1>6, <1>7, <2>1, ReleasePaysOut DEF PoolStep
<1>8. CASE UNCHANGED vars
  BY <1>1, <1>8 DEF vars, poolPrivate, ledger
<1> QED
  BY <1>2, <1>7, <1>8 DEF Next

\* Whatever else overlaps, an employer who confirms a job once, on a platform
\* where nothing fails in the middle, gets the safety half of the promise: only
\* confirmed workers are paid, each once.  That each is paid in the end needs
\* fairness, and is checked by TLC.
THEOREM ImplementsPromise ==
  ASSUME ~Faults, OneCompletion
  PROVE  Spec => Promise!SafetySpec
<1>1. JobTypeOK /\ PoolInv /\ PaidAtCommit /\ PaidAtCommit' /\ [Next]_vars
        => [Promise!Next]_(Promise!vars)
  BY PromiseStep
<1>2. Spec => []JobTypeOK /\ []PoolInv
  BY ImplementsJobSpec, ImplementsPoolSpec, JobTypesHold, PoolInvariant, PTL
<1>3. Spec => []PaidAtCommit
  BY ImplementsPoolSpec, PaidAtCommitInvariant, PTL
<1> QED
  BY <1>1, <1>2, <1>3, PromiseInit, PTL DEF Spec, Promise!SafetySpec

-----------------------------------------------------------------------------
(* What a worker gets for a job *)

\* A worker has at most one release task for a job, and what it brought is the
\* sum over the tasks.
LEMMA SumOfOneTask ==
  ASSUME PoolTypeOK, NEW j \in Jobs, NEW t \in Tasks
  PROVE  MapThenSumSet(LAMBDA u : paid[u] * Net(j), {t}) = paid[t] * Net(j)
<1> DEFINE n == paid[t] * Net(j)
           Sums(f) == f = [s \in SUBSET {t} |->
              IF s = {} THEN 0
              ELSE LET x == CHOOSE y \in s : TRUE IN paid[x] * Net(j) + f[s \ {x}]]
           witness == [s \in SUBSET {t} |-> IF s = {} THEN 0 ELSE n]
<1>1. n \in Nat
  BY Amounts DEF PoolTypeOK
<1>2. MapThenSumSet(LAMBDA u : paid[u] * Net(j), {t}) = (CHOOSE f : Sums(f))[{t}]
  BY DEF MapThenSumSet, MapThenFoldSet
<1>3. (CHOOSE y \in {t} : TRUE) = t /\ {t} \ {t} = {} /\ {} \in SUBSET {t}
      /\ {t} \in SUBSET {t} /\ {t} # {} /\ \A s \in SUBSET {t} : s = {} \/ s = {t}
  OBVIOUS
<1>4. Sums(witness)
  <2>1. ASSUME NEW s \in SUBSET {t}
        PROVE  witness[s] = IF s = {} THEN 0
                            ELSE LET x == CHOOSE y \in s : TRUE
                                 IN  paid[x] * Net(j) + witness[s \ {x}]
    <3>1. CASE s = {}
      BY <3>1
    <3>2. CASE s = {t}
      <4>1. witness[{}] = 0 /\ witness[{t}] = n /\ n + 0 = n
        BY <1>1, <1>3
      <4>2. (CHOOSE y \in s : TRUE) = t /\ s \ {t} = {} /\ s # {}
        BY <1>3, <3>2
      <4> HIDE DEF witness
      <4> QED
        BY <3>2, <4>1, <4>2
    <3> QED
      BY <1>3, <3>1, <3>2
  <2> QED
    BY <2>1
<1> DEFINE sums == CHOOSE f : Sums(f)
<1>5. Sums(sums)
  BY <1>4
<1> HIDE DEF sums, n, witness
<1>6. sums[{}] = 0 /\ sums[{t}] = n + sums[{}]
  BY <1>3, <1>5 DEF n
<1>7. sums[{t}] = n
  BY <1>1, <1>6
<1> QED
  BY <1>2, <1>7 DEF sums, n

LEMMA SumOfNoTask ==
  ASSUME NEW j \in Jobs
  PROVE  MapThenSumSet(LAMBDA u : paid[u] * Net(j), {}) = 0
<1> DEFINE Sums(f) == f = [s \in SUBSET {} |->
              IF s = {} THEN 0
              ELSE LET x == CHOOSE y \in s : TRUE IN paid[x] * Net(j) + f[s \ {x}]]
<1>1. MapThenSumSet(LAMBDA u : paid[u] * Net(j), {}) = (CHOOSE f : Sums(f))[{}]
  BY DEF MapThenSumSet, MapThenFoldSet
<1>2. Sums([s \in SUBSET {} |-> 0])
  OBVIOUS
<1>3. Sums(CHOOSE f : Sums(f))
  BY <1>2
<1> DEFINE sums == CHOOSE f : Sums(f)
<1>4. Sums(sums)
  BY <1>3
<1> HIDE DEF sums
<1>5. sums[{}] = 0
  BY <1>4
<1> QED
  BY <1>1, <1>5 DEF sums

\* README.md:66 holds of an employer who confirms each job once, on a platform
\* where nothing fails: a worker gets 95% of the pay for it, once or not at all.
\* A repeated confirmation is all it takes to break it, as a run shows.
THEOREM NetIsPaidOnce ==
  ASSUME ~Faults, OneCompletion
  PROVE  Spec => []NetPaidOnce
<1>1. PoolTypeOK /\ PaidAtCommit => NetPaidOnce
  <2> SUFFICES ASSUME PoolTypeOK, PaidAtCommit, NEW j \in Jobs, NEW w \in Workers
               PROVE  MapThenSumSet(LAMBDA t : paid[t] * Net(j),
                                    {t \in Tasks : t[2] = j /\ t[3] = w}) \in {0, Net(j)}
    BY DEF NetPaidOnce
  <2> DEFINE S == {t \in Tasks : t[2] = j /\ t[3] = w}
  <2>1. CASE S = {}
    BY <2>1, SumOfNoTask
  <2>2. ASSUME NEW t \in S
        PROVE  MapThenSumSet(LAMBDA u : paid[u] * Net(j), S) \in {0, Net(j)}
    <3>1. S = {t}
      BY DEF Tasks, OneCompletion
    <3>2. t \in Tasks /\ paid[t] \in {0, 1} /\ Net(j) \in Nat
      BY Amounts DEF PaidAtCommit
    <3> HIDE DEF S
    <3>3. MapThenSumSet(LAMBDA u : paid[u] * Net(j), S) = paid[t] * Net(j)
      BY <3>1, <3>2, SumOfOneTask
    <3>4. paid[t] * Net(j) \in {0, Net(j)}
      BY <3>2
    <3> QED
      BY <3>3, <3>4
  <2> QED
    BY <2>1, <2>2
<1>2. Spec => []PaidAtCommit /\ []PoolTypeOK
  BY ImplementsPoolSpec, PaidAtCommitInvariant, PoolTypesHold, PTL
<1> QED
  BY <1>1, <1>2, PTL
=============================================================================
