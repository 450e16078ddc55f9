----------------------------- MODULE EscrowPool -----------------------------
(***************************************************************************)
(* The money behind the jobs: JobFundEscrowView, which moves the employer's *)
(* balance into escrow; match_escrow_payment_to_job, the Celery task that  *)
(* funds a job from a bank transfer; and release_escrow_for_job, the task  *)
(* that pays one worker.                                                   *)
(*                                                                         *)
(* escrow_balance is one number per employer, shared by all of its jobs.   *)
(* Every process reads the wallets it needs without a lock and later saves *)
(* the ABSOLUTE values it computed (save(update_fields=...)).  An UPDATE   *)
(* locks the row until its transaction ends: the locks below are those,    *)
(* and what a transaction wrote is seen by others when it commits.         *)
(*                                                                         *)
(* hold, released, earned and fees are sums of rows of the Transaction     *)
(* table.  heldOver and paidOver are history: they name the wallets whose  *)
(* row was written, by a hold or by a payment, while another process had   *)
(* read it and had not saved it yet.                                       *)
(***************************************************************************)
EXTENDS JobEscrowState

CONSTANTS
    FundClicks,     \* the fund-escrow requests an employer may send per job
    Payments,       \* the bank transfers into the escrow account
    Reference,      \* Reference[p]: the job whose reference p's narration has
    Amount,         \* Amount[p]: the amount transferred, in kobo
    Deposit,        \* Deposit[e]: what employer e's wallet holds at first
    FeePercent,     \* settings.PLATFORM_FEE_PERCENT
    PlatformExists, \* there is a wallet with settings.ARISE_WALLET_ID
    MaxRetries      \* release_escrow_for_job's max_retries

ASSUME ReferenceAssumption == Reference \in [Payments -> Jobs]
ASSUME AmountAssumption    == Amount \in [Payments -> Nat]
ASSUME DepositAssumption   == Deposit \in [Employers -> Nat]
ASSUME FeeAssumption       == FeePercent \in 0..100
ASSUME PlatformAssumption  == PlatformExists \in BOOLEAN
ASSUME RetriesAssumption   == MaxRetries \in Nat

VARIABLES
    balance,   \* balance[e]:  Wallet.balance of employer e
    escrow,    \* escrow[e]:   Wallet.escrow_balance of employer e
    credit,    \* credit[w]:   Wallet.balance of worker w, escrow pay only
    platform,  \* Wallet.balance of the platform
    hold,      \* hold[e]:     sum of the ESCROW_HOLD rows of e
    spent,     \* spent[e]:    the part of hold[e] that came out of e's balance
    released,  \* released[e]: sum of the ESCROW_RELEASE rows of e
    earned,    \* earned[w]:   sum of the CREDIT rows of w
    fees,      \* sum of the PLATFORM_FEE rows
    paid,      \* paid[t]:     how often task t has committed a payment
    heldOver,  \* employers for whom a hold was committed under another's hands
    paidOver,  \* wallets to which a release was committed under another's hands
    fund,      \* fund[r]:     progress of fund request r
    match,     \* match[p]:    progress of the task that handles transfer p
    release    \* release[t]:  progress of release task t

wallets     == <<balance, escrow, credit, platform>>
ledger      == <<hold, spent, released, earned, fees, paid, heldOver, paidOver>>
poolPrivate == <<wallets, ledger, fund, match, release>>
poolVars    == <<funded, sent, poolPrivate>>

\* A fund request r is about job r[2].
FundRequests  == FundClicks \X Jobs
FundStates    == [pc : {"idle", "job", "wallet", "locked", "done"}, balance : Nat, escrow : Nat]
MatchStates   == [pc : {"idle", "unmatched", "picked", "locked", "read", "done", "lost"},
                  escrow : Nat]
ReleaseStates == [pc : {"queued", "worker", "employer", "debited", "committed", "done", "failed"},
                  tries : 0..MaxRetries, credit : Nat, escrow : Nat, platform : Nat]

\* The platform's wallet, beside those of employers and workers.
Platform == "platform"

\* Mutant of Total: the pay of one worker only.
TotalOfOne(j) == Pay[j]

\* (pay_per_worker * workers_needed).quantize(0.01): exact, in kobo.
Total(j) == Pay[j] * Needed[j]

\* (gross * percent / 100).quantize(0.01), rounding half to even.
Fee(gross) ==
    LET whole == (gross * FeePercent) \div 100
        rest  == (gross * FeePercent) % 100
    IN  IF rest > 50 \/ (rest = 50 /\ whole % 2 = 1) THEN whole + 1 ELSE whole

Net(j) == Pay[j] - Fee(Pay[j])

\* Mutant of Gross: the employer's escrow is debited by what the worker gets.
GrossLessFee(j) == Net(j)

\* What the employer's escrow is debited for one worker.
Gross(j) == Pay[j]

PoolInit ==
    /\ funded   = [j \in Jobs |-> FALSE]
    /\ sent     = {}
    /\ balance  = Deposit
    /\ escrow   = [e \in Employers |-> 0]
    /\ credit   = [w \in Workers |-> 0]
    /\ platform = 0
    /\ hold     = [e \in Employers |-> 0]
    /\ spent    = [e \in Employers |-> 0]
    /\ released = [e \in Employers |-> 0]
    /\ earned   = [w \in Workers |-> 0]
    /\ fees     = 0
    /\ paid     = [t \in Tasks |-> 0]
    /\ heldOver = {}
    /\ paidOver = {}
    /\ fund     = [r \in FundRequests |-> [pc |-> "idle", balance |-> 0, escrow |-> 0]]
    /\ match    = [p \in Payments |-> [pc |-> "idle", escrow |-> 0]]
    /\ release  = [t \in Tasks |-> [pc |-> "queued", tries |-> 0, credit |-> 0,
                                    escrow |-> 0, platform |-> 0]]

-----------------------------------------------------------------------------
(* Row locks, held from an UPDATE to the end of its transaction *)

JobRowLocked(j) ==
    \E p \in Payments : match[p].pc \in {"locked", "read"} /\ Reference[p] = j

EmployerRowLocked(e) ==
    \/ \E r \in FundRequests : fund[r].pc = "locked" /\ Owner[r[2]] = e
    \/ \E t \in Tasks : release[t].pc = "debited" /\ Owner[t[2]] = e

WorkerRowLocked(w) ==
    \E t \in Tasks : release[t].pc = "debited" /\ t[3] = w

-----------------------------------------------------------------------------
(* Wallets in hand: read by a process that has not saved or given up yet *)

FundHas(r)  == IF fund[r].pc \in {"wallet", "locked"} THEN {Owner[r[2]]} ELSE {}
MatchHas(p) == IF match[p].pc = "read" THEN {Owner[Reference[p]]} ELSE {}

ReleaseHas(t) ==
    CASE release[t].pc = "worker"   -> {t[3]}
      [] release[t].pc = "employer" -> {t[3], Owner[t[2]]}
      [] release[t].pc = "debited"  -> {t[3], Owner[t[2]], Platform}
      [] OTHER -> {}

InHand(F, P, T) ==
    (UNION {FundHas(r) : r \in F}) \cup (UNION {MatchHas(p) : p \in P})
      \cup (UNION {ReleaseHas(t) : t \in T})

-----------------------------------------------------------------------------
(* JobFundEscrowView *)

FundReadJob(r) ==
    /\ fund[r].pc = "idle"
    /\ ~funded[r[2]]
    /\ fund' = [fund EXCEPT ![r].pc = "job"]
    /\ UNCHANGED <<funded, sent, wallets, ledger, match, release>>

\* The wallet is read after the job; too small a balance is refused.
FundReadWallet(r) ==
    LET j == r[2]
        e == Owner[j]
    IN
    /\ fund[r].pc = "job"
    /\ fund' = [fund EXCEPT ![r] =
                  IF balance[e] < Total(j)
                  THEN [pc |-> "done", balance |-> 0, escrow |-> 0]
                  ELSE [pc |-> "wallet", balance |-> balance[e], escrow |-> escrow[e]]]
    /\ UNCHANGED <<funded, sent, wallets, ledger, match, release>>

\* wallet.debit() and wallet.save() write the wallet row.
FundWriteWallet(r) ==
    /\ fund[r].pc = "wallet"
    /\ ~EmployerRowLocked(Owner[r[2]])
    /\ fund' = [fund EXCEPT ![r].pc = "locked"]
    /\ UNCHANGED <<funded, sent, wallets, ledger, match, release>>

\* The job row is written, the ESCROW_HOLD row inserted, all is committed.
FundCommit(r) ==
    LET j == r[2]
        e == Owner[j]
    IN
    /\ fund[r].pc = "locked"
    /\ ~JobRowLocked(j)
    /\ balance' = [balance EXCEPT ![e] = fund[r].balance - Total(j)]
    /\ escrow'  = [escrow EXCEPT ![e] = fund[r].escrow + Total(j)]
    /\ funded'  = [funded EXCEPT ![j] = TRUE]
    /\ hold'    = [hold EXCEPT ![e] = @ + Total(j)]
    /\ spent'   = [spent EXCEPT ![e] = @ + Total(j)]
    /\ heldOver' = heldOver \cup ({e} \cap InHand(FundRequests \ {r}, Payments, Tasks))
    /\ fund'    = [fund EXCEPT ![r] = [pc |-> "done", balance |-> 0, escrow |-> 0]]
    /\ UNCHANGED <<sent, credit, platform, released, earned, fees, paid, paidOver, match, release>>

-----------------------------------------------------------------------------
(* match_escrow_payment_to_job *)

\* The first unfunded job whose reference is in the narration; nothing at all
\* is recorded of a transfer that matches none.
MatchPick(p) ==
    /\ match[p].pc = "idle"
    /\ match' = [match EXCEPT ![p].pc = IF funded[Reference[p]] THEN "unmatched" ELSE "picked"]
    /\ UNCHANGED <<funded, sent, wallets, ledger, fund, release>>

\* The job row is written first, then the employer's wallet is read.
MatchWriteJob(p) ==
    /\ match[p].pc = "picked"
    /\ ~JobRowLocked(Reference[p])
    /\ match' = [match EXCEPT ![p].pc = "locked"]
    /\ UNCHANGED <<funded, sent, wallets, ledger, fund, release>>

MatchReadWallet(p) ==
    /\ match[p].pc = "locked"
    /\ match' = [match EXCEPT ![p] = [pc |-> "read", escrow |-> escrow[Owner[Reference[p]]]]]
    /\ UNCHANGED <<funded, sent, wallets, ledger, fund, release>>

\* The wallet row is written, the ESCROW_HOLD row inserted, all is committed.
\* The amount is never compared with what the job needs.
MatchCommit(p) ==
    LET e == Owner[Reference[p]] IN
    /\ match[p].pc = "read"
    /\ ~EmployerRowLocked(e)
    /\ escrow' = [escrow EXCEPT ![e] = match[p].escrow + Amount[p]]
    /\ funded' = [funded EXCEPT ![Reference[p]] = TRUE]
    /\ hold'   = [hold EXCEPT ![e] = @ + Amount[p]]
    /\ heldOver' = heldOver \cup ({e} \cap InHand(FundRequests, Payments \ {p}, Tasks))
    /\ match'  = [match EXCEPT ![p] = [pc |-> "done", escrow |-> 0]]
    /\ UNCHANGED <<sent, balance, credit, platform, spent, released, earned, fees, paid, paidOver,
                   fund, release>>

\* A fund request holds the wallet row and wants the job row, a transfer holds
\* the job row and wants the wallet row.
Deadlock(r, p) ==
    /\ fund[r].pc = "locked"
    /\ match[p].pc = "read"
    /\ Reference[p] = r[2]

\* PostgreSQL aborts one of the two.  The view answers 500; the task of the
\* transfer has no retry, and the transfer is not recorded anywhere.
BreakDeadlock(r, p) ==
    /\ Deadlock(r, p)
    /\ \/ /\ fund' = [fund EXCEPT ![r] = [pc |-> "done", balance |-> 0, escrow |-> 0]]
          /\ UNCHANGED match
       \/ /\ match' = [match EXCEPT ![p] = [pc |-> "lost", escrow |-> 0]]
          /\ UNCHANGED fund
    /\ UNCHANGED <<funded, sent, wallets, ledger, release>>

-----------------------------------------------------------------------------
(* release_escrow_for_job *)

\* The employer's escrow is enough for the pay of one worker.
Covers(e, j) == escrow[e] >= Pay[j]

\* Mutant of Retried: the retries are not counted.
RetriedForever(r) ==
    [pc |-> "queued", tries |-> r.tries, credit |-> 0, escrow |-> 0, platform |-> 0]

\* Any exception makes the task retry from the start, up to MaxRetries times.
Retried(r) ==
    [pc |-> IF r.tries < MaxRetries THEN "queued" ELSE "failed",
     tries |-> IF r.tries < MaxRetries THEN r.tries + 1 ELSE r.tries,
     credit |-> 0, escrow |-> 0, platform |-> 0]

\* The worker is fetched together with the worker's wallet.
ReleaseReadWorker(t) ==
    /\ t \in sent
    /\ release[t].pc = "queued"
    /\ release' = [release EXCEPT ![t] = [@ EXCEPT !.pc = "worker", !.credit = credit[t[3]]]]
    /\ UNCHANGED <<funded, sent, wallets, ledger, fund, match>>

\* The employer's wallet; less escrow than the pay raises ValueError.  Nothing
\* looks at the job's or the application's status, or at an earlier payment.
ReleaseReadEmployer(t) ==
    LET e == Owner[t[2]] IN
    /\ release[t].pc = "worker"
    /\ release' = [release EXCEPT ![t] =
                     IF Covers(e, t[2])
                     THEN [@ EXCEPT !.pc = "employer", !.escrow = escrow[e]]
                     ELSE Retried(@)]
    /\ UNCHANGED <<funded, sent, wallets, ledger, fund, match>>

\* Both wallet rows are written, then the platform's wallet is read.
ReleaseDebit(t) ==
    /\ release[t].pc = "employer"
    /\ ~EmployerRowLocked(Owner[t[2]])
    /\ ~WorkerRowLocked(t[3])
    /\ release' = [release EXCEPT ![t] = [@ EXCEPT !.pc = "debited", !.platform = platform]]
    /\ UNCHANGED <<funded, sent, wallets, ledger, fund, match>>

\* The platform's wallet is written if it exists, the three rows inserted, all
\* is committed.
ReleaseCommit(t) ==
    LET e == Owner[t[2]]
        w == t[3]
        r == release[t]
    IN
    /\ r.pc = "debited"
    /\ escrow'   = [escrow EXCEPT ![e] = r.escrow - Gross(t[2])]
    /\ credit'   = [credit EXCEPT ![w] = r.credit + Net(t[2])]
    /\ platform' = IF PlatformExists THEN r.platform + Fee(Pay[t[2]]) ELSE platform
    /\ released' = [released EXCEPT ![e] = @ + Pay[t[2]]]
    /\ earned'   = [earned EXCEPT ![w] = @ + Net(t[2])]
    /\ fees'     = fees + Fee(Pay[t[2]])
    /\ paid'     = [paid EXCEPT ![t] = @ + 1]
    /\ paidOver' = paidOver
          \cup ({e, w, Platform} \cap InHand(FundRequests, Payments, Tasks \ {t}))
    /\ release'  = [release EXCEPT ![t] =
                      [@ EXCEPT !.pc = "committed", !.credit = 0, !.escrow = 0, !.platform = 0]]
    /\ UNCHANGED <<funded, sent, balance, hold, spent, heldOver, fund, match>>

\* Mutant of ReleaseNotify: queueing the SMS always raises.
ReleaseNotifyRaises(t) ==
    /\ release[t].pc = "committed"
    /\ release' = [release EXCEPT ![t] = Retried(@)]
    /\ UNCHANGED <<funded, sent, wallets, ledger, fund, match>>

\* The worker is refreshed, the score and the SMS are queued.
ReleaseNotify(t) ==
    /\ release[t].pc = "committed"
    /\ release' = [release EXCEPT ![t].pc = "done"]
    /\ UNCHANGED <<funded, sent, wallets, ledger, fund, match>>

\* One of these three calls fails: the task retries, and pays again.
ReleaseNotifyFails(t) ==
    /\ Faults
    /\ release[t].pc = "committed"
    /\ release' = [release EXCEPT ![t] = Retried(@)]
    /\ UNCHANGED <<funded, sent, wallets, ledger, fund, match>>

\* A task is acknowledged before it runs: killed with its process, it is gone.
ReleaseKilled(t) ==
    /\ Faults
    /\ release[t].pc \in {"worker", "employer", "debited", "committed"}
    /\ release' = [release EXCEPT ![t] = [pc |-> "failed", tries |-> @.tries, credit |-> 0,
                                          escrow |-> 0, platform |-> 0]]
    /\ UNCHANGED <<funded, sent, wallets, ledger, fund, match>>

-----------------------------------------------------------------------------
\* What a fund request, a transfer's task does once it has started.
FundStep(r) == FundReadWallet(r) \/ FundWriteWallet(r) \/ FundCommit(r)

MatchStep(p) == MatchWriteJob(p) \/ MatchReadWallet(p) \/ MatchCommit(p)

ReleaseStep(t) ==
    \/ ReleaseReadWorker(t) \/ ReleaseReadEmployer(t) \/ ReleaseDebit(t)
    \/ ReleaseCommit(t)     \/ ReleaseNotify(t)

PoolStep ==
    \/ \E r \in FundRequests : FundReadJob(r) \/ FundStep(r)
    \/ \E p \in Payments : MatchPick(p) \/ MatchStep(p)
    \/ \E r \in FundRequests, p \in Payments : BreakDeadlock(r, p)
    \/ \E t \in Tasks : ReleaseStep(t) \/ ReleaseNotifyFails(t) \/ ReleaseKilled(t)

\* What completion requests do to the queue.
PoolEnvironment ==
    /\ \E S \in SUBSET Tasks : sent' = sent \cup S
    /\ UNCHANGED <<funded, poolPrivate>>

PoolNext == PoolStep \/ PoolEnvironment
PoolSpec == PoolInit /\ [][PoolNext]_poolVars

-----------------------------------------------------------------------------
PoolTypeOK ==
    /\ funded \in [Jobs -> BOOLEAN]
    /\ sent \subseteq Tasks
    /\ balance \in [Employers -> Nat] /\ escrow \in [Employers -> Nat]
    /\ credit \in [Workers -> Nat]    /\ platform \in Nat
    /\ hold \in [Employers -> Nat]    /\ spent \in [Employers -> Nat]
    /\ released \in [Employers -> Nat]
    /\ earned \in [Workers -> Nat]    /\ fees \in Nat
    /\ paid \in [Tasks -> Nat]
    /\ heldOver \subseteq Employers
    /\ paidOver \subseteq Employers \cup Workers \cup {Platform}
    /\ fund \in [FundRequests -> FundStates]
    /\ match \in [Payments -> MatchStates]
    /\ release \in [Tasks -> ReleaseStates]

\* An amount x of e's escrow that agrees with the ledger: what was held less
\* what was released.  It is more only if a payment, less only if a hold was
\* committed while another process had the wallet in hand.
EscrowTallies(e, x) ==
    /\ e \notin paidOver => x + released[e] <= hold[e]
    /\ e \notin heldOver => hold[e] <= x + released[e]

BalanceTallies(e, x) == e \notin heldOver => x + spent[e] <= Deposit[e]

CreditTallies(w, x) ==
    /\ x <= earned[w]
    /\ w \notin paidOver => earned[w] <= x

PlatformTallies(x) ==
    /\ x <= fees
    /\ PlatformExists /\ Platform \notin paidOver => fees <= x

\* However fund requests, transfers, releases, retries and kills mix, a wallet
\* is what the rows of the ledger add up to, unless it was written while
\* another process had it in hand; and then it errs to one side.  Only a hold
\* that was written over makes an employer's escrow too small or its balance too
\* large, only a payment that was written over makes the escrow too large, and a
\* worker or the platform can only lose by it.
WalletsAreLedger ==
    /\ \A e \in Employers : EscrowTallies(e, escrow[e]) /\ BalanceTallies(e, balance[e])
    /\ \A w \in Workers : CreditTallies(w, credit[w])
    /\ PlatformTallies(platform)

\* Money leaves an employer's balance only for an ESCROW_HOLD row: two fund
\* requests that race may debit once for two rows, never twice for one.
DebitsAreRecorded == \A e \in Employers : Deposit[e] <= balance[e] + spent[e]

\* A release task pays only if a completion sent it, and at most once per
\* attempt, whatever fails after the payment was committed.
PaymentsWithinAttempts ==
    \A t \in Tasks : /\ paid[t] <= release[t].tries + 1
                     /\ paid[t] > 0 => t \in sent
=============================================================================
