# A TLA+ verification of the Kolliq Django backend

Kolliq pays gig workers out of escrow, takes payments into virtual bank accounts
provided by Squad, and sells savings, loans, insurance and a marketplace on top of
one wallet per user. The backend is Django under gunicorn (three processes), with
Celery workers (two at a time) behind a Redis broker and a PostgreSQL database.

Three facts about the code decide what can go wrong, and every module keeps them:

* **No locks on what is read.** Requests and tasks read rows without
  `select_for_update` (except `ListingPurchaseView` and the `DemoFloat` row), decide,
  and write later. PostgreSQL runs at READ COMMITTED.
* **Absolute writes.** `wallet.credit`, `wallet.debit` and
  `save(update_fields=...)` write the value computed from the earlier read. Of two
  writers one is lost. An `UPDATE` locks its row until its transaction ends.
* **Tasks are acknowledged when they start.** A task whose process dies is gone; a
  task with `self.retry` starts again from the top; one without simply ends.

## Inventory

| Component | State | Operations | Hard behaviour | What makes it correct |
|---|---|---|---|---|
| Job lifecycle (`jobs/views.py`, `jobs/models.py`) | `Job.status`, `Job.escrow_funded`, `JobApplication.status` | accept, complete | acceptances and completions interleave; the status is written from a stale count; tasks are sent before the commit | nobody works for an unfunded job; a job in progress is staffed; a completed job has a completed worker; releases name workers who accepted |
| Job posting, feed, ratings and notifications (`jobs/views.py`, `jobs/matching.py`, `jobs/tasks.py`) | `Job` rows, `Rating` rows, SMS sent | create, announce by SMS, rate, read the feed | the feed reads jobs and ratings in two queries; the announcement can be lost | the feed shows the best of the jobs it found, whatever changes meanwhile |
| Escrow pool (`payments/escrow.py`, `payments/tasks.py`, `JobFundEscrowView`) | `Wallet.balance`, `Wallet.escrow_balance`, `Transaction` rows | fund from the wallet, fund by transfer, release | double funding, lost updates, deadlock of fund and transfer, retry after a committed payment, lost tasks | a wallet is what the rows of the ledger add up to, unless it was written under another's hands; debits are recorded; every confirmed worker is paid once if nothing fails and nobody confirms twice |
| Squad webhooks (`payments/views.py`, `payments/tasks.py`) | wallets, `Transaction` rows, queue | two webhook views, one task | duplicates that race with the task, credit and row in two transactions, tasks that are lost | a payment counts once; the wallet is exact; an acknowledged payment is recorded |
| Provisioning (`wallets/tasks.py`, `users/signals.py`, `users/tasks.py`, seeding commands) | `Wallet`, `User.squad_account_status`, accounts at Squad | make a wallet, open an account, retry, seed | a save of every field of a wallet read before a call; a call that times out after it worked; three pieces of code that open the same account | no credit undone; an opened account ends up on the wallet |
| Withdrawals (`wallets/views.py`, `wallets/admin.py`) | `WithdrawalRequest.status`, `Wallet.balance` | request, approve, reject | reviews that overlap, crash between refund and status | a request ends paid out or refunded, not both |
| Loans (`financial_services`) | `Loan`, `DemoFloat`, wallets | apply, repay, weekly repayment | active-loan check outside the lock; float locked by views and not by the task; float and wallet locked in opposite orders | what is debited is recorded; less than an instalment is taken too much, unless a repayment meets the Monday task; one open loan; a missed loan defaults |
| Savings (`financial_services`) | `SavingsPot`, wallets | deposit, withdraw, daily interest | wallet and pot locked in opposite orders; pots read at the start of a batch | no pot or wallet loses or gains money; requests end |
| Insurance (`financial_services`) | `InsurancePolicy`, `InsuranceClaim`, `DemoFloat` | activate, daily premium, claim, review | batches against requests, reviews that overlap, failing batches | a claim is paid once; premiums are counted; float and wallets are exact |
| Marketplace purchases (`marketplace/views.py`) | `Listing.quantity`, wallets | purchase | two wallets locked in an order that depends on who buys; stale listing | no oversell, no deadlock, cut and price add up |
| Catalogue (`marketplace`) | `Listing`, `Enquiry`, `ListingImage`, `SavedListing` | post, edit, remove, enquire, visit, pictures, bookmarks, expiry, flag sweep, stocking | edits save every column of an old row; counts and limits checked before the insert | limits hold; counters, covers and bookmarks agree with their rows; a flag stays |
| Score (`scoring`) | `EconomicScore` | initialise, recalculate, make up | one query per kind of event; stale score saved last; recalculations that are lost or not asked for | the score follows the history and never decreases |
| Users and PINs (`users`) | `User.pin`, `PinResetOTP` | sign up, log in, change PIN, request and confirm a reset, migrate | two codes at once; one code used twice; a change that checked an older PIN | one usable code, used once; a PIN is changed by who knows it |
| Demo balances (`seed_demo_balances`) | wallets, `DemoFloat`, `Transaction` rows | migrate, top up, fill, reset | overlapping, killed and repeated runs of a command that reads once | demo money is given once, nothing lost |
| Merchant reconciliation, fraud sweep, partner API, clients, admin forms | none of their own | reads, alerts, SMS, manual edits | – | – |

How they interact: views call each other's models directly; everything slow goes
through the Celery queue (`release_escrow_for_job`, `process_squad_webhook`,
`create_wallet_for_user`, `retry_squad_virtual_account`, `recalculate_score`,
`trigger_job_matching_notifications`, the beat schedule). The shared state is the
`Wallet` row: escrow, webhooks, withdrawals, purchases, loans, savings, insurance,
provisioning and seeding all read and write it. The score is counted from rows of all
the others and unlocks savings, loans and insurance. `PROJECT.json` lists each
component with its status and every hazard at its line with the properties about it.

## Modules

| Module | Models | Correspondence |
|---|---|---|
| `JobEscrowState` | what lifecycle and money share | `funded` is `Job.escrow_funded`, `sent` the release tasks ever queued |
| `JobLifecycle` | `JobAcceptView`, `JobCompleteView` | one action per statement that reads or writes the database: `AcceptCheck` (views.py 134–144), `AcceptInsert`/`AcceptConflict` (147, the unique index), `AcceptCommit` (157–159 and the commit); `CompleteCheck` (198–200), `CompleteExists` (216), `CompleteCapture` (220), `CompleteUpdate` (224), `CompleteCommit` (229–235 and the commit), `CompleteRollback` |
| `EscrowPool` | `JobFundEscrowView`, `match_escrow_payment_to_job`, `release_escrow_for_job` | `Fund*`, `Match*`, `Release*`; row locks are predicates over the progress of the processes; `hold`, `released`, `earned`, `fees` are sums of `Transaction` rows, `spent` is the part of `hold` that came from the wallet; `FundHas`, `MatchHas`, `ReleaseHas` say which wallets a process has in hand |
| `JobEscrow` | both together | a step of one is an environment step of the other |
| `EscrowPromise` | what escrow promises, abstractly | confirm a worker; pay each confirmed worker once |
| `JobBoard` | `JobCreateView`, `trigger_job_matching_notifications`, `RatingCreateView`, `JobFeedView`, `matching.py` | `PostGig` (views.py 77–107), `SeedGig`, `FundGig`, `Hire` (what the board sees of funding and acceptance), `Announce` (tasks.py 22–74), `RateCheck`, `RateSave` (the unique index), `FeedRead` and `FeedRank` (matching.py 80–155): the whole score in tenths of a point, with the stable sort and the two cut-offs |
| `SquadWebhook` | `SquadWebhookView`, `InternalWebhookView`, `process_squad_webhook` | `Receive`/`Accept`/`Refuse` are the view, `Read`/`Credit`/`Record`/`Lose` the task |
| `Provisioning` | `create_wallet_for_user`, the signal on `User`, `retry_squad_virtual_account`, `seed_pilot`, `create_system_accounts` | `SignUp`; `TaskBegin`, `TaskCall`, `TaskSave` (tasks.py 59), `TaskFail`, `TaskDie`; `Mark` and `Visit` save the user, `VaBegin`, `VaCall`, `VaSaveWallet` are the retry task; `SeedUser`, `SeedLook`, `SeedOpen`, `SeedOffline` (`--no-squad`, or no connection: the number is invented and the wallet "created"), `SeedWallet`, `SeedDie`; `SystemLook`, `SystemPrint`; `Pay` is a credit from elsewhere. Squad opens one account per identifier, and its answer may be lost |
| `PinReset` | `RegisterView`, `LoginView`, `LogoutView`, `ChangePinView`, `ResetPinRequestView`, `ResetPinConfirmView`, `PinResetOTP`, `migrate_password_to_pin` | `SignUpCheck`/`SignUpSave`, `LoginCheck`/`LoginSave`, `Logout`, `ChangeCheck`/`ChangeSave`, `MigrateCheck`/`MigrateSave`, `ResetUpdate`/`ResetCreate`/`ResetSend` (models.py 209–), `Expire`, `ConfirmCheck`/`ConfirmUse`/`ConfirmSet` (views.py 430–), `PinDie` between any two |
| `DemoBalances` | `seed_demo_balances` | `Guard`, `Load` (all wallets, once), `NextPart`, `Wipe` (`--reset`), `Migrate`, `TopUpWallet`, `Fill`, `Interrupt`; `Earn` is a credit from elsewhere |
| `Withdrawals` | `WithdrawalRequestView`, `BankAccountSaveView`, the admin actions on `WithdrawalRequest` | `RequestRead`/`RequestDebit`/`RequestRefuse` (views.py 222–258), `ReviewList` (the queryset is evaluated once), then per request `Approve` (admin.py 52–60) or `RefundRead`, `Refund`, `MarkRejected` (79–88), each a transaction of its own; `Die` between any two |
| `WithdrawalPromise` | what a withdrawal promises, abstractly | a request is held, then paid out or returned; two reviews that had it in hand dispute it |
| `Marketplace` | `ListingPurchaseView`, `ListingUpdateView`, `ListingDeleteView`, `expire_old_listings` | `ReadListing` (views.py 255–265), `CheckBalance` (276), `LockBuyer`, `LockSeller` (290, 291), `Refuse` (293), `Buy` (296–321 and the commit); `EditRead`/`EditSave`, `Remove`, `Expire` write the listing without a lock |
| `Catalogue` | the listing views, `expire_old_listings`, `flag_suspicious_listings`, the stocking command | posting: `PostCheck`, `PostSave`; editing: `AmendRead`, `AmendSave`, `TakeDown`; a purchase, for the status it writes back: `BuyRead` (views.py 255), `BuyRefuse`, `BuySave` (299–302); enquiries: `AskCheck`, `AskSave`, `AskCount`, `AskDie`, `Respond`; `Look`; pictures: `AddCheck`, `AddClear`, `AddSave`, `DeletePicture`; bookmarks: `MarkFind`, `MarkDelete`; the tasks: `GrowOlder`, `PauseOld`, `SweepOften`, `SweepSpam`, `Unflag` (staff); the command: `StockListing`, `StockDate`, `StockPicture` |
| `Loans` | `LoanApplyView`, `LoanRepayView`, `process_weekly_loan_repayments` | `ApplyCheck` (serializers.py 22), `ApplyLock` (views.py 392), `ApplyCommit`; `RepayRead` (483–491), `RepayWallet`, `RepayDebit` (495–517, row locks), `RepayCommit` (520 and the commit); `RunStart` is the task's query, `RunMiss`, `RunDefault`, `RunDebit`, `RunSave`, `RunFloatRead`, `RunFloatWrite` its saves (tasks.py 160–205) |
| `Savings` | `SavingsDepositView`, `SavingsWithdrawView`, `accrue_daily_savings_interest` | `DepositRead`, `DepositDebit` (views.py 133–135, the wallet's row lock), `DepositFind` (139), `DepositCommit` (140–142 and the commit); `DrawRead` (197–202), `DrawTake` (204–205, the pot's row lock), `DrawFind` (207), `DrawCommit`; `RunStart` reads all pots (tasks.py 28), `RunSave` saves one (37–39) and `RunRecord` inserts its Transaction (41), a commit of its own; `RunDie` between any two |
| `Insurance` | `InsuranceActivateView`, `InsuranceClaimView`, `approve_claims`, `deduct_daily_insurance_premiums` | `ActivateCheck` (views.py 628), `ActivateRead` (639), `ActivateCommit` (649–671); `ClaimFile` (749–774), `ClaimLock` (778–779, the float's row lock), `ClaimFind` (792), `ClaimCommit`, `ClaimFail` (rollback); `ReviewList` (admin.py 57), `ReviewFloat` (59), `ReviewDisburse` (60), `ReviewFind`, `ReviewCredit` (61), `ReviewMark` (65), each a transaction of its own, `ReviewFail` (74) between any two; `RunStart` reads all active policies with their wallets (tasks.py 65), `RunPause` (83), `RunDebit` (97), `RunCount` (99–101), `RunDie` |
| `Score` | `initialise_score_for_user`, `recalculate_score`, `engine.py` | `Happen` commits an event and `Queue` asks for a recalculation; an event in `Silent` asks for none, such as a completed gig: what its release queues (escrow.py 140) is the recalculation of the credit, sent before the completion commits (jobs/views.py 235) and free to miss it; `List` asks for one without an event; `Initialise`, `InitialiseLost`; `Begin`, `Count` (one per query), `Save`, `RecalcLost`; `MakeUp` is what the seeding commands write |
| `JobLifecycleProofs`, `JobEscrowProofs`, `AccountsProofs`, `MarketplaceProofs`, `WithdrawalProofs`, `LoansProofs`, `SavingsProofs`, `InsuranceProofs` | theorems; `JobLifecycleProofs` is about `JobLifecycle` and `JobBoard`, `JobEscrowProofs` about the pool, the composition and `EscrowPromise`, `InsuranceProofs` about `Insurance` and `Score`, `MarketplaceProofs` about `Marketplace` and `Catalogue`, `AccountsProofs` about `SquadWebhook`, `Provisioning`, `PinReset` and `DemoBalances` | – |
| `MC*` and `*.cfg` | instances for TLC | – |

**Two components in one run.** Some MC modules instantiate several modules that share
no variable: `MCAccounts` (`SquadWebhook`, `Provisioning`, `PinReset`, `DemoBalances`),
`MCMarketplace` (`Marketplace`, `Catalogue`), `MCJobLifecycle` (`JobLifecycle`,
`JobBoard`), `MCInsurance` (`Insurance`, `Score`) and `MCOwnMoney` (`Withdrawals`,
`Savings`). A behaviour chooses its `part` at
the start; the other parts keep their initial state, so that the run explores the sum
of the state spaces and not their product. In the initial states nothing of a part is
enabled that its fairness would ask for. In the code the parts do share rows, above all
the wallet; each module has its own picture of it, with the writers its own code has and
at most a credit from elsewhere. What a withdrawal does to a deposit into savings, say,
is in no run: it is one more writer of the kind that `stale` and `crossed` name. `Provisioning` is split once more, into users and
Kolliq's own accounts, since no step of it reads or writes what is about another
customer. `JobBoard` and `Catalogue` keep a coarser picture of a job and a listing
than `JobLifecycle` and `Marketplace` do, as what they are about needs no more.

**Clicks, money, time.** A *click* (`AcceptClicks`, `CompleteClicks`, `FundClicks`) is
the identity of a request: a user may send the same request several times, and gunicorn
runs them beside each other. Amounts are in kobo. Time is left out where no code
compares clock values; in `Savings` and `Insurance` it is the number of midnights and
mornings, in `Loans` the number of Mondays, and `since` the Monday from which a
loan's instalments fall due week by week (a loan of a Tuesday is due on Tuesdays, which
the task sees the Monday after). In `PinReset` a code is `expired` or not, in
`Catalogue` a listing is of this hour, of this month or older.

**Outside `src/`.** What Squad answers (an account, a refusal, nothing at all) is a
choice in the actions that call it, and so is a process that dies there; PostgreSQL's
row locks are conditions on the progress of the requests, and its deadlock detection
(`Deadlock`, `Ring`, `BreakDeadlock`, `Abort`) is marked external in `PROJECT.json`.

**History variables.** Most modules have variables that the code has not. They name
exactly the situations in which the code gives a guarantee up, and the invariants say
that it holds everywhere else:

| Variable | Module | Holds |
|---|---|---|
| `heldOver`, `paidOver` | `EscrowPool` | wallets to which a hold, or a payment, was committed while another process had them in hand |
| `stale`, `crossed` | `Withdrawals`, `Marketplace`, `Loans`, `Insurance`; `Savings` | accounts written while somebody else had read them and not yet written |
| `unwritten` | `Savings` | users whose interest is in the pot and its Transaction nowhere: the task died in between |
| `overlap` | `SquadWebhook` | users whose wallet two tasks had in hand at once |
| `contested`, `disputed` | `Marketplace`, `Savings`; `Withdrawals`, `Loans`, `Insurance` | the same for listings, pots, withdrawals, loans and claims; or their task or review died half way |
| `raced` | `Loans`, `Insurance`, `PinReset` | users with two applications or activations between check and commit; codes of overlapping requests |
| `floatStale`, `killed` | `Insurance` | the float written while a review had read it; policies whose premium was taken by a task that died on it |
| `crossed`, `mixed`, `missed` | `Provisioning` | wallets written while the task had them in hand; users that two pieces of code worked on at once; accounts opened by somebody who did not learn of it, died, or threw the number away |
| `overtaken`, `blind` | `PinReset` | changes of a PIN that another request had set meanwhile; changes that replaced a PIN they were not given |
| `clash`, `together`, `wiped` | `DemoBalances` | wallets changed while a run had them in hand; runs that passed the guard together; what resets have zeroed |
| `crowded`, `miscounted`, `jostled`, `muddled` | `Catalogue` | sellers of whom two requests posted at once, or one of whose listings was written "active" by an edit, a purchase or the command; listings and bookmarks that two requests were about at once |
| `disturbed`, `inflated`, `behind` | `Score` | recalculations that overlap, scores made up, users to whom something happened that no recalculation is due for |

**Abstractions worth knowing.** A transaction's own writes become visible at its commit
action, its row locks from the action that writes; the locks of a release
(employer row, worker row, platform row) are always taken in that order and are
taken in one step; what a credit to a worker meets besides other releases (purchases,
loans, webhooks) is the subject of the other modules; `credit` and `earned` count
escrow pay only. `Withdrawals` and `Marketplace` have a credit that reads the balance
and writes it later (a payment processed by `process_squad_webhook`) as their one
outside writer; in `Provisioning`, `DemoBalances` and `Catalogue` outside writers are
one step. In `Marketplace` a listing's price is a constant: an edit that changes the
price between the read and the purchase is not modelled, and the units an edit adds or
takes away count as supply. `Loans` and `Savings` count interest and instalments with
the code's rounding (`quantize`, half to even); `walletDue` and `potDue` in `Savings`
are sums of the Transactions. A narration that names no job is the same as one whose
job is already funded: nothing is recorded. In `JobBoard` the haversine formula is a
table of distances, and a total half-way between two tenths of a point, which floating
point decides in the code, is rounded up. In `Score` the kinds of events stand for the
queries of `recalculate_score`, in their order.

## Runs

| Run | Question | Instance | Result |
|---|---|---|---|
| `job_lifecycle` | Do unlocked reads and absolute writes break the lifecycle? Is the feed the best of what there is? | one job for two of three workers, every request twice, faults (symmetric); four jobs, two workers, two feeds, four ratings | two invariants and an action property hold |
| `escrow_any_order` | What survives every lost update, retry and lost task? | one worker, confirmed twice, two fund requests, one underpaid transfer, one retry, faults | three invariants hold |
| `escrow_careful` | Is the promise kept when each job is confirmed once and nothing fails? | two workers, two fund requests, an exact transfer, three retries, no faults, fairness | escrow covers the releases; `EscrowPromise` is implemented, with liveness |
| `escrow_paid_once` | "95% → Worker's personal VA" (README.md:66) | two completion requests, no faults | violated: the worker is paid twice |
| `accounts` | When is a wallet exact, does a payment count once, is an opened account known, is a code used once, is demo money given once? | three payments in five deliveries; a user and a system account, one credit, two visits; two spellings of a number and six mixes of requests; five runs of seeding in pairs; faults, fairness | eight invariants and two liveness properties hold |
| `squad_duplicates` | "Duplicate events are safely ignored" (payments/views.py:62) | one payment announced twice, no faults | violated: both credit |
| `marketplace` | What do the two row locks protect, and do they hang? What is left of limits, counts and flags without locks? | two users buying from each other, an edit, a payment, removal and expiry, fairness; one seller, four listings, mixes of requests, one of them a purchase | four invariants, an action property and a liveness property hold |
| `own_money` | When is a withdrawal paid out or returned, and not both? What is kept of savings without locks on the reads, and do rows locked in opposite orders hang? | one user, two withdrawals, two reviews, a payment, a review that dies; two deposits, two withdrawals of the pot, two midnights, a task that dies; fairness | two invariants and two liveness properties hold, and `WithdrawalPromise` is implemented |
| `loans` | When do loans, wallets and float agree? | one user, two applications, one repayment, three Mondays, a task that dies, fairness | five invariants, an action property and one liveness property hold |
| `loan_default` | "Missed 2+ installments → loan marked DEFAULTED" (README.md:356) | same, nothing dies | violated: the same instalment is missed every week |
| `insurance` | When are float and wallets exact? Does the score follow the history? | one user, two activations, a small and a large claim, two reviewers, two mornings, faults; three events, two of them silent, one listing, scores made up | two invariants and an action property hold |
| `score_listings` | "Each active marketplace listing \| +3" (README.md:301) | the same | violated: a listing counts for nothing |

**Bounds.** Requests per user and job are bounded by the click sets, transfers by
`Payments`, announcements by `Deliveries`, attempts by `MaxRetries` (the code's is 3;
`escrow_any_order` uses 1, which already has a retry that pays again; its two
completions send two releases of one worker, which compete for the employer's and the
worker's wallet, with the transfer and the fund requests among them; that two releases of
different employers race for the platform's wallet is in the proof only). Two of each
kind of request are enough for every race of two; three workers for two places let a
late acceptance meet a full job. One job per employer is enough for the pool, because
an underpaid transfer and a double funding already make the pool differ from what the
job needs. A withdrawal reviewed by two people, with a second one of the same wallet, is
every race of the review; two purchases that buy from each other's sellers are the
shortest ring of locks. `Loans` takes two instalments (`Terms`, 4 in the code) and 50%
interest, so that 15 is paid in instalments of 8 (rounded from 7.5) and one instalment
can be missed, paid, and the next one missed within three Mondays. In `Savings` a pot of
100 naira earns a kobo a night, and two deposits with two withdrawals make every pair of
writers meet. In `Insurance` the small claim is below the threshold and the
large one above it, the float pays both once but not twice over, and premium and first
balance are such that a morning pauses a policy unless a payout came first.

In the board four jobs meet a feed that looks at three (`Window`, 100 in the code) and
shows two (`Top`): so the window cuts, the list cuts, two jobs tie, and a rating can
arrive between the two queries. In the catalogue two active listings (`MaxActive`, 10),
two pictures (`MaxPictures`, 4) and one listing an hour (`Often`, 5) put every limit in
reach of three requests; requests come in mixes (`Visitors`) of those that
write the same columns or rows. `PinReset` has six mixes of the same kind: among them
two resets with two confirmations, a change of the PIN beside a reset, and the migration
beside both. One retry of each provisioning task (`WalletTries`, `VaTries`; 3 and 5 in the code)
already has one that is refused because the first call had worked. The score is capped at 11,
which all events together exceed. Runs of the seeding command come in pairs: two plain
ones, one with `--reset` beside one without, a partial one and a dry one.
The proofs remove the bounds for the safety properties they cover.

**Deadlock** is not checked by TLC: requests of an instance come to an end. Deadlocks
of the modelled code are state predicates: `Deadlock` in `EscrowPool` (fund request
against transfer), in `Loans` (application against repayment) and in `Savings` (deposit
against withdrawal), `Ring` in `Marketplace` (purchases in a circle); `BreakDeadlock`
and `Abort` are what PostgreSQL does about them.

**Fairness.** `JobEscrow!Fairness`: a fund request or a transfer's task that has
started goes on (gunicorn and Celery run them to their end), PostgreSQL breaks a
deadlock (`deadlock_timeout`), and a queued release task is run. `SquadWebhook!Fairness`:
a view finishes the request it started, Celery runs what is queued. `ProvFairness`:
Celery runs the two provisioning tasks and their retries. `Marketplace!Fairness`, `Loans!Fairness`,
`Savings!Fairness`: gunicorn finishes a purchase, an application, a repayment, a deposit
or a withdrawal it has begun, PostgreSQL breaks deadlocks; the Monday and midnight tasks
are not fair, they may be late or die. `Withdrawals!Fairness`: a review that has
listed its requests goes on until it is through or dies. Nobody is assumed
to send a request, a transfer or an announcement, and no faulty step is fair.

## What is proved

For every number of jobs, employers, workers, requests and transfers, any amounts, any
percentage, with and without faults (three groups of theorems name the conditions they
need: the places of a job, the careful employer and the promise, below). Assumptions: the types of the constants, that the
kinds of requests are told apart, `IsFiniteSet(Workers)`, `IsFiniteSet(Deliveries)`,
`FeePercent \in 0..100`, that a loan is at least a kobo an instalment (the
serializer's minimum is 500 naira), that a rating has one to five stars (the
serializer's check), and that a score's cap is not below its base.

Every safety invariant and every action property that a run checks is stated by a
theorem.

* `JobLifecycleProofs`: `JobTypeOK`, `FundedBeforeAccepted`, `InProgressMeansStaffed`,
  `CompletedJobHasWorker`, `ReleaseOnlyForAccepted`. None is inductive alone. `JobInv`
  adds what a request under way knows: a checked acceptance is of a funded job
  (`funded` is never reset); an inserted row is the only one of its worker and job
  (the unique index) and the count taken with it still holds, because applications
  never go away (`ApplicationsStay`); a completion that passed `exists()` is about a
  worker who applied (`FoundApplied`), and after its `UPDATE` one of them is completed by
  it or was before (`UpdatedCompletes`), which is why a race of two completions cannot
  leave a closed job without a completed worker.
* `JobLifecycleProofs`, the places of a job: it never has more workers than it needs
  (`NeverOverfull`) if no two acceptances of it overlap, each from its read of the job to
  its end (`[]OneAtATime`, which nothing in the view ensures: two workers that accept the
  last place at once both get it). Completions may overlap with an acceptance, even one
  that then writes "in progress" over "completed": `RoomInv` says that a job with an
  acceptance under way has a place left whatever its status is. The other
  hypothesis is `Needed[j] > 0`: `workers_needed` may be 0, and the view takes a worker on
  before it counts.
* `JobEscrowProofs`, the pool: `PoolTypeOK` (no amount becomes negative),
  `WalletsAreLedger` (`WalletsTally`), `DebitsAreRecorded`, `PaymentsWithinAttempts`. A
  wallet is what its rows add up to, and the escrow of an employer what was held less what
  was released, unless it was written while another process had it in hand. Then the error
  has a direction: an absolute write over a hold leaves too little escrow and too large a
  balance, one over a release too much escrow (two workers are paid and one is debited) or
  a worker, or the platform, with too little. `PoolInv` adds that what a process has read
  of a wallet tallies in the same way, and covers what the process will take out of it.
* `JobEscrowProofs`, the whole: the composition implements both parts (`Spec => JobSpec`,
  `Spec => PoolSpec`), so the parts' theorems hold of the whole, and
  `PaidWorkerWasAccepted` follows from the two invariants together.
* `JobEscrowProofs`, the careful employer: who confirms each job once, has one job, pays
  for all of it when the money comes by transfer, and meets no fault (`Careful`), has
  escrow for every release that has not paid yet (`EscrowIsEnough`), and no release is
  ever tried again (`ReleasesSucceed`). Each condition is needed: a second completion
  releases again (`escrow_paid_once`), a second job's absolute write undoes the first's, a
  transfer may fund a job with less than it costs, and a crash makes a task pay twice. So
  is `[]NotOverfull`, a hypothesis about the behaviour: acceptances that race take on more
  workers than the job pays for (in `escrow_careful` there are only as many workers as
  the job needs). `EscrowIsEnoughOneAtATime` replaces it by the condition on the requests
  that `NeverOverfull` needs. `CarefulInv` counts what is outstanding: the whole job
  before the completion, afterwards the pay times the tasks that have not paid; the
  escrow, and what a task under way has read of it, are at least that (`PoolCovers`,
  `TasksCover`). That the sum over a set of tasks is a product, and that there are no
  more tasks than workers taken on, are lemmas (`SumOfEqual`, `TasksCounted`).
* `JobEscrowProofs`, the promise: with one completion per job and no faults the composed
  system implements the safety half of `EscrowPromise` (`ImplementsPromise`), and a worker
  has the net pay of a job once or not at all (`NetIsPaidOnce`, the property that
  `escrow_paid_once` refutes for two completions). Only these two conditions are needed:
  a task pays if and only if it came past its commit (`PaidAtCommit`).
* `JobLifecycleProofs`, the feed: `FeedIsBest` (`FeedShowsTheBest`), for any number of jobs,
  ratings and feeds and whatever happens between its two queries. `BoardInv` only
  says that a feed has read the newest of the jobs that were live and that there are
  finitely many ratings; the work is in the operators. `FoldExists` gives the function that
  `FoldLeft` in `Ranked` is the value of, `InsertOrdered` says that a job put behind those with
  as many points keeps a ranking ordered, `RankedIsOrdered` that `Ranked` returns the fitting
  jobs in order, `TopIsBest` that the first `Top` of a ranking are those that fewer than
  `Top` others beat, `NewestIsAll` that the query loses nothing within its window.
* `MarketplaceProofs`: `MarketTypeOK`, `WalletIsLedger`, `NoOversell`, and that two open
  purchases never hold one wallet (`OneHolder`). `WalletInv` adds that the balances a
  purchase has read under lock are the balances (`SeenUnderLock`, from `OneHolder` and
  from credits that wait for the lock), and that what an unlocked credit has read is,
  unless the user is in `stale`. `StockInv` says the same of the stock an order or an edit
  has read, unless the listing is contested.
* `MarketplaceProofs`, the catalogue: `FlagStays`, `ActiveWithinLimit`, `ListingsAddUp` and the
  types. `MadeInv` adds that a listing whose post is not saved is blank and that whoever is
  busy with a listing is busy with one that exists, so that no save makes a flagged listing
  anew. `LimitInv`: beside a post that has passed the check of a seller not in `crowded`
  there is no other, and room for it. `CountInv`: outside of `miscounted` every enquiry and
  every edit under way has the counts there are (`Current`), and an enquiry is counted once.
  `AlbumInv`: outside of `jostled` one picture at a time is added (`Tidy`), there is room for it,
  and once the covers are cleared none comes back before it is saved. `MarkInv`: outside of
  `muddled` the row a request has found is the one there is (`Neat`), so that rows and
  requests keep the same parity.
* `WithdrawalProofs`: `WithdrawalTypeOK`, `WalletIsDue`, `RejectedWasRefunded`, and the
  refinement `KeepsWithdrawalPromise`: each step of the code is a step of
  `WithdrawalPromise` or a stutter. `WalletInv` adds that whoever has read a wallet has its
  present balance, or the user is in `stale`. `FateInv` adds that a review about to write
  "rejected" has refunded (`RefundCounted`), that an undisputed request is on one review's
  list only, pending as it was listed (`Undisputed`), and that it is held, paid or
  returned (`Settled`).
* `SavingsProofs`: `SavingsTypeOK`, `SavingsAreKept`, `DepositsShareThePot`. `SavingsInv`
  adds that a request under way had found enough (`EnoughRead`), that one deposit of a user
  at a time holds the wallet's row (`OneDebit`), and that what a request or the task has
  read is current, or the wallet is in `crossed` or the pot in `contested` (`WalletSeen`,
  `PotSeen`), and that the interest task has one Transaction at most still to insert.
* `LoansProofs`: `LoansTypeOK`, `AccountsAreLedger`, `RepaidIsTaken`,
  `OverpaidByLessThanAnInstalment`, `InstalmentsArePaidFor`, `OneLoanUnlessRaced`,
  `ClosedLoansRest`, along five invariants. What a loan's record says is repaid is always
  less than an instalment too much; what was taken is, for the loans outside of `disputed`:
  when `LoanRepayView` pays all that is outstanding while the Monday task has the loan on
  its list, the task still debits a whole instalment (tasks.py 152). `TypeInv` adds that a request under way had found enough (`EnoughRead`), that
  something is owed on an open loan (`OpenOwes`) and that nobody has an application in hand
  that is not a loan yet (`NotYetALoan`): without these no amount would be known to stay
  positive. `MoneyInv` adds that one application at a time has the float's row and knows what
  is in it (`FloatHeld`), and that what anybody else has read is current or stale
  (`WalletSeen`, `FloatSeen`). `RecordInv` adds that an undisputed loan is as those who are
  going to write it have read it (`LoanSeen`); that what is repaid covers the instalments
  marked rests on a lemma about the last of a finite set of instalments. `RestInv` adds that
  the loan the task is about to put in default is still open (`OpenInDefault`). `OpenInv` adds
  that whoever has checked beside another application, or an open loan, of the same user
  has raced (`ChecksRaced`).
* `InsuranceProofs`: `InsuranceTypeOK`, `InsuranceIsKept`, `PoliciesAreCounted`, and that
  an undisputed claim is paid once (`ClaimsArePaidOnce`, which no run checks). `MoneyInv` adds that one claim at a time has the float's row and
  knows what is in it (`FloatLockHeld`), and that what anybody else has read is current or
  marked stale (`FloatSeen`, `WalletSeen`). `ClaimInv` adds that reviews have only claims
  that needed one (`Reviewed`), that an undisputed claim is in the hands of one review
  (`Undisputed`), and that one that is credited and not yet marked was paid
  (`PayingIsPaid`). `PolicyInv` adds that the task only has policies that exist, and that
  whoever found no active policy while there is one has raced (`ChecksRaced`).
* `InsuranceProofs`, the score: `QuietScoreIsWorth` and `ScoreNeverDecreases`, for any kinds of
  events, points and history. Both name their exceptions: a score is not what its history is
  worth while a user is `behind` (a recalculation was lost or disturbed, or an event asked
  for none) or `inflated`, and it may decrease when a disturbed recalculation is saved or a
  made-up score is written or replaced. `Worth` is what `calculate_score` counts, which is
  less than the repository's README promises (`score_listings`). `ScoreInv` bounds what a recalculation has added up by what
  the queries it has made would give now (`SumsBounded`: events only come), says that one
  that nothing came in between has it all (`WholeSums`) and that what it may have missed is
  due again (`MissedIsDue`), and that a score is never ahead of what an undisturbed
  recalculation will find (`ScoresAhead`), which is why the later of two saves is not the
  lower one.
* `AccountsProofs`: for `Provisioning`, `CreditsSurviveProvisioning` (what the task has in
  hand is what is due, or the wallet is `crossed`: `HandSound`) and `OpenedAccountIsKnown`
  (`KnownAt`: the task and the command never work on one user at once unless that is noted,
  and the number of an open account is on the wallet or in the hands of one of them). For
  `SquadWebhook`, `WalletExactUnlessOverlap` (`ReadSound`: where no two tasks met, there is one
  at most and it has the balance) and `PatientCreditedOnce` (`OneDoing`: of a patient payment
  one announcement at most is being dealt with, and none once it is recorded). For `PinReset`, `ChangeKnowsThePin`, `OneActiveCode` (while a
  new code is being made no other of the account is open: `OneOpen`) and `CodeSetsPinOnce` (a
  code that did not meet a second confirmation has one under way or one behind it:
  `UsedOnce`). For `DemoBalances`, `SeedingAddsUp`: `SeedInv` adds that a run holds what the
  wallets hold and has not written the row it is going to write (`InHand`, `NoRowYet`), and
  `OnceInv` that a run that met no other is alone and, unless it was asked to repeat, has
  written all the rows there are. And the types of all four.

Induction over data (a fold over a sequence, a sum over a set) is done without the
library's induction theorems: the smallest number, or the smallest finite set, for which
the claim fails cannot exist (`LeastElement`, `Minimal`, both from the well-foundedness of
an order). The function a fold is defined by is shown to exist the same way.

Only model-checked: the liveness half of `KeepsPromise`, `PaymentSettles`,
`ProvisioningSettles`, `PurchaseEnds`, `ReviewSettles`, `LoanRequestsEnd` and
`SavingsRequestsEnd`, which are about liveness under fairness (TLAPS has no rules for
`ENABLED` here). Newest and best in `JobBoard` are written with a `CHOOSE` of the ordered
sequence and an insertion instead of the library's `SortSeq` and `SelectSeq`, of which the
provers know nothing.

## Findings

Shown by a run:

* A worker is paid twice when an employer's two completion requests overlap
  (`escrow_paid_once`; jobs/views.py 200–235).
* A payment announced twice in quick succession is credited twice
  (`squad_duplicates`; payments/views.py 101, tasks.py 113–117).
* A borrower who never pays is never in default (`loan_default`;
  financial_services/tasks.py 144–169): the first unpaid instalment is the only one ever
  marked as missed.
* An active listing is worth 3 points and an enquiry 1 in the repository's README (301, 302),
  and nothing in `calculate_score` (`score_listings`; scoring/engine.py 31–74), although
  `ListingCreateView` queues a recalculation (marketplace/views.py 177).

Noticed while modelling; the modules have the code's behaviour:

* Loans unlock at 50 points and insurance at 70 in the repository's README (312, 313), and at
  60 and 40 in scoring/engine.py (10, 11).
* A purchase saves the status it has read of a listing (marketplace/views.py:302): a listing
  that its seller has paused or removed meanwhile is active again (`BuySave`).
* `retry_squad_virtual_account` reads `squad_account_number` from an answer that calls it
  `virtual_account_number` (users/tasks.py:90, services/squad.py:173): the user becomes
  active without a number, the wallet's `save` is refused, and the account that was opened is
  nowhere (`VaCall`, `VaSaveWallet`; the users in `missed`). "permanently_failed"
  (users/tasks.py:31) is never written, since `self.retry(exc=exc)` raises the error it
  was given (`NextVaTry`).
* The seeding commands set a balance and a score whatever was there (`SeedWallet`, `MakeUp`),
  and `seed_demo_balances` is not the "one atomic operation" of its line 5: each wallet is a
  transaction of its own (`DemoBalances`).
* `seed_jobs_and_listings` makes jobs that are funded without any escrow (`SeedGig`).
* A rating "after a completed job" (jobs/views.py:292) does not ask whether the job is
  completed (`MayRate`).
* A job of skill "other" is announced by SMS to workers without any skill (jobs/tasks.py:46), in
  whose feed it never appears (matching.py:46; `Hears`, `SkillPoints`).
* The Monday task ends with an exception when it marks a loan as defaulted
  (financial_services/tasks.py:175 saves a field that is gone): the loans after it are not
  looked at that week (`RunDefault`).

## Not modelled

* **Reconciliation** stops at an undefined name (`timezone`, payments/tasks.py:187) before it
  reads or writes anything; the **fraud sweep** reads `User.is_flagged`, which a migration
  removed, and `Loan`, which is not imported where it is used (financial_services/tasks.py:298).
  Neither changes any state.
* **Partner API and row-level access**: read-only projections and per-object checks.
* **Clients** (Squad, SMS): HTTP and message texts; a failure of
  a call is an action of the module that makes it.
* **Left out of components that are modelled**: the signature and the parsing of an amount in a
  webhook, and `_handle_transfer_success`, which looks for pending loans that no code makes;
  the score's limit on loans and the scores that unlock savings and insurance (assumed
  reached); price edits during a purchase; browsing and searching; the admin's change forms
  and lists; `--reset` of `seed_jobs_and_listings`, which deletes the jobs and listings of
  the demo users.
* **One float for loans and claims**: `Loans` and `Insurance` each have the `DemoFloat` to
  themselves. Both lock it in their views and do not in their task and review, so that a
  payout beside the Monday task is the race that `stale` and `floatStale` already name.

## Plan

Done: every module above with its run, and a theorem for every safety property that a run
checks. Next, in this order:

1. `Loans` and `Insurance` composed over one `DemoFloat`, as `JobEscrow` composes the lifecycle
   and the pool.
2. An abstract specification of one wallet (credits and debits of the ledger) that
   `Withdrawals`, `Marketplace`, `Savings`, `Loans`, `Insurance` and `Provisioning` are shown to
   implement for the users outside of `stale` and `crossed`.
3. How many workers too many a job can get: a bound in the number of acceptances that
   overlap, where `NeverOverfull` is the case of one.
