------------------------------- MODULE Savings -------------------------------
(***************************************************************************)
(* Savings pots.  SavingsDepositView writes the wallet and then the pot,   *)
(* SavingsWithdrawView the pot and then the wallet, each in a transaction  *)
(* that reads without locks; accrue_daily_savings_interest reads all pots  *)
(* at its start and saves them one by one, each before its Transaction.    *)
(***************************************************************************)
EXTENDS Integers

CONSTANTS
    Savers,     \* the users
    Deposits,   \* the SavingsDepositView requests
    Drawings,   \* the SavingsWithdrawView requests
    Saver,      \* Saver[d]: whose request it is
    Moved,      \* Moved[d], in kobo
    Opening,    \* Opening[u]: what the wallet of u has at first
    Rate,       \* percent of interest a year
    Days,       \* bound: midnights
    TaskDies    \* TRUE: the task may die

ASSUME SavingsAssumption  == /\ Deposits \cap Drawings = {}
                             /\ Savers \cap (Deposits \cup Drawings) = {}
                             /\ Saver \in [Deposits \cup Drawings -> Savers]
                             /\ Moved \in [Deposits \cup Drawings -> Nat \ {0}]
ASSUME OpeningAssumption  == Opening \in [Savers -> Nat]
ASSUME BoundsAssumption   == Rate \in Nat /\ Days \in Nat /\ TaskDies \in BOOLEAN

VARIABLES
    wallet,     \* wallet[u]: Wallet.balance
    pot,        \* pot[u]: SavingsPot.balance, 0 without a pot
    deposit,    \* deposit[d]: progress of the deposit, and what it has read
    drawing,    \* drawing[s]: progress of the withdrawal, and what it has read
    run,        \* the interest task, the pots it has read, and the one it has saved
                \* whose Transaction is not there yet
    day,        \* midnights so far
    walletDue,  \* what wallets and pots should hold by their Transactions
    potDue,
    crossed,    \* users whose wallet changed while a request had it in hand
    contested,  \* users whose pot changed so
    unwritten   \* users whose interest is in the pot, and its Transaction nowhere

savingsVars == <<wallet, pot, deposit, drawing, run, day,
                 walletDue, potDue, crossed, contested, unwritten>>

DepositStates == [pc : {"idle", "read", "debited", "found", "done", "refused", "aborted"},
                  wallet : Nat, pot : Nat]
DrawingStates == [pc : {"idle", "read", "taken", "found", "done", "refused", "aborted"},
                  wallet : Nat, pot : Nat]
RunStates     == [todo : SUBSET Savers, seen : [Savers -> Nat], saved : SUBSET Savers]

\* (balance * rate / 365 / 100).quantize(0.01), rounding half to even.
Interest(n) ==
    LET whole == (n * Rate) \div 36500
        rest  == 2 * ((n * Rate) % 36500)
    IN  IF rest > 36500 \/ (rest = 36500 /\ whole % 2 = 1) THEN whole + 1 ELSE whole

Suffices(balance, n) == balance >= n

SavingsInit ==
    /\ wallet    = Opening
    /\ pot       = [u \in Savers |-> 0]
    /\ deposit   = [d \in Deposits |-> [pc |-> "idle", wallet |-> 0, pot |-> 0]]
    /\ drawing   = [s \in Drawings |-> [pc |-> "idle", wallet |-> 0, pot |-> 0]]
    /\ run       = [todo |-> {}, seen |-> [u \in Savers |-> 0], saved |-> {}]
    /\ day       = 0
    /\ walletDue = Opening
    /\ potDue    = [u \in Savers |-> 0]
    /\ crossed   = {}
    /\ contested = {}
    /\ unwritten = {}

-----------------------------------------------------------------------------
(* Row locks, held from an UPDATE to the end of its transaction *)

HoldsWallet(d) == deposit[d].pc \in {"debited", "found"}

\* Mutant of HoldsPot: an early return leaves the transaction open.
HoldsPotRefused(s) == drawing[s].pc \in {"taken", "found", "refused"}

HoldsPot(s) == drawing[s].pc \in {"taken", "found"}

WalletLocked(u) == \E d \in Deposits : Saver[d] = u /\ HoldsWallet(d)
PotLocked(u)    == \E s \in Drawings : Saver[s] = u /\ HoldsPot(s)

\* The requests other than x that have read the wallet of u and not written it.
WalletInHand(u, x) ==
    {d \in Deposits \ {x} : Saver[d] = u /\ deposit[d].pc \in {"read", "debited", "found"}}
      \cup {s \in Drawings \ {x} : Saver[s] = u /\ drawing[s].pc = "found"}

\* The same for the pot of u, with the task among them.
PotInHand(u, x) ==
    {d \in Deposits \ {x} : Saver[d] = u /\ deposit[d].pc = "found"}
      \cup {s \in Drawings \ {x} : Saver[s] = u /\ drawing[s].pc \in {"read", "taken", "found"}}
      \cup ((run.todo \ {x}) \cap {u})

-----------------------------------------------------------------------------
(* SavingsDepositView *)

\* (The score is high enough.)
DepositRead(d) ==
    LET b == wallet[Saver[d]] IN
    /\ deposit[d].pc = "idle"
    /\ deposit' = [deposit EXCEPT ![d] = IF Suffices(b, Moved[d])
                                         THEN [@ EXCEPT !.pc = "read", !.wallet = b]
                                         ELSE [@ EXCEPT !.pc = "refused"]]
    /\ UNCHANGED <<wallet, pot, drawing, run, day, walletDue, potDue,
                   crossed, contested, unwritten>>

DepositDebit(d) ==
    /\ deposit[d].pc = "read"
    /\ ~WalletLocked(Saver[d])
    /\ deposit' = [deposit EXCEPT ![d].pc = "debited"]
    /\ UNCHANGED <<wallet, pot, drawing, run, day, walletDue, potDue,
                   crossed, contested, unwritten>>

\* get_or_create: a new pot is empty.
DepositFind(d) ==
    /\ deposit[d].pc = "debited"
    /\ deposit' = [deposit EXCEPT ![d] = [@ EXCEPT !.pc = "found", !.pot = pot[Saver[d]]]]
    /\ UNCHANGED <<wallet, pot, drawing, run, day, walletDue, potDue,
                   crossed, contested, unwritten>>

\* The pot is saved, and with it the wallet is committed.
DepositCommit(d) ==
    LET u == Saver[d]
        n == Moved[d]
    IN
    /\ deposit[d].pc = "found"
    /\ ~PotLocked(u)
    /\ wallet'    = [wallet EXCEPT ![u] = deposit[d].wallet - n]
    /\ pot'       = [pot EXCEPT ![u] = deposit[d].pot + n]
    /\ walletDue' = [walletDue EXCEPT ![u] = @ - n]
    /\ potDue'    = [potDue EXCEPT ![u] = @ + n]
    /\ deposit'   = [deposit EXCEPT ![d].pc = "done"]
    /\ crossed'   = crossed \cup {v \in {u} : WalletInHand(v, d) # {}}
    /\ contested' = contested \cup {v \in {u} : PotInHand(v, d) # {}}
    /\ UNCHANGED <<drawing, run, day, unwritten>>

-----------------------------------------------------------------------------
(* SavingsWithdrawView *)

DrawRead(s) ==
    LET b == pot[Saver[s]] IN
    /\ drawing[s].pc = "idle"
    /\ drawing' = [drawing EXCEPT ![s] = IF Suffices(b, Moved[s])
                                         THEN [@ EXCEPT !.pc = "read", !.pot = b]
                                         ELSE [@ EXCEPT !.pc = "refused"]]
    /\ UNCHANGED <<wallet, pot, deposit, run, day, walletDue, potDue,
                   crossed, contested, unwritten>>

DrawTake(s) ==
    /\ drawing[s].pc = "read"
    /\ ~PotLocked(Saver[s])
    /\ drawing' = [drawing EXCEPT ![s].pc = "taken"]
    /\ UNCHANGED <<wallet, pot, deposit, run, day, walletDue, potDue,
                   crossed, contested, unwritten>>

DrawFind(s) ==
    /\ drawing[s].pc = "taken"
    /\ drawing' = [drawing EXCEPT ![s] = [@ EXCEPT !.pc = "found", !.wallet = wallet[Saver[s]]]]
    /\ UNCHANGED <<wallet, pot, deposit, run, day, walletDue, potDue,
                   crossed, contested, unwritten>>

\* Mutant of Left: the amount stays in the pot.
LeftAll(s) == drawing[s].pot

\* What the withdrawal leaves of the pot as it was read.
Left(s) == drawing[s].pot - Moved[s]

DrawCommit(s) ==
    LET u == Saver[s]
        n == Moved[s]
    IN
    /\ drawing[s].pc = "found"
    /\ ~WalletLocked(u)
    /\ pot'       = [pot EXCEPT ![u] = Left(s)]
    /\ wallet'    = [wallet EXCEPT ![u] = drawing[s].wallet + n]
    /\ potDue'    = [potDue EXCEPT ![u] = @ - n]
    /\ walletDue' = [walletDue EXCEPT ![u] = @ + n]
    /\ drawing'   = [drawing EXCEPT ![s].pc = "done"]
    /\ crossed'   = crossed \cup {v \in {u} : WalletInHand(v, s) # {}}
    /\ contested' = contested \cup {v \in {u} : PotInHand(v, s) # {}}
    /\ UNCHANGED <<deposit, run, day, unwritten>>

\* A deposit that holds the wallet and a withdrawal that holds the pot wait for each
\* other: PostgreSQL aborts one of them.
Deadlock(d, s) ==
    deposit[d].pc = "found" /\ drawing[s].pc = "found" /\ Saver[d] = Saver[s]

BreakDeadlock(d, s) ==
    /\ Deadlock(d, s)
    /\ \/ deposit' = [deposit EXCEPT ![d].pc = "aborted"] /\ UNCHANGED drawing
       \/ drawing' = [drawing EXCEPT ![s].pc = "aborted"] /\ UNCHANGED deposit
    /\ UNCHANGED <<wallet, pot, run, day, walletDue, potDue,
                   crossed, contested, unwritten>>

-----------------------------------------------------------------------------
(* accrue_daily_savings_interest *)

\* The pots with a balance are read in one query; those too small for a kobo of
\* interest are passed over.
RunStart ==
    /\ run.todo = {} /\ run.saved = {}
    /\ day < Days
    /\ day' = day + 1
    /\ run' = [todo |-> {u \in Savers : Interest(pot[u]) > 0}, seen |-> pot, saved |-> {}]
    /\ UNCHANGED <<wallet, pot, deposit, drawing, walletDue, potDue,
                   crossed, contested, unwritten>>

RunSave(u) ==
    /\ run.saved = {} /\ u \in run.todo
    /\ ~PotLocked(u)
    /\ pot'       = [pot EXCEPT ![u] = run.seen[u] + Interest(run.seen[u])]
    /\ run'       = [run EXCEPT !.todo = @ \ {u}, !.saved = {u}]
    /\ contested' = contested \cup {v \in {u} : PotInHand(v, u) # {}}
    /\ UNCHANGED <<wallet, deposit, drawing, day, walletDue, potDue, crossed, unwritten>>

\* The Transaction is a commit of its own.
RunRecord(u) ==
    /\ u \in run.saved
    /\ potDue' = [potDue EXCEPT ![u] = @ + Interest(run.seen[u])]
    /\ run'    = [run EXCEPT !.saved = {}]
    /\ UNCHANGED <<wallet, pot, deposit, drawing, day, walletDue, crossed, contested, unwritten>>

\* The process dies: the other pots get no interest for the day.
RunDie ==
    /\ TaskDies
    /\ run.todo # {} \/ run.saved # {}
    /\ run' = [run EXCEPT !.todo = {}, !.saved = {}]
    /\ unwritten' = unwritten \cup run.saved
    /\ UNCHANGED <<wallet, pot, deposit, drawing, day, walletDue, potDue, crossed, contested>>

-----------------------------------------------------------------------------
DepositStep(d) == DepositDebit(d) \/ DepositFind(d) \/ DepositCommit(d)
DrawStep(s)    == DrawTake(s) \/ DrawFind(s) \/ DrawCommit(s)

SavingsNext ==
    \/ \E d \in Deposits : DepositRead(d) \/ DepositStep(d)
    \/ \E s \in Drawings : DrawRead(s) \/ DrawStep(s)
    \/ \E d \in Deposits, s \in Drawings : BreakDeadlock(d, s)
    \/ \E u \in Savers : RunSave(u) \/ RunRecord(u)
    \/ RunStart \/ RunDie

SavingsSpec == SavingsInit /\ [][SavingsNext]_savingsVars

\* gunicorn runs a request it has begun to its end, and PostgreSQL breaks deadlocks.
SavingsFairness ==
    /\ \A d \in Deposits : WF_savingsVars(DepositStep(d))
    /\ \A s \in Drawings : WF_savingsVars(DrawStep(s))
    /\ \A d \in Deposits, s \in Drawings : WF_savingsVars(BreakDeadlock(d, s))

-----------------------------------------------------------------------------
SavingsTypeOK ==
    /\ wallet \in [Savers -> Nat] /\ pot \in [Savers -> Nat]
    /\ deposit \in [Deposits -> DepositStates]
    /\ drawing \in [Drawings -> DrawingStates]
    /\ run \in RunStates
    /\ day \in 0..Days
    /\ walletDue \in [Savers -> Int] /\ potDue \in [Savers -> Int]
    /\ crossed \subseteq Savers /\ contested \subseteq Savers /\ unwritten \subseteq Savers

\* The interest in the pot of u whose Transaction is still to come.
Unrecorded(u) == IF u \in run.saved THEN Interest(run.seen[u]) ELSE 0

\* Wallets and pots hold what their Transactions say, unless they changed while somebody
\* had them in hand, or the task died between a pot and its Transaction (views.py
\* 132-147, 196-209; tasks.py 28-48).
SavingsAreKept ==
    /\ \A u \in Savers \ crossed : wallet[u] = walletDue[u]
    /\ \A u \in Savers \ (contested \cup unwritten) : pot[u] = potDue[u] + Unrecorded(u)

\* Deposits alone never lose an update of the pot: each reads it while it holds the
\* wallet's row, so that a lost one takes a withdrawal or the interest task.
DepositsShareThePot ==
    \A u \in contested : day > 0 \/ \E s \in Drawings : Saver[s] = u /\ drawing[s].pc # "idle"

\* Deposits and withdrawals end, in spite of rows locked in opposite orders.
SavingsRequestsEnd ==
    /\ \A d \in Deposits :
          deposit[d].pc = "read" ~> deposit[d].pc \in {"done", "aborted"}
    /\ \A s \in Drawings :
          drawing[s].pc = "read" ~> drawing[s].pc \in {"done", "aborted"}
=============================================================================
