------------------------------ MODULE Insurance ------------------------------
(***************************************************************************)
(* Insurance.  A user activates a policy, deduct_daily_insurance_premiums  *)
(* takes the premium of every active policy each morning or pauses it, and *)
(* claims are paid out of the DemoFloat: the small ones by                 *)
(* InsuranceClaimView, under the lock of the float's row, the others by    *)
(* the admin action approve_claims, which takes no lock and no transaction.*)
(***************************************************************************)
EXTENDS Integers

CONSTANTS
    Users,
    Activations,    \* the InsuranceActivateView requests; a policy is named by its request
    Claims,         \* the InsuranceClaimView requests
    Reviews,        \* uses of approve_claims
    Holder,         \* Holder[x]: whose activation or claim x is
    Payout,         \* Payout[c], in kobo
    Premium,        \* INSURANCE_DAILY_PREMIUM
    Threshold,      \* AUTO_APPROVE_THRESHOLD
    Opening,        \* Opening[u]: what the wallet of u has at first
    Seed,           \* what the float has at first
    Days,           \* bound: mornings
    Faults          \* TRUE: a call may fail, a process may die

ASSUME RequestsAssumption ==
    /\ Activations \cap Claims = {} /\ Reviews \cap (Activations \cup Claims) = {}
    /\ Holder \in [Activations \cup Claims -> Users]
    /\ Payout \in [Claims -> Nat \ {0}]
ASSUME AmountsAssumption ==
    /\ Premium \in Nat \ {0} /\ Threshold \in Nat /\ Seed \in Nat
    /\ Opening \in [Users -> Nat]
ASSUME BoundsAssumption == Days \in Nat /\ Faults \in BOOLEAN

VARIABLES
    wallet,     \* wallet[u]: Wallet.balance
    float,      \* DemoFloat.balance
    activation, \* activation[a]: progress of the request, and the wallet it has read
    policy,     \* policy[a]: status and days_active of the policy it made
    claim,      \* claim[c]: status, progress of the request, and what it has read
    review,     \* review[r]: the claims it has to do, the one it is at, what it has read
    run,        \* the premium task: policies to do, the one it is at, wallets as read
    day,        \* mornings so far
    walletDue,  \* what wallets and the float should hold by the amounts moved
    floatDue,
    payouts,    \* payouts[c]: how often the wallet was credited for c
    premiums,   \* premiums[a]: how often the wallet was debited for policy a
    stale,      \* users whose wallet changed while somebody else had it in hand
    floatStale, \* the float did
    disputed,   \* claims that two reviews had in hand, or whose review failed after paying
    raced,      \* users who had two activations between check and commit
    killed      \* policies whose premium was taken by a task that died on it

ledger == <<walletDue, floatDue, payouts, premiums>>
marks  == <<stale, floatStale, disputed, raced, killed>>
vars   == <<wallet, float, activation, policy, claim, review, run, day, ledger, marks>>

ActivationStates == [pc : {"idle", "checked", "read", "done", "refused"}, seen : Nat]
PolicyStates     == [status : {"none", "active", "paused"}, days : Nat]
ClaimStates      == [pc : {"idle", "filed", "locked", "found", "done", "refused"},
                     status : {"none", "manual_review", "auto_approved", "paid"},
                     float : Nat, wallet : Nat]
ReviewStates     == [pc : {"idle", "next", "float", "disbursed", "wallet", "credited"},
                     todo : SUBSET Claims, at : SUBSET Claims, seen : Nat]
RunStates        == [todo : SUBSET Activations, at : SUBSET Activations, seen : [Users -> Nat]]

Init ==
    /\ wallet     = Opening
    /\ float      = Seed
    /\ activation = [a \in Activations |-> [pc |-> "idle", seen |-> 0]]
    /\ policy     = [a \in Activations |-> [status |-> "none", days |-> 0]]
    /\ claim      = [c \in Claims |-> [pc |-> "idle", status |-> "none", float |-> 0, wallet |-> 0]]
    /\ review     = [r \in Reviews |-> [pc |-> "idle", todo |-> {}, at |-> {}, seen |-> 0]]
    /\ run        = [todo |-> {}, at |-> {}, seen |-> Opening]
    /\ day        = 0
    /\ walletDue  = Opening
    /\ floatDue   = Seed
    /\ payouts    = [c \in Claims |-> 0]
    /\ premiums   = [a \in Activations |-> 0]
    /\ stale = {} /\ floatStale = FALSE /\ disputed = {} /\ raced = {} /\ killed = {}

-----------------------------------------------------------------------------
(* Who has what in hand *)

Of(u) == {a \in Activations : Holder[a] = u}

\* Those other than x that have read the wallet of u and not written it.
WalletInHand(u, x) ==
    {a \in Of(u) \ {x} : activation[a].pc = "read"}
      \cup {c \in Claims \ {x} : Holder[c] = u /\ claim[c].pc = "found"}
      \cup {r \in Reviews \ {x} : review[r].pc = "wallet" /\ \E c \in review[r].at : Holder[c] = u}
      \cup ((run.todo \cap Of(u)) \ {x})

StaleAfter(u, x) == stale \cup {v \in {u} : WalletInHand(v, x) # {}}

\* The reviews other than x that have read the float and not written it.
FloatInHand(x) == {r \in Reviews \ {x} : review[r].pc = "float"}

\* Mutant of HoldsFloat: get() without select_for_update().
HoldsNoFloat(c) == FALSE

\* A claim that locked the float's row has it until it commits.
HoldsFloat(c) == claim[c].pc \in {"locked", "found"}

FloatLocked == \E c \in Claims : HoldsFloat(c)

Enough(balance, n) == balance >= n

-----------------------------------------------------------------------------
(* InsuranceActivateView *)

Covered(u) == \E a \in Of(u) : policy[a].status = "active"

AlreadyActive(a) == Covered(Holder[a])

\* (The score is high enough.)
ActivateCheck(a) ==
    /\ activation[a].pc = "idle"
    /\ activation' = [activation EXCEPT ![a].pc = IF AlreadyActive(a) THEN "refused" ELSE "checked"]
    /\ UNCHANGED <<wallet, float, policy, claim, review, run, day, ledger, marks>>

ActivateRead(a) ==
    LET b == wallet[Holder[a]] IN
    /\ activation[a].pc = "checked"
    /\ activation' = [activation EXCEPT ![a] = IF Enough(b, Premium)
                                               THEN [pc |-> "read", seen |-> b]
                                               ELSE [@ EXCEPT !.pc = "refused"]]
    /\ UNCHANGED <<wallet, float, policy, claim, review, run, day, ledger, marks>>

\* One transaction: the first premium and the policy.
ActivateCommit(a) ==
    LET u == Holder[a] IN
    /\ activation[a].pc = "read"
    /\ activation' = [activation EXCEPT ![a].pc = "done"]
    /\ wallet'     = [wallet EXCEPT ![u] = activation[a].seen - Premium]
    /\ policy'     = [policy EXCEPT ![a] = [status |-> "active", days |-> 1]]
    /\ walletDue'  = [walletDue EXCEPT ![u] = @ - Premium]
    /\ premiums'   = [premiums EXCEPT ![a] = 1]
    /\ stale'      = StaleAfter(u, a)
    /\ raced'      = raced \cup {v \in {u} : \E b \in Of(v) \ {a} : activation[b].pc \in {"checked", "read"}}
    /\ UNCHANGED <<float, claim, review, run, day, floatDue, payouts, floatStale, disputed, killed>>

-----------------------------------------------------------------------------
(* InsuranceClaimView *)

\* Against an active policy: a claim above the threshold is left to a reviewer.
ClaimFile(c) ==
    /\ claim[c].pc = "idle"
    /\ claim' = [claim EXCEPT ![c] =
           IF ~Covered(Holder[c]) THEN [@ EXCEPT !.pc = "refused"]
           ELSE IF Payout[c] <= Threshold THEN [@ EXCEPT !.pc = "filed"]
           ELSE [@ EXCEPT !.pc = "done", !.status = "manual_review"]]
    /\ UNCHANGED <<wallet, float, activation, policy, review, run, day, ledger, marks>>

\* select_for_update, then disburse: without the money the claim goes to review.
ClaimLock(c) ==
    /\ claim[c].pc = "filed"
    /\ ~FloatLocked
    /\ claim' = [claim EXCEPT ![c] =
           IF Enough(float, Payout[c]) THEN [@ EXCEPT !.pc = "locked", !.float = float]
           ELSE [@ EXCEPT !.pc = "done", !.status = "manual_review"]]
    /\ UNCHANGED <<wallet, float, activation, policy, review, run, day, ledger, marks>>

ClaimFind(c) ==
    /\ claim[c].pc = "locked"
    /\ claim' = [claim EXCEPT ![c] = [@ EXCEPT !.pc = "found", !.wallet = wallet[Holder[c]]]]
    /\ UNCHANGED <<wallet, float, activation, policy, review, run, day, ledger, marks>>

ClaimCommit(c) ==
    LET u == Holder[c]
        n == Payout[c]
    IN
    /\ claim[c].pc = "found"
    /\ claim'      = [claim EXCEPT ![c] = [@ EXCEPT !.pc = "done", !.status = "auto_approved"]]
    /\ float'      = claim[c].float - n
    /\ wallet'     = [wallet EXCEPT ![u] = claim[c].wallet + n]
    /\ floatDue'   = floatDue - n
    /\ walletDue'  = [walletDue EXCEPT ![u] = @ + n]
    /\ payouts'    = [payouts EXCEPT ![c] = @ + 1]
    /\ stale'      = StaleAfter(u, c)
    /\ floatStale' = (floatStale \/ FloatInHand(c) # {})
    /\ UNCHANGED <<activation, policy, review, run, day, premiums, disputed, raced, killed>>

\* The transaction is rolled back, and its lock is gone.
ClaimFail(c) ==
    /\ Faults
    /\ claim[c].pc \in {"filed", "locked", "found"}
    /\ claim' = [claim EXCEPT ![c] = [@ EXCEPT !.pc = "refused"]]
    /\ UNCHANGED <<wallet, float, activation, policy, review, run, day, ledger, marks>>

-----------------------------------------------------------------------------
(* approve_claims *)

Reviewable(c) == claim[c].status = "manual_review"

\* The claims selected that need a review are read in one query.
ReviewList(r, selected) ==
    LET mine   == {c \in selected : Reviewable(c)}
        others == UNION {review[q].todo \cup review[q].at : q \in Reviews \ {r}}
    IN
    /\ review[r].pc = "idle"
    /\ mine # {}
    /\ review'   = [review EXCEPT ![r] = [@ EXCEPT !.pc = "next", !.todo = mine]]
    /\ disputed' = disputed \cup (mine \cap others)
    /\ UNCHANGED <<wallet, float, activation, policy, claim, run, day, ledger,
                   stale, floatStale, raced, killed>>

\* A claim the float cannot pay is passed over.
ReviewFloat(r, c) ==
    /\ review[r].pc = "next"
    /\ c \in review[r].todo
    /\ review' = [review EXCEPT ![r] =
           IF Enough(float, Payout[c])
           THEN [pc |-> "float", todo |-> @.todo \ {c}, at |-> {c}, seen |-> float]
           ELSE [@ EXCEPT !.todo = review[r].todo \ {c}]]
    /\ UNCHANGED <<wallet, float, activation, policy, claim, run, day, ledger, marks>>

ReviewDisburse(r, c) ==
    /\ review[r].pc = "float" /\ review[r].at = {c}
    /\ ~FloatLocked
    /\ float'      = review[r].seen - Payout[c]
    /\ floatDue'   = floatDue - Payout[c]
    /\ review'     = [review EXCEPT ![r].pc = "disbursed"]
    /\ floatStale' = (floatStale \/ FloatInHand(r) # {})
    /\ UNCHANGED <<wallet, activation, policy, claim, run, day, walletDue, payouts, premiums,
                   stale, disputed, raced, killed>>

ReviewFind(r, c) ==
    /\ review[r].pc = "disbursed" /\ review[r].at = {c}
    /\ review' = [review EXCEPT ![r] = [@ EXCEPT !.pc = "wallet", !.seen = wallet[Holder[c]]]]
    /\ UNCHANGED <<wallet, float, activation, policy, claim, run, day, ledger, marks>>

ReviewCredit(r, c) ==
    LET u == Holder[c] IN
    /\ review[r].pc = "wallet" /\ review[r].at = {c}
    /\ wallet'    = [wallet EXCEPT ![u] = review[r].seen + Payout[c]]
    /\ walletDue' = [walletDue EXCEPT ![u] = @ + Payout[c]]
    /\ payouts'   = [payouts EXCEPT ![c] = @ + 1]
    /\ review'    = [review EXCEPT ![r].pc = "credited"]
    /\ stale'     = StaleAfter(u, r)
    /\ UNCHANGED <<float, activation, policy, claim, run, day, floatDue, premiums,
                   floatStale, disputed, raced, killed>>

ReviewMark(r, c) ==
    /\ review[r].pc = "credited" /\ review[r].at = {c}
    /\ claim'  = [claim EXCEPT ![c].status = "paid"]
    /\ review' = [review EXCEPT ![r] = [@ EXCEPT !.pc = "next", !.at = {}]]
    /\ UNCHANGED <<wallet, float, activation, policy, run, day, ledger, marks>>

\* An exception is reported and the next claim follows, or the process dies.
ReviewFail(r, c) ==
    /\ Faults
    /\ review[r].at = {c}
    /\ \E rest \in {review[r].todo, {}} :
          review' = [review EXCEPT ![r] = [@ EXCEPT !.pc = "next", !.at = {}, !.todo = rest]]
    /\ disputed' = disputed \cup (IF review[r].pc = "credited" THEN {c} ELSE {})
    /\ UNCHANGED <<wallet, float, activation, policy, claim, run, day, ledger,
                   stale, floatStale, raced, killed>>

-----------------------------------------------------------------------------
(* deduct_daily_insurance_premiums *)

\* The active policies are read in one query, each with its holder's wallet.
RunStart ==
    /\ run.todo = {} /\ run.at = {}
    /\ day < Days
    /\ day' = day + 1
    /\ run' = [todo |-> {a \in Activations : policy[a].status = "active"}, at |-> {}, seen |-> wallet]
    /\ UNCHANGED <<wallet, float, activation, policy, claim, review, ledger, marks>>

RunPause(a) ==
    /\ a \in run.todo /\ run.at = {}
    /\ ~Enough(run.seen[Holder[a]], Premium)
    /\ policy' = [policy EXCEPT ![a].status = "paused"]
    /\ run'    = [run EXCEPT !.todo = @ \ {a}]
    /\ UNCHANGED <<wallet, float, activation, claim, review, day, ledger, marks>>

RunDebit(a) ==
    LET u == Holder[a] IN
    /\ a \in run.todo /\ run.at = {}
    /\ Enough(run.seen[u], Premium)
    /\ wallet'    = [wallet EXCEPT ![u] = run.seen[u] - Premium]
    /\ walletDue' = [walletDue EXCEPT ![u] = @ - Premium]
    /\ premiums'  = [premiums EXCEPT ![a] = @ + 1]
    /\ run'       = [run EXCEPT !.todo = @ \ {a}, !.at = {a}]
    /\ stale'     = StaleAfter(u, a)
    /\ UNCHANGED <<float, activation, policy, claim, review, day, floatDue, payouts,
                   floatStale, disputed, raced, killed>>

\* The policy is saved, and the Transaction row that the score counts.
RunCount(a) ==
    /\ run.at = {a}
    /\ policy' = [policy EXCEPT ![a].days = @ + 1]
    /\ run'    = [run EXCEPT !.at = {}]
    /\ UNCHANGED <<wallet, float, activation, claim, review, day, ledger, marks>>

\* The task has no retry.
RunDie ==
    /\ Faults
    /\ run.todo \cup run.at # {}
    /\ run'    = [run EXCEPT !.todo = {}, !.at = {}]
    /\ killed' = killed \cup run.at
    /\ UNCHANGED <<wallet, float, activation, policy, claim, review, day, ledger,
                   stale, floatStale, disputed, raced>>

-----------------------------------------------------------------------------
ClaimStep(c) == ClaimLock(c) \/ ClaimFind(c) \/ ClaimCommit(c)

ReviewStep(r, c) ==
    \/ ReviewFloat(r, c) \/ ReviewDisburse(r, c) \/ ReviewFind(r, c)
    \/ ReviewCredit(r, c) \/ ReviewMark(r, c)

RunStep(a) == RunPause(a) \/ RunDebit(a) \/ RunCount(a)

Next ==
    \/ \E a \in Activations : ActivateCheck(a) \/ ActivateRead(a) \/ ActivateCommit(a)
    \/ \E c \in Claims : ClaimFile(c) \/ ClaimStep(c) \/ ClaimFail(c)
    \/ \E r \in Reviews, selected \in SUBSET Claims : ReviewList(r, selected)
    \/ \E r \in Reviews, c \in Claims : ReviewStep(r, c) \/ ReviewFail(r, c)
    \/ \E a \in Activations : RunStep(a)
    \/ RunStart \/ RunDie

Spec == Init /\ [][Next]_vars

-----------------------------------------------------------------------------
InsuranceTypeOK ==
    /\ wallet \in [Users -> Nat] /\ float \in Nat
    /\ activation \in [Activations -> ActivationStates]
    /\ policy \in [Activations -> PolicyStates]
    /\ claim \in [Claims -> ClaimStates]
    /\ review \in [Reviews -> ReviewStates]
    /\ run \in RunStates
    /\ day \in 0..Days
    /\ walletDue \in [Users -> Int] /\ floatDue \in Int
    /\ payouts \in [Claims -> Nat] /\ premiums \in [Activations -> Nat]
    /\ stale \subseteq Users /\ floatStale \in BOOLEAN /\ disputed \subseteq Claims
    /\ raced \subseteq Users /\ killed \subseteq Activations

\* Wallets and float hold what was moved, unless they changed while somebody had them in
\* hand: the lock of a claim keeps it out of this (views.py 778, admin.py 59, tasks.py 65).
InsuranceIsKept ==
    /\ \A u \in Users \ stale : wallet[u] = walletDue[u]
    /\ ~floatStale => float = floatDue

\* A claim approved at once was paid once and never goes to a reviewer; one a reviewer
\* has marked was paid; and nothing is paid twice, unless two reviews had it in hand or
\* one failed between the payment and the mark (views.py 757-797, admin.py 57-65).
ClaimsArePaidOnce ==
    \A c \in Claims :
        /\ claim[c].status = "auto_approved" => payouts[c] = 1
        /\ claim[c].status = "paid" => payouts[c] >= 1
        /\ c \notin disputed => payouts[c] <= 1

\* What was taken for a policy is in its days, but for the premium under way and those
\* whose task died; nobody has two active policies unless two activations overlapped
\* (views.py 628-660, tasks.py 97-101).
PoliciesAreCounted ==
    /\ \A a \in Activations :
          a \notin killed => premiums[a] = policy[a].days + (IF a \in run.at THEN 1 ELSE 0)
    /\ \A a \in Activations, b \in Activations :
          policy[a].status = "active" /\ policy[b].status = "active" /\ a # b
            /\ Holder[a] = Holder[b] => Holder[a] \in raced
=============================================================================
