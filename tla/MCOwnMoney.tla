----------------------------- MODULE MCOwnMoney ------------------------------
(***************************************************************************)
(* Small instances of the two ways in which a user moves his own money.    *)
(* Withdrawals: u1 asks for two withdrawals, and can pay for both when he  *)
(* is paid in between; two reviews.  Savings: one user deposits twice and  *)
(* withdraws twice, 100 naira at a time, over two midnights.               *)
(*                                                                         *)
(* Each has its own picture of the wallet: a behaviour chooses its part at *)
(* the start and the other part keeps its initial state, in which no       *)
(* request has begun, so that fairness asks nothing of it.                 *)
(***************************************************************************)
EXTENDS Withdrawals, Savings, TLC

CONSTANTS u1, r1, r2, v1, v2, p1, d1, d2, s1, s2

mcOwner   == r1 :> u1 @@ r2 :> u1
mcAmount  == r1 :> 2 @@ r2 :> 2
mcPayee   == p1 :> u1
mcPaid    == p1 :> 1
mcDeposit == u1 :> 3

mcSaver   == d1 :> u1 @@ d2 :> u1 @@ s1 :> u1 @@ s2 :> u1
mcMoved   == d1 :> 10000 @@ d2 :> 20000 @@ s1 :> 10000 @@ s2 :> 10000
mcOpening == u1 :> 30000

-----------------------------------------------------------------------------
VARIABLE part

OwnInit ==
    /\ part \in {"withdrawals", "savings"}
    /\ Init /\ SavingsInit

OwnNext ==
    \/ part = "withdrawals" /\ Next /\ UNCHANGED <<part, savingsVars>>
    \/ part = "savings" /\ SavingsNext /\ UNCHANGED <<part, vars>>

OwnSpec ==
    /\ OwnInit /\ [][OwnNext]_<<part, vars, savingsVars>>
    /\ Fairness /\ SavingsFairness
=============================================================================
