---------------------------- MODULE MCJobEscrow -----------------------------
(***************************************************************************)
(* Small instances of JobEscrow: one employer with one job, which needs    *)
(* two workers and costs 60.                                               *)
(***************************************************************************)
EXTENDS JobEscrow, TLC

CONSTANTS e1, j1, w1, w2, a1, c1, c2, f1, f2, p1

mcOwner     == [j \in Jobs |-> e1]
mcNeeded    == [j \in Jobs |-> 2]
mcPay       == [j \in Jobs |-> 30]       \* 5% is 1.5, the fee is rounded to 2
mcDeposit   == [e \in Employers |-> 120] \* enough to fund the job twice
mcReference == [p \in Payments |-> j1]
mcUnderpaid == [p \in Payments |-> 40]   \* a transfer of less than the job costs
mcExact     == [p \in Payments |-> 60]
=============================================================================
