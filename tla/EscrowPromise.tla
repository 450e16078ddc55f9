--------------------------- MODULE EscrowPromise ----------------------------
(***************************************************************************)
(* What escrow promises the workers, without requests, tasks or wallets:   *)
(* the employer confirms the work of some workers, and each of them is     *)
(* paid for it, once.                                                      *)
(***************************************************************************)
CONSTANTS
    Jobs,
    Workers,
    Ids       \* identities of payments

VARIABLES
    due,      \* the (job, worker) pairs the employer has confirmed
    payouts   \* the payments made: <<job, worker, id>>

vars == <<due, payouts>>

Init == due = {} /\ payouts = {}

\* The employer confirms a job for the workers in S.
Confirm(j, S) ==
    /\ due' = due \cup {<<j, w>> : w \in S}
    /\ UNCHANGED payouts

\* A confirmed worker that was not paid for the job yet is paid.
PayOut(j, w) ==
    /\ <<j, w>> \in due
    /\ \A p \in payouts : <<p[1], p[2]>> # <<j, w>>
    /\ \E id \in Ids : payouts' = payouts \cup {<<j, w, id>>}
    /\ UNCHANGED due

Next ==
    \/ \E j \in Jobs, S \in SUBSET Workers : Confirm(j, S)
    \/ \E j \in Jobs, w \in Workers : PayOut(j, w)

SafetySpec == Init /\ [][Next]_vars

\* Every confirmed worker is paid in the end.
Spec == SafetySpec /\ \A j \in Jobs, w \in Workers : WF_vars(PayOut(j, w))
=============================================================================
