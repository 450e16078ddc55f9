-------------------------- MODULE WithdrawalPromise --------------------------
(***************************************************************************)
(* What a withdrawal promises, without wallets and reviewers: the amount   *)
(* is held, and then paid out or returned, once and for all.  Nothing is   *)
(* promised of a disputed one: two reviewers had it in hand, or a review   *)
(* died between its refund and its status.                                 *)
(***************************************************************************)
CONSTANT Requests

VARIABLE fate   \* fate[r]: what became of the amount

PromiseInit == fate = [r \in Requests |-> "none"]

Fates == {"none", "held", "paid", "returned", "disputed"}

Becomes(r, before, after) == fate[r] = before /\ fate' = [fate EXCEPT ![r] = after]

Hold(r)   == Becomes(r, "none", "held")
Pay(r)    == Becomes(r, "held", "paid")
Return(r) == Becomes(r, "held", "returned")

\* One review may put several requests in dispute.
Dispute(S) == fate' = [r \in Requests |-> IF r \in S THEN "disputed" ELSE fate[r]]

PromiseNext ==
    \/ \E r \in Requests : Hold(r) \/ Pay(r) \/ Return(r)
    \/ \E S \in SUBSET {r \in Requests : fate[r] # "none"} : Dispute(S)

PromiseSpec == PromiseInit /\ [][PromiseNext]_fate
=============================================================================
