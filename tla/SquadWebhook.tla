---------------------------- MODULE SquadWebhook ----------------------------
(***************************************************************************)
(* Payments into the users' virtual accounts.  Squad tells the backend of  *)
(* a payment by calling SquadWebhookView; the Node partner service         *)
(* forwards the same events to InternalWebhookView.  Both views put a      *)
(* process_squad_webhook task on the Celery queue, which credits a wallet  *)
(* and then records a Transaction, each in a transaction of its own.       *)
(*                                                                         *)
(* A delivery is one call of one of the views, and is also the identity of *)
(* the task it queues.  Payments into the escrow account go another way    *)
(* (EscrowPool).                                                           *)
(***************************************************************************)
EXTENDS Naturals, FiniteSets

CONSTANTS
    Users,       \* the owners of wallets
    Payments,    \* the payments, each with a transaction_reference of its own
    Deliveries,  \* the calls of the webhooks
    Event,       \* Event[d]: the payment that delivery d is about
    Internal,    \* the deliveries through InternalWebhookView
    Wrapped,     \* the payments announced in the {"Event": ..., "Body": ...} format
    Unknown,     \* the payments to an account number no wallet has
    Payee,       \* Payee[p]: the user whose account p went to
    Amount,      \* Amount[p], in kobo
    Patient,     \* the payments that are announced again only when nothing of
                 \* the earlier announcement is under way any more
    Faults       \* TRUE: the broker and the workers may fail

ASSUME DeliveriesAssumption == IsFiniteSet(Deliveries)
ASSUME EventAssumption      == Event \in [Deliveries -> Payments]
ASSUME PayeeAssumption      == Payee \in [Payments -> Users]
ASSUME AmountAssumption     == Amount \in [Payments -> Nat]
ASSUME FormatAssumption     == Wrapped \subseteq Payments /\ Unknown \subseteq Payments
ASSUME PatientAssumption    == /\ Patient \subseteq Payments \ Wrapped
                               /\ \A d \in Internal : Event[d] \notin Patient
ASSUME FaultsAssumption     == Faults \in BOOLEAN

VARIABLES
    call,      \* call[d]: progress of the webhook call
    task,      \* task[d]: progress of the task, and the balance it has read
    balance,   \* balance[u]: Wallet.balance, incoming payments only
    posted,    \* posted[u]: the sum of all credits written to u's wallet
    overlap    \* overlap[u]: two tasks have had u's wallet in hand at once

vars == <<call, task, balance, posted, overlap>>

Calls == {"due", "checked", "refused", "ignored", "accepted"}
Runs  == {"none", "queued", "read", "credited", "recorded", "unmatched", "lost", "halfway"}

Of(p)    == {d \in Deliveries : Event[d] = p}
Owner(d) == Payee[Event[d]]

\* The deliveries whose tasks have credited the wallet, those that have also
\* written the Transaction, and those whose task came to an end too early.
Credits(p) == {d \in Of(p) : task[d].pc \in {"credited", "recorded", "halfway"}}
Records(p) == {d \in Of(p) : task[d].pc = "recorded"}
Losses(p)  == {d \in Of(p) : task[d].pc \in {"lost", "halfway"}}

Init ==
    /\ call    = [d \in Deliveries |-> "due"]
    /\ task    = [d \in Deliveries |-> [pc |-> "none", seen |-> 0]]
    /\ balance = [u \in Users |-> 0]
    /\ posted  = [u \in Users |-> 0]
    /\ overlap = [u \in Users |-> FALSE]

-----------------------------------------------------------------------------
(* The views *)

\* Mutants of Duplicate: no event counts as one seen before; any payment of that
\* user counts as this one.
DuplicateNever(d) == FALSE

DuplicateOfUser(d) ==
    /\ d \notin Internal /\ Event[d] \notin Wrapped
    /\ \E p \in Payments : Payee[p] = Owner(d) /\ Records(p) # {}

\* SquadWebhookView looks for a Transaction with the top-level reference, which
\* a wrapped event does not have; InternalWebhookView does not look at all.
Duplicate(d) ==
    /\ d \notin Internal /\ Event[d] \notin Wrapped
    /\ Records(Event[d]) # {}

\* Nothing of an earlier announcement is under way.
Quiet(p) ==
    \A c \in Of(p) : call[c] # "checked" /\ task[c].pc \notin {"queued", "read", "credited"}

\* The view decides whether it has seen the payment before.
Receive(d) ==
    /\ call[d] = "due"
    /\ Event[d] \in Patient => Quiet(Event[d])
    /\ call' = [call EXCEPT ![d] = IF Duplicate(d) THEN "ignored" ELSE "checked"]
    /\ UNCHANGED <<task, balance, posted, overlap>>

\* Then it queues the task and answers 200.
Accept(d) ==
    /\ call[d] = "checked"
    /\ call' = [call EXCEPT ![d] = "accepted"]
    /\ task' = [task EXCEPT ![d] = [pc |-> "queued", seen |-> 0]]
    /\ UNCHANGED <<balance, posted, overlap>>

\* The broker cannot be reached: the answer is a 500.
Refuse(d) ==
    /\ Faults
    /\ call[d] = "checked"
    /\ call' = [call EXCEPT ![d] = "refused"]
    /\ UNCHANGED <<task, balance, posted, overlap>>

-----------------------------------------------------------------------------
(* process_squad_webhook and _handle_virtual_account_payment *)

\* The wallet is looked up by its account number and read.
Read(d) ==
    /\ task[d].pc = "queued"
    /\ Event[d] \notin Unknown
    /\ task' = [task EXCEPT ![d] = [pc |-> "read", seen |-> balance[Owner(d)]]]
    /\ overlap' = [overlap EXCEPT ![Owner(d)] =
                     @ \/ \E c \in Deliveries : task[c].pc = "read" /\ Owner(c) = Owner(d)]
    /\ UNCHANGED <<call, balance, posted>>

\* No wallet has the account number: the task ends, and records nothing.
ReadNothing(d) ==
    /\ task[d].pc = "queued"
    /\ Event[d] \in Unknown
    /\ task' = [task EXCEPT ![d] = [pc |-> "unmatched", seen |-> 0]]
    /\ UNCHANGED <<call, balance, posted, overlap>>

\* Mutant of Credited: the balance that was read is forgotten.
CreditedOnly(d) == Amount[Event[d]]

\* Wallet.credit saves the balance that was read plus the amount.
Credited(d) == task[d].seen + Amount[Event[d]]

Credit(d) ==
    /\ task[d].pc = "read"
    /\ balance' = [balance EXCEPT ![Owner(d)] = Credited(d)]
    /\ posted' = [posted EXCEPT ![Owner(d)] = @ + Amount[Event[d]]]
    /\ task' = [task EXCEPT ![d] = [pc |-> "credited", seen |-> 0]]
    /\ UNCHANGED <<call, overlap>>

\* The Transaction row; the score and the SMS that follow change nothing here,
\* whether they can be queued or not.
Record(d) ==
    /\ task[d].pc = "credited"
    /\ task' = [task EXCEPT ![d] = [pc |-> "recorded", seen |-> 0]]
    /\ UNCHANGED <<call, balance, posted, overlap>>

\* Where a task stops for good when its process is killed.
AfterLoss(pc) == IF pc = "credited" THEN "halfway" ELSE "lost"

\* The task was acknowledged before it ran and has no retry: killed with its
\* process, or stopped by a database error, it does not come back.
Lose(d) ==
    /\ Faults
    /\ task[d].pc \in {"read", "credited"}
    /\ task' = [task EXCEPT ![d] = [pc |-> AfterLoss(@.pc), seen |-> 0]]
    /\ UNCHANGED <<call, balance, posted, overlap>>

-----------------------------------------------------------------------------
Run(d) == Read(d) \/ ReadNothing(d) \/ Credit(d) \/ Record(d)

Next ==
    \E d \in Deliveries :
        Receive(d) \/ Accept(d) \/ Refuse(d) \/ Run(d) \/ Lose(d)

Spec == Init /\ [][Next]_vars

\* A view finishes the request it started; the Celery workers run what is
\* queued.  Nobody has to call a webhook.
Fairness == \A d \in Deliveries : WF_vars(Accept(d)) /\ WF_vars(Run(d))

FairSpec == Spec /\ Fairness

-----------------------------------------------------------------------------
WebhookTypeOK ==
    /\ call \in [Deliveries -> Calls]
    /\ task \in [Deliveries -> [pc : Runs, seen : Nat]]
    /\ balance \in [Users -> Nat] /\ posted \in [Users -> Nat]
    /\ overlap \in [Users -> BOOLEAN]

\* A wallet never has more than what was credited to it, and has all of it
\* unless two tasks had read it at the same time: then the last save wins.
WalletExactUnlessOverlap ==
    \A u \in Users : /\ balance[u] <= posted[u]
                     /\ ~overlap[u] => balance[u] = posted[u]

\* A payment that is announced again only when the dust has settled is recorded
\* at most once, and credited again only for tasks that died between the credit
\* and the record.
PatientCreditedOnce ==
    \A p \in Patient :
        /\ Cardinality(Records(p)) <= 1
        /\ \A d \in Records(p) : Credits(p) \subseteq Losses(p) \cup {d}

\* Once a webhook has answered 200 for a payment to a known account, "received"
\* or "already processed", the payment is recorded in the end, or a task was lost.
PaymentSettles ==
    \A p \in Payments \ Unknown :
        (\E d \in Of(p) : call[d] \in {"accepted", "ignored"})
            ~> (Records(p) # {} \/ Losses(p) # {})

\* payments/views.py:62: duplicate events are safely ignored.
DuplicatesIgnored == \A p \in Payments : Cardinality(Credits(p)) <= 1
=============================================================================
