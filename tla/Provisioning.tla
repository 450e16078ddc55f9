---------------------------- MODULE Provisioning ----------------------------
(***************************************************************************)
(* The virtual account of a new user.  Saving a User queues                *)
(* create_wallet_for_user, which makes the Wallet row, opens an account at *)
(* Squad and saves the wallet again; while User.squad_account_status is    *)
(* "failed" every save of the user queues retry_squad_virtual_account; and *)
(* the command seed_pilot (seed_employers does the same) gives its users a *)
(* wallet of its own accord.  None of them knows of the others.  The       *)
(* command create_system_accounts opens the accounts of Kolliq itself.     *)
(*                                                                         *)
(* Tasks are acknowledged before they run: one that dies does not return.  *)
(* Credits by other code are one step here (SquadWebhook has theirs).      *)
(***************************************************************************)
EXTENDS Naturals, FiniteSets

CONSTANTS
    Customers,    \* who has an account at Squad, sooner or later
    System,       \* of these, Kolliq itself: its escrow and its platform account
    Seeded,       \* the users that the seeding commands know of
    Income,       \* credits to a wallet by other code, each of 1
    PaidTo,       \* PaidTo[p]
    Opening,      \* what the seeding commands set a balance to
    Visits,       \* requests that save a User: sign-ins, profiles, the admin form
    Visitor,      \* Visitor[v]: the user that is saved
    OneName,      \* the visits after which the user's full name is a single word
    WalletTries,  \* max_retries of create_wallet_for_user
    VaTries       \* max_retries of retry_squad_virtual_account

ASSUME PaidToAssumption   == PaidTo \in [Income -> Customers]
ASSUME VisitorAssumption == Visitor \in [Visits -> Customers]
ASSUME SeededAssumption  == /\ System \subseteq Customers /\ Seeded \subseteq Customers \ System
                            /\ OneName \subseteq Visits
ASSUME NumbersAssumption == Opening \in Nat /\ WalletTries \in Nat /\ VaTries \in Nat

VARIABLES
    wallet,    \* wallet[u]: the Wallet row
    opened,    \* the users with an account at Squad, by their identifier
    vaStatus,  \* vaStatus[u]: User.squad_account_status
    setup,     \* setup[u]: create_wallet_for_user, and what it has in hand
    visit,     \* visit[v]: the request, and then the retry task it has queued
    seeder,    \* seeder[u]: progress of the command for user u
    unpaid,    \* the payments still to come
    due,       \* due[u]: what the wallet was set to and has got since
    crossed,   \* the wallets written to while the task had them in hand
    mixed,     \* the users that the command and the task worked on at once
    missed     \* the users whose account was opened by somebody who did not learn
               \* of it, died, or threw its number away

provVars == <<wallet, opened, vaStatus, setup, visit, seeder, unpaid,
              due, crossed, mixed, missed>>

NoWallet == [status |-> "none", number |-> "none", balance |-> 0]
Waits(n) == [pc |-> "queued", tries |-> n, seen |-> 0]

ProvInit ==
    /\ wallet = [u \in Customers |-> NoWallet]
    /\ opened = {}
    /\ vaStatus = [u \in Customers |-> "unset"]
    /\ setup = [u \in Customers |-> [pc |-> "none", tries |-> 0, seen |-> 0]]
    /\ visit = [v \in Visits |-> [pc |-> "due", tries |-> 0]]
    /\ seeder = [u \in Customers |-> "due"]
    /\ unpaid = Income
    /\ due = [u \in Customers |-> 0]
    /\ crossed = {} /\ mixed = {} /\ missed = {}

Registered(u) == setup[u].pc # "none"
Holding(u)    == setup[u].pc \in {"calling", "answered"}
AtWork(u)     == Holding(u) \/ setup[u].pc = "failing"
Seeding(u)    == seeder[u] \in {"user", "named", "nameless", "failed", "offline"}

Setup(u, pc)  == setup' = [setup EXCEPT ![u].pc = pc]
Visited(v, pc) == visit' = [visit EXCEPT ![v].pc = pc]

-----------------------------------------------------------------------------
(* Squad: an identifier gets one account *)

\* An account is opened and the answer arrives.
Opens(u) == u \notin opened /\ opened' = opened \cup {u} /\ UNCHANGED missed

\* The call fails: refused, as it must be for an identifier that has an account
\* already, or unanswered, with or without an account to show for it.
OpenFails(u) ==
    \/ UNCHANGED <<opened, missed>>
    \/ u \notin opened /\ opened' = opened \cup {u} /\ missed' = missed \cup {u}

-----------------------------------------------------------------------------
(* on_user_created and create_wallet_for_user *)

SignUp(u) ==
    /\ ~Registered(u) /\ u \notin System
    /\ setup' = [setup EXCEPT ![u] = Waits(0)]
    /\ UNCHANGED <<wallet, opened, vaStatus, visit, seeder, unpaid, due, crossed, mixed, missed>>

\* Mutant of Settled: the wallet is not looked at.
SettledNever(u) == FALSE

\* A wallet with its account needs nothing more.
Settled(u) == wallet[u].status = "created"

\* The row is found or made; all of it is in the task's hands during the call.
TaskBegin(u) ==
    /\ setup[u].pc = "queued"
    /\ IF Settled(u)
         THEN Setup(u, "done") /\ UNCHANGED <<wallet, crossed, mixed>>
         ELSE /\ wallet' = [wallet EXCEPT ![u].status = IF @ = "none" THEN "pending" ELSE @]
              /\ setup' = [setup EXCEPT ![u] = [@ EXCEPT !.pc = "calling", !.seen = wallet[u].balance]]
              /\ mixed' = IF Seeding(u) THEN mixed \cup {u} ELSE mixed
              /\ UNCHANGED crossed
    /\ UNCHANGED <<opened, vaStatus, visit, seeder, unpaid, due, missed>>

TaskCall(u) ==
    /\ setup[u].pc = "calling"
    /\ \/ Opens(u) /\ Setup(u, "answered")
       \/ OpenFails(u) /\ Setup(u, "failing")
    /\ UNCHANGED <<wallet, vaStatus, visit, seeder, unpaid, due, crossed, mixed>>

\* Mutant of Saved: the balance starts anew.
SavedEmpty(u)   == [status |-> "created", number |-> "real", balance |-> 0]

\* wallet.save() without update_fields: every column as the task has it.
Saved(u) == [status |-> "created", number |-> "real", balance |-> setup[u].seen]

TaskSave(u) ==
    /\ setup[u].pc = "answered"
    /\ wallet' = [wallet EXCEPT ![u] = Saved(u)]
    /\ Setup(u, "done")
    /\ UNCHANGED <<opened, vaStatus, visit, seeder, unpaid, due, crossed, mixed, missed>>

\* Mutant of NextTry: the attempts are not counted.
NextTryAnyway(n) == Waits(0)

\* self.retry: the task is queued again, until its attempts are used up.
NextTry(n) == IF n < WalletTries THEN Waits(n + 1)
                                 ELSE [pc |-> "gave up", tries |-> n, seen |-> 0]

\* Only the status is saved.
TaskFail(u) ==
    /\ setup[u].pc = "failing"
    /\ wallet' = [wallet EXCEPT ![u].status = "failed"]
    /\ setup' = [setup EXCEPT ![u] = NextTry(@.tries)]
    /\ UNCHANGED <<opened, vaStatus, visit, seeder, unpaid, due, crossed, mixed, missed>>

TaskDie(u) ==
    /\ AtWork(u)
    /\ missed' = IF setup[u].pc = "answered" THEN missed \cup {u} ELSE missed
    /\ Setup(u, "lost")
    /\ UNCHANGED <<wallet, opened, vaStatus, visit, seeder, unpaid, due, crossed, mixed>>

-----------------------------------------------------------------------------
(* retry_squad_virtual_account *)

\* Staff set the status in the admin form, which is the only place that can.
Mark(v) ==
    /\ visit[v].pc = "due" /\ Registered(Visitor[v])
    /\ vaStatus' = [vaStatus EXCEPT ![Visitor[v]] = "failed"]
    /\ Visited(v, "queued")
    /\ UNCHANGED <<wallet, opened, setup, seeder, unpaid, due, crossed, mixed, missed>>

\* Any other save of a user whose status is "failed" queues one more retry.
Visit(v) ==
    /\ visit[v].pc = "due" /\ Registered(Visitor[v])
    /\ Visited(v, IF vaStatus[Visitor[v]] = "failed" THEN "queued" ELSE "no task")
    /\ UNCHANGED <<wallet, opened, vaStatus, setup, seeder, unpaid, due, crossed, mixed, missed>>

\* When the attempts are used up, self.retry raises the error it was given, not
\* MaxRetriesExceededError: the status stays "failed".
NextVaTry(n) == IF n < VaTries THEN [pc |-> "queued", tries |-> n + 1]
                               ELSE [pc |-> "gave up", tries |-> n]

\* An account elsewhere than on the User is not seen.  A name of one word is an
\* error before the call.
VaBegin(v) ==
    /\ visit[v].pc = "queued"
    /\ LET u == Visitor[v] IN
         IF vaStatus[u] = "active" THEN Visited(v, "done")
         ELSE IF v \in OneName THEN visit' = [visit EXCEPT ![v] = NextVaTry(@.tries)]
         ELSE Visited(v, "calling")
    /\ UNCHANGED <<wallet, opened, vaStatus, setup, seeder, unpaid, due, crossed, mixed, missed>>

\* The answer has no "squad_account_number": the user gets the status and the
\* date, and no number, and nobody else gets it either.
VaCall(v) ==
    /\ visit[v].pc = "calling"
    /\ LET u == Visitor[v] IN
         \/ /\ u \notin opened /\ opened' = opened \cup {u} /\ missed' = missed \cup {u}
            /\ vaStatus' = [vaStatus EXCEPT ![u] = "active"]
            /\ Visited(v, "saved")
         \/ /\ OpenFails(u)
            /\ visit' = [visit EXCEPT ![v] = NextVaTry(@.tries)]
            /\ UNCHANGED vaStatus
    /\ UNCHANGED <<wallet, setup, seeder, unpaid, due, crossed, mixed>>

\* A wallet without a number is refused by the database (NOT NULL): an error like
\* any other, and another attempt.  Without a wallet there is nothing to save.
VaSaveWallet(v) ==
    /\ visit[v].pc = "saved"
    /\ IF wallet[Visitor[v]].status = "none"
         THEN Visited(v, "done")
         ELSE visit' = [visit EXCEPT ![v] = NextVaTry(@.tries)]
    /\ UNCHANGED <<wallet, opened, vaStatus, setup, seeder, unpaid, due, crossed, mixed, missed>>

-----------------------------------------------------------------------------
(* seed_pilot, for one user *)

\* get_or_create of the user, whose signal queues the task as for a sign-up.
SeedUser(u) ==
    /\ u \in Seeded /\ seeder[u] = "due"
    /\ setup' = IF Registered(u) THEN setup ELSE [setup EXCEPT ![u] = Waits(0)]
    /\ seeder' = [seeder EXCEPT ![u] = "user"]
    /\ mixed' = IF AtWork(u) THEN mixed \cup {u} ELSE mixed
    /\ UNCHANGED <<wallet, opened, vaStatus, visit, unpaid, due, crossed, missed>>

\* get_customer_by_identifier finds an account; or there is none, or no answer.
SeedLook(u) ==
    /\ seeder[u] = "user"
    /\ \/ u \in opened /\ seeder' = [seeder EXCEPT ![u] = "named"]
       \/ seeder' = [seeder EXCEPT ![u] = "nameless"]
    /\ UNCHANGED <<wallet, opened, vaStatus, setup, visit, unpaid, due, crossed, mixed, missed>>

SeedOpen(u) ==
    /\ seeder[u] = "nameless"
    /\ \/ Opens(u) /\ seeder' = [seeder EXCEPT ![u] = "named"]
       \/ OpenFails(u) /\ seeder' = [seeder EXCEPT ![u] = "failed"]
    /\ UNCHANGED <<wallet, vaStatus, setup, visit, unpaid, due, crossed, mixed>>

\* --no-squad, or a SquadService that cannot be made: Squad is not asked at all.
SeedOffline(u) ==
    /\ seeder[u] = "user"
    /\ seeder' = [seeder EXCEPT ![u] = "offline"]
    /\ UNCHANGED <<wallet, opened, vaStatus, setup, visit, unpaid, due, crossed, mixed, missed>>

\* update_or_create: a wallet without an account gets an invented number, and offline it
\* is called created all the same, so that no task will open one.  An account Squad had
\* already opened is missed when it was not looked up.
SeedWallet(u) ==
    /\ u \in Seeded /\ seeder[u] \in {"named", "failed", "offline"}
    /\ wallet' = [wallet EXCEPT ![u] =
         [status  |-> IF seeder[u] = "failed" THEN "failed" ELSE "created",
          number  |-> IF seeder[u] = "named" THEN "real" ELSE "invented",
          balance |-> Opening]]
    /\ due' = [due EXCEPT ![u] = Opening]
    /\ crossed' = IF Holding(u) THEN crossed \cup {u} ELSE crossed \ {u}
    /\ missed' = IF seeder[u] # "named" /\ u \in opened THEN missed \cup {u} ELSE missed
    /\ seeder' = [seeder EXCEPT ![u] = "done"]
    /\ UNCHANGED <<opened, vaStatus, setup, visit, unpaid, mixed>>

SeedDie(u) ==
    /\ Seeding(u)
    /\ missed' = IF seeder[u] = "named" THEN missed \cup {u} ELSE missed
    /\ seeder' = [seeder EXCEPT ![u] = "dead"]
    /\ UNCHANGED <<wallet, opened, vaStatus, setup, visit, unpaid, due, crossed, mixed>>

-----------------------------------------------------------------------------
(* create_system_accounts *)

\* The command is run until it has printed the number.
SystemLook(u) ==
    /\ u \in System /\ seeder[u] \in {"due", "dead", "done"}
    /\ \/ u \in opened /\ seeder' = [seeder EXCEPT ![u] = "named"]
       \/ seeder' = [seeder EXCEPT ![u] = "nameless"]
    /\ UNCHANGED <<wallet, opened, vaStatus, setup, visit, unpaid, due, crossed, mixed, missed>>

\* The number is for .env, which somebody edits by hand; or the error is printed.
SystemPrint(u) ==
    /\ u \in System /\ seeder[u] \in {"named", "failed"}
    /\ IF seeder[u] = "named"
         THEN /\ seeder' = [seeder EXCEPT ![u] = "printed"]
              /\ missed' = missed \ {u}
         ELSE /\ seeder' = [seeder EXCEPT ![u] = "done"]
              /\ missed' = missed \cup ({u} \cap opened)
    /\ UNCHANGED <<wallet, opened, vaStatus, setup, visit, unpaid, due, crossed, mixed>>

-----------------------------------------------------------------------------
\* Other code credits the wallet.
Pay(p) ==
    /\ p \in unpaid
    /\ LET u == PaidTo[p] IN
         /\ wallet[u].status # "none"
         /\ wallet' = [wallet EXCEPT ![u].balance = @ + 1]
         /\ due' = [due EXCEPT ![u] = @ + 1]
         /\ crossed' = IF Holding(u) THEN crossed \cup {u} ELSE crossed
    /\ unpaid' = unpaid \ {p}
    /\ UNCHANGED <<opened, vaStatus, setup, visit, seeder, mixed, missed>>

TaskStep(u) == TaskBegin(u) \/ TaskCall(u) \/ TaskSave(u) \/ TaskFail(u) \/ TaskDie(u)
VaStep(v)   == VaBegin(v) \/ VaCall(v) \/ VaSaveWallet(v)

ProvNext ==
    \/ \E u \in Customers : \/ SignUp(u) \/ TaskStep(u)
                            \/ SeedUser(u) \/ SeedLook(u) \/ SeedOpen(u) \/ SeedOffline(u)
                            \/ SeedWallet(u) \/ SeedDie(u)
                            \/ SystemLook(u) \/ SystemPrint(u)
    \/ \E v \in Visits : Mark(v) \/ Visit(v) \/ VaStep(v)
    \/ \E p \in Income : Pay(p)

ProvSpec == ProvInit /\ [][ProvNext]_provVars

\* The workers run what is queued.
ProvFairness == /\ \A u \in Customers : WF_provVars(TaskStep(u))
                /\ \A v \in Visits : WF_provVars(VaStep(v))

-----------------------------------------------------------------------------
WalletRow == [status : {"none", "pending", "created", "failed"},
              number : {"none", "real", "invented"}, balance : Nat]
SetupRow  == [pc : {"none", "queued", "calling", "answered", "failing", "done", "gave up", "lost"},
              tries : 0..WalletTries, seen : Nat]
VisitRow  == [pc : {"due", "queued", "calling", "saved", "done", "gave up", "no task"},
              tries : 0..VaTries]

ProvTypeOK ==
    /\ wallet \in [Customers -> WalletRow] /\ setup \in [Customers -> SetupRow]
    /\ visit \in [Visits -> VisitRow] /\ vaStatus \in [Customers -> {"unset", "active", "failed"}]
    /\ seeder \in [Customers -> {"due", "user", "named", "nameless", "failed", "offline",
                                "done", "dead", "printed"}]
    /\ due \in [Customers -> Nat] /\ unpaid \subseteq Income
    /\ opened \subseteq Customers /\ missed \subseteq Customers
    /\ crossed \subseteq Customers /\ mixed \subseteq Customers

\* wallets/tasks.py:59: what a wallet has been given stays in it while its account
\* is opened, unless it was given during the call to Squad.
CreditsSurviveProvisioning ==
    \A u \in Customers : wallet[u].balance = due[u] \/ u \in crossed

\* An account that Squad has opened ends up on the wallet (Kolliq's own: on the screen
\* of whoever runs the command), unless whoever opened it did not learn of it, died,
\* or threw its number away, or two were at it.
OpenedAccountIsKnown ==
    \A u \in opened \ (missed \cup mixed) :
        \/ AtWork(u) \/ Seeding(u)
        \/ IF u \in System THEN seeder[u] = "printed"
                           ELSE wallet[u].number = "real" /\ wallet[u].status = "created"

\* A user who registers has an account in the end, or the task has given up or
\* died; and no retry goes on for ever.
ProvisioningSettles ==
    /\ \A u \in Customers : Registered(u) ~> setup[u].pc \in {"done", "gave up", "lost"}
    /\ \A v \in Visits : visit[v].pc = "queued" ~> visit[v].pc \in {"done", "gave up"}
=============================================================================
