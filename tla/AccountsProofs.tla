--------------------------- MODULE AccountsProofs ---------------------------
(***************************************************************************)
(* Proofs about the accounts of users: SquadWebhook, Provisioning,         *)
(* PinReset and DemoBalances, for any users, requests, payments and tasks. *)
(***************************************************************************)
EXTENDS SquadWebhook, Provisioning, PinReset, DemoBalances, SequenceTheorems, FiniteSetTheorems, TLAPS

-----------------------------------------------------------------------------
(* Provisioning: what is known of a wallet and of its account *)

\* The balance that create_wallet_for_user has in hand is what is due.
HandSound ==
    \A u \in Customers : Holding(u) /\ u \notin crossed => setup[u].seen = due[u]

CreditsInv == ProvTypeOK /\ HandSound /\ CreditsSurviveProvisioning

Recorded(u) == wallet[u].status = "created" /\ wallet[u].number = "real"
Open(u)     == u \in opened \ (missed \cup mixed)

\* Of one customer: Kolliq itself never signs up; the task and the command are at work
\* at once only where that is noted; while the task calls Squad, or has failed to,
\* nobody else has opened the account and told; and the number of an open account is
\* known to somebody.
KnownAt(u) ==
    /\ u \in System => setup[u].pc = "none"
    /\ u \notin mixed => ~(AtWork(u) /\ Seeding(u))
    /\ Open(u) => setup[u].pc \notin {"calling", "failing"}
    /\ Open(u) => IF u \in System THEN seeder[u] \in {"named", "printed"}
                   ELSE Recorded(u) \/ setup[u].pc = "answered" \/ seeder[u] = "named"

KnownInv == ProvTypeOK /\ \A u \in Customers : KnownAt(u)

-----------------------------------------------------------------------------
(* Types *)

\* A retry task is in one of its states, or starts again.
LEMMA VisitMoves ==
  ASSUME ProvTypeOK, NEW v \in Visits
  PROVE  /\ \A pc \in {"queued", "calling", "saved", "done", "no task"} :
              [visit[v] EXCEPT !.pc = pc] \in VisitRow
         /\ NextVaTry(visit[v].tries) \in VisitRow
<1>1. visit[v] \in VisitRow
  BY DEF ProvTypeOK
<1>2. visit[v].tries \in 0..VaTries
  BY <1>1 DEF VisitRow
<1>3. NextVaTry(visit[v].tries) \in VisitRow
  <2>1. CASE visit[v].tries < VaTries
    <3>1. visit[v].tries + 1 \in 0..VaTries
      BY <1>2, <2>1, NumbersAssumption
    <3> QED
      BY <2>1, <3>1 DEF NextVaTry, VisitRow
  <2>2. CASE ~(visit[v].tries < VaTries)
    BY <1>2, <2>2 DEF NextVaTry, VisitRow
  <2> QED
    BY <2>1, <2>2
<1> QED
  BY <1>1, <1>3 DEF VisitRow

\* So is a task that makes a wallet.
LEMMA SetupMoves ==
  ASSUME ProvTypeOK, NEW u \in Customers
  PROVE  /\ \A pc \in {"answered", "failing", "done", "lost"} : [setup[u] EXCEPT !.pc = pc] \in SetupRow
         /\ [setup[u] EXCEPT !.pc = "calling", !.seen = wallet[u].balance] \in SetupRow
         /\ Waits(0) \in SetupRow /\ NextTry(setup[u].tries) \in SetupRow
<1>1. setup[u] \in SetupRow /\ wallet[u] \in WalletRow
  BY DEF ProvTypeOK
<1>2. setup[u].tries \in 0..WalletTries /\ wallet[u].balance \in Nat
  BY <1>1 DEF SetupRow, WalletRow
<1>3. \A n \in 0..WalletTries : Waits(n) \in SetupRow
  BY DEF Waits, SetupRow
<1>4. NextTry(setup[u].tries) \in SetupRow
  <2>1. CASE setup[u].tries < WalletTries
    <3>1. setup[u].tries + 1 \in 0..WalletTries
      BY <1>2, <2>1, NumbersAssumption
    <3> QED
      BY <2>1, <3>1, <1>3 DEF NextTry
  <2>2. CASE ~(setup[u].tries < WalletTries)
    BY <1>2, <2>2 DEF NextTry, SetupRow
  <2> QED
    BY <2>1, <2>2
<1>5. 0 \in 0..WalletTries
  BY NumbersAssumption
<1> QED
  BY <1>1, <1>2, <1>3, <1>4, <1>5 DEF SetupRow

\* And the row of a wallet keeps its columns.
LEMMA WalletMoves ==
  ASSUME ProvTypeOK, NEW u \in Customers
  PROVE  /\ \A status \in {"none", "pending", "created", "failed"} :
              [wallet[u] EXCEPT !.status = status] \in WalletRow
         /\ [wallet[u] EXCEPT !.balance = @ + 1] \in WalletRow
         /\ Saved(u) \in WalletRow
         /\ [status |-> "created", number |-> "real", balance |-> Opening] \in WalletRow
         /\ [status |-> "failed", number |-> "invented", balance |-> Opening] \in WalletRow
         /\ wallet[u].status \in {"none", "pending", "created", "failed"}
<1>1. setup[u] \in SetupRow /\ wallet[u] \in WalletRow
  BY DEF ProvTypeOK
<1>2. setup[u].seen \in Nat /\ wallet[u].balance \in Nat
  BY <1>1 DEF SetupRow, WalletRow
<1>3. [wallet[u] EXCEPT !.balance = @ + 1] \in WalletRow
  <2>1. wallet[u].balance + 1 \in Nat
    BY <1>2
  <2> QED
    BY <1>1, <2>1 DEF WalletRow
<1>4. Saved(u) \in WalletRow
  BY <1>2 DEF WalletRow, Saved
<1>5. /\ [status |-> "created", number |-> "real", balance |-> Opening] \in WalletRow
      /\ [status |-> "failed", number |-> "invented", balance |-> Opening] \in WalletRow
  BY NumbersAssumption DEF WalletRow
<1>6. \A status \in {"none", "pending", "created", "failed"} :
          [wallet[u] EXCEPT !.status = status] \in WalletRow
  BY <1>1 DEF WalletRow
<1>7. wallet[u].status \in {"none", "pending", "created", "failed"}
  BY <1>1 DEF WalletRow
<1> QED
  BY <1>3, <1>4, <1>5, <1>6, <1>7

LEMMA ProvTypeInit == ProvInit => ProvTypeOK
<1> SUFFICES ASSUME ProvInit PROVE ProvTypeOK
  OBVIOUS
<1>0. 0 \in 0..WalletTries /\ 0 \in 0..VaTries
  BY NumbersAssumption
<1>1. NoWallet \in WalletRow
  BY DEF NoWallet, WalletRow
<1>2. setup \in [Customers -> SetupRow] /\ visit \in [Visits -> VisitRow]
  BY <1>0 DEF ProvInit, SetupRow, VisitRow
<1> QED
  BY <1>1, <1>2 DEF ProvInit, ProvTypeOK

LEMMA ProvTypeStep ==
  ASSUME ProvTypeOK, [ProvNext]_provVars
  PROVE  ProvTypeOK'
<1> USE DEF ProvTypeOK
<1>1. ASSUME NEW u \in Customers, SignUp(u) PROVE ProvTypeOK'
  BY <1>1, SetupMoves DEF SignUp
<1>2. ASSUME NEW u \in Customers, TaskBegin(u) PROVE ProvTypeOK'
  <2>1. setup' \in [Customers -> SetupRow]
    BY <1>2, SetupMoves DEF TaskBegin, Setup
  <2>2. wallet' \in [Customers -> WalletRow]
    <3> DEFINE status == IF wallet[u].status = "none" THEN "pending" ELSE wallet[u].status
    <3>1. [wallet[u] EXCEPT !.status = status] \in WalletRow
      BY WalletMoves
    <3> QED
      BY <1>2, <3>1 DEF TaskBegin
  <2>3. /\ mixed' \subseteq Customers
        /\ UNCHANGED <<opened, vaStatus, visit, seeder, unpaid, due, crossed, missed>>
    BY <1>2 DEF TaskBegin
  <2> QED
    BY <2>1, <2>2, <2>3
<1>3. ASSUME NEW u \in Customers, TaskCall(u) PROVE ProvTypeOK'
  <2>1. setup' \in [Customers -> SetupRow]
    BY <1>3, SetupMoves DEF TaskCall, Setup
  <2> QED
    BY <1>3, <2>1 DEF TaskCall, Opens, OpenFails
<1>4. ASSUME NEW u \in Customers, TaskSave(u) PROVE ProvTypeOK'
  BY <1>4, SetupMoves, WalletMoves DEF TaskSave, Setup
<1>5. ASSUME NEW u \in Customers, TaskFail(u) PROVE ProvTypeOK'
  BY <1>5, SetupMoves, WalletMoves DEF TaskFail
<1>6. ASSUME NEW u \in Customers, TaskDie(u) PROVE ProvTypeOK'
  BY <1>6, SetupMoves DEF TaskDie, Setup
<1>7. ASSUME NEW u \in Customers, SeedUser(u) PROVE ProvTypeOK'
  BY <1>7, SetupMoves DEF SeedUser
<1>8. ASSUME NEW u \in Customers,
             SeedLook(u) \/ SeedOffline(u) \/ SystemLook(u) \/ SystemPrint(u)
      PROVE  ProvTypeOK'
  BY <1>8 DEF SeedLook, SeedOffline, SystemLook, SystemPrint
<1>9. ASSUME NEW u \in Customers, SeedOpen(u) PROVE ProvTypeOK'
  BY <1>9 DEF SeedOpen, Opens, OpenFails
<1>10. ASSUME NEW u \in Customers, SeedWallet(u) PROVE ProvTypeOK'
  <2> DEFINE row == [status  |-> IF seeder[u] = "failed" THEN "failed" ELSE "created",
                     number  |-> IF seeder[u] = "named" THEN "real" ELSE "invented",
                     balance |-> Opening]
  <2>1. row \in WalletRow
    BY NumbersAssumption DEF WalletRow
  <2>2. wallet' = [wallet EXCEPT ![u] = row]
    BY <1>10 DEF SeedWallet
  <2>3. wallet' \in [Customers -> WalletRow]
    <3> HIDE DEF row
    <3> QED
      BY <2>1, <2>2
  <2>4. due' \in [Customers -> Nat]
    BY <1>10, NumbersAssumption DEF SeedWallet
  <2> QED
    BY <1>10, <2>3, <2>4 DEF SeedWallet
<1>11. ASSUME NEW u \in Customers, SeedDie(u) PROVE ProvTypeOK'
  BY <1>11 DEF SeedDie
<1>12. ASSUME NEW v \in Visits, Mark(v) \/ Visit(v) PROVE ProvTypeOK'
  BY <1>12, VisitMoves, VisitorAssumption DEF Mark, Visit, Visited
<1>13. ASSUME NEW v \in Visits, VaBegin(v) \/ VaSaveWallet(v) PROVE ProvTypeOK'
  BY <1>13, VisitMoves DEF VaBegin, VaSaveWallet, Visited
<1>14. ASSUME NEW v \in Visits, VaCall(v) PROVE ProvTypeOK'
  <2>1. visit' \in [Visits -> VisitRow]
    BY <1>14, VisitMoves DEF VaCall, Visited
  <2> QED
    BY <1>14, <2>1, VisitorAssumption DEF VaCall, OpenFails
<1>15. ASSUME NEW p \in Income, Pay(p) PROVE ProvTypeOK'
  <2>1. PaidTo[p] \in Customers
    BY PaidToAssumption
  <2>2. wallet' \in [Customers -> WalletRow]
    <3>1. [wallet[PaidTo[p]] EXCEPT !.balance = @ + 1] \in WalletRow
      BY <2>1, WalletMoves
    <3>2. wallet' = [wallet EXCEPT ![PaidTo[p]] = [wallet[PaidTo[p]] EXCEPT !.balance = @ + 1]]
      BY <1>15 DEF Pay
    <3> QED
      BY <2>1, <3>1, <3>2
  <2>3. due' \in [Customers -> Nat]
    BY <1>15, <2>1 DEF Pay
  <2> QED
    BY <1>15, <2>1, <2>2, <2>3 DEF Pay
<1>16. CASE UNCHANGED provVars
  BY <1>16 DEF provVars
<1> QED
  BY <1>1, <1>2, <1>3, <1>4, <1>5, <1>6, <1>7, <1>8, <1>9, <1>10, <1>11, <1>12, <1>13,
     <1>14, <1>15, <1>16 DEF ProvNext, TaskStep, VaStep

\* The rows of wallets and users, and the progress of the tasks and the command.
THEOREM ProvTypeCorrect == ProvSpec => []ProvTypeOK
<1>1. ProvTypeOK /\ [ProvNext]_provVars => ProvTypeOK'
  BY ProvTypeStep
<1> QED
  BY ProvTypeInit, <1>1, PTL DEF ProvSpec
-----------------------------------------------------------------------------
(* Credits *)

LEMMA CreditsStep ==
  ASSUME CreditsInv, [ProvNext]_provVars
  PROVE  (HandSound /\ CreditsSurviveProvisioning)'
<1> USE DEF CreditsInv, ProvTypeOK, HandSound, CreditsSurviveProvisioning, Holding
<1>1. ASSUME NEW u \in Customers, SignUp(u) \/ SeedUser(u)
      PROVE  (HandSound /\ CreditsSurviveProvisioning)'
  BY <1>1 DEF SignUp, SeedUser, Waits
<1>2. ASSUME NEW u \in Customers, TaskBegin(u)
      PROVE  (HandSound /\ CreditsSurviveProvisioning)'
  <2>1. \A c \in Customers : wallet'[c].balance = wallet[c].balance
    BY <1>2 DEF TaskBegin, WalletRow
  <2>2. /\ \A c \in Customers \ {u} : setup'[c] = setup[c]
        /\ setup'[u].pc = "done" \/ setup'[u].seen = wallet[u].balance
    <3>1. CASE Settled(u)
      BY <1>2, <3>1 DEF TaskBegin, Setup, SetupRow
    <3>2. CASE ~Settled(u)
      BY <1>2, <3>2 DEF TaskBegin, SetupRow
    <3> QED
      BY <3>1, <3>2
  <2> QED
    BY <1>2, <2>1, <2>2 DEF TaskBegin
<1>3. ASSUME NEW u \in Customers, TaskCall(u) \/ TaskDie(u)
      PROVE  (HandSound /\ CreditsSurviveProvisioning)'
  <2>1. /\ \A c \in Customers \ {u} : setup'[c] = setup[c]
        /\ setup'[u].seen = setup[u].seen
        /\ setup'[u].pc \in {"answered", "failing", "lost"}
        /\ setup'[u].pc = "answered" => setup[u].pc = "calling"
    <3>1. CASE TaskCall(u)
      BY <3>1 DEF TaskCall, Setup, SetupRow
    <3>2. CASE TaskDie(u)
      BY <3>2 DEF TaskDie, Setup, SetupRow
    <3> QED
      BY <1>3, <3>1, <3>2
  <2>2. UNCHANGED <<wallet, due, crossed>>
    BY <1>3 DEF TaskCall, TaskDie
  <2> QED
    BY <2>1, <2>2
<1>4. ASSUME NEW u \in Customers, TaskSave(u)
      PROVE  (HandSound /\ CreditsSurviveProvisioning)'
  BY <1>4 DEF TaskSave, Setup, Saved
<1>5. ASSUME NEW u \in Customers, TaskFail(u)
      PROVE  (HandSound /\ CreditsSurviveProvisioning)'
  <2>1. \A c \in Customers : wallet'[c].balance = wallet[c].balance
    BY <1>5 DEF TaskFail, WalletRow
  <2>2. \A c \in Customers : setup'[c].pc \in {"calling", "answered"} => setup'[c] = setup[c]
    <3>1. NextTry(setup[u].tries).pc \in {"queued", "gave up"}
      BY DEF NextTry, Waits
    <3> QED
      BY <1>5, <3>1 DEF TaskFail
  <2> QED
    BY <1>5, <2>1, <2>2 DEF TaskFail
<1>6. ASSUME NEW u \in Customers, SeedWallet(u)
      PROVE  (HandSound /\ CreditsSurviveProvisioning)'
  <2>1. \A c \in Customers : wallet'[c].balance = IF c = u THEN Opening ELSE wallet[c].balance
    BY <1>6 DEF SeedWallet
  <2>2. \A c \in Customers : due'[c] = IF c = u THEN Opening ELSE due[c]
    BY <1>6 DEF SeedWallet
  <2>3. /\ UNCHANGED setup
        /\ crossed' = IF Holding(u) THEN crossed \cup {u} ELSE crossed \ {u}
    BY <1>6 DEF SeedWallet
  <2> QED
    BY <2>1, <2>2, <2>3
<1>7. ASSUME NEW u \in Customers,
             \/ SeedLook(u) \/ SeedOpen(u) \/ SeedOffline(u) \/ SeedDie(u)
             \/ SystemLook(u) \/ SystemPrint(u)
      PROVE  (HandSound /\ CreditsSurviveProvisioning)'
  BY <1>7 DEF SeedLook, SeedOpen, SeedOffline, SeedDie, SystemLook, SystemPrint
<1>8. ASSUME NEW v \in Visits, Mark(v) \/ Visit(v) \/ VaStep(v)
      PROVE  (HandSound /\ CreditsSurviveProvisioning)'
  BY <1>8 DEF Mark, Visit, VaStep, VaBegin, VaCall, VaSaveWallet
<1>9. ASSUME NEW p \in Income, Pay(p)
      PROVE  (HandSound /\ CreditsSurviveProvisioning)'
  BY <1>9, PaidToAssumption DEF Pay
<1>10. CASE UNCHANGED provVars
  BY <1>10 DEF provVars
<1> QED
  BY <1>1, <1>2, <1>3, <1>4, <1>5, <1>6, <1>7, <1>8, <1>9, <1>10 DEF ProvNext, TaskStep, VaStep

\* wallets/tasks.py:59: a wallet keeps what it was given while its account is opened,
\* unless it was given during the call to Squad.
THEOREM CreditsSurvive == ProvSpec => []CreditsSurviveProvisioning
<1>1. ProvInit => CreditsInv
  BY ProvTypeInit DEF ProvInit, NoWallet, CreditsInv, HandSound, Holding, CreditsSurviveProvisioning
<1>2. CreditsInv /\ [ProvNext]_provVars => CreditsInv'
  BY ProvTypeStep, CreditsStep DEF CreditsInv
<1>3. CreditsInv => CreditsSurviveProvisioning
  BY DEF CreditsInv
<1> QED
  BY <1>1, <1>2, <1>3, PTL DEF ProvSpec

-----------------------------------------------------------------------------
(* Accounts *)

\* A step that is not about u.
Apart(u) ==
    /\ wallet'[u].status = wallet[u].status /\ wallet'[u].number = wallet[u].number
    /\ setup'[u].pc = setup[u].pc /\ seeder'[u] = seeder[u]
    /\ mixed \subseteq mixed' /\ (u \in mixed' => u \in mixed)
    /\ Open(u)' => Open(u)

LEMMA ApartKeeps ==
  ASSUME NEW u \in Customers, KnownAt(u), Apart(u)
  PROVE  KnownAt(u)'
BY DEF KnownAt, Apart, Recorded, AtWork, Holding, Seeding

LEMMA KnownTask ==
  ASSUME KnownInv, NEW u \in Customers, TaskStep(u)
  PROVE  KnownAt(u)' /\ \A c \in Customers \ {u} : Apart(c)
<1> USE DEF KnownInv, ProvTypeOK
<1>k. KnownAt(u) /\ wallet[u] \in WalletRow /\ setup[u] \in SetupRow
  OBVIOUS
<1>1. CASE TaskBegin(u)
  <2>1. CASE Settled(u)
    <3>1. setup'[u].pc = "done" /\ \A c \in Customers \ {u} : setup'[c] = setup[c]
      BY <1>1, <2>1 DEF TaskBegin, Setup, SetupRow
    <3>2. UNCHANGED <<wallet, opened, missed, mixed, seeder>>
      BY <1>1, <2>1 DEF TaskBegin
    <3>3. KnownAt(u)'
      BY <1>k, <1>1, <3>1, <3>2 DEF TaskBegin, KnownAt, Open, Recorded, AtWork, Holding, Seeding
    <3> QED
      BY <3>1, <3>2, <3>3 DEF Apart, Open
  <2>2. CASE ~Settled(u)
    <3>1. setup'[u].pc = "calling" /\ \A c \in Customers \ {u} : setup'[c] = setup[c]
      BY <1>1, <2>2 DEF TaskBegin, SetupRow
    <3>2. /\ UNCHANGED <<opened, missed, seeder>>
          /\ mixed' = IF Seeding(u) THEN mixed \cup {u} ELSE mixed
          /\ \A c \in Customers \ {u} : wallet'[c] = wallet[c]
      BY <1>1, <2>2 DEF TaskBegin
    <3>3. u \notin System /\ ~Recorded(u) /\ setup[u].pc = "queued"
      BY <1>k, <1>1, <2>2 DEF TaskBegin, Settled, Recorded, KnownAt
    <3>4. ~Open(u)'
      BY <1>k, <3>2, <3>3 DEF Open, KnownAt, Seeding
    <3>5. KnownAt(u)'
      BY <3>1, <3>2, <3>3, <3>4 DEF KnownAt, Seeding, AtWork, Holding
    <3> QED
      BY <3>1, <3>2, <3>5 DEF Apart, Open
  <2> QED
    BY <2>1, <2>2
<1>2. CASE TaskCall(u)
  <2>1. /\ setup[u].pc = "calling" /\ UNCHANGED <<wallet, seeder, mixed>>
        /\ \A c \in Customers \ {u} : setup'[c] = setup[c]
        /\ \/ Opens(u) /\ setup'[u].pc = "answered"
           \/ OpenFails(u) /\ setup'[u].pc = "failing"
    BY <1>2 DEF TaskCall, Setup, SetupRow
  <2>2. u \notin System
    BY <1>k, <2>1 DEF KnownAt
  <2>3. setup'[u].pc = "failing" => ~Open(u)'
    BY <1>k, <2>1 DEF KnownAt, Open, OpenFails
  <2>4. KnownAt(u)'
    BY <1>k, <2>1, <2>2, <2>3 DEF KnownAt, AtWork, Holding, Seeding
  <2> QED
    BY <2>1, <2>4 DEF Apart, Open, Opens, OpenFails
<1>3. CASE TaskSave(u)
  <2>1. /\ setup[u].pc = "answered" /\ UNCHANGED <<opened, missed, seeder, mixed>>
        /\ setup'[u].pc = "done" /\ wallet'[u].status = "created" /\ wallet'[u].number = "real"
        /\ \A c \in Customers \ {u} : setup'[c] = setup[c] /\ wallet'[c] = wallet[c]
    BY <1>3 DEF TaskSave, Setup, SetupRow, Saved
  <2>2. KnownAt(u)'
    BY <1>k, <2>1 DEF KnownAt, AtWork, Holding, Seeding, Recorded
  <2> QED
    BY <2>1, <2>2 DEF Apart, Open
<1>4. CASE TaskFail(u)
  <2>0. NextTry(setup[u].tries).pc \in {"queued", "gave up"}
    BY DEF NextTry, Waits
  <2>1. /\ setup[u].pc = "failing" /\ UNCHANGED <<opened, missed, seeder, mixed>>
        /\ setup'[u].pc \in {"queued", "gave up"}
        /\ \A c \in Customers \ {u} : setup'[c] = setup[c] /\ wallet'[c] = wallet[c]
    BY <1>4, <2>0 DEF TaskFail
  <2>2. KnownAt(u)'
    BY <1>k, <2>1 DEF KnownAt, AtWork, Holding, Seeding, Open
  <2> QED
    BY <2>1, <2>2 DEF Apart, Open
<1>5. CASE TaskDie(u)
  <2>1. /\ UNCHANGED <<opened, wallet, seeder, mixed>> /\ AtWork(u)
        /\ missed' = IF setup[u].pc = "answered" THEN missed \cup {u} ELSE missed
        /\ setup'[u].pc = "lost" /\ \A c \in Customers \ {u} : setup'[c] = setup[c]
    BY <1>5 DEF TaskDie, Setup, SetupRow
  <2>2. KnownAt(u)'
    BY <1>k, <2>1 DEF KnownAt, AtWork, Holding, Seeding, Open, Recorded
  <2> QED
    BY <2>1, <2>2 DEF Apart, Open
<1> QED
  BY <1>1, <1>2, <1>3, <1>4, <1>5 DEF TaskStep

LEMMA KnownSeeder ==
  ASSUME KnownInv, NEW u \in Customers,
         \/ SeedUser(u) \/ SeedLook(u) \/ SeedOpen(u) \/ SeedOffline(u) \/ SeedWallet(u)
         \/ SeedDie(u) \/ SystemLook(u) \/ SystemPrint(u)
  PROVE  KnownAt(u)' /\ \A c \in Customers \ {u} : Apart(c)
<1> USE DEF KnownInv, ProvTypeOK
<1>k. KnownAt(u) /\ wallet[u] \in WalletRow /\ setup[u] \in SetupRow
  OBVIOUS
<1>1. CASE SeedUser(u)
  <2>1. /\ UNCHANGED <<opened, wallet, missed>> /\ seeder[u] = "due" /\ seeder'[u] = "user"
        /\ mixed' = IF AtWork(u) THEN mixed \cup {u} ELSE mixed
        /\ \A c \in Customers \ {u} : setup'[c] = setup[c] /\ seeder'[c] = seeder[c]
        /\ \/ setup'[u].pc = setup[u].pc
           \/ setup[u].pc = "none" /\ setup'[u].pc = "queued"
        /\ u \notin System
    BY <1>1, SeededAssumption DEF SeedUser, Registered, Waits
  <2>2. KnownAt(u)'
    BY <1>k, <2>1 DEF KnownAt, AtWork, Holding, Seeding, Open, Recorded
  <2> QED
    BY <2>1, <2>2 DEF Apart, Open
<1>2. CASE SeedLook(u) \/ SeedOffline(u)
  <2>1. /\ UNCHANGED <<opened, wallet, missed, mixed, setup>> /\ seeder[u] = "user"
        /\ seeder'[u] \in {"named", "nameless", "offline"}
        /\ \A c \in Customers \ {u} : seeder'[c] = seeder[c]
    BY <1>2 DEF SeedLook, SeedOffline
  <2>2. KnownAt(u)'
    BY <1>k, <2>1 DEF KnownAt, AtWork, Holding, Seeding, Open, Recorded
  <2> QED
    BY <2>1, <2>2 DEF Apart, Open
<1>3. CASE SeedOpen(u)
  <2>1. /\ UNCHANGED <<wallet, mixed, setup>> /\ seeder[u] = "nameless"
        /\ \A c \in Customers \ {u} : seeder'[c] = seeder[c]
        /\ \/ Opens(u) /\ seeder'[u] = "named"
           \/ OpenFails(u) /\ seeder'[u] = "failed"
    BY <1>3 DEF SeedOpen
  <2>2. KnownAt(u)'
    BY <1>k, <2>1 DEF KnownAt, AtWork, Holding, Seeding, Open, Recorded, Opens, OpenFails
  <2> QED
    BY <2>1, <2>2 DEF Apart, Open, Opens, OpenFails
<1>4. CASE SeedWallet(u)
  <2>1. /\ UNCHANGED <<opened, mixed, setup>> /\ seeder'[u] = "done"
        /\ seeder[u] \in {"named", "failed", "offline"}
        /\ missed' = IF seeder[u] # "named" /\ u \in opened THEN missed \cup {u} ELSE missed
        /\ seeder[u] = "named" => wallet'[u].status = "created" /\ wallet'[u].number = "real"
        /\ \A c \in Customers \ {u} : seeder'[c] = seeder[c] /\ wallet'[c] = wallet[c]
        /\ u \notin System
    BY <1>4, SeededAssumption DEF SeedWallet
  <2>2. KnownAt(u)'
    BY <1>k, <2>1 DEF KnownAt, AtWork, Holding, Seeding, Open, Recorded
  <2> QED
    BY <2>1, <2>2 DEF Apart, Open
<1>5. CASE SeedDie(u)
  <2>1. /\ UNCHANGED <<opened, mixed, setup, wallet>> /\ Seeding(u) /\ seeder'[u] = "dead"
        /\ missed' = IF seeder[u] = "named" THEN missed \cup {u} ELSE missed
        /\ \A c \in Customers \ {u} : seeder'[c] = seeder[c]
    BY <1>5 DEF SeedDie
  <2>2. KnownAt(u)'
    BY <1>k, <2>1 DEF KnownAt, AtWork, Holding, Seeding, Open, Recorded
  <2> QED
    BY <2>1, <2>2 DEF Apart, Open
<1>6. CASE SystemLook(u)
  <2>1. /\ UNCHANGED <<opened, wallet, missed, mixed, setup>> /\ u \in System
        /\ seeder[u] \in {"due", "dead", "done"} /\ seeder'[u] \in {"named", "nameless"}
        /\ \A c \in Customers \ {u} : seeder'[c] = seeder[c]
    BY <1>6 DEF SystemLook
  <2>2. KnownAt(u)'
    BY <1>k, <2>1 DEF KnownAt, AtWork, Holding, Open
  <2> QED
    BY <2>1, <2>2 DEF Apart, Open
<1>7. CASE SystemPrint(u)
  <2>1. /\ UNCHANGED <<opened, wallet, mixed, setup>> /\ u \in System
        /\ \A c \in Customers \ {u} : seeder'[c] = seeder[c] /\ (c \in missed' <=> c \in missed)
        /\ \/ seeder'[u] = "printed"
           \/ seeder'[u] = "done" /\ (u \in opened => u \in missed')
    BY <1>7 DEF SystemPrint
  <2>2. KnownAt(u)'
    BY <1>k, <2>1 DEF KnownAt, AtWork, Holding, Open, Seeding
  <2> QED
    BY <2>1, <2>2 DEF Apart, Open
<1> QED
  BY <1>1, <1>2, <1>3, <1>4, <1>5, <1>6, <1>7

LEMMA KnownStep ==
  ASSUME KnownInv, [ProvNext]_provVars
  PROVE  \A c \in Customers : KnownAt(c)'
<1> USE DEF KnownInv
<1>1. ASSUME NEW u \in Customers, SignUp(u) PROVE \A c \in Customers : KnownAt(c)'
  <2>1. /\ UNCHANGED <<wallet, opened, missed, mixed, seeder>>
        /\ setup[u].pc = "none" /\ setup'[u].pc = "queued" /\ u \notin System
        /\ \A c \in Customers \ {u} : setup'[c] = setup[c]
    BY <1>1 DEF SignUp, Registered, Waits, ProvTypeOK
  <2>2. KnownAt(u)'
    BY <2>1 DEF KnownAt, AtWork, Holding, Seeding, Open, Recorded
  <2>3. \A c \in Customers \ {u} : Apart(c)
    BY <2>1 DEF Apart, Open
  <2> QED
    BY <2>2, <2>3, ApartKeeps
<1>2. ASSUME NEW u \in Customers,
             \/ TaskStep(u) \/ SeedUser(u) \/ SeedLook(u) \/ SeedOpen(u) \/ SeedOffline(u)
             \/ SeedWallet(u) \/ SeedDie(u) \/ SystemLook(u) \/ SystemPrint(u)
      PROVE  \A c \in Customers : KnownAt(c)'
  BY <1>2, KnownTask, KnownSeeder, ApartKeeps
<1>3. ASSUME NEW v \in Visits, Mark(v) \/ Visit(v) \/ VaStep(v)
      PROVE  \A c \in Customers : KnownAt(c)'
  <2>1. \A c \in Customers : Apart(c)
    BY <1>3 DEF Mark, Visit, VaStep, VaBegin, VaCall, VaSaveWallet, OpenFails, Apart, Open
  <2> QED
    BY <2>1, ApartKeeps
<1>4. ASSUME NEW p \in Income, Pay(p) PROVE \A c \in Customers : KnownAt(c)'
  <2>1. /\ UNCHANGED <<setup, opened, missed, mixed, seeder>>
        /\ \A c \in Customers : wallet'[c].status = wallet[c].status /\ wallet'[c].number = wallet[c].number
    BY <1>4, PaidToAssumption DEF Pay, ProvTypeOK, WalletRow
  <2> QED
    BY <2>1, ApartKeeps DEF Apart, Open
<1>5. CASE UNCHANGED provVars
  BY <1>5 DEF provVars, KnownAt, AtWork, Holding, Seeding, Open, Recorded
<1> QED
  BY <1>1, <1>2, <1>3, <1>4, <1>5 DEF ProvNext

\* An account that Squad has opened ends up where its number is needed, unless whoever
\* opened it did not learn of it, died, or threw its number away, or two were at it.
THEOREM AccountsAreKnown == ProvSpec => []OpenedAccountIsKnown
<1>1. ProvInit => KnownInv
  BY ProvTypeInit DEF ProvInit, KnownInv, KnownAt, AtWork, Holding, Seeding, Open
<1>2. KnownInv /\ [ProvNext]_provVars => KnownInv'
  BY ProvTypeStep, KnownStep DEF KnownInv
<1>3. KnownInv => OpenedAccountIsKnown
  BY DEF KnownInv, ProvTypeOK, KnownAt, OpenedAccountIsKnown, Open, Recorded, AtWork, Holding, Seeding
<1> QED
  BY <1>1, <1>2, <1>3, PTL DEF ProvSpec
-----------------------------------------------------------------------------
(* SquadWebhook: a wallet and the tasks that have read it *)

Reads(d) == task[d].pc = "read"

\* What a task has in hand was never more than has been posted; and where no two tasks
\* have met, it is the balance, of one task at most.
ReadSound ==
    /\ \A d \in Deliveries : Reads(d) => task[d].seen <= posted[Owner(d)]
    /\ \A c, d \in Deliveries :
         Reads(c) /\ Reads(d) /\ Owner(c) = Owner(d) /\ ~overlap[Owner(d)] => c = d
    /\ \A d \in Deliveries :
         Reads(d) /\ ~overlap[Owner(d)] => task[d].seen = balance[Owner(d)]

WebhookInv == WebhookTypeOK /\ ReadSound /\ WalletExactUnlessOverlap

LEMMA OwnerIsUser == \A d \in Deliveries : Owner(d) \in Users /\ Amount[Event[d]] \in Nat
  BY EventAssumption, PayeeAssumption, AmountAssumption DEF Owner

LEMMA WebhookTypeStep ==
  ASSUME WebhookTypeOK, [Next]_vars
  PROVE  WebhookTypeOK'
<1> USE OwnerIsUser DEF WebhookTypeOK, Calls, Runs
<1>1. ASSUME NEW d \in Deliveries, Receive(d) \/ Accept(d) \/ Refuse(d) PROVE WebhookTypeOK'
  BY <1>1 DEF Receive, Accept, Refuse
<1>2. ASSUME NEW d \in Deliveries, Read(d) PROVE WebhookTypeOK'
  <2>1. overlap' \in [Users -> BOOLEAN]
    BY <1>2, Zenon DEF Read
  <2> QED
    BY <1>2, <2>1 DEF Read
<1>3. ASSUME NEW d \in Deliveries, ReadNothing(d) \/ Record(d) PROVE WebhookTypeOK'
  BY <1>3 DEF ReadNothing, Record
<1>4. ASSUME NEW d \in Deliveries, Credit(d) PROVE WebhookTypeOK'
  BY <1>4 DEF Credit, Credited
<1>5. ASSUME NEW d \in Deliveries, Lose(d) PROVE WebhookTypeOK'
  BY <1>5 DEF Lose, AfterLoss
<1>6. CASE UNCHANGED vars
  BY <1>6 DEF vars
<1> QED
  BY <1>1, <1>2, <1>3, <1>4, <1>5, <1>6 DEF Next, Run

LEMMA WebhookTypeInit == Init => WebhookTypeOK
BY DEF Init, WebhookTypeOK, Calls, Runs

\* The calls of the webhooks, their tasks, and the wallets.
THEOREM WebhookTypeCorrect == Spec => []WebhookTypeOK
<1>1. WebhookTypeOK /\ [Next]_vars => WebhookTypeOK'
  BY WebhookTypeStep
<1> QED
  BY WebhookTypeInit, <1>1, PTL DEF Spec

LEMMA WalletStep ==
  ASSUME WebhookInv, [Next]_vars
  PROVE  (ReadSound /\ WalletExactUnlessOverlap)'
<1> USE OwnerIsUser DEF WebhookInv, ReadSound, WalletExactUnlessOverlap, Reads
<1>t. WebhookTypeOK
  OBVIOUS
<1>1. ASSUME NEW d \in Deliveries, Receive(d) \/ Accept(d) \/ Refuse(d) \/ ReadNothing(d)
                                     \/ Record(d) \/ Lose(d)
      PROVE  (ReadSound /\ WalletExactUnlessOverlap)'
  <2>1. UNCHANGED <<balance, posted, overlap>>
    BY <1>1 DEF Receive, Accept, Refuse, ReadNothing, Record, Lose
  <2>2. \A c \in Deliveries : task'[c].pc = "read" => task'[c] = task[c]
    BY <1>1, <1>t DEF Receive, Accept, Refuse, ReadNothing, Record, Lose, AfterLoss, WebhookTypeOK
  <2> QED
    BY <2>1, <2>2
<1>2. ASSUME NEW d \in Deliveries, Read(d)
      PROVE  (ReadSound /\ WalletExactUnlessOverlap)'
  <2>1. /\ task'[d] = [pc |-> "read", seen |-> balance[Owner(d)]]
        /\ \A c \in Deliveries \ {d} : task'[c] = task[c]
        /\ UNCHANGED <<balance, posted>> /\ ~Reads(d)
    BY <1>2, <1>t DEF Read, WebhookTypeOK
  <2>2. \A u \in Users \ {Owner(d)} : overlap'[u] = overlap[u]
    BY <1>2, <1>t DEF Read, WebhookTypeOK
  <2>3. ~overlap'[Owner(d)] =>
          ~overlap[Owner(d)] /\ \A c \in Deliveries : ~(Reads(c) /\ Owner(c) = Owner(d))
    BY <1>2, <1>t, Zenon DEF Read, WebhookTypeOK
  <2> QED
    BY <2>1, <2>2, <2>3, <1>t DEF WebhookTypeOK
<1>3. ASSUME NEW d \in Deliveries, Credit(d)
      PROVE  (ReadSound /\ WalletExactUnlessOverlap)'
  <2>1. /\ task'[d].pc = "credited" /\ \A c \in Deliveries \ {d} : task'[c] = task[c]
        /\ UNCHANGED overlap /\ Reads(d)
    BY <1>3, <1>t DEF Credit, WebhookTypeOK
  <2>2. /\ balance'[Owner(d)] = task[d].seen + Amount[Event[d]]
        /\ posted'[Owner(d)] = posted[Owner(d)] + Amount[Event[d]]
        /\ \A u \in Users \ {Owner(d)} : balance'[u] = balance[u] /\ posted'[u] = posted[u]
    BY <1>3, <1>t DEF Credit, Credited, WebhookTypeOK
  <2>3. /\ \A c \in Deliveries : task[c].seen \in Nat
        /\ \A u \in Users : balance[u] \in Nat /\ posted[u] \in Nat
    BY <1>t DEF WebhookTypeOK
  <2>4. ReadSound'
    BY <2>1, <2>2, <2>3
  <2>5. WalletExactUnlessOverlap'
    BY <2>1, <2>2, <2>3
  <2> QED
    BY <2>4, <2>5
<1>4. CASE UNCHANGED vars
  BY <1>4 DEF vars
<1> QED
  BY <1>1, <1>2, <1>3, <1>4 DEF Next, Run

\* A wallet never has more than was credited to it, and has all of it unless two tasks
\* had read it at the same time.
THEOREM WalletsAreExact == Spec => []WalletExactUnlessOverlap
<1>1. Init => WebhookInv
  BY WebhookTypeInit DEF Init, WebhookInv, ReadSound, Reads, WalletExactUnlessOverlap
<1>2. WebhookInv /\ [Next]_vars => WebhookInv'
  BY WebhookTypeStep, WalletStep DEF WebhookInv
<1>3. WebhookInv => WalletExactUnlessOverlap
  BY DEF WebhookInv
<1> QED
  BY <1>1, <1>2, <1>3, PTL DEF Spec
-----------------------------------------------------------------------------
(* SquadWebhook: a payment announced again when the dust has settled *)

Doing(p) == {d \in Of(p) : call[d] = "checked" \/ task[d].pc \in {"queued", "read", "credited"}}

\* Of such a payment one announcement at most is being dealt with, and none once it
\* is recorded: the later ones are ignored.
OneDoing(p) ==
    /\ \A c, d \in Doing(p) : c = d
    /\ \A c, d \in Records(p) : c = d
    /\ Records(p) # {} => Doing(p) = {}

PatientInv ==
    /\ WebhookTypeOK
    /\ \A d \in Deliveries : call[d] # "accepted" => task[d].pc = "none"
    /\ \A p \in Patient : OneDoing(p)

\* What the step of one delivery does to its payment.
LEMMA DeliverySteps ==
  ASSUME WebhookTypeOK, NEW d \in Deliveries,
         Receive(d) \/ Accept(d) \/ Refuse(d) \/ Run(d) \/ Lose(d)
  PROVE  /\ \A c \in Deliveries \ {d} : call'[c] = call[c] /\ task'[c].pc = task[c].pc
         /\ \/ /\ call[d] = "due" /\ call'[d] = (IF Duplicate(d) THEN "ignored" ELSE "checked")
               /\ task'[d].pc = task[d].pc /\ (Event[d] \in Patient => Quiet(Event[d]))
            \/ call[d] = "checked" /\ call'[d] = "accepted" /\ task'[d].pc = "queued"
            \/ call[d] = "checked" /\ call'[d] = "refused" /\ task'[d].pc = task[d].pc
            \/ /\ call'[d] = call[d] /\ task[d].pc \in {"queued", "read"}
               /\ task'[d].pc \in {"read", "credited", "unmatched", "lost"}
            \/ /\ call'[d] = call[d] /\ task[d].pc = "credited"
               /\ task'[d].pc \in {"recorded", "halfway"}
BY DEF WebhookTypeOK, Receive, Accept, Refuse, Run, Read, ReadNothing, Credit, Record, Lose, AfterLoss

LEMMA PatientInitially == Init => PatientInv
<1> SUFFICES ASSUME Init PROVE PatientInv
  OBVIOUS
<1>1. \A d \in Deliveries : call[d] = "due" /\ task[d].pc = "none"
  BY DEF Init
<1>2. \A p \in Patient : Doing(p) = {} /\ Records(p) = {}
  BY <1>1 DEF Doing, Records, Of
<1> QED
  BY <1>1, <1>2, WebhookTypeInit DEF PatientInv, OneDoing

LEMMA PatientStep == PatientInv /\ [Next]_vars => PatientInv'
<1> SUFFICES ASSUME PatientInv, [Next]_vars PROVE PatientInv'
  OBVIOUS
<1>1. WebhookTypeOK /\ WebhookTypeOK'
  BY WebhookTypeStep DEF PatientInv
<1>2. CASE UNCHANGED vars
  BY <1>1, <1>2 DEF PatientInv, OneDoing, Doing, Records, Of, vars
<1>3. ASSUME NEW d \in Deliveries, Receive(d) \/ Accept(d) \/ Refuse(d) \/ Run(d) \/ Lose(d)
      PROVE  PatientInv'
  <2>1. \A c \in Deliveries : call[c] # "accepted" => task[c].pc = "none"
    BY DEF PatientInv
  <2>2. \A c \in Deliveries : call'[c] # "accepted" => task'[c].pc = "none"
    BY <1>1, <1>3, <2>1, DeliverySteps
  <2>3. ASSUME NEW p \in Patient
        PROVE  OneDoing(p)'
    <3>1. OneDoing(p)
      BY DEF PatientInv
    <3>2. /\ Doing(p)' = {c \in Of(p) : call'[c] = "checked" \/ task'[c].pc \in {"queued", "read", "credited"}}
          /\ Records(p)' = {c \in Of(p) : task'[c].pc = "recorded"}
          /\ Of(p) = {c \in Deliveries : Event[c] = p}
      BY DEF Doing, Records, Of
    <3>3. CASE Event[d] # p
      <4>1. Doing(p)' = Doing(p) /\ Records(p)' = Records(p)
        BY <1>1, <1>3, <3>2, <3>3, DeliverySteps DEF Doing, Records
      <4> QED
        BY <3>1, <4>1 DEF OneDoing
    <3>4. CASE Event[d] = p /\ d \in Doing(p)
      <4>1. Doing(p) = {d} /\ Records(p) = {}
        BY <3>1, <3>4 DEF OneDoing
      <4>2. call[d] # "due"
        BY <2>1, <3>4 DEF Doing
      <4>3. Doing(p)' \subseteq {d} /\ Records(p)' \subseteq {d}
        BY <1>1, <1>3, <3>2, <4>1, DeliverySteps DEF Doing, Records
      <4>4. task'[d].pc = "recorded" => call'[d] # "checked"
        BY <2>2
      <4> QED
        BY <3>2, <4>3, <4>4 DEF OneDoing
    <3>5. CASE Event[d] = p /\ d \notin Doing(p)
      <4>1. /\ call[d] = "due" /\ Quiet(p) /\ task'[d].pc = task[d].pc
            /\ call'[d] = (IF Duplicate(d) THEN "ignored" ELSE "checked")
        BY <1>1, <1>3, <3>2, <3>5, DeliverySteps DEF Doing
      <4>2. Doing(p) = {}
        BY <4>1 DEF Quiet, Doing
      <4>3. Records(p)' = Records(p)
        BY <1>1, <1>3, <3>2, <4>1, DeliverySteps DEF Records
      <4>4. Doing(p)' \subseteq {d}
        BY <1>1, <1>3, <3>2, <4>2, DeliverySteps DEF Doing
      <4>5. Records(p) # {} => Duplicate(d)
        BY <3>5, PatientAssumption DEF Duplicate
      <4>6. Records(p) # {} => d \notin Doing(p)'
        BY <2>1, <3>2, <4>1, <4>5
      <4> QED
        BY <3>1, <4>3, <4>4, <4>6 DEF OneDoing
    <3> QED
      BY <3>3, <3>4, <3>5
  <2> QED
    BY <1>1, <2>2, <2>3 DEF PatientInv
<1> QED
  BY <1>2, <1>3 DEF Next

\* A payment announced again only when nothing of it is under way is recorded once, and
\* credited again only for tasks that died.
THEOREM PatientPaymentsCountOnce == Spec => []PatientCreditedOnce
<1>1. ASSUME PatientInv, NEW p \in Patient
      PROVE  /\ Cardinality(Records(p)) <= 1
             /\ \A d \in Records(p) : Credits(p) \subseteq Losses(p) \cup {d}
  <2>1. OneDoing(p)
    BY <1>1 DEF PatientInv
  <2>2. Cardinality(Records(p)) <= 1
    <3>1. CASE Records(p) = {}
      BY <3>1, FS_EmptySet
    <3>2. CASE Records(p) # {}
      <4>1. PICK d \in Records(p) : Records(p) = {d}
        BY <2>1, <3>2 DEF OneDoing
      <4> QED
        BY <4>1, FS_Singleton
    <3> QED
      BY <3>1, <3>2
  <2>3. ASSUME NEW d \in Records(p), NEW c \in Credits(p)
        PROVE  c \in Losses(p) \cup {d}
    BY <2>1, <2>3 DEF OneDoing, Doing, Records, Credits, Losses
  <2> QED
    BY <2>2, <2>3
<1>2. PatientInv => PatientCreditedOnce
  BY <1>1 DEF PatientCreditedOnce
<1> QED
  BY <1>2, PatientInitially, PatientStep, PTL DEF Spec

-----------------------------------------------------------------------------
(* PinReset *)

FoundRow == [pc : {"found", "used"}, phone : Phones, code : Resets, new : Pins]

\* What a request has in hand is of the right kind, and the PIN that a change has
\* checked is still the one of the account unless that is noted.
Sound(r) ==
    /\ request[r].pc \in {"free", "updated"} => request[r].phone \in Phones
    /\ request[r].pc \in {"found", "used"} => request[r] \in FoundRow
    /\ r \in Changes \cup Migrations /\ request[r].pc = "checked" =>
         /\ request[r].phone \in Phones /\ request[r].new \in Pins
         /\ r \notin overtaken => /\ pin[request[r].phone] = request[r].typed
                                  /\ request[r].typed # "absent"

PinInv ==
    /\ PinTypeOK /\ DOMAIN request = Requests
    /\ \A r \in Requests : Sound(r)
    /\ ChangeKnowsThePin

LEMMA PinInitial == PinInit => PinInv
<1> SUFFICES ASSUME PinInit PROVE PinInv
  OBVIOUS
<1>1. DOMAIN request = Requests /\ \A r \in Requests : request[r].pc \in {"due", "never"}
  BY DEF PinInit
<1>2. PinTypeOK /\ ChangeKnowsThePin
  BY DEF PinInit, PinTypeOK, ChangeKnowsThePin
<1> QED
  BY <1>1, <1>2 DEF PinInv, Sound

\* An answer ends a step of one request, and changes nothing else of the requests.
LEMMA AnswersAre ==
  ASSUME DOMAIN request = Requests, NEW r \in Requests, NEW code, Answers(r, code)
  PROVE  /\ DOMAIN request' = Requests /\ request'[r].pc = code
         /\ \A q \in Requests \ {r} : request'[q] = request[q]
<1>1. request' = [request EXCEPT ![r] = [pc |-> code]]
  BY DEF Answers, Goes
<1>2. request'[r] = [pc |-> code]
  BY <1>1
<1> QED
  BY <1>1, <1>2

LEMMA PinStep ==
  ASSUME PinInv, [PinNext]_pinVars
  PROVE  PinInv'
<1> USE DEF PinInv, PinTypeOK, Accounts
<1>r. /\ SignUps \subseteq Requests /\ Logins \subseteq Requests /\ Changes \subseteq Requests
      /\ Resets \subseteq Requests /\ Confirms \subseteq Requests /\ Migrations \subseteq Requests
  BY DEF Requests
<1>1. ASSUME NEW r \in SignUps, NEW p \in Phones, SignUpCheck(r, p) PROVE PinInv'
  BY <1>1, <1>r, KindsAssumption
     DEF SignUpCheck, Goes, Answers, Sound, codeVars, traceVars, ChangeKnowsThePin
<1>2. ASSUME NEW r \in SignUps, NEW new \in Pins \cup {NoPin}, SignUpSave(r, new) PROVE PinInv'
  <2>1. request[r].phone \in Phones
    BY <1>2, <1>r DEF SignUpSave, Sound
  <2>2. /\ DOMAIN request' = Requests /\ request'[r].pc \in {"error", "done"}
        /\ \A q \in Requests \ {r} : request'[q] = request[q]
        /\ UNCHANGED <<issued, spent, expired, uses, raced, overtaken, blind>>
    BY <1>2, <1>r DEF SignUpSave, Goes, Answers, codeVars, traceVars
  <2>3. /\ pin' \in [Phones -> Pins \cup {NoPin, "absent"}]
        /\ \A q \in Phones : pin[q] # "absent" => pin'[q] = pin[q]
    BY <1>2, <2>1 DEF SignUpSave
  <2> QED
    BY <2>2, <2>3 DEF Sound, ChangeKnowsThePin
<1>3. ASSUME NEW r \in Logins, \/ \E p \in Phones, typed \in Pins : LoginCheck(r, p, typed)
                               \/ LoginSave(r) \/ Logout(r)
      PROVE  PinInv'
  <2>1. r \notin Changes \cup Migrations
    BY KindsAssumption
  <2>2. \E code \in {"checked", "refused", "signed in", "signed out"} : Answers(r, code)
    BY <1>3 DEF LoginCheck, LoginSave, Logout
  <2>3. /\ DOMAIN request' = Requests
        /\ request'[r].pc \in {"checked", "refused", "signed in", "signed out"}
        /\ \A q \in Requests \ {r} : request'[q] = request[q]
    BY <2>2, <1>r, AnswersAre
  <2>4. UNCHANGED <<pin, issued, spent, expired, uses, raced, overtaken, blind>>
    BY <1>3 DEF LoginCheck, LoginSave, Logout, codeVars, traceVars
  <2> QED
    BY <2>1, <2>3, <2>4 DEF Sound, ChangeKnowsThePin
<1>4. ASSUME NEW r \in Changes, NEW p \in Phones, NEW typed \in Pins, NEW new \in Pins,
             ChangeCheck(r, p, typed, new)
      PROVE  PinInv'
  <2>1. /\ DOMAIN request' = Requests /\ \A q \in Requests \ {r} : request'[q] = request[q]
        /\ UNCHANGED <<pin, issued, spent, expired, uses, raced, overtaken, blind>>
    BY <1>4, <1>r DEF ChangeCheck, Goes, Answers, codeVars, traceVars
  <2>2. \/ request'[r].pc = "refused"
        \/ /\ request'[r] = [pc |-> "checked", phone |-> p, typed |-> typed, new |-> new]
           /\ pin[p] = typed
    BY <1>4, <1>r DEF ChangeCheck, Matches, Goes, Answers
  <2>3. typed # "absent"
    BY PinsAssumption
  <2> QED
    BY <2>1, <2>2, <2>3 DEF Sound, ChangeKnowsThePin
<1>5. ASSUME NEW r \in Migrations, NEW p \in Phones, MigrateCheck(r, p) PROVE PinInv'
  <2>1. /\ DOMAIN request' = Requests /\ \A q \in Requests \ {r} : request'[q] = request[q]
        /\ UNCHANGED <<pin, issued, spent, expired, uses, raced, overtaken, blind>>
    BY <1>5, <1>r DEF MigrateCheck, Goes, Answers, codeVars, traceVars
  <2>2. \/ request'[r].pc = "skipped"
        \/ /\ request'[r] = [pc |-> "checked", phone |-> p, typed |-> NoPin, new |-> NewPin]
           /\ pin[p] = NoPin
    BY <1>5, <1>r DEF MigrateCheck, Goes, Answers
  <2>3. NoPin # "absent" /\ NewPin \in Pins
    BY LegacyAssumption DEF NoPin
  <2> QED
    BY <2>1, <2>2, <2>3 DEF Sound, ChangeKnowsThePin
<1>6. ASSUME NEW r \in Changes \cup Migrations, ChangeSave(r) PROVE PinInv'
  <2> DEFINE p == request[r].phone
  <2>1. p \in Phones /\ request[r].new \in Pins /\ (r \notin overtaken => pin[p] = request[r].typed)
    BY <1>6, <1>r DEF ChangeSave, Sound
  <2>2. /\ DOMAIN request' = Requests /\ request'[r].pc = "done"
        /\ \A q \in Requests \ {r} : request'[q] = request[q]
        /\ UNCHANGED <<issued, spent, expired, uses, raced>>
    BY <1>6, <1>r DEF ChangeSave, Goes, Answers, codeVars
  <2>3. /\ pin' = [pin EXCEPT ![p] = request[r].new]
        /\ overtaken' = overtaken \cup (Checked(p) \ {r})
        /\ blind' = IF pin[p] = request[r].typed THEN blind ELSE blind \cup {r}
    BY <1>6 DEF ChangeSave, SetsPin
  <2>4. pin' \in [Phones -> Pins \cup {NoPin, "absent"}]
    BY <2>1, <2>3
  <2>5. ChangeKnowsThePin'
    BY <2>1, <2>3 DEF ChangeKnowsThePin
  <2>6. \A q \in Requests : Sound(q)'
    BY <2>2, <2>3 DEF Sound, Checked
  <2> QED
    BY <2>2, <2>4, <2>5, <2>6
<1>7. ASSUME NEW r \in Resets, NEW typed \in Phones, ResetUpdate(r, typed) PROVE PinInv'
  <2>1. Intl[typed] \in Phones
    BY PhonesAssumption
  <2>2. /\ DOMAIN request' = Requests /\ \A q \in Requests \ {r} : request'[q] = request[q]
        /\ \/ request'[r].pc = "unknown"
           \/ request'[r] = [pc |-> "updated", phone |-> Intl[typed]]
        /\ UNCHANGED <<pin, issued, expired, uses, raced, overtaken, blind>>
        /\ spent' \subseteq Resets
    BY <1>7, <1>r DEF ResetUpdate, Superseded, Unspent, Goes, Answers, traceVars
  <2> QED
    BY <2>1, <2>2 DEF Sound, ChangeKnowsThePin
<1>8. ASSUME NEW r \in Resets, ResetCreate(r) PROVE PinInv'
  <2>1. /\ DOMAIN request' = Requests /\ \A q \in Requests \ {r} : request'[q] = request[q]
        /\ request'[r].pc = "created"
        /\ UNCHANGED <<pin, spent, expired, uses, overtaken, blind>>
    BY <1>8, <1>r DEF ResetCreate, Goes
  <2>2. \A p \in Phones : issued'[p] \in Seq(Resets)
    <3>1. issued' = [issued EXCEPT ![request[r].phone] = Append(@, r)]
      BY <1>8 DEF ResetCreate
    <3>2. \A p \in Phones : issued'[p] = issued[p] \/ issued'[p] = Append(issued[p], r)
      BY <3>1
    <3>3. \A p \in Phones : Append(issued[p], r) \in Seq(Resets)
      BY AppendProperties
    <3> QED
      BY <3>2, <3>3
  <2> QED
    BY <2>1, <2>2 DEF Sound, ChangeKnowsThePin
<1>9. ASSUME NEW r \in Resets, ResetSend(r) \/ Expire(r) PROVE PinInv'
  <2>1. CASE ResetSend(r)
    <3>1. /\ DOMAIN request' = Requests /\ \A q \in Requests \ {r} : request'[q] = request[q]
          /\ request'[r].pc \in {"sent", "not sent"}
          /\ UNCHANGED <<pin, issued, spent, expired, uses, raced, overtaken, blind>>
      BY <2>1, <1>r, AnswersAre DEF ResetSend, codeVars, traceVars
    <3> QED
      BY <3>1 DEF Sound, ChangeKnowsThePin
  <2>2. CASE Expire(r)
    <3>1. UNCHANGED <<pin, issued, spent, request, uses, raced, overtaken, blind>>
          /\ expired' \subseteq Resets
      BY <2>2 DEF Expire, traceVars
    <3> QED
      BY <3>1 DEF Sound, ChangeKnowsThePin
  <2> QED
    BY <1>9, <2>1, <2>2
<1>10. ASSUME NEW r \in Confirms, NEW typed \in Phones, NEW c \in Resets, NEW new \in Pins,
              ConfirmCheck(r, typed, c, new)
       PROVE  PinInv'
  <2>1. Intl[typed] \in Phones
    BY PhonesAssumption
  <2>2. /\ DOMAIN request' = Requests /\ \A q \in Requests \ {r} : request'[q] = request[q]
        /\ \/ request'[r].pc = "refused"
           \/ request'[r] = [pc |-> "found", phone |-> Intl[typed], code |-> c, new |-> new]
        /\ UNCHANGED <<pin, issued, spent, expired, uses, overtaken, blind>>
    BY <1>10, <1>r DEF ConfirmCheck, Goes, Answers, codeVars
  <2> QED
    BY <2>1, <2>2 DEF Sound, FoundRow, ChangeKnowsThePin
<1>11. ASSUME NEW r \in Confirms, ConfirmUse(r) PROVE PinInv'
  <2>1. request[r] \in FoundRow
    BY <1>11, <1>r DEF ConfirmUse, Sound
  <2>2. /\ DOMAIN request' = Requests /\ \A q \in Requests \ {r} : request'[q] = request[q]
        /\ request'[r] = [request[r] EXCEPT !.pc = "used"]
        /\ UNCHANGED <<pin, issued, expired, uses, raced, overtaken, blind>>
        /\ spent' = spent \cup {request[r].code}
    BY <1>11, <1>r DEF ConfirmUse, traceVars
  <2>3. request'[r] \in FoundRow /\ request'[r].pc = "used" /\ request[r].code \in Resets
    BY <2>1, <2>2 DEF FoundRow
  <2> QED
    BY <2>2, <2>3 DEF Sound, FoundRow, ChangeKnowsThePin
<1>12. ASSUME NEW r \in Confirms, ConfirmSet(r) PROVE PinInv'
  <2> DEFINE p == request[r].phone
  <2>1. p \in Phones /\ request[r].new \in Pins /\ request[r].code \in Resets
    BY <1>12, <1>r DEF ConfirmSet, Sound, FoundRow
  <2>2. /\ DOMAIN request' = Requests /\ request'[r].pc = "done"
        /\ \A q \in Requests \ {r} : request'[q] = request[q]
        /\ UNCHANGED <<issued, spent, expired, raced, blind>>
    BY <1>12, <1>r DEF ConfirmSet, Goes, Answers, codeVars
  <2>3. /\ pin' = [pin EXCEPT ![p] = request[r].new]
        /\ overtaken' = overtaken \cup (Checked(p) \ {r})
        /\ uses' \in [Resets -> Nat]
    BY <1>12, <2>1 DEF ConfirmSet, SetsPin
  <2>4. pin' \in [Phones -> Pins \cup {NoPin, "absent"}]
    BY <2>1, <2>3
  <2>5. \A q \in Requests : Sound(q)'
    BY <2>2, <2>3 DEF Sound, Checked
  <2> QED
    BY <2>2, <2>3, <2>4, <2>5 DEF ChangeKnowsThePin
<1>13. ASSUME NEW r \in Requests, PinDie(r) PROVE PinInv'
  BY <1>13 DEF PinDie, Goes, Answers, codeVars, traceVars, Sound, ChangeKnowsThePin
<1>14. CASE UNCHANGED pinVars
  BY <1>14 DEF pinVars, Sound, ChangeKnowsThePin
<1> QED
  BY <1>1, <1>2, <1>3, <1>4, <1>5, <1>6, <1>7, <1>8, <1>9, <1>10, <1>11, <1>12, <1>13, <1>14
     DEF PinNext, MigrateSave

\* Accounts, codes and the requests about them.
THEOREM PinTypeCorrect == PinSpec => []PinTypeOK
<1>1. PinInv /\ [PinNext]_pinVars => PinInv'
  BY PinStep
<1>2. PinInv => PinTypeOK
  BY DEF PinInv
<1> QED
  BY PinInitial, <1>1, <1>2, PTL DEF PinSpec

\* A PIN is changed only by who knows the PIN that is replaced, unless another request
\* set it after it was checked.
THEOREM ChangesKnowThePin == PinSpec => []ChangeKnowsThePin
<1>1. PinInv /\ [PinNext]_pinVars => PinInv'
  BY PinStep
<1>2. PinInv => ChangeKnowsThePin
  BY DEF PinInv
<1> QED
  BY PinInitial, <1>1, <1>2, PTL DEF PinSpec
-----------------------------------------------------------------------------
(* The one-time codes *)

\* Of a code's confirmations, those under way.
Confirming(c) == {q \in Confirms : request[q].pc \in {"found", "used"} /\ request[q].code = c}

\* Of the codes of an account that did not meet another request, one at most is open,
\* and none while a new one is being made.
OneOpen(p) ==
    /\ \A c, d \in Unspent(p) \ raced : c = d
    /\ \A r \in Resets \ raced :
         request[r].pc = "updated" /\ request[r].phone = p => Unspent(p) \ raced = {}

\* A code that has got beyond its first confirmation is spent, and one that did not meet
\* a second confirmation has either one under way or one behind it.
UsedOnce(c) ==
    /\ uses[c] > 0 => c \in spent
    /\ \A q \in Confirming(c) : request[q].pc = "used" => c \in spent
    /\ c \notin raced => /\ \A q, k \in Confirming(c) : q = k
                         /\ uses[c] <= 1
                         /\ uses[c] = 1 => Confirming(c) = {}

CodesInv == PinInv /\ (\A p \in Phones : OneOpen(p)) /\ (\A c \in Resets : UsedOnce(c))

LEMMA OpenKept ==
  ASSUME CodesInv, issued' = issued, spent \subseteq spent', raced \subseteq raced',
         \A r \in Resets : request'[r].pc = "updated" => request'[r] = request[r]
  PROVE  \A p \in Phones : OneOpen(p)'
<1>1. \A p \in Phones : Unspent(p)' \ raced' \subseteq Unspent(p) \ raced
  BY DEF Unspent
<1> QED
  BY <1>1 DEF CodesInv, OneOpen

LEMMA UsesKept ==
  ASSUME CodesInv, uses' = uses, spent \subseteq spent', raced \subseteq raced',
         \A q \in Confirms : request'[q].pc \in {"found", "used"} => request'[q] = request[q]
  PROVE  \A c \in Resets : UsedOnce(c)'
<1>1. \A c \in Resets : Confirming(c)' \subseteq Confirming(c)
  BY DEF Confirming
<1>2. \A c \in Resets : \A q \in Confirming(c)' : request'[q].pc = request[q].pc
  BY DEF Confirming
<1> QED
  BY <1>1, <1>2 DEF CodesInv, UsedOnce

LEMMA CodesOpen ==
  ASSUME CodesInv, PinNext
  PROVE  \A p \in Phones : OneOpen(p)'
<1> USE DEF CodesInv, PinInv, Requests
<1>1. ASSUME NEW r \in Resets, NEW typed \in Phones, ResetUpdate(r, typed)
      PROVE  \A p \in Phones : OneOpen(p)'
  <2>1. CASE request'[r].pc = "updated"
    <3> DEFINE phone == Intl[typed]
    <3>1. /\ request'[r] = [pc |-> "updated", phone |-> phone]
          /\ \A q \in Requests \ {r} : request'[q] = request[q]
          /\ spent' = spent \cup Unspent(phone) /\ UNCHANGED <<issued, raced>>
      BY <1>1, <2>1 DEF ResetUpdate, Superseded, Goes, Answers, traceVars
    <3>2. Unspent(phone)' = {}
      BY <3>1 DEF Unspent
    <3>3. \A p \in Phones : Unspent(p)' \ raced' \subseteq Unspent(p) \ raced
      BY <3>1 DEF Unspent
    <3> QED
      BY <3>1, <3>2, <3>3 DEF OneOpen
  <2>2. CASE request'[r].pc # "updated"
    <3>1. /\ \A q \in Requests \ {r} : request'[q] = request[q]
          /\ spent \subseteq spent' /\ UNCHANGED <<issued, raced>>
      BY <1>1 DEF ResetUpdate, Goes, Answers, traceVars
    <3> QED
      BY <2>2, <3>1, OpenKept
  <2> QED
    BY <2>1, <2>2
<1>2. ASSUME NEW r \in Resets, ResetCreate(r) PROVE \A p \in Phones : OneOpen(p)'
  <2>0. PICK phone \in Phones : phone = request[r].phone
    BY <1>2 DEF ResetCreate, Sound
  <2> DEFINE others == {q \in Resets \ {r} : request[q].pc = "updated" /\ request[q].phone = phone}
  <2>1. /\ issued' = [issued EXCEPT ![phone] = Append(@, r)] /\ UNCHANGED spent
        /\ raced' = raced \cup (IF others = {} THEN {} ELSE {r} \cup others)
        /\ request[r].pc = "updated" /\ request'[r].pc = "created"
        /\ \A q \in Requests \ {r} : request'[q] = request[q]
    BY <1>2, <2>0 DEF ResetCreate, Goes
  <2>2. /\ \A p \in Phones \ {phone} : Unspent(p)' = Unspent(p)
        /\ Unspent(phone)' \subseteq Unspent(phone) \cup {r}
    <3>1. \A p \in Phones \ {phone} : issued'[p] = issued[p]
      BY <2>1
    <3>2. \A c \in Unspent(phone)' : c \in Unspent(phone) \cup {r}
      <4>1. issued'[phone] = Append(issued[phone], r) \/ issued'[phone] = issued[phone]
        BY <2>1
      <4>2. issued[phone] \in Seq(Resets)
        BY DEF PinTypeOK
      <4>3. \A i \in DOMAIN Append(issued[phone], r) :
              \/ Append(issued[phone], r)[i] = r
              \/ i \in DOMAIN issued[phone] /\ Append(issued[phone], r)[i] = issued[phone][i]
        BY <4>2, AppendProperties
      <4> QED
        BY <2>1, <4>1, <4>3 DEF Unspent
    <3>3. \A p \in Phones \ {phone} : Unspent(p)' = Unspent(p)
      BY <2>1, <3>1 DEF Unspent
    <3> QED
      BY <3>2, <3>3
  <2>3. \A p \in Phones \ {phone} : OneOpen(p)'
    BY <2>1, <2>2 DEF OneOpen
  <2>4. OneOpen(phone)'
    <3>1. CASE others = {}
      <4>1. \A q \in Resets \ {r} : ~(request'[q].pc = "updated" /\ request'[q].phone = phone)
        BY <2>1, <3>1
      <4>2. r \notin raced => Unspent(phone) \ raced = {}
        BY <2>0, <2>1 DEF OneOpen
      <4>3. \A c, d \in Unspent(phone)' \ raced' : c = d
        BY <2>1, <2>2, <3>1, <4>2 DEF OneOpen
      <4>4. \A q \in Resets : ~(request'[q].pc = "updated" /\ request'[q].phone = phone)
        BY <2>1, <4>1
      <4> QED
        BY <4>3, <4>4 DEF OneOpen
    <3>2. CASE others # {}
      <4>1. r \in raced' /\ others \subseteq raced' /\ raced \subseteq raced'
        BY <2>1, <3>2
      <4>2. Unspent(phone)' \ raced' \subseteq Unspent(phone) \ raced
        BY <2>2, <4>1
      <4>3. \A q \in Resets \ raced' : ~(request'[q].pc = "updated" /\ request'[q].phone = phone)
        BY <2>1, <4>1
      <4> QED
        BY <2>2, <4>2, <4>3 DEF OneOpen
    <3> QED
      BY <3>1, <3>2
  <2> QED
    BY <2>3, <2>4
<1>3. ASSUME NEW r \in Confirms, ConfirmUse(r) PROVE \A p \in Phones : OneOpen(p)'
  <2>1. /\ \A q \in Requests \ {r} : request'[q] = request[q]
        /\ spent \subseteq spent' /\ UNCHANGED <<issued, raced>>
    BY <1>3 DEF ConfirmUse, traceVars
  <2>2. r \notin Resets
    BY KindsAssumption
  <2> QED
    BY <2>1, <2>2, OpenKept
<1>4. ASSUME NEW r \in Resets, ResetSend(r) \/ Expire(r) PROVE \A p \in Phones : OneOpen(p)'
  <2>1. CASE ResetSend(r)
    <3>1. \E code \in {"sent", "not sent"} : Answers(r, code)
      BY <2>1 DEF ResetSend
    <3> QED
      BY <2>1, <3>1, AnswersAre, OpenKept DEF ResetSend, codeVars, traceVars
  <2>2. CASE Expire(r)
    BY <2>2, OpenKept DEF Expire, traceVars
  <2> QED
    BY <1>4, <2>1, <2>2
<1>5. ASSUME NEW r \in Requests \ Resets, \A q \in Requests \ {r} : request'[q] = request[q],
             UNCHANGED <<issued, spent>>, raced \subseteq raced'
      PROVE  \A p \in Phones : OneOpen(p)'
  BY <1>5, OpenKept
<1>6. ASSUME NEW r \in SignUps \cup Logins \cup Changes \cup Migrations,
             \/ \E p \in Phones : SignUpCheck(r, p)
             \/ \E new \in Pins \cup {NoPin} : SignUpSave(r, new)
             \/ \E p \in Phones, typed \in Pins : LoginCheck(r, p, typed)
             \/ LoginSave(r) \/ Logout(r)
             \/ \E p \in Phones, typed, new \in Pins : ChangeCheck(r, p, typed, new)
             \/ ChangeSave(r) \/ \E p \in Phones : MigrateCheck(r, p)
      PROVE  \A p \in Phones : OneOpen(p)'
  <2>1. \E state : Goes(r, state)
    BY <1>6 DEF SignUpCheck, SignUpSave, LoginCheck, LoginSave, Logout, ChangeCheck, ChangeSave,
                MigrateCheck, Answers
  <2>2. UNCHANGED <<issued, spent, raced>>
    BY <1>6 DEF SignUpCheck, SignUpSave, LoginCheck, LoginSave, Logout, ChangeCheck, ChangeSave,
                MigrateCheck, codeVars, traceVars
  <2>3. r \notin Resets
    BY KindsAssumption
  <2>4. \A q \in Requests \ {r} : request'[q] = request[q]
    BY <2>1 DEF Goes
  <2> QED
    BY <2>2, <2>3, <2>4, <1>5
<1>7. ASSUME NEW r \in Confirms,
             \/ \E p \in Phones, c \in Resets, new \in Pins : ConfirmCheck(r, p, c, new)
             \/ ConfirmSet(r)
      PROVE  \A p \in Phones : OneOpen(p)'
  <2>1. \E state : Goes(r, state)
    BY <1>7 DEF ConfirmCheck, ConfirmSet, Answers
  <2>2. UNCHANGED <<issued, spent>> /\ raced \subseteq raced'
    BY <1>7 DEF ConfirmCheck, ConfirmSet, codeVars
  <2>3. r \notin Resets
    BY KindsAssumption
  <2>4. \A q \in Requests \ {r} : request'[q] = request[q]
    BY <2>1 DEF Goes
  <2> QED
    BY <2>2, <2>3, <2>4, <1>5
<1>8. ASSUME NEW r \in Requests, PinDie(r) PROVE \A p \in Phones : OneOpen(p)'
  BY <1>8, AnswersAre, OpenKept DEF PinDie, codeVars, traceVars
<1> QED
  BY <1>1, <1>2, <1>3, <1>4, <1>6, <1>7, <1>8 DEF PinNext, MigrateSave
LEMMA CodesUsed ==
  ASSUME CodesInv, PinNext
  PROVE  \A c \in Resets : UsedOnce(c)'
<1> USE DEF CodesInv, PinInv, PinTypeOK, Requests
<1>c. \A c : Confirming(c) \subseteq Confirms
  BY DEF Confirming
<1>1. ASSUME NEW r \in Confirms, NEW typed \in Phones, NEW c \in Resets, NEW new \in Pins,
             ConfirmCheck(r, typed, c, new)
      PROVE  \A d \in Resets : UsedOnce(d)'
  <2>1. request[r].pc = "due" /\ UNCHANGED <<issued, spent, expired, uses>>
    BY <1>1 DEF ConfirmCheck, codeVars
  <2>2. CASE request'[r].pc = "found"
    <3>1. /\ request'[r] = [pc |-> "found", phone |-> Intl[typed], code |-> c, new |-> new]
          /\ \A q \in Requests \ {r} : request'[q] = request[q]
      BY <1>1, <2>2 DEF ConfirmCheck, Goes, Answers
    <3>2. c \notin spent
      BY <1>1, <2>2 DEF ConfirmCheck, Candidates, Goes, Answers
    <3>3. /\ raced \subseteq raced'
          /\ c \notin raced' => \A q \in Confirms \ {r} : ~(request[q].pc = "found" /\ request[q].code = c)
      BY <1>1, <2>2 DEF ConfirmCheck, Goes, Answers
    <3>4. \A d \in Resets \ {c} : Confirming(d)' = Confirming(d)
      BY <2>1, <3>1 DEF Confirming
    <3>5. Confirming(c)' \subseteq Confirming(c) \cup {r}
      BY <3>1 DEF Confirming
    <3>6. \A q \in Confirming(c) : request[q].pc = "found" /\ q # r
      BY <2>1, <3>2 DEF UsedOnce, Confirming
    <3>7. c \notin raced' => Confirming(c) = {}
      BY <3>3, <3>6 DEF Confirming
    <3>8. uses[c] = 0
      BY <3>2 DEF UsedOnce
    <3>9. UsedOnce(c)'
      <4>1. \A q \in Confirming(c)' : request'[q].pc = "found"
        BY <1>c, <3>1, <3>5, <3>6
      <4> QED
        BY <2>1, <3>5, <3>7, <3>8, <4>1 DEF UsedOnce
    <3>10. \A d \in Resets \ {c} : UsedOnce(d)'
      <4>1. \A d \in Resets \ {c} : \A q \in Confirming(d) : q # r
        BY <2>1 DEF Confirming
      <4> QED
        BY <2>1, <3>1, <3>3, <3>4, <4>1 DEF UsedOnce, Confirming
    <3> QED
      BY <3>9, <3>10
  <2>3. CASE request'[r].pc # "found"
    <3>1. request'[r].pc = "refused" /\ UNCHANGED raced
      BY <1>1, <2>3 DEF ConfirmCheck, Goes, Answers
    <3>2. \A q \in Requests \ {r} : request'[q] = request[q]
      BY <1>1 DEF ConfirmCheck, Goes, Answers
    <3> QED
      BY <2>1, <3>1, <3>2, UsesKept
  <2> QED
    BY <2>2, <2>3
<1>2. ASSUME NEW r \in Confirms, ConfirmUse(r) PROVE \A d \in Resets : UsedOnce(d)'
  <2>0. PICK c \in Resets : c = request[r].code
    BY <1>2 DEF ConfirmUse, Sound, FoundRow
  <2>1. /\ \A q \in Requests \ {r} : request'[q] = request[q]
        /\ request[r] \in FoundRow /\ request'[r] = [request[r] EXCEPT !.pc = "used"]
        /\ spent' = spent \cup {c} /\ UNCHANGED <<uses, raced>>
    BY <1>2, <2>0 DEF ConfirmUse, Sound, traceVars
  <2>2. request'[r].code = c /\ request[r].pc = "found" /\ request'[r].pc = "used"
    BY <1>2, <2>0, <2>1 DEF FoundRow, ConfirmUse
  <2>3. \A d \in Resets : Confirming(d)' = Confirming(d)
    <3>1. \A q \in Confirms : request'[q].code = request[q].code
                             /\ (request'[q].pc \in {"found", "used"} <=> request[q].pc \in {"found", "used"})
      BY <2>0, <2>1, <2>2
    <3> QED
      BY <3>1 DEF Confirming
  <2>4. \A d \in Resets : \A q \in Confirming(d)' : request'[q].pc = "used" => d \in spent'
    <3>1. ASSUME NEW d \in Resets, NEW q \in Confirming(d), request'[q].pc = "used"
          PROVE  d \in spent'
      <4>1. CASE q = r
        BY <2>0, <2>1, <4>1 DEF Confirming
      <4>2. CASE q # r
        BY <1>c, <2>1, <3>1, <4>2 DEF UsedOnce
      <4> QED
        BY <4>1, <4>2
    <3> QED
      BY <2>3, <3>1
  <2>5. \A d \in Resets : /\ uses[d] > 0 => d \in spent
                          /\ d \notin raced => /\ \A q, k \in Confirming(d) : q = k
                                               /\ uses[d] <= 1
                                               /\ uses[d] = 1 => Confirming(d) = {}
    BY DEF UsedOnce
  <2> QED
    BY <2>1, <2>3, <2>4, <2>5 DEF UsedOnce
<1>3. ASSUME NEW r \in Confirms, ConfirmSet(r) PROVE \A d \in Resets : UsedOnce(d)'
  <2>0. PICK c \in Resets : c = request[r].code
    BY <1>3 DEF ConfirmSet, Sound, FoundRow
  <2>1. /\ \A q \in Requests \ {r} : request'[q] = request[q]
        /\ request[r].pc = "used" /\ request'[r].pc = "done"
        /\ UNCHANGED <<spent, raced>>
    BY <1>3, AnswersAre DEF ConfirmSet, codeVars
  <2>2. uses'[c] = uses[c] + 1 /\ \A d \in Resets \ {c} : uses'[d] = uses[d]
    BY <1>3, <2>0 DEF ConfirmSet
  <2>3. r \in Confirming(c)
    BY <2>0, <2>1 DEF Confirming
  <2>4. \A d \in Resets : Confirming(d)' = Confirming(d) \ {r}
    BY <2>1 DEF Confirming
  <2>5. UsedOnce(c)'
    BY <2>1, <2>2, <2>3, <2>4 DEF UsedOnce
  <2>6. \A d \in Resets \ {c} : UsedOnce(d)'
    <3>1. \A d \in Resets : \A q \in Confirming(d)' : q \in Confirming(d) /\ request'[q] = request[q]
      BY <1>c, <2>1, <2>4
    <3> QED
      BY <2>1, <2>2, <3>1 DEF UsedOnce
  <2> QED
    BY <2>5, <2>6
<1>4. ASSUME NEW r \in Resets, ResetSend(r) \/ Expire(r) \/ ResetCreate(r)
      PROVE  \A d \in Resets : UsedOnce(d)'
  <2>1. r \notin Confirms
    BY KindsAssumption
  <2>2. \A q \in Requests \ {r} : request'[q] = request[q]
    BY <1>4 DEF ResetSend, Expire, ResetCreate, Goes, Answers
  <2>3. UNCHANGED <<spent, uses>> /\ raced \subseteq raced'
    BY <1>4 DEF ResetSend, Expire, ResetCreate, codeVars, traceVars
  <2> QED
    BY <2>1, <2>2, <2>3, UsesKept
<1>5. ASSUME NEW r \in Resets, NEW p \in Phones, ResetUpdate(r, p)
      PROVE  \A d \in Resets : UsedOnce(d)'
  <2>1. r \notin Confirms
    BY KindsAssumption
  <2>2. \A q \in Requests \ {r} : request'[q] = request[q]
    BY <1>5 DEF ResetUpdate, Goes, Answers
  <2>3. spent \subseteq spent' /\ UNCHANGED <<uses, raced>>
    BY <1>5 DEF ResetUpdate, traceVars
  <2> QED
    BY <2>1, <2>2, <2>3, UsesKept
<1>6. ASSUME NEW r \in SignUps \cup Logins \cup Changes \cup Migrations,
             \/ \E p \in Phones : SignUpCheck(r, p)
             \/ \E new \in Pins \cup {NoPin} : SignUpSave(r, new)
             \/ \E p \in Phones, typed \in Pins : LoginCheck(r, p, typed)
             \/ LoginSave(r) \/ Logout(r)
             \/ \E p \in Phones, typed, new \in Pins : ChangeCheck(r, p, typed, new)
             \/ ChangeSave(r) \/ \E p \in Phones : MigrateCheck(r, p)
      PROVE  \A d \in Resets : UsedOnce(d)'
  <2>1. \E state : Goes(r, state)
    BY <1>6 DEF SignUpCheck, SignUpSave, LoginCheck, LoginSave, Logout, ChangeCheck, ChangeSave,
                MigrateCheck, Answers
  <2>2. UNCHANGED <<spent, uses, raced>>
    BY <1>6 DEF SignUpCheck, SignUpSave, LoginCheck, LoginSave, Logout, ChangeCheck, ChangeSave,
                MigrateCheck, codeVars, traceVars
  <2>3. r \notin Confirms
    BY KindsAssumption
  <2>4. \A q \in Requests \ {r} : request'[q] = request[q]
    BY <2>1 DEF Goes
  <2> QED
    BY <2>2, <2>3, <2>4, UsesKept
<1>7. ASSUME NEW r \in Requests, PinDie(r) PROVE \A d \in Resets : UsedOnce(d)'
  BY <1>7, AnswersAre, UsesKept DEF PinDie, codeVars, traceVars
<1> QED
  BY <1>1, <1>2, <1>3, <1>4, <1>5, <1>6, <1>7 DEF PinNext, MigrateSave

LEMMA CodesInitial == PinInit => CodesInv
<1> SUFFICES ASSUME PinInit PROVE CodesInv
  OBVIOUS
<1>1. \A r \in Requests : request[r].pc \in {"due", "never"}
  BY DEF PinInit
<1>2. \A p \in Phones : Unspent(p) = {}
  BY DEF PinInit, Unspent
<1>3. \A c \in Resets : Confirming(c) = {} /\ uses[c] = 0
  BY <1>1 DEF PinInit, Confirming, Requests
<1> QED
  BY <1>1, <1>2, <1>3, PinInitial DEF CodesInv, OneOpen, UsedOnce, Requests

LEMMA CodesStep ==
  ASSUME CodesInv, [PinNext]_pinVars
  PROVE  CodesInv'
<1>1. CASE PinNext
  BY <1>1, PinStep, CodesOpen, CodesUsed DEF CodesInv
<1>2. CASE UNCHANGED pinVars
  <2>1. PinInv'
    BY PinStep DEF CodesInv
  <2> QED
    BY <1>2, <2>1, OpenKept, UsesKept DEF pinVars, CodesInv
<1> QED
  BY <1>1, <1>2

\* users/models.py:175, "One active OTP per user at a time", unless two requests overlapped.
THEOREM OneCodeIsActive == PinSpec => []OneActiveCode
<1>1. CodesInv /\ [PinNext]_pinVars => CodesInv'
  BY CodesStep
<1>2. CodesInv => OneActiveCode
  <2> SUFFICES ASSUME CodesInv, NEW p \in Phones PROVE Cardinality(Unspent(p) \ raced) <= 1
    BY DEF OneActiveCode
  <2>1. Unspent(p) \ raced = {} \/ \E c \in Resets : Unspent(p) \ raced = {c}
    <3>1. Unspent(p) \subseteq Resets
      BY DEF Unspent
    <3> QED
      BY <3>1 DEF CodesInv, OneOpen
  <2> QED
    <3>1. CASE Unspent(p) \ raced = {}
      BY <3>1, FS_EmptySet
    <3>2. CASE \E c \in Resets : Unspent(p) \ raced = {c}
      <4>1. PICK c \in Resets : Unspent(p) \ raced = {c}
        BY <3>2
      <4>2. Cardinality({c}) = 1
        BY FS_Singleton
      <4> QED
        BY <4>1, <4>2
    <3> QED
      BY <2>1, <3>1, <3>2
<1> QED
  BY CodesInitial, <1>1, <1>2, PTL DEF PinSpec

\* A code sets a PIN at most once, unless two confirmations had found it valid at once.
THEOREM CodesSetPinsOnce == PinSpec => []CodeSetsPinOnce
<1>1. CodesInv /\ [PinNext]_pinVars => CodesInv'
  BY CodesStep
<1>2. CodesInv => CodeSetsPinOnce
  BY DEF CodesInv, UsedOnce, CodeSetsPinOnce
<1> QED
  BY CodesInitial, <1>1, <1>2, PTL DEF PinSpec

-----------------------------------------------------------------------------
(* DemoBalances *)

LEMMA DemoTypeInit == DemoInit => DemoTypeOK
<1> SUFFICES ASSUME DemoInit PROVE DemoTypeOK
  OBVIOUS
<1>1. Deposit \in [Employers -> Nat]
  BY DemoAssumption
<1>2. run \in [Seedings -> RunRow]
  BY <1>1 DEF DemoInit, RunRow
<1> QED
  BY <1>1, <1>2 DEF DemoInit, DemoTypeOK

\* A run goes on, or takes one employer off its list.
LEMMA RunMoves ==
  ASSUME DemoTypeOK, NEW r \in Seedings
  PROVE  /\ run[r] \in RunRow
         /\ \A pc \in {"aborted", "guarded", "done", "dead", "float", "demo"} :
              /\ [run[r] EXCEPT !.pc = pc] \in RunRow
              /\ [run[r] EXCEPT !.pc = pc, !.todo = Employers] \in RunRow
         /\ \A u \in Employers : [run[r] EXCEPT !.todo = @ \ {u}] \in RunRow
         /\ \A u \in Employers, n \in Nat :
              [run[r] EXCEPT !.todo = @ \ {u}, !.purse = [@ EXCEPT ![u] = n]] \in RunRow
         /\ \A u \in Employers, n, m \in Nat :
              [run[r] EXCEPT !.todo = @ \ {u}, !.purse = [@ EXCEPT ![u] = n],
                             !.escrow = [@ EXCEPT ![u] = m]] \in RunRow
         /\ \A u \in Employers :
              [run[r] EXCEPT !.escrow = [@ EXCEPT ![u] = 0], !.zeroed = @ \cup {u}] \in RunRow
<1>1. run[r] \in RunRow
  BY DEF DemoTypeOK
<1> QED
  BY <1>1 DEF RunRow

LEMMA DemoTypeStep ==
  ASSUME DemoTypeOK, [DemoNext]_demoVars
  PROVE  DemoTypeOK'
<1> USE DEF DemoTypeOK
<1>0. /\ Earner \in [Earnings -> Employers]
      /\ Migration \in Nat /\ TopUp \in Nat /\ Liquidity \in Nat
  BY DemoAssumption
<1>1. ASSUME NEW r \in Seedings, Guard(r) \/ Interrupt(r) PROVE DemoTypeOK'
  BY <1>1, RunMoves DEF Guard, Interrupt, At
<1>2. ASSUME NEW r \in Seedings, Load(r) PROVE DemoTypeOK'
  <2>1. [pc |-> "escrow", todo |-> Employers, zeroed |-> {}, purse |-> purse, escrow |-> escrowed]
           \in RunRow
    BY DEF RunRow
  <2> QED
    BY <1>2, <2>1 DEF Load
<1>3. ASSUME NEW r \in Seedings, NextPart(r) PROVE DemoTypeOK'
  <2>1. /\ run' = [run EXCEPT ![r] = [run[r] EXCEPT !.pc = run'[r].pc, !.todo = Employers]]
        /\ run'[r].pc \in {"float", "demo"}
    BY <1>3 DEF NextPart, RunRow
  <2> QED
    BY <1>3, <2>1, RunMoves DEF NextPart
<1>4. ASSUME NEW r \in Seedings, Fill(r) PROVE DemoTypeOK'
  <2>1. run' \in [Seedings -> RunRow]
    BY <1>4, RunMoves DEF Fill, At
  <2>2. demo' \in Nat
    BY <1>4, <1>0 DEF Fill
  <2> QED
    BY <1>4, <2>1, <2>2 DEF Fill
<1>5. ASSUME NEW r \in Seedings, NEW u \in Employers, Wipe(r, u) PROVE DemoTypeOK'
  <2>1. run' = [run EXCEPT ![r] = [run[r] EXCEPT !.escrow = [@ EXCEPT ![u] = 0],
                                                 !.zeroed = @ \cup {u}]]
    BY <1>5 DEF Wipe
  <2>2. run' \in [Seedings -> RunRow]
    <3>1. [run[r] EXCEPT !.escrow = [@ EXCEPT ![u] = 0], !.zeroed = @ \cup {u}] \in RunRow
      BY RunMoves
    <3> QED
      BY <2>1, <3>1
  <2>3. wiped' \in [Employers -> Nat] /\ escrowed' \in [Employers -> Nat]
    BY <1>5 DEF Wipe
  <2>4. clash' \subseteq Employers /\ UNCHANGED <<purse, demo, rows, earned, together>>
    BY <1>5 DEF Wipe, Clashes
  <2> QED
    BY <2>2, <2>3, <2>4
<1>6. ASSUME NEW r \in Seedings, NEW u \in Employers, Migrate(r, u) PROVE DemoTypeOK'
  <2>1. run[r].purse[u] \in Nat /\ run[r].escrow[u] \in Nat
    BY DEF RunRow
  <2>2. CASE run[r].purse[u] < Migration \/ Dry(r)
    <3>1. run' = [run EXCEPT ![r] = [run[r] EXCEPT !.todo = @ \ {u}]]
      BY <1>6, <2>2 DEF Migrate
    <3>2. run' \in [Seedings -> RunRow]
      BY <3>1, RunMoves
    <3> QED
      BY <1>6, <2>2, <3>2 DEF Migrate
  <2>3. CASE ~(run[r].purse[u] < Migration \/ Dry(r))
    <3> DEFINE left  == Left(r, u)
               moved == run[r].escrow[u] + Migration
    <3>1. left \in Nat /\ moved \in Nat
      BY <2>1, <2>3, <1>0 DEF Left
    <3>2. run' = [run EXCEPT ![r] = [run[r] EXCEPT !.todo = @ \ {u}, !.purse = [@ EXCEPT ![u] = left],
                                                   !.escrow = [@ EXCEPT ![u] = moved]]]
      BY <1>6, <2>3 DEF Migrate
    <3>3. /\ purse' = [purse EXCEPT ![u] = left] /\ escrowed' = [escrowed EXCEPT ![u] = moved]
          /\ rows' = rows \cup {<<r, u, "hold">>} /\ Clashes(u, Seedings \ {r})
          /\ UNCHANGED <<demo, earned, wiped, together>>
      BY <1>6, <2>3 DEF Migrate
    <3> HIDE DEF left, moved
    <3>4. run' \in [Seedings -> RunRow]
      <4>1. [run[r] EXCEPT !.todo = @ \ {u}, !.purse = [@ EXCEPT ![u] = left],
                           !.escrow = [@ EXCEPT ![u] = moved]] \in RunRow
        BY <3>1, RunMoves
      <4> QED
        BY <3>2, <4>1
    <3>5. clash' \subseteq Employers
      BY <3>3 DEF Clashes
    <3>6. rows' \subseteq Seedings \X Employers \X {"hold", "credit"}
      BY <3>3
    <3>7. purse' \in [Employers -> Nat] /\ escrowed' \in [Employers -> Nat]
      BY <3>1, <3>3
    <3> QED
      BY <3>3, <3>4, <3>5, <3>6, <3>7
  <2> QED
    BY <2>2, <2>3
<1>7. ASSUME NEW r \in Seedings, NEW u \in Employers, TopUpWallet(r, u) PROVE DemoTypeOK'
  <2>1. run[r].purse[u] + TopUp \in Nat
    BY <1>0 DEF RunRow
  <2>2. CASE Dry(r)
    <3>1. run' = [run EXCEPT ![r] = [run[r] EXCEPT !.todo = @ \ {u}]]
      BY <1>7, <2>2 DEF TopUpWallet
    <3>2. run' \in [Seedings -> RunRow]
      BY <3>1, RunMoves
    <3> QED
      BY <1>7, <2>2, <3>2 DEF TopUpWallet
  <2>3. CASE ~Dry(r)
    <3> DEFINE new == run[r].purse[u] + TopUp
    <3>1. run' = [run EXCEPT ![r] = [run[r] EXCEPT !.todo = @ \ {u}, !.purse = [@ EXCEPT ![u] = new]]]
      BY <1>7, <2>3 DEF TopUpWallet
    <3>2. /\ purse' = [purse EXCEPT ![u] = new] /\ rows' = rows \cup {<<r, u, "credit">>}
          /\ Clashes(u, Seedings \ {r}) /\ UNCHANGED <<escrowed, demo, earned, wiped, together>>
      BY <1>7, <2>3 DEF TopUpWallet
    <3> HIDE DEF new
    <3>3. new \in Nat
      BY <2>1 DEF new
    <3>4. run' \in [Seedings -> RunRow]
      <4>1. [run[r] EXCEPT !.todo = @ \ {u}, !.purse = [@ EXCEPT ![u] = new]] \in RunRow
        BY <3>3, RunMoves
      <4> QED
        BY <3>1, <4>1
    <3>5. clash' \subseteq Employers
      BY <3>2 DEF Clashes
    <3>6. rows' \subseteq Seedings \X Employers \X {"hold", "credit"}
      BY <3>2
    <3>7. purse' \in [Employers -> Nat]
      BY <3>2, <3>3
    <3> QED
      BY <3>2, <3>4, <3>5, <3>6, <3>7
  <2> QED
    BY <2>2, <2>3
<1>8. ASSUME NEW x \in Earnings, Earn(x) PROVE DemoTypeOK'
  BY <1>8, <1>0 DEF Earn, Clashes
<1>9. CASE UNCHANGED demoVars
  BY <1>9 DEF demoVars
<1> QED
  BY <1>1, <1>2, <1>3, <1>4, <1>5, <1>6, <1>7, <1>8, <1>9 DEF DemoNext

\* The wallets, the rows and the runs of the command.
THEOREM DemoTypeCorrect == DemoSpec => []DemoTypeOK
<1>1. DemoTypeOK /\ [DemoNext]_demoVars => DemoTypeOK'
  BY DemoTypeStep
<1> QED
  BY DemoTypeInit, <1>1, PTL DEF DemoSpec

-----------------------------------------------------------------------------
(* The money of the command *)

\* The run has still to top up u, if it does at all.
Ahead(r, u) ==
    \/ run[r].pc \in {"never", "due", "guarded", "escrow"}
    \/ run[r].pc = "float" /\ u \in run[r].todo

\* What a run has in hand is what the wallet holds, where nobody else has written to it,
\* and the row of a top-up is written once.
InHand(r, u)  == Holds(r) => run[r].purse[u] = purse[u] /\ run[r].escrow[u] = escrowed[u]
NoRowYet(r, u) == Ahead(r, u) => <<r, u, "credit">> \notin rows

SeedSound ==
    /\ \A r \in Seedings, u \in Employers \ clash : InHand(r, u)
    /\ \A r \in Seedings, u \in Employers : NoRowYet(r, u)
    /\ IsFiniteSet(rows) /\ IsFiniteSet(earned)

Earned(u) == {x \in earned : Earner[x] = u}

\* SeedMoneyAddsUp, for one employer.
AddsUp(u) ==
    purse[u] + escrowed[u] + wiped[u] =
        Deposit[u] + Cardinality(Earned(u)) + TopUp * Cardinality(Rows(u, "credit"))

SeedInv == DemoTypeOK /\ SeedSound /\ \A u \in Employers \ clash : AddsUp(u)

LEMMA CountsAreNat ==
  ASSUME SeedSound, NEW u
  PROVE  /\ IsFiniteSet(Earned(u)) /\ Cardinality(Earned(u)) \in Nat
         /\ IsFiniteSet(Rows(u, "credit")) /\ Cardinality(Rows(u, "credit")) \in Nat
<1>1. Earned(u) \subseteq earned /\ Rows(u, "credit") \subseteq rows
  BY DEF Earned, Rows
<1> QED
  BY <1>1, FS_Subset, FS_CardinalityType DEF SeedSound

\* A step that writes no wallet, and takes nothing in hand but what is there.
LEMMA SeedKept ==
  ASSUME SeedInv, UNCHANGED <<purse, escrowed, rows, earned, wiped, clash>>,
         \A r \in Seedings, u \in Employers : Ahead(r, u)' => Ahead(r, u),
         \A r \in Seedings : Holds(r)' =>
            \/ Holds(r) /\ run'[r].purse = run[r].purse /\ run'[r].escrow = run[r].escrow
            \/ run'[r].purse = purse /\ run'[r].escrow = escrowed
  PROVE  SeedSound' /\ \A u \in Employers \ clash' : AddsUp(u)'
<1>1. \A r \in Seedings, u \in Employers \ clash' : InHand(r, u)'
  BY DEF SeedInv, SeedSound, InHand
<1>2. \A r \in Seedings, u \in Employers : NoRowYet(r, u)'
  BY DEF SeedInv, SeedSound, NoRowYet
<1>3. \A u \in Employers \ clash' : AddsUp(u)'
  BY DEF SeedInv, AddsUp, Rows, Earned
<1> QED
  BY <1>1, <1>2, <1>3 DEF SeedInv, SeedSound

\* A step that writes the wallet of u: what must be shown of it.
LEMMA SeedWritten ==
  ASSUME SeedInv, NEW u \in Employers,
         clash \subseteq clash', IsFiniteSet(rows)', IsFiniteSet(earned)',
         \A c \in Employers \ {u} :
            /\ purse'[c] = purse[c] /\ escrowed'[c] = escrowed[c] /\ wiped'[c] = wiped[c]
            /\ Rows(c, "credit")' = Rows(c, "credit") /\ Earned(c)' = Earned(c),
         \A r \in Seedings : /\ Holds(r)' => Holds(r)
                             /\ \A c \in Employers \ {u} : /\ run'[r].purse[c] = run[r].purse[c]
                                                           /\ run'[r].escrow[c] = run[r].escrow[c]
                                                           /\ Ahead(r, c)' => Ahead(r, c),
         \A r \in Seedings : NoRowYet(r, u)',
         u \notin clash' => AddsUp(u)' /\ \A r \in Seedings : InHand(r, u)'
  PROVE  SeedSound' /\ \A c \in Employers \ clash' : AddsUp(c)'
<1>1. \A r \in Seedings, c \in Employers \ clash' : InHand(r, c)'
  BY DEF SeedInv, SeedSound, InHand
<1>2. \A r \in Seedings, c \in Employers : NoRowYet(r, c)'
  <2> SUFFICES ASSUME NEW r \in Seedings, NEW c \in Employers \ {u}, Ahead(r, c)'
               PROVE  <<r, c, "credit">> \notin rows'
    BY DEF NoRowYet
  <2>1. <<r, c, "credit">> \notin rows
    BY DEF SeedInv, SeedSound, NoRowYet
  <2> QED
    BY <2>1 DEF Rows
<1>3. \A c \in Employers \ clash' : AddsUp(c)'
  BY DEF SeedInv, AddsUp
<1> QED
  BY <1>1, <1>2, <1>3 DEF SeedSound

LEMMA SeedStep ==
  ASSUME SeedInv, [DemoNext]_demoVars
  PROVE  SeedSound' /\ \A u \in Employers \ clash' : AddsUp(u)'
<1>t. /\ DemoTypeOK /\ \A r \in Seedings : run[r] \in RunRow
      /\ TopUp \in Nat /\ Migration \in Nat /\ Earner \in [Earnings -> Employers]
      /\ Deposit \in [Employers -> Nat]
  BY DemoAssumption DEF SeedInv, DemoTypeOK
<1>f. IsFiniteSet(rows) /\ IsFiniteSet(earned) /\ \A u : Cardinality(Earned(u)) \in Nat
  BY CountsAreNat DEF SeedInv, SeedSound
<1>1. ASSUME NEW r \in Seedings, Guard(r) \/ Interrupt(r) \/ Fill(r) \/ NextPart(r) \/ Load(r)
      PROVE  SeedSound' /\ \A u \in Employers \ clash' : AddsUp(u)'
  <2>1. /\ UNCHANGED <<purse, escrowed, rows, earned, wiped, clash>>
        /\ \A q \in Seedings \ {r} : run'[q] = run[q]
    BY <1>1, <1>t DEF Guard, Interrupt, Fill, NextPart, Load, At, DemoTypeOK
  <2>2. /\ \A u \in Employers : Ahead(r, u)' => Ahead(r, u)
        /\ Holds(r)' => \/ Holds(r) /\ run'[r].purse = run[r].purse /\ run'[r].escrow = run[r].escrow
                        \/ run'[r].purse = purse /\ run'[r].escrow = escrowed
    <3>1. CASE Guard(r) \/ Interrupt(r) \/ Fill(r)
      BY <3>1, <1>t DEF Guard, Interrupt, Fill, At, RunRow, DemoTypeOK, Ahead, Holds
    <3>2. CASE NextPart(r)
      BY <3>2, <1>t DEF NextPart, RunRow, DemoTypeOK, Ahead, Holds
    <3>3. CASE Load(r)
      BY <3>3, <1>t DEF Load, DemoTypeOK, Ahead, Holds
    <3> QED
      BY <1>1, <3>1, <3>2, <3>3
  <2>3. \A q \in Seedings \ {r} : (Holds(q)' => Holds(q)) /\ \A u \in Employers : Ahead(q, u)' => Ahead(q, u)
    BY <2>1 DEF Holds, Ahead
  <2> QED
    BY <2>1, <2>2, <2>3, SeedKept
<1>2. ASSUME NEW r \in Seedings, NEW u \in Employers, Wipe(r, u)
      PROVE  SeedSound' /\ \A c \in Employers \ clash' : AddsUp(c)'
  <2>1. /\ escrowed' = [escrowed EXCEPT ![u] = 0] /\ wiped' = [wiped EXCEPT ![u] = @ + escrowed[u]]
        /\ UNCHANGED <<purse, rows, earned>> /\ run[r].pc = "escrow"
        /\ clash' = IF \E q \in Seedings \ {r} : Holds(q) THEN clash \cup {u} ELSE clash
    BY <1>2 DEF Wipe, Clashes
  <2>2. /\ \A q \in Seedings \ {r} : run'[q] = run[q]
        /\ run'[r].pc = run[r].pc /\ run'[r].purse = run[r].purse
        /\ run'[r].escrow = [run[r].escrow EXCEPT ![u] = 0]
    BY <1>2, <1>t DEF Wipe, DemoTypeOK, RunRow
  <2>3. /\ \A q \in Seedings : (Holds(q)' => Holds(q)) /\ \A c \in Employers : Ahead(q, c)' => Ahead(q, c)
        /\ \A c : Rows(c, "credit")' = Rows(c, "credit") /\ Earned(c)' = Earned(c)
    BY <2>1, <2>2 DEF Holds, Ahead, Rows, Earned
  <2>4. \A q \in Seedings : NoRowYet(q, u)'
    BY <2>1, <2>3 DEF SeedInv, SeedSound, NoRowYet
  <2>5. ASSUME u \notin clash' PROVE AddsUp(u)' /\ \A q \in Seedings : InHand(q, u)'
    <3>1. u \notin clash /\ \A q \in Seedings \ {r} : ~Holds(q)
      BY <2>1, <2>5
    <3>2. AddsUp(u)'
      BY <1>t, <2>1, <2>3, <3>1 DEF SeedInv, AddsUp, DemoTypeOK
    <3>3. InHand(r, u)'
      BY <1>t, <2>1, <2>2, <3>1 DEF SeedInv, SeedSound, InHand, Holds, RunRow, DemoTypeOK
    <3> QED
      BY <2>3, <3>1, <3>2, <3>3 DEF InHand
  <2>6. \A c \in Employers \ {u} : run'[r].escrow[c] = run[r].escrow[c]
    BY <1>t, <2>2 DEF RunRow
  <2>7. /\ clash \subseteq clash' /\ IsFiniteSet(rows') /\ IsFiniteSet(earned')
        /\ \A c \in Employers \ {u} :
             purse'[c] = purse[c] /\ escrowed'[c] = escrowed[c] /\ wiped'[c] = wiped[c]
    BY <1>f, <2>1
  <2>8. \A q \in Seedings, c \in Employers \ {u} :
          run'[q].purse[c] = run[q].purse[c] /\ run'[q].escrow[c] = run[q].escrow[c]
    BY <2>2, <2>6
  <2> QED
    BY <2>3, <2>4, <2>5, <2>7, <2>8, SeedWritten
<1>3. ASSUME NEW r \in Seedings, NEW u \in Employers, Migrate(r, u)
      PROVE  SeedSound' /\ \A c \in Employers \ clash' : AddsUp(c)'
  <2>1. CASE run[r].purse[u] < Migration \/ Dry(r)
    <3>1. UNCHANGED <<purse, escrowed, rows, earned, wiped, clash>> /\ run[r].pc = "escrow"
      BY <1>3, <2>1 DEF Migrate
    <3>2. /\ \A q \in Seedings \ {r} : run'[q] = run[q]
          /\ run'[r].pc = run[r].pc /\ run'[r].purse = run[r].purse /\ run'[r].escrow = run[r].escrow
      BY <1>3, <1>t, <2>1 DEF Migrate, DemoTypeOK, RunRow
    <3> QED
      BY <3>1, <3>2, SeedKept DEF Holds, Ahead
  <2>2. CASE ~(run[r].purse[u] < Migration \/ Dry(r))
    <3> DEFINE left  == Left(r, u)
               moved == run[r].escrow[u] + Migration
    <3>1. /\ run' = [run EXCEPT ![r] = [run[r] EXCEPT !.todo = @ \ {u}, !.purse = [@ EXCEPT ![u] = left],
                                                      !.escrow = [@ EXCEPT ![u] = moved]]]
          /\ purse' = [purse EXCEPT ![u] = left] /\ escrowed' = [escrowed EXCEPT ![u] = moved]
          /\ rows' = rows \cup {<<r, u, "hold">>} /\ UNCHANGED <<earned, wiped>>
          /\ clash' = IF \E q \in Seedings \ {r} : Holds(q) THEN clash \cup {u} ELSE clash
          /\ run[r].pc = "escrow"
      BY <1>3, <2>2 DEF Migrate, Clashes
    <3>2. /\ \A q \in Seedings \ {r} : run'[q] = run[q]
          /\ run'[r].pc = run[r].pc /\ run'[r].purse = [run[r].purse EXCEPT ![u] = left]
          /\ run'[r].escrow = [run[r].escrow EXCEPT ![u] = moved]
      BY <1>t, <3>1 DEF DemoTypeOK, RunRow
    <3>3. /\ \A q \in Seedings : (Holds(q)' => Holds(q)) /\ \A c \in Employers : Ahead(q, c)' => Ahead(q, c)
          /\ \A c : Rows(c, "credit")' = Rows(c, "credit") /\ Earned(c)' = Earned(c)
      BY <3>1, <3>2 DEF Holds, Ahead, Rows, Earned
    <3>4. \A q \in Seedings : NoRowYet(q, u)'
      BY <3>1, <3>3 DEF SeedInv, SeedSound, NoRowYet
    <3>5. ASSUME u \notin clash' PROVE AddsUp(u)' /\ \A q \in Seedings : InHand(q, u)'
      <4>1. u \notin clash /\ \A q \in Seedings \ {r} : ~Holds(q)
        BY <3>1, <3>5
      <4>2. left = purse[u] - Migration /\ moved = escrowed[u] + Migration
        BY <3>1, <4>1 DEF SeedInv, SeedSound, InHand, Holds, Left
      <4>3. AddsUp(u)'
        BY <1>t, <3>1, <3>3, <4>1, <4>2 DEF SeedInv, AddsUp, DemoTypeOK
      <4>4. InHand(r, u)'
        BY <1>t, <3>1, <3>2 DEF InHand, RunRow, DemoTypeOK
      <4> QED
        BY <3>3, <4>1, <4>3, <4>4 DEF InHand
    <3>6. \A c \in Employers \ {u} : /\ run'[r].escrow[c] = run[r].escrow[c]
                                     /\ run'[r].purse[c] = run[r].purse[c]
      BY <1>t, <3>2 DEF RunRow
    <3>7. IsFiniteSet(rows')
      BY <1>f, <3>1, FS_AddElement
    <3> QED
      BY <1>f, <3>1, <3>2, <3>3, <3>4, <3>5, <3>6, <3>7, SeedWritten
  <2> QED
    BY <2>1, <2>2
<1>4. ASSUME NEW r \in Seedings, NEW u \in Employers, TopUpWallet(r, u)
      PROVE  SeedSound' /\ \A c \in Employers \ clash' : AddsUp(c)'
  <2>1. CASE Dry(r)
    <3>1. UNCHANGED <<purse, escrowed, rows, earned, wiped, clash>>
      BY <1>4, <2>1 DEF TopUpWallet
    <3>2. /\ \A q \in Seedings \ {r} : run'[q] = run[q]
          /\ run'[r].pc = run[r].pc /\ run'[r].purse = run[r].purse /\ run'[r].escrow = run[r].escrow
          /\ run'[r].todo \subseteq run[r].todo
      BY <1>4, <1>t, <2>1 DEF TopUpWallet, DemoTypeOK, RunRow
    <3> QED
      BY <3>1, <3>2, SeedKept DEF Holds, Ahead
  <2>2. CASE ~Dry(r)
    <3> DEFINE new == run[r].purse[u] + TopUp
    <3>1. /\ run' = [run EXCEPT ![r] = [run[r] EXCEPT !.todo = @ \ {u}, !.purse = [@ EXCEPT ![u] = new]]]
          /\ purse' = [purse EXCEPT ![u] = new] /\ UNCHANGED <<escrowed, earned, wiped>>
          /\ rows' = rows \cup {<<r, u, "credit">>}
          /\ clash' = IF \E q \in Seedings \ {r} : Holds(q) THEN clash \cup {u} ELSE clash
          /\ run[r].pc = "float" /\ u \in run[r].todo
      BY <1>4, <2>2 DEF TopUpWallet, Clashes
    <3>2. /\ \A q \in Seedings \ {r} : run'[q] = run[q]
          /\ run'[r].pc = run[r].pc /\ run'[r].purse = [run[r].purse EXCEPT ![u] = new]
          /\ run'[r].escrow = run[r].escrow /\ run'[r].todo = run[r].todo \ {u}
      BY <1>t, <3>1 DEF DemoTypeOK, RunRow
    <3>3. /\ \A q \in Seedings : (Holds(q)' => Holds(q)) /\ \A c \in Employers : Ahead(q, c)' => Ahead(q, c)
          /\ \A c \in Employers \ {u} : Rows(c, "credit")' = Rows(c, "credit")
          /\ \A c : Earned(c)' = Earned(c)
      BY <3>1, <3>2 DEF Holds, Ahead, Rows, Earned
    <3>4. \A q \in Seedings : NoRowYet(q, u)'
      <4>1. ~Ahead(r, u)'
        BY <3>1, <3>2 DEF Ahead
      <4>2. \A q \in Seedings \ {r} : <<q, u, "credit">> \in rows' => <<q, u, "credit">> \in rows
        BY <3>1
      <4> QED
        BY <3>3, <4>1, <4>2 DEF SeedInv, SeedSound, NoRowYet
    <3>5. ASSUME u \notin clash' PROVE AddsUp(u)' /\ \A q \in Seedings : InHand(q, u)'
      <4>1. u \notin clash /\ \A q \in Seedings \ {r} : ~Holds(q)
        BY <3>1, <3>5
      <4>2. new = purse[u] + TopUp
        BY <3>1, <4>1 DEF SeedInv, SeedSound, InHand, Holds
      <4>3. Cardinality(Rows(u, "credit")') = Cardinality(Rows(u, "credit")) + 1
        <5>1. <<r, u, "credit">> \notin rows
          BY <3>1 DEF SeedInv, SeedSound, NoRowYet, Ahead
        <5>2. Rows(u, "credit")' = Rows(u, "credit") \cup {<<r, u, "credit">>}
          BY <3>1 DEF Rows
        <5>3. <<r, u, "credit">> \notin Rows(u, "credit") /\ IsFiniteSet(Rows(u, "credit"))
          BY <5>1, CountsAreNat DEF Rows, SeedInv
        <5> QED
          BY <5>2, <5>3, FS_AddElement
      <4>4. AddsUp(u)'
        <5> DEFINE n == Cardinality(Rows(u, "credit"))
        <5>1. n \in Nat
          BY CountsAreNat DEF SeedInv
        <5>2. TopUp * (n + 1) = TopUp * n + TopUp /\ TopUp * n \in Nat
          BY <1>t, <5>1
        <5>3. purse[u] + escrowed[u] + wiped[u] = Deposit[u] + Cardinality(Earned(u)) + TopUp * n
          BY <4>1 DEF SeedInv, AddsUp
        <5>4. /\ purse[u] \in Nat /\ escrowed[u] \in Nat /\ wiped[u] \in Nat /\ Deposit[u] \in Nat
              /\ Cardinality(Earned(u)) \in Nat
          BY <1>t, <1>f DEF DemoTypeOK
        <5>5. /\ purse'[u] = purse[u] + TopUp /\ escrowed'[u] = escrowed[u] /\ wiped'[u] = wiped[u]
              /\ Cardinality(Earned(u)') = Cardinality(Earned(u)) /\ Cardinality(Rows(u, "credit")') = n + 1
          BY <1>t, <3>1, <3>3, <4>2, <4>3 DEF DemoTypeOK
        <5> HIDE DEF n
        <5>6. purse'[u] + escrowed'[u] + wiped'[u] =
                Deposit[u] + Cardinality(Earned(u)') + TopUp * Cardinality(Rows(u, "credit")')
          BY <1>t, <5>2, <5>3, <5>4, <5>5
        <5> QED
          BY <5>6 DEF AddsUp
      <4>5. InHand(r, u)'
        BY <1>t, <3>1, <3>2, <4>1 DEF SeedInv, SeedSound, InHand, Holds, RunRow, DemoTypeOK
      <4> QED
        BY <3>3, <4>1, <4>4, <4>5 DEF InHand
    <3>6. \A c \in Employers \ {u} : run'[r].purse[c] = run[r].purse[c]
      BY <1>t, <3>2 DEF RunRow
    <3>7. IsFiniteSet(rows')
      BY <1>f, <3>1, FS_AddElement
    <3>8. /\ clash \subseteq clash' /\ IsFiniteSet(rows') /\ IsFiniteSet(earned')
          /\ \A c \in Employers \ {u} :
               purse'[c] = purse[c] /\ escrowed'[c] = escrowed[c] /\ wiped'[c] = wiped[c]
      BY <1>f, <3>1, <3>7
    <3>9. \A q \in Seedings, c \in Employers \ {u} :
            run'[q].purse[c] = run[q].purse[c] /\ run'[q].escrow[c] = run[q].escrow[c]
      BY <3>2, <3>6
    <3> QED
      BY <3>3, <3>4, <3>5, <3>8, <3>9, SeedWritten
  <2> QED
    BY <2>1, <2>2
<1>5. ASSUME NEW x \in Earnings, Earn(x)
      PROVE  SeedSound' /\ \A c \in Employers \ clash' : AddsUp(c)'
  <2> DEFINE u == Earner[x]
  <2>1. /\ purse' = [purse EXCEPT ![u] = @ + 1] /\ earned' = earned \cup {x} /\ x \notin earned
        /\ UNCHANGED <<escrowed, wiped, rows, run>> /\ u \in Employers
        /\ clash' = IF \E q \in Seedings : Holds(q) THEN clash \cup {u} ELSE clash
    BY <1>5, <1>t DEF Earn, Clashes
  <2>2. /\ \A q \in Seedings : (Holds(q)' => Holds(q)) /\ \A c \in Employers : Ahead(q, c)' => Ahead(q, c)
        /\ \A c : Rows(c, "credit")' = Rows(c, "credit")
        /\ \A c \in Employers \ {u} : Earned(c)' = Earned(c)
    BY <2>1 DEF Holds, Ahead, Rows, Earned
  <2>3. \A q \in Seedings : NoRowYet(q, u)'
    BY <2>1, <2>2 DEF SeedInv, SeedSound, NoRowYet
  <2>4. ASSUME u \notin clash' PROVE AddsUp(u)' /\ \A q \in Seedings : InHand(q, u)'
    <3>1. u \notin clash /\ \A q \in Seedings : ~Holds(q)
      BY <2>1, <2>4
    <3>2. Cardinality(Earned(u)') = Cardinality(Earned(u)) + 1
      <4>1. Earned(u)' = Earned(u) \cup {x}
        BY <2>1 DEF Earned
      <4>2. x \notin Earned(u) /\ IsFiniteSet(Earned(u))
        BY <2>1, CountsAreNat DEF Earned, SeedInv
      <4> QED
        BY <4>1, <4>2, FS_AddElement
    <3>3. AddsUp(u)'
      <4> DEFINE m == TopUp * Cardinality(Rows(u, "credit"))
      <4>1. m \in Nat
        BY <1>t, CountsAreNat DEF SeedInv
      <4>2. /\ purse[u] + escrowed[u] + wiped[u] = Deposit[u] + Cardinality(Earned(u)) + m
            /\ purse'[u] = purse[u] + 1 /\ escrowed'[u] = escrowed[u] /\ wiped'[u] = wiped[u]
            /\ TopUp * Cardinality(Rows(u, "credit")') = m
        BY <1>t, <2>1, <2>2, <3>1 DEF SeedInv, AddsUp, DemoTypeOK
      <4>3. /\ purse[u] \in Nat /\ escrowed[u] \in Nat /\ wiped[u] \in Nat /\ Deposit[u] \in Nat
            /\ Cardinality(Earned(u)) \in Nat
        BY <1>t, <1>f, <2>1 DEF DemoTypeOK
      <4> HIDE DEF m
      <4>4. purse'[u] + escrowed'[u] + wiped'[u] =
              Deposit[u] + Cardinality(Earned(u)') + TopUp * Cardinality(Rows(u, "credit")')
        BY <3>2, <4>1, <4>2, <4>3
      <4> QED
        BY <4>4 DEF AddsUp
    <3> QED
      BY <2>2, <3>1, <3>3 DEF InHand
  <2>5. IsFiniteSet(earned')
    BY <1>f, <2>1, FS_AddElement
  <2> QED
    BY <1>f, <1>t, <2>1, <2>2, <2>3, <2>4, <2>5, SeedWritten DEF DemoTypeOK
<1>6. CASE UNCHANGED demoVars
  BY <1>6, SeedKept DEF demoVars, Ahead, Holds
<1> QED
  BY <1>1, <1>2, <1>3, <1>4, <1>5, <1>6 DEF DemoNext

-----------------------------------------------------------------------------
(* Seeding once *)

\* The runs that the guard lets through only when nothing has been seeded.
Plain(r) == Options[r] \cap {"reset", "dry-run", "demo-only"} = {}

Lone(r) == r \in Seedings \ together /\ UnderWay(r)

\* A run that has met no other is alone while it goes on, a plain one has written all
\* rows there are, and of such runs only one has written any.
OnceInv ==
    /\ DemoTypeOK
    /\ \A r \in Seedings : Lone(r) => \A q \in Seedings \ {r} : ~UnderWay(q)
    /\ \A r \in Seedings : Lone(r) /\ Plain(r) => \A row \in rows : row[1] = r
    /\ \A x, y \in rows :
         ~Has(x[1], "reset") /\ ~Has(y[1], "reset") /\ {x[1], y[1]} \cap together = {} => x[1] = y[1]

\* A step that writes no row, and puts no other run under way.
LEMMA OnceKept ==
  ASSUME OnceInv, DemoTypeOK', rows' = rows, together \subseteq together',
         \A r \in Seedings : UnderWay(r)' => UnderWay(r)
  PROVE  OnceInv'
BY DEF OnceInv, Lone

\* A row is written by a run under way.
LEMMA OnceWritten ==
  ASSUME OnceInv, DemoTypeOK', NEW r \in Seedings, NEW u \in Employers, NEW kind,
         rows' = rows \cup {<<r, u, kind>>}, UnderWay(r), Plain(r) \/ Has(r, "reset"),
         together' = together, \A q \in Seedings : UnderWay(q)' => UnderWay(q)
  PROVE  OnceInv'
<1>1. \A q \in Seedings : Lone(q)' => Lone(q)
  BY DEF Lone
<1>2. \A q \in Seedings : Lone(q)' => \A p \in Seedings \ {q} : ~UnderWay(p)'
  BY <1>1 DEF OnceInv
<1>3. \A q \in Seedings : Lone(q)' /\ Plain(q) => \A row \in rows' : row[1] = q
  <2> SUFFICES ASSUME NEW q \in Seedings, Lone(q)', Plain(q) PROVE \A row \in rows' : row[1] = q
    OBVIOUS
  <2>1. q = r
    BY <1>1 DEF OnceInv
  <2> QED
    BY <1>1, <2>1 DEF OnceInv
<1>4. ASSUME r \notin together, ~Has(r, "reset") PROVE \A row \in rows : row[1] = r
  BY <1>4 DEF OnceInv, Lone
<1>5. \A x, y \in rows' :
        ~Has(x[1], "reset") /\ ~Has(y[1], "reset") /\ {x[1], y[1]} \cap together = {} => x[1] = y[1]
  <2>1. \A x \in rows' : x \in rows \/ x[1] = r
    OBVIOUS
  <2> QED
    BY <1>4, <2>1 DEF OnceInv
<1> QED
  BY <1>2, <1>3, <1>5 DEF OnceInv, Plain, Has

LEMMA OnceStep ==
  ASSUME OnceInv, [DemoNext]_demoVars
  PROVE  OnceInv'
<1>t. DemoTypeOK' /\ run \in [Seedings -> RunRow]
  BY DemoTypeStep DEF OnceInv, DemoTypeOK
<1>1. ASSUME NEW r \in Seedings, Guard(r) PROVE OnceInv'
  <2>1. ~UnderWay(r) /\ \A q \in Seedings \ {r} : UnderWay(q)' = UnderWay(q)
    BY <1>1, <1>t DEF Guard, UnderWay, At
  <2>2. CASE SeededBefore /\ Plain(r)
    <3>1. ~UnderWay(r)' /\ UNCHANGED <<rows, together>>
      <4>1. run' = [run EXCEPT ![r].pc = "aborted"] /\ UNCHANGED <<rows, together>>
        BY <1>1, <2>2 DEF Guard, Plain, At
      <4> QED
        BY <1>t, <4>1 DEF UnderWay
    <3> QED
      BY <1>t, <2>1, <3>1, OnceKept
  <2>3. CASE ~(SeededBefore /\ Plain(r))
    <3> DEFINE others == {q \in Seedings \ {r} : UnderWay(q)}
    <3>1. together' = (IF others = {} THEN together ELSE together \cup others \cup {r})
          /\ UNCHANGED rows
      BY <1>1, <2>3 DEF Guard, Plain
    <3>2. CASE others = {}
      <4>1. \A q \in Seedings : Lone(q)' => q = r
        BY <2>1, <3>2 DEF Lone
      <4>2. Plain(r) => rows = {}
        BY <2>3 DEF SeededBefore
      <4> QED
        BY <1>t, <2>1, <3>1, <3>2, <4>1, <4>2 DEF OnceInv, Plain, Has
    <3>3. CASE others # {}
      <4>1. \A q \in Seedings : ~Lone(q)'
        BY <2>1, <3>1, <3>3 DEF Lone
      <4> QED
        <5>1. together \subseteq together' /\ rows' = rows
          BY <3>1
        <5> QED
          BY <1>t, <4>1, <5>1 DEF OnceInv
    <3> QED
      BY <3>2, <3>3
  <2> QED
    BY <2>2, <2>3
<1>2. ASSUME NEW r \in Seedings, Interrupt(r) \/ Fill(r) \/ NextPart(r) \/ Load(r) PROVE OnceInv'
  <2>1. UnderWay(r) /\ \A q \in Seedings \ {r} : run'[q] = run[q]
    BY <1>2, <1>t DEF Interrupt, Fill, NextPart, Load, At, UnderWay
  <2>2. UNCHANGED <<rows, together>>
    BY <1>2 DEF Interrupt, Fill, NextPart, Load
  <2> QED
    BY <1>t, <2>1, <2>2, OnceKept DEF UnderWay
<1>3. ASSUME NEW r \in Seedings, NEW u \in Employers, Wipe(r, u) \/ Migrate(r, u) \/ TopUpWallet(r, u)
      PROVE  OnceInv'
  <2>1. UnderWay(r) /\ \A q \in Seedings \ {r} : run'[q] = run[q]
    BY <1>3, <1>t DEF Wipe, Migrate, TopUpWallet, UnderWay
  <2>2. UNCHANGED together
    BY <1>3 DEF Wipe, Migrate, TopUpWallet
  <2>3. \A q \in Seedings : UnderWay(q)' => UnderWay(q)
    BY <2>1 DEF UnderWay
  <2>4. \/ rows' = rows
        \/ /\ \E kind \in {"hold", "credit"} : rows' = rows \cup {<<r, u, kind>>}
           /\ ~Dry(r) /\ (Does(r, "escrow-only") \/ Does(r, "float-only"))
    BY <1>3 DEF Wipe, Migrate, TopUpWallet
  <2>5. ASSUME rows' # rows PROVE Plain(r) \/ Has(r, "reset")
    BY <2>4, <2>5 DEF Plain, Has, Dry, Does, Only
  <2> QED
    BY <1>t, <2>1, <2>2, <2>3, <2>4, <2>5, OnceKept, OnceWritten
<1>4. ASSUME NEW x \in Earnings, Earn(x) PROVE OnceInv'
  BY <1>t, <1>4, OnceKept DEF Earn, UnderWay
<1>5. CASE UNCHANGED demoVars
  BY <1>t, <1>5, OnceKept DEF demoVars, UnderWay
<1> QED
  BY <1>1, <1>2, <1>3, <1>4, <1>5 DEF DemoNext

\* The demo money is given once, and none of it is lost or made on the way, however the
\* runs of the command overlap, are killed or come again.
THEOREM SeedingIsSound == DemoSpec => []SeedingAddsUp
<1>1. DemoInit => SeedInv /\ OnceInv
  <2> SUFFICES ASSUME DemoInit PROVE SeedInv /\ OnceInv
    OBVIOUS
  <2>1. /\ rows = {} /\ earned = {} /\ purse = Deposit
        /\ \A r \in Seedings : run[r].pc \in {"never", "due"}
        /\ \A u \in Employers : escrowed[u] = 0 /\ wiped[u] = 0
    BY DEF DemoInit
  <2>2. \A u : Cardinality(Earned(u)) = 0 /\ Cardinality(Rows(u, "credit")) = 0
    <3>1. \A u : Earned(u) = {} /\ Rows(u, "credit") = {}
      BY <2>1 DEF Earned, Rows
    <3> QED
      BY <3>1, FS_EmptySet
  <2>3. \A u \in Employers : AddsUp(u)
    BY <2>1, <2>2, DemoAssumption DEF AddsUp
  <2>4. SeedSound
    BY <2>1, FS_EmptySet DEF SeedSound, InHand, NoRowYet, Holds
  <2>5. OnceInv
    BY <2>1, DemoTypeInit DEF OnceInv, Lone, UnderWay
  <2> QED
    BY <2>3, <2>4, <2>5, DemoTypeInit DEF SeedInv
<1>2. SeedInv /\ OnceInv /\ [DemoNext]_demoVars => SeedInv' /\ OnceInv'
  BY SeedStep, OnceStep, DemoTypeStep DEF SeedInv
<1>3. SeedInv /\ OnceInv => SeedingAddsUp
  <2> SUFFICES ASSUME SeedInv, OnceInv PROVE SeedingAddsUp
    OBVIOUS
  <2>1. SeedMoneyAddsUp
    BY DEF SeedInv, SeedMoneyAddsUp, AddsUp, Earned
  <2>2. SeededOnce
    <3> SUFFICES ASSUME NEW u \in Employers, NEW kind \in {"hold", "credit"}
                 PROVE  Cardinality({row \in Rows(u, kind) :
                                       row[1] \notin together /\ ~Has(row[1], "reset")}) <= 1
      BY DEF SeededOnce
    <3> DEFINE R == {row \in Rows(u, kind) : row[1] \notin together /\ ~Has(row[1], "reset")}
    <3>1. \A row \in R : row = <<row[1], u, kind>>
      BY DEF Rows, OnceInv, DemoTypeOK
    <3>2. \A x, y \in R : x[1] = y[1]
      BY DEF Rows, OnceInv
    <3>3. \A x, y \in R : x = y
      BY <3>1, <3>2
    <3> HIDE DEF R
    <3>4. CASE R = {}
      BY <3>4, FS_EmptySet DEF R
    <3>5. CASE R # {}
      <4>1. PICK x \in R : R = {x}
        BY <3>3, <3>5
      <4>2. Cardinality({x}) = 1
        BY FS_Singleton
      <4> QED
        BY <4>1, <4>2 DEF R
    <3> QED
      BY <3>4, <3>5
  <2> QED
    BY <2>1, <2>2 DEF SeedingAddsUp
<1> QED
  BY <1>1, <1>2, <1>3, PTL DEF DemoSpec
=============================================================================
