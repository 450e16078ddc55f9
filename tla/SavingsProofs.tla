---------------------------- MODULE SavingsProofs ----------------------------
(***************************************************************************)
(* Proofs about Savings: for any users, requests, amounts and midnights,   *)
(* wallets and pots hold what was moved and earned unless a second writer  *)
(* came in between, and deposits alone never contest a pot.                *)
(***************************************************************************)
EXTENDS Savings, TLAPS

-----------------------------------------------------------------------------
(* What the requests under way and the task know *)

Depositing(d) == deposit[d].pc \in {"read", "debited", "found"}
Drawing(s)    == drawing[s].pc \in {"read", "taken", "found"}

\* A request under way had found enough.
EnoughRead ==
    /\ \A d \in Deposits : Depositing(d) => Moved[d] <= deposit[d].wallet
    /\ \A s \in Drawings : Drawing(s) => Moved[s] <= drawing[s].pot

\* One deposit of a user at a time holds the wallet's row.
OneDebit ==
    \A d \in Deposits, e \in Deposits :
        HoldsWallet(d) /\ HoldsWallet(e) /\ Saver[d] = Saver[e] => d = e

\* The wallet that a request has in hand is the wallet, unless it is crossed.
WalletSeen ==
    /\ \A d \in Deposits : Depositing(d) /\ Saver[d] \notin crossed
                             => deposit[d].wallet = wallet[Saver[d]]
    /\ \A s \in Drawings : drawing[s].pc = "found" /\ Saver[s] \notin crossed
                             => drawing[s].wallet = wallet[Saver[s]]

\* The pot that a request or the task has in hand is the pot, unless it is contested.
PotSeen ==
    /\ \A d \in Deposits : deposit[d].pc = "found" /\ Saver[d] \notin contested
                             => deposit[d].pot = pot[Saver[d]]
    /\ \A s \in Drawings : Drawing(s) /\ Saver[s] \notin contested
                             => drawing[s].pot = pot[Saver[s]]
    /\ \A u \in run.todo : u \notin contested => run.seen[u] = pot[u]

RunBegan == run.todo # {} => day > 0

\* One pot at a time waits for its Transaction.
OneUnrecorded == \A u \in run.saved : run.saved = {u}

SavingsInv ==
    /\ SavingsTypeOK /\ EnoughRead /\ OneDebit /\ WalletSeen /\ PotSeen
    /\ SavingsAreKept /\ RunBegan /\ OneUnrecorded /\ DepositsShareThePot

-----------------------------------------------------------------------------
(* Amounts and records *)

\* The interest of a day is an amount in kobo.
LEMMA InterestIsKobo ==
  ASSUME NEW n \in Nat
  PROVE  Interest(n) \in Nat
<1> DEFINE whole == (n * Rate) \div 36500
           rest  == 2 * ((n * Rate) % 36500)
<1>1. n * Rate \in Nat
  BY BoundsAssumption
<1>2. whole \in Nat /\ rest \in Nat
  BY <1>1
<1> HIDE DEF whole, rest
<1>3. Interest(n) = IF rest > 36500 \/ (rest = 36500 /\ whole % 2 = 1) THEN whole + 1 ELSE whole
  BY DEF Interest, whole, rest
<1> QED
  BY <1>2, <1>3

\* So is the interest whose Transaction is still to come.
LEMMA UnrecordedIsKobo ==
  ASSUME SavingsTypeOK, NEW u \in Savers
  PROVE  Unrecorded(u) \in Nat
<1>1. run.seen[u] \in Nat
  BY DEF SavingsTypeOK, RunStates
<1> QED
  BY <1>1, InterestIsKobo DEF Unrecorded

LEMMA RequestParts ==
  /\ \A d \in Deposits : Saver[d] \in Savers /\ Moved[d] \in Nat /\ d \notin Drawings /\ d \notin Savers
  /\ \A s \in Drawings : Saver[s] \in Savers /\ Moved[s] \in Nat /\ s \notin Deposits /\ s \notin Savers
BY SavingsAssumption

\* What a step of a deposit does to its record.
DepositMoves(d) ==
    \/ deposit'[d].pc \in {"refused", "done", "aborted"}
    \/ /\ deposit'[d].pc = "read" /\ deposit'[d].wallet = wallet[Saver[d]]
       /\ Moved[d] <= wallet[Saver[d]]
    \/ /\ deposit[d].pc = "read" /\ deposit'[d].pc = "debited"
       /\ deposit'[d].wallet = deposit[d].wallet /\ ~WalletLocked(Saver[d])
    \/ /\ deposit[d].pc = "debited" /\ deposit'[d].pc = "found"
       /\ deposit'[d].wallet = deposit[d].wallet /\ deposit'[d].pot = pot[Saver[d]]

\* The steps of a deposit change its own record, and that of no other.
LEMMA DepositRecord ==
  ASSUME SavingsTypeOK, NEW d \in Deposits,
         \/ DepositRead(d) \/ DepositStep(d)
         \/ \E s \in Drawings : BreakDeadlock(d, s) /\ UNCHANGED drawing
  PROVE  /\ deposit' \in [Deposits -> DepositStates]
         /\ \A e \in Deposits : e # d => deposit'[e] = deposit[e]
         /\ DepositMoves(d) \/ UNCHANGED deposit
<1>1. deposit \in [Deposits -> DepositStates] /\ deposit[d] \in DepositStates
  BY DEF SavingsTypeOK
<1>2. wallet[Saver[d]] \in Nat /\ pot[Saver[d]] \in Nat /\ Moved[d] \in Nat
  BY RequestParts DEF SavingsTypeOK
<1>3. ASSUME NEW r \in DepositStates, deposit' = [deposit EXCEPT ![d] = r]
      PROVE  /\ deposit' \in [Deposits -> DepositStates] /\ deposit'[d] = r
             /\ \A e \in Deposits : e # d => deposit'[e] = deposit[e]
  BY <1>1, <1>3
<1>4. ASSUME NEW pc \in {"refused", "done", "aborted", "debited"},
             deposit' = [deposit EXCEPT ![d] = [deposit[d] EXCEPT !.pc = pc]]
      PROVE  /\ deposit' \in [Deposits -> DepositStates]
             /\ \A e \in Deposits : e # d => deposit'[e] = deposit[e]
             /\ deposit'[d].pc = pc /\ deposit'[d].wallet = deposit[d].wallet
  <2>1. [deposit[d] EXCEPT !.pc = pc] \in DepositStates
    BY <1>1 DEF DepositStates
  <2>2. /\ [deposit[d] EXCEPT !.pc = pc].pc = pc
        /\ [deposit[d] EXCEPT !.pc = pc].wallet = deposit[d].wallet
    BY <1>1 DEF DepositStates
  <2> QED
    BY <1>3, <1>4, <2>1, <2>2
<1>5. CASE DepositRead(d)
  <2>1. CASE Suffices(wallet[Saver[d]], Moved[d])
    <3> DEFINE r == [deposit[d] EXCEPT !.pc = "read", !.wallet = wallet[Saver[d]]]
    <3>1. r \in DepositStates /\ r.pc = "read" /\ r.wallet = wallet[Saver[d]]
      BY <1>1, <1>2 DEF DepositStates
    <3>2. deposit' = [deposit EXCEPT ![d] = r]
      BY <1>5, <2>1 DEF DepositRead
    <3>3. Moved[d] <= wallet[Saver[d]]
      BY <1>2, <2>1 DEF Suffices
    <3> HIDE DEF r
    <3> QED
      BY <1>3, <3>1, <3>2, <3>3 DEF DepositMoves
  <2>2. CASE ~Suffices(wallet[Saver[d]], Moved[d])
    <3>1. deposit' = [deposit EXCEPT ![d] = [deposit[d] EXCEPT !.pc = "refused"]]
      BY <1>5, <2>2 DEF DepositRead
    <3> QED
      BY <1>4, <3>1 DEF DepositMoves
  <2> QED
    BY <2>1, <2>2
<1>6. CASE DepositDebit(d)
  <2>1. deposit' = [deposit EXCEPT ![d] = [deposit[d] EXCEPT !.pc = "debited"]]
    BY <1>6 DEF DepositDebit
  <2> QED
    BY <1>4, <1>6, <2>1 DEF DepositMoves, DepositDebit
<1>7. CASE DepositFind(d)
  <2> DEFINE r == [deposit[d] EXCEPT !.pc = "found", !.pot = pot[Saver[d]]]
  <2>1. r \in DepositStates /\ r.pc = "found" /\ r.wallet = deposit[d].wallet /\ r.pot = pot[Saver[d]]
    BY <1>1, <1>2 DEF DepositStates
  <2>2. deposit' = [deposit EXCEPT ![d] = r] /\ deposit[d].pc = "debited"
    BY <1>7 DEF DepositFind
  <2> HIDE DEF r
  <2> QED
    BY <1>3, <2>1, <2>2 DEF DepositMoves
<1>8. CASE DepositCommit(d)
  <2>1. deposit' = [deposit EXCEPT ![d] = [deposit[d] EXCEPT !.pc = "done"]]
    BY <1>8 DEF DepositCommit
  <2> QED
    BY <1>4, <2>1 DEF DepositMoves
<1>9. ASSUME NEW s \in Drawings, BreakDeadlock(d, s), UNCHANGED drawing
      PROVE  /\ deposit' \in [Deposits -> DepositStates]
             /\ \A e \in Deposits : e # d => deposit'[e] = deposit[e]
             /\ DepositMoves(d) \/ UNCHANGED deposit
  <2>1. \/ deposit' = [deposit EXCEPT ![d] = [deposit[d] EXCEPT !.pc = "aborted"]]
        \/ UNCHANGED deposit
    BY <1>9 DEF BreakDeadlock
  <2> QED
    BY <1>1, <1>4, <2>1 DEF DepositMoves
<1> QED
  BY <1>5, <1>6, <1>7, <1>8, <1>9 DEF DepositStep

\* What a step of a withdrawal does to its record.
DrawMoves(s) ==
    \/ drawing'[s].pc \in {"refused", "done", "aborted"}
    \/ /\ drawing'[s].pc = "read" /\ drawing'[s].pot = pot[Saver[s]]
       /\ Moved[s] <= pot[Saver[s]]
    \/ /\ drawing[s].pc = "read" /\ drawing'[s].pc = "taken"
       /\ drawing'[s].pot = drawing[s].pot
    \/ /\ drawing[s].pc = "taken" /\ drawing'[s].pc = "found"
       /\ drawing'[s].pot = drawing[s].pot /\ drawing'[s].wallet = wallet[Saver[s]]

\* The steps of a withdrawal change its own record, and that of no other.
LEMMA DrawRecord ==
  ASSUME SavingsTypeOK, NEW s \in Drawings,
         \/ DrawRead(s) \/ DrawStep(s)
         \/ \E d \in Deposits : BreakDeadlock(d, s) /\ UNCHANGED deposit
  PROVE  /\ drawing' \in [Drawings -> DrawingStates]
         /\ \A t \in Drawings : t # s => drawing'[t] = drawing[t]
         /\ DrawMoves(s) \/ UNCHANGED drawing
<1>1. drawing \in [Drawings -> DrawingStates] /\ drawing[s] \in DrawingStates
  BY DEF SavingsTypeOK
<1>2. wallet[Saver[s]] \in Nat /\ pot[Saver[s]] \in Nat /\ Moved[s] \in Nat
  BY RequestParts DEF SavingsTypeOK
<1>3. ASSUME NEW r \in DrawingStates, drawing' = [drawing EXCEPT ![s] = r]
      PROVE  /\ drawing' \in [Drawings -> DrawingStates] /\ drawing'[s] = r
             /\ \A t \in Drawings : t # s => drawing'[t] = drawing[t]
  BY <1>1, <1>3
<1>4. ASSUME NEW pc \in {"refused", "done", "aborted", "taken"},
             drawing' = [drawing EXCEPT ![s] = [drawing[s] EXCEPT !.pc = pc]]
      PROVE  /\ drawing' \in [Drawings -> DrawingStates]
             /\ \A t \in Drawings : t # s => drawing'[t] = drawing[t]
             /\ drawing'[s].pc = pc /\ drawing'[s].pot = drawing[s].pot
  <2>1. [drawing[s] EXCEPT !.pc = pc] \in DrawingStates
    BY <1>1 DEF DrawingStates
  <2>2. /\ [drawing[s] EXCEPT !.pc = pc].pc = pc
        /\ [drawing[s] EXCEPT !.pc = pc].pot = drawing[s].pot
    BY <1>1 DEF DrawingStates
  <2> QED
    BY <1>3, <1>4, <2>1, <2>2
<1>5. CASE DrawRead(s)
  <2>1. CASE Suffices(pot[Saver[s]], Moved[s])
    <3> DEFINE r == [drawing[s] EXCEPT !.pc = "read", !.pot = pot[Saver[s]]]
    <3>1. r \in DrawingStates /\ r.pc = "read" /\ r.pot = pot[Saver[s]]
      BY <1>1, <1>2 DEF DrawingStates
    <3>2. drawing' = [drawing EXCEPT ![s] = r]
      BY <1>5, <2>1 DEF DrawRead
    <3>3. Moved[s] <= pot[Saver[s]]
      BY <1>2, <2>1 DEF Suffices
    <3> HIDE DEF r
    <3> QED
      BY <1>3, <3>1, <3>2, <3>3 DEF DrawMoves
  <2>2. CASE ~Suffices(pot[Saver[s]], Moved[s])
    <3>1. drawing' = [drawing EXCEPT ![s] = [drawing[s] EXCEPT !.pc = "refused"]]
      BY <1>5, <2>2 DEF DrawRead
    <3> QED
      BY <1>4, <3>1 DEF DrawMoves
  <2> QED
    BY <2>1, <2>2
<1>6. CASE DrawTake(s)
  <2>1. drawing' = [drawing EXCEPT ![s] = [drawing[s] EXCEPT !.pc = "taken"]]
    BY <1>6 DEF DrawTake
  <2> QED
    BY <1>4, <1>6, <2>1 DEF DrawMoves, DrawTake
<1>7. CASE DrawFind(s)
  <2> DEFINE r == [drawing[s] EXCEPT !.pc = "found", !.wallet = wallet[Saver[s]]]
  <2>1. r \in DrawingStates /\ r.pc = "found" /\ r.pot = drawing[s].pot /\ r.wallet = wallet[Saver[s]]
    BY <1>1, <1>2 DEF DrawingStates
  <2>2. drawing' = [drawing EXCEPT ![s] = r] /\ drawing[s].pc = "taken"
    BY <1>7 DEF DrawFind
  <2> HIDE DEF r
  <2> QED
    BY <1>3, <2>1, <2>2 DEF DrawMoves
<1>8. CASE DrawCommit(s)
  <2>1. drawing' = [drawing EXCEPT ![s] = [drawing[s] EXCEPT !.pc = "done"]]
    BY <1>8 DEF DrawCommit
  <2> QED
    BY <1>4, <2>1 DEF DrawMoves
<1>9. ASSUME NEW d \in Deposits, BreakDeadlock(d, s), UNCHANGED deposit
      PROVE  /\ drawing' \in [Drawings -> DrawingStates]
             /\ \A t \in Drawings : t # s => drawing'[t] = drawing[t]
             /\ DrawMoves(s) \/ UNCHANGED drawing
  <2>1. \/ drawing' = [drawing EXCEPT ![s] = [drawing[s] EXCEPT !.pc = "aborted"]]
        \/ UNCHANGED drawing
    BY <1>9 DEF BreakDeadlock
  <2> QED
    BY <1>1, <1>4, <2>1 DEF DrawMoves
<1> QED
  BY <1>5, <1>6, <1>7, <1>8, <1>9 DEF DrawStep

-----------------------------------------------------------------------------
(* The invariant *)

LEMMA InvInit == SavingsInit => SavingsInv
<1> SUFFICES ASSUME SavingsInit PROVE SavingsInv
  OBVIOUS
<1>1. /\ deposit \in [Deposits -> DepositStates] /\ drawing \in [Drawings -> DrawingStates]
      /\ run \in RunStates
  BY DEF SavingsInit, DepositStates, DrawingStates, RunStates
<1>2. SavingsTypeOK
  BY <1>1, OpeningAssumption, BoundsAssumption DEF SavingsInit, SavingsTypeOK
<1>3. /\ \A d \in Deposits : deposit[d].pc = "idle"
      /\ \A s \in Drawings : drawing[s].pc = "idle"
      /\ run.todo = {} /\ run.saved = {}
  BY DEF SavingsInit
<1>4. EnoughRead /\ OneDebit /\ WalletSeen /\ PotSeen /\ RunBegan /\ OneUnrecorded
  BY <1>3 DEF EnoughRead, OneDebit, WalletSeen, PotSeen, RunBegan, OneUnrecorded,
              Depositing, Drawing, HoldsWallet
<1>5. SavingsAreKept /\ DepositsShareThePot
  BY OpeningAssumption DEF SavingsInit, SavingsAreKept, Unrecorded, DepositsShareThePot
<1> QED
  BY <1>2, <1>4, <1>5 DEF SavingsInv

\* A deposit reads, takes the wallet's row, or is aborted.
LEMMA DepositReads ==
  ASSUME SavingsInv, NEW d \in Deposits,
         \/ DepositRead(d) \/ DepositDebit(d) \/ DepositFind(d)
         \/ \E s \in Drawings : BreakDeadlock(d, s) /\ UNCHANGED drawing
  PROVE  SavingsInv'
<1> USE DEF SavingsInv
<1>1. UNCHANGED <<wallet, pot, drawing, run, day, walletDue, potDue, crossed, contested, unwritten>>
  BY DEF DepositRead, DepositDebit, DepositFind, BreakDeadlock
<1>2. /\ deposit' \in [Deposits -> DepositStates]
      /\ \A e \in Deposits : e # d => deposit'[e] = deposit[e]
      /\ DepositMoves(d) \/ UNCHANGED deposit
  BY DepositRecord DEF DepositStep
<1>3. SavingsTypeOK'
  BY <1>1, <1>2 DEF SavingsTypeOK
<1>4. EnoughRead'
  BY <1>1, <1>2 DEF EnoughRead, Depositing, Drawing, DepositMoves
<1>5. OneDebit'
  <2>1. ASSUME NEW e \in Deposits, NEW f \in Deposits, e # f, HoldsWallet(e)', HoldsWallet(f)',
               Saver[e] = Saver[f]
        PROVE  FALSE
    <3>1. \A g \in Deposits : HoldsWallet(g)' => HoldsWallet(g) \/ (g = d /\ ~WalletLocked(Saver[d]))
      BY <1>2 DEF HoldsWallet, DepositMoves
    <3> QED
      BY <1>2, <2>1, <3>1 DEF OneDebit, WalletLocked
  <2> QED
    BY <2>1 DEF OneDebit, HoldsWallet
<1>6. WalletSeen'
  BY <1>1, <1>2 DEF WalletSeen, Depositing, DepositMoves
<1>7. PotSeen'
  BY <1>1, <1>2 DEF PotSeen, Drawing, DepositMoves
<1>8. SavingsAreKept' /\ RunBegan' /\ OneUnrecorded' /\ DepositsShareThePot'
  BY <1>1 DEF SavingsAreKept, Unrecorded, RunBegan, OneUnrecorded, DepositsShareThePot
<1> QED
  BY <1>3, <1>4, <1>5, <1>6, <1>7, <1>8

\* A withdrawal reads, takes the pot's row, or is aborted.
LEMMA DrawReads ==
  ASSUME SavingsInv, NEW s \in Drawings,
         \/ DrawRead(s) \/ DrawTake(s) \/ DrawFind(s)
         \/ \E d \in Deposits : BreakDeadlock(d, s) /\ UNCHANGED deposit
  PROVE  SavingsInv'
<1> USE DEF SavingsInv
<1>1. UNCHANGED <<wallet, pot, deposit, run, day, walletDue, potDue, crossed, contested, unwritten>>
  BY DEF DrawRead, DrawTake, DrawFind, BreakDeadlock
<1>2. /\ drawing' \in [Drawings -> DrawingStates]
      /\ \A t \in Drawings : t # s => drawing'[t] = drawing[t]
      /\ DrawMoves(s) \/ UNCHANGED drawing
  BY DrawRecord DEF DrawStep
<1>3. SavingsTypeOK'
  BY <1>1, <1>2 DEF SavingsTypeOK
<1>4. EnoughRead'
  BY <1>1, <1>2 DEF EnoughRead, Depositing, Drawing, DrawMoves
<1>5. OneDebit'
  BY <1>1 DEF OneDebit, HoldsWallet
<1>6. WalletSeen'
  BY <1>1, <1>2 DEF WalletSeen, Depositing, DrawMoves
<1>7. PotSeen'
  BY <1>1, <1>2 DEF PotSeen, Drawing, DrawMoves
<1>8. SavingsAreKept' /\ RunBegan' /\ OneUnrecorded'
  BY <1>1 DEF SavingsAreKept, Unrecorded, RunBegan, OneUnrecorded
<1>9. DepositsShareThePot'
  BY <1>1, <1>2 DEF DepositsShareThePot, DrawMoves
<1> QED
  BY <1>3, <1>4, <1>5, <1>6, <1>7, <1>8, <1>9

\* What no other request had in hand was not written under it.
LEMMA DepositCommitKeeps ==
  ASSUME SavingsInv, NEW d \in Deposits, DepositCommit(d)
  PROVE  SavingsInv'
<1> USE DEF SavingsInv
<1> DEFINE u == Saver[d]
           n == Moved[d]
<1>1. /\ deposit[d].pc = "found"
      /\ wallet'    = [wallet EXCEPT ![u] = deposit[d].wallet - n]
      /\ pot'       = [pot EXCEPT ![u] = deposit[d].pot + n]
      /\ walletDue' = [walletDue EXCEPT ![u] = @ - n]
      /\ potDue'    = [potDue EXCEPT ![u] = @ + n]
      /\ crossed'     = crossed \cup {v \in {u} : WalletInHand(v, d) # {}}
      /\ contested' = contested \cup {v \in {u} : PotInHand(v, d) # {}}
      /\ UNCHANGED <<drawing, run, day, unwritten>>
  BY DEF DepositCommit
<1>2. /\ deposit' \in [Deposits -> DepositStates] /\ deposit'[d].pc = "done"
      /\ \A e \in Deposits : e # d => deposit'[e] = deposit[e]
  <2>1. deposit[d] \in DepositStates /\ deposit \in [Deposits -> DepositStates]
    BY DEF SavingsTypeOK
  <2>2. deposit' = [deposit EXCEPT ![d] = [deposit[d] EXCEPT !.pc = "done"]]
    BY DEF DepositCommit
  <2>3. deposit'[d].pc = "done"
    BY <2>1, <2>2 DEF DepositStates
  <2> QED
    BY <2>3, DepositRecord DEF DepositStep
<1>3. u \in Savers /\ n \in Nat /\ d \notin Drawings /\ d \notin Savers
  BY RequestParts
<1>4. /\ deposit[d].wallet \in Nat /\ deposit[d].pot \in Nat /\ n <= deposit[d].wallet
      /\ u \notin crossed => deposit[d].wallet = wallet[u]
      /\ u \notin contested => deposit[d].pot = pot[u]
  <2>1. deposit[d] \in DepositStates
    BY DEF SavingsTypeOK
  <2> QED
    BY <1>1, <2>1 DEF DepositStates, EnoughRead, Depositing, WalletSeen, PotSeen
<1> HIDE DEF u, n
<1>5. SavingsTypeOK'
  <2>1. wallet' \in [Savers -> Nat] /\ pot' \in [Savers -> Nat]
    BY <1>1, <1>3, <1>4 DEF SavingsTypeOK
  <2>2. walletDue' \in [Savers -> Int] /\ potDue' \in [Savers -> Int]
    BY <1>1, <1>3 DEF SavingsTypeOK
  <2>3. crossed' \subseteq Savers /\ contested' \subseteq Savers
    BY <1>1, <1>3 DEF SavingsTypeOK
  <2> QED
    BY <1>1, <1>2, <2>1, <2>2, <2>3 DEF SavingsTypeOK
<1>6. EnoughRead' /\ OneDebit'
  BY <1>1, <1>2 DEF EnoughRead, OneDebit, Depositing, Drawing, HoldsWallet
<1>7. WalletSeen'
  <2>1. \A v \in Savers : v # u => wallet'[v] = wallet[v]
    BY <1>1, <1>3 DEF SavingsTypeOK
  <2>2. ASSUME NEW e \in Deposits, Depositing(e)', Saver[e] \notin crossed'
        PROVE  deposit'[e].wallet = wallet'[Saver[e]]
    <3>1. e # d /\ Depositing(e) /\ Saver[e] \notin crossed
      BY <1>1, <1>2, <2>2 DEF Depositing
    <3>2. Saver[e] # u
      BY <1>1, <2>2, <3>1 DEF WalletInHand, Depositing
    <3> QED
      BY <1>2, <2>1, <3>1, <3>2, RequestParts DEF WalletSeen
  <2>3. ASSUME NEW s \in Drawings, drawing'[s].pc = "found", Saver[s] \notin crossed'
        PROVE  drawing'[s].wallet = wallet'[Saver[s]]
    <3>1. s # d /\ drawing[s].pc = "found" /\ Saver[s] \notin crossed
      BY <1>1, <1>3, <2>3
    <3>2. Saver[s] # u
      BY <1>1, <2>3, <3>1 DEF WalletInHand
    <3> QED
      BY <1>1, <2>1, <3>1, <3>2, RequestParts DEF WalletSeen
  <2> QED
    BY <2>2, <2>3 DEF WalletSeen
<1>8. PotSeen'
  <2>1. \A v \in Savers : v # u => pot'[v] = pot[v]
    BY <1>1, <1>3 DEF SavingsTypeOK
  <2>2. ASSUME NEW e \in Deposits, deposit'[e].pc = "found", Saver[e] \notin contested'
        PROVE  deposit'[e].pot = pot'[Saver[e]]
    <3>1. e # d /\ deposit[e].pc = "found" /\ Saver[e] \notin contested
      BY <1>1, <1>2, <2>2
    <3>2. Saver[e] # u
      BY <1>1, <2>2, <3>1 DEF PotInHand
    <3> QED
      BY <1>2, <2>1, <3>1, <3>2, RequestParts DEF PotSeen
  <2>3. ASSUME NEW s \in Drawings, Drawing(s)', Saver[s] \notin contested'
        PROVE  drawing'[s].pot = pot'[Saver[s]]
    <3>1. s # d /\ Drawing(s) /\ Saver[s] \notin contested
      BY <1>1, <1>3, <2>3 DEF Drawing
    <3>2. Saver[s] # u
      BY <1>1, <2>3, <3>1 DEF PotInHand, Drawing
    <3> QED
      BY <1>1, <2>1, <3>1, <3>2, RequestParts DEF PotSeen
  <2>4. ASSUME NEW v \in run'.todo, v \notin contested'
        PROVE  run'.seen[v] = pot'[v]
    <3>1. v \in run.todo /\ v \in Savers /\ v \notin contested
      BY <1>1, <2>4 DEF SavingsTypeOK, RunStates
    <3>2. v # u
      BY <1>1, <1>3, <2>4, <3>1 DEF PotInHand
    <3> QED
      BY <1>1, <2>1, <3>1, <3>2 DEF PotSeen
  <2> QED
    BY <2>2, <2>3, <2>4 DEF PotSeen
<1>9. SavingsAreKept'
  <2>1. \A v \in Savers : Unrecorded(v)' = Unrecorded(v) /\ Unrecorded(v) \in Nat
    BY <1>1, UnrecordedIsKobo DEF Unrecorded
  <2> QED
    BY <1>1, <1>3, <1>4, <2>1 DEF SavingsAreKept, SavingsTypeOK
<1>10. RunBegan' /\ OneUnrecorded'
  BY <1>1 DEF RunBegan, OneUnrecorded
<1>11. DepositsShareThePot'
  <2>1. ASSUME NEW v \in contested', v \notin contested
        PROVE  day > 0 \/ \E s \in Drawings : Saver[s] = v /\ drawing[s].pc # "idle"
    <3>1. v = u /\ PotInHand(u, d) # {}
      BY <1>1, <2>1
    <3>2. CASE \E e \in Deposits \ {d} : Saver[e] = u /\ deposit[e].pc = "found"
      BY <1>1, <3>2 DEF OneDebit, HoldsWallet, u
    <3>3. CASE \E s \in Drawings : Saver[s] = u /\ drawing[s].pc \in {"read", "taken", "found"}
      BY <3>1, <3>3
    <3>4. CASE run.todo # {}
      BY <3>4 DEF RunBegan
    <3> QED
      BY <3>1, <3>2, <3>3, <3>4 DEF PotInHand
  <2> QED
    BY <1>1, <2>1 DEF DepositsShareThePot
<1> QED
  BY <1>5, <1>6, <1>7, <1>8, <1>9, <1>10, <1>11

LEMMA DrawCommitKeeps ==
  ASSUME SavingsInv, NEW s \in Drawings, DrawCommit(s)
  PROVE  SavingsInv'
<1> USE DEF SavingsInv
<1> DEFINE u == Saver[s]
           n == Moved[s]
<1>1. /\ drawing[s].pc = "found"
      /\ pot'       = [pot EXCEPT ![u] = drawing[s].pot - n]
      /\ wallet'    = [wallet EXCEPT ![u] = drawing[s].wallet + n]
      /\ potDue'    = [potDue EXCEPT ![u] = @ - n]
      /\ walletDue' = [walletDue EXCEPT ![u] = @ + n]
      /\ crossed'     = crossed \cup {v \in {u} : WalletInHand(v, s) # {}}
      /\ contested' = contested \cup {v \in {u} : PotInHand(v, s) # {}}
      /\ UNCHANGED <<deposit, run, day, unwritten>>
  BY DEF DrawCommit, Left
<1>2. /\ drawing' \in [Drawings -> DrawingStates] /\ drawing'[s].pc = "done"
      /\ \A t \in Drawings : t # s => drawing'[t] = drawing[t]
  <2>1. drawing[s] \in DrawingStates /\ drawing \in [Drawings -> DrawingStates]
    BY DEF SavingsTypeOK
  <2>2. drawing' = [drawing EXCEPT ![s] = [drawing[s] EXCEPT !.pc = "done"]]
    BY DEF DrawCommit
  <2>3. drawing'[s].pc = "done"
    BY <2>1, <2>2 DEF DrawingStates
  <2> QED
    BY <2>3, DrawRecord DEF DrawStep
<1>3. u \in Savers /\ n \in Nat /\ s \notin Deposits /\ s \notin Savers
  BY RequestParts
<1>4. /\ drawing[s].wallet \in Nat /\ drawing[s].pot \in Nat /\ n <= drawing[s].pot
      /\ u \notin crossed => drawing[s].wallet = wallet[u]
      /\ u \notin contested => drawing[s].pot = pot[u]
  <2>1. drawing[s] \in DrawingStates
    BY DEF SavingsTypeOK
  <2> QED
    BY <1>1, <2>1 DEF DrawingStates, EnoughRead, Drawing, WalletSeen, PotSeen
<1> HIDE DEF n
<1>5. SavingsTypeOK'
  <2>1. wallet' \in [Savers -> Nat] /\ pot' \in [Savers -> Nat]
    BY <1>1, <1>3, <1>4 DEF SavingsTypeOK
  <2>2. walletDue' \in [Savers -> Int] /\ potDue' \in [Savers -> Int]
    BY <1>1, <1>3 DEF SavingsTypeOK
  <2>3. crossed' \subseteq Savers /\ contested' \subseteq Savers
    BY <1>1, <1>3 DEF SavingsTypeOK
  <2> QED
    BY <1>1, <1>2, <2>1, <2>2, <2>3 DEF SavingsTypeOK
<1>6. EnoughRead' /\ OneDebit'
  BY <1>1, <1>2 DEF EnoughRead, OneDebit, Depositing, Drawing, HoldsWallet
<1>7. WalletSeen'
  <2>1. \A v \in Savers : v # u => wallet'[v] = wallet[v]
    BY <1>1, <1>3 DEF SavingsTypeOK
  <2>2. ASSUME NEW d \in Deposits, Depositing(d)', Saver[d] \notin crossed'
        PROVE  deposit'[d].wallet = wallet'[Saver[d]]
    <3>1. d # s /\ Depositing(d) /\ Saver[d] \notin crossed
      BY <1>1, <1>3, <2>2 DEF Depositing
    <3>2. Saver[d] # u
      BY <1>1, <2>2, <3>1 DEF WalletInHand, Depositing
    <3> QED
      BY <1>1, <2>1, <3>1, <3>2, RequestParts DEF WalletSeen
  <2>3. ASSUME NEW t \in Drawings, drawing'[t].pc = "found", Saver[t] \notin crossed'
        PROVE  drawing'[t].wallet = wallet'[Saver[t]]
    <3>1. t # s /\ drawing[t].pc = "found" /\ Saver[t] \notin crossed
      BY <1>1, <1>2, <2>3
    <3>2. Saver[t] # u
      BY <1>1, <2>3, <3>1 DEF WalletInHand
    <3> QED
      BY <1>2, <2>1, <3>1, <3>2, RequestParts DEF WalletSeen
  <2> QED
    BY <2>2, <2>3 DEF WalletSeen
<1>8. PotSeen'
  <2>1. \A v \in Savers : v # u => pot'[v] = pot[v]
    BY <1>1, <1>3 DEF SavingsTypeOK
  <2>2. ASSUME NEW d \in Deposits, deposit'[d].pc = "found", Saver[d] \notin contested'
        PROVE  deposit'[d].pot = pot'[Saver[d]]
    <3>1. d # s /\ deposit[d].pc = "found" /\ Saver[d] \notin contested
      BY <1>1, <1>3, <2>2
    <3>2. Saver[d] # u
      BY <1>1, <2>2, <3>1 DEF PotInHand
    <3> QED
      BY <1>1, <2>1, <3>1, <3>2, RequestParts DEF PotSeen
  <2>3. ASSUME NEW t \in Drawings, Drawing(t)', Saver[t] \notin contested'
        PROVE  drawing'[t].pot = pot'[Saver[t]]
    <3>1. t # s /\ Drawing(t) /\ Saver[t] \notin contested
      BY <1>1, <1>2, <2>3 DEF Drawing
    <3>2. Saver[t] # u
      BY <1>1, <2>3, <3>1 DEF PotInHand, Drawing
    <3> QED
      BY <1>2, <2>1, <3>1, <3>2, RequestParts DEF PotSeen
  <2>4. ASSUME NEW v \in run'.todo, v \notin contested'
        PROVE  run'.seen[v] = pot'[v]
    <3>1. v \in run.todo /\ v \in Savers /\ v \notin contested
      BY <1>1, <2>4 DEF SavingsTypeOK, RunStates
    <3>2. v # u
      BY <1>1, <1>3, <2>4, <3>1 DEF PotInHand
    <3> QED
      BY <1>1, <2>1, <3>1, <3>2 DEF PotSeen
  <2> QED
    BY <2>2, <2>3, <2>4 DEF PotSeen
<1>9. SavingsAreKept'
  <2>1. \A v \in Savers : Unrecorded(v)' = Unrecorded(v) /\ Unrecorded(v) \in Nat
    BY <1>1, UnrecordedIsKobo DEF Unrecorded
  <2> QED
    BY <1>1, <1>3, <1>4, <2>1 DEF SavingsAreKept, SavingsTypeOK
<1>10. RunBegan' /\ OneUnrecorded'
  BY <1>1 DEF RunBegan, OneUnrecorded
<1>11. DepositsShareThePot'
  <2>1. drawing'[s].pc # "idle" /\ drawing[s].pc # "idle"
    BY <1>1, <1>2
  <2>2. \A v \in contested' : v = u \/ v \in contested
    BY <1>1
  <2> QED
    BY <1>1, <1>2, <2>1, <2>2 DEF DepositsShareThePot
<1> QED
  BY <1>5, <1>6, <1>7, <1>8, <1>9, <1>10, <1>11

LEMMA RunSaveKeeps ==
  ASSUME SavingsInv, NEW u \in Savers, RunSave(u)
  PROVE  SavingsInv'
<1> USE DEF SavingsInv
<1> DEFINE n == Interest(run.seen[u])
<1>1. /\ u \in run.todo
      /\ run.saved = {}
      /\ pot'       = [pot EXCEPT ![u] = run.seen[u] + n]
      /\ run'       = [run EXCEPT !.todo = @ \ {u}, !.saved = {u}]
      /\ contested' = contested \cup {v \in {u} : PotInHand(v, u) # {}}
      /\ UNCHANGED <<wallet, deposit, drawing, day, walletDue, potDue, crossed, unwritten>>
  BY DEF RunSave
<1>2. /\ run \in RunStates /\ run' \in RunStates
      /\ run'.todo = run.todo \ {u} /\ run'.seen = run.seen /\ run'.saved = {u}
  <2>1. run \in RunStates
    BY DEF SavingsTypeOK
  <2> QED
    BY <1>1, <2>1 DEF RunStates
<1>3. run.seen[u] \in Nat /\ n \in Nat
  BY <1>2, InterestIsKobo DEF RunStates
<1>4. u \notin contested => run.seen[u] = pot[u]
  BY <1>1 DEF PotSeen
<1> HIDE DEF n
<1>5. SavingsTypeOK'
  <2>1. pot' \in [Savers -> Nat] /\ potDue' \in [Savers -> Int] /\ contested' \subseteq Savers
    BY <1>1, <1>3 DEF SavingsTypeOK
  <2> QED
    BY <1>1, <1>2, <2>1 DEF SavingsTypeOK
<1>6. EnoughRead' /\ OneDebit' /\ WalletSeen'
  BY <1>1 DEF EnoughRead, OneDebit, WalletSeen, Depositing, Drawing, HoldsWallet
<1>7. PotSeen'
  <2>1. \A v \in Savers : v # u => pot'[v] = pot[v]
    BY <1>1 DEF SavingsTypeOK
  <2>2. ASSUME NEW d \in Deposits, deposit'[d].pc = "found", Saver[d] \notin contested'
        PROVE  deposit'[d].pot = pot'[Saver[d]]
    <3>1. d # u /\ deposit[d].pc = "found" /\ Saver[d] \notin contested
      BY <1>1, <2>2, RequestParts
    <3>2. Saver[d] # u
      BY <1>1, <2>2, <3>1 DEF PotInHand
    <3> QED
      BY <1>1, <2>1, <3>1, <3>2, RequestParts DEF PotSeen
  <2>3. ASSUME NEW s \in Drawings, Drawing(s)', Saver[s] \notin contested'
        PROVE  drawing'[s].pot = pot'[Saver[s]]
    <3>1. s # u /\ Drawing(s) /\ Saver[s] \notin contested
      BY <1>1, <2>3, RequestParts DEF Drawing
    <3>2. Saver[s] # u
      BY <1>1, <2>3, <3>1 DEF PotInHand, Drawing
    <3> QED
      BY <1>1, <2>1, <3>1, <3>2, RequestParts DEF PotSeen
  <2>4. \A v \in run'.todo : v \notin contested' => run'.seen[v] = pot'[v]
    BY <1>1, <1>2, <2>1 DEF PotSeen, RunStates
  <2> QED
    BY <2>2, <2>3, <2>4 DEF PotSeen
<1>8. SavingsAreKept'
  <2>1. \A v \in Savers : /\ Unrecorded(v) = 0
                          /\ Unrecorded(v)' = IF v = u THEN n ELSE 0
    BY <1>1, <1>2 DEF Unrecorded, n
  <2> QED
    BY <1>1, <1>3, <1>4, <2>1 DEF SavingsAreKept, SavingsTypeOK
<1>9. day > 0 /\ day' > 0
  BY <1>1 DEF RunBegan
<1>10. RunBegan' /\ OneUnrecorded' /\ DepositsShareThePot'
  BY <1>2, <1>9 DEF RunBegan, OneUnrecorded, DepositsShareThePot
<1> QED
  BY <1>5, <1>6, <1>7, <1>8, <1>10

\* The Transaction of a pot that was saved.
LEMMA RunRecordKeeps ==
  ASSUME SavingsInv, NEW u \in Savers, RunRecord(u)
  PROVE  SavingsInv'
<1> USE DEF SavingsInv
<1> DEFINE n == Interest(run.seen[u])
<1>1. /\ u \in run.saved
      /\ potDue' = [potDue EXCEPT ![u] = @ + n]
      /\ run'    = [run EXCEPT !.saved = {}]
      /\ UNCHANGED <<wallet, pot, deposit, drawing, day, walletDue, crossed, contested, unwritten>>
  BY DEF RunRecord
<1>2. /\ run \in RunStates /\ run' \in RunStates
      /\ run'.todo = run.todo /\ run'.seen = run.seen /\ run'.saved = {}
  <2>1. run \in RunStates
    BY DEF SavingsTypeOK
  <2> QED
    BY <1>1, <2>1 DEF RunStates
<1>3. n \in Nat
  BY <1>2, InterestIsKobo DEF RunStates
<1>4. run.saved = {u}
  BY <1>1 DEF OneUnrecorded
<1>5. \A v \in Savers : /\ Unrecorded(v)' = 0
                        /\ Unrecorded(v) = IF v = u THEN n ELSE 0
  BY <1>2, <1>4 DEF Unrecorded
<1> HIDE DEF n
<1>6. SavingsTypeOK'
  BY <1>1, <1>2, <1>3 DEF SavingsTypeOK
<1>7. EnoughRead' /\ OneDebit' /\ WalletSeen' /\ PotSeen' /\ RunBegan' /\ OneUnrecorded'
  BY <1>1, <1>2 DEF EnoughRead, OneDebit, WalletSeen, PotSeen, RunBegan, OneUnrecorded,
                    Depositing, Drawing, HoldsWallet
<1>8. SavingsAreKept'
  BY <1>1, <1>3, <1>5 DEF SavingsAreKept, SavingsTypeOK
<1>9. DepositsShareThePot'
  BY <1>1 DEF DepositsShareThePot
<1> QED
  BY <1>6, <1>7, <1>8, <1>9

\* The task starts by reading the pots; it may die.
LEMMA RunReads ==
  ASSUME SavingsInv, RunStart \/ RunDie
  PROVE  SavingsInv'
<1> USE DEF SavingsInv
<1>1. UNCHANGED <<wallet, pot, deposit, drawing, walletDue, potDue, crossed, contested>>
  BY DEF RunStart, RunDie
<1>2. day' \in 0..Days /\ day' >= day /\ (RunStart => day' > 0)
  BY BoundsAssumption DEF SavingsTypeOK, RunStart, RunDie
<1>3. run' \in RunStates /\ \A v \in run'.todo : RunStart /\ run'.seen[v] = pot[v]
  <2>1. run \in RunStates /\ pot \in [Savers -> Nat]
    BY DEF SavingsTypeOK
  <2>2. CASE RunStart
    BY <2>1, <2>2 DEF RunStart, RunStates
  <2>3. CASE RunDie
    <3>1. run' = [run EXCEPT !.todo = {}, !.saved = {}]
      BY <2>3 DEF RunDie
    <3>2. run' \in RunStates /\ run'.todo = {}
      BY <2>1, <3>1 DEF RunStates
    <3> QED
      BY <3>2
  <2> QED
    BY <2>2, <2>3
<1>4. run'.saved = {} /\ unwritten' = unwritten \cup run.saved
  <2>1. run \in RunStates
    BY DEF SavingsTypeOK
  <2>2. CASE RunStart
    <3>1. run.saved = {} /\ unwritten' = unwritten
      BY <2>2 DEF RunStart
    <3>2. run' = [todo |-> {u \in Savers : Interest(pot[u]) > 0}, seen |-> pot, saved |-> {}]
      BY <2>2 DEF RunStart
    <3> QED
      BY <3>1, <3>2
  <2>3. CASE RunDie
    BY <2>1, <2>3 DEF RunDie, RunStates
  <2> QED
    BY <2>2, <2>3
<1>5. SavingsTypeOK'
  <2>1. run.saved \subseteq Savers
    BY DEF SavingsTypeOK, RunStates
  <2> QED
    BY <1>1, <1>2, <1>3, <1>4, <2>1 DEF SavingsTypeOK
<1>6. EnoughRead' /\ OneDebit' /\ WalletSeen' /\ PotSeen'
  BY <1>1, <1>3 DEF EnoughRead, OneDebit, WalletSeen, PotSeen, Depositing, Drawing, HoldsWallet
<1>7. SavingsAreKept'
  <2>1. \A v \in Savers \ unwritten' : Unrecorded(v) = 0 /\ Unrecorded(v)' = 0
    BY <1>4 DEF Unrecorded
  <2> QED
    BY <1>1, <1>4, <2>1 DEF SavingsAreKept
<1>8. RunBegan' /\ OneUnrecorded'
  BY <1>2, <1>3, <1>4 DEF RunBegan, OneUnrecorded
<1>9. DepositsShareThePot'
  <2>1. day > 0 => day' > 0
    BY <1>2 DEF SavingsTypeOK
  <2> QED
    BY <1>1, <2>1 DEF DepositsShareThePot
<1> QED
  BY <1>5, <1>6, <1>7, <1>8, <1>9

\* The invariant is inductive.
LEMMA InvNext == SavingsInv /\ [SavingsNext]_savingsVars => SavingsInv'
<1> SUFFICES ASSUME SavingsInv, [SavingsNext]_savingsVars PROVE SavingsInv'
  OBVIOUS
<1>1. CASE \E d \in Deposits : DepositRead(d) \/ DepositStep(d)
  BY <1>1, DepositReads, DepositCommitKeeps DEF DepositStep
<1>2. CASE \E s \in Drawings : DrawRead(s) \/ DrawStep(s)
  BY <1>2, DrawReads, DrawCommitKeeps DEF DrawStep
<1>3. CASE \E d \in Deposits, s \in Drawings : BreakDeadlock(d, s)
  BY <1>3, DepositReads, DrawReads DEF BreakDeadlock
<1>4. CASE \E u \in Savers : RunSave(u) \/ RunRecord(u)
  BY <1>4, RunSaveKeeps, RunRecordKeeps
<1>5. CASE RunStart \/ RunDie
  BY <1>5, RunReads
<1>6. CASE UNCHANGED savingsVars
  BY <1>6 DEF savingsVars, SavingsInv, SavingsTypeOK, EnoughRead, OneDebit, WalletSeen, PotSeen,
              SavingsAreKept, Unrecorded, RunBegan, OneUnrecorded, DepositsShareThePot,
              Depositing, Drawing, HoldsWallet
<1> QED
  BY <1>1, <1>2, <1>3, <1>4, <1>5, <1>6 DEF SavingsNext

LEMMA InvAlways == SavingsSpec => []SavingsInv
BY InvInit, InvNext, PTL DEF SavingsSpec

-----------------------------------------------------------------------------
(* The properties of the runs, for every value of the constants *)

\* No interleaving of requests and interest makes a wallet or a pot negative
\* (SavingsDepositView, SavingsWithdrawView, accrue_daily_savings_interest).
THEOREM SavingsTypesHold == SavingsSpec => []SavingsTypeOK
BY InvAlways, PTL DEF SavingsInv

\* Wallets and pots hold what was moved and earned, unless they changed while a request
\* or the task had them in hand (views.py 132-147, 196-209; tasks.py 28-39).
THEOREM SavingsExact == SavingsSpec => []SavingsAreKept
BY InvAlways, PTL DEF SavingsInv

\* The debit that comes first orders the deposits of a user, and no deposit loses another
\* one's addition to the pot (views.py 132-144).
THEOREM DepositsAreOrdered == SavingsSpec => []DepositsShareThePot
BY InvAlways, PTL DEF SavingsInv
=============================================================================
