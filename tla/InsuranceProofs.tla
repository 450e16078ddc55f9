--------------------------- MODULE InsuranceProofs ---------------------------
(***************************************************************************)
(* Proofs about Insurance: for any users, policies, claims, reviews and    *)
(* mornings, wallets and float hold what was moved unless a second writer  *)
(* came in between, an undisputed claim is paid at most once, and premiums *)
(* are counted.  And about Score, the other part of the same run: for any  *)
(* history, kinds and points, what a quiet score is, and when one falls.   *)
(***************************************************************************)
EXTENDS Insurance, Score, FiniteSetTheorems, SequenceTheorems, TLAPS

-----------------------------------------------------------------------------
(* Money: what those under way know *)

\* Who is about to take out an amount had found enough.
EnoughRead ==
    /\ \A a \in Activations : activation[a].pc = "read" => Premium <= activation[a].seen
    /\ \A c \in Claims : HoldsFloat(c) => Payout[c] <= claim[c].float
    /\ \A r \in Reviews, c \in Claims :
          review[r].pc = "float" /\ review[r].at = {c} => Payout[c] <= review[r].seen

\* One claim at a time has the float's row, and knows what is in it.
FloatLockHeld ==
    /\ \A c \in Claims, d \in Claims : HoldsFloat(c) /\ HoldsFloat(d) => c = d
    /\ \A c \in Claims : HoldsFloat(c) => claim[c].float = float

\* The float that a review has read is the float, unless it is stale.
FloatSeen ==
    \A r \in Reviews : review[r].pc = "float" /\ ~floatStale => review[r].seen = float

\* The wallet that somebody has in hand is the wallet, unless it is stale.
WalletSeen ==
    /\ \A a \in Activations : activation[a].pc = "read" /\ Holder[a] \notin stale
                                => activation[a].seen = wallet[Holder[a]]
    /\ \A c \in Claims : claim[c].pc = "found" /\ Holder[c] \notin stale
                           => claim[c].wallet = wallet[Holder[c]]
    /\ \A r \in Reviews, c \in Claims :
          review[r].pc = "wallet" /\ review[r].at = {c} /\ Holder[c] \notin stale
            => review[r].seen = wallet[Holder[c]]
    /\ \A a \in run.todo : Holder[a] \notin stale => run.seen[Holder[a]] = wallet[Holder[a]]

MoneyInv ==
    InsuranceTypeOK /\ EnoughRead /\ FloatLockHeld /\ FloatSeen /\ WalletSeen /\ InsuranceIsKept

-----------------------------------------------------------------------------
(* Claims *)

InHand(r) == review[r].todo \cup review[r].at

\* Paid by a review that has not marked it yet.
Paying(c) == \E r \in Reviews : review[r].pc = "credited" /\ review[r].at = {c}

\* A review is at one claim, which is not among those it has to do.
ReviewsInOrder ==
    \A r \in Reviews :
        /\ review[r].pc \in {"idle", "next"} => review[r].at = {}
        /\ review[r].at \cap review[r].todo = {}

\* A claim that its request has not committed has no status and was not paid.
Unfiled ==
    \A c \in Claims :
        /\ claim[c].pc # "done" => claim[c].status = "none"
        /\ claim[c].status = "none" => payouts[c] = 0

\* The reviews have only claims that needed one.
Reviewed ==
    \A r \in Reviews : \A c \in InHand(r) : claim[c].status \in {"manual_review", "paid"}

\* An undisputed claim is in the hands of one review, and not paid before that pays it.
Undisputed ==
    \A c \in Claims \ disputed :
        /\ \A r \in Reviews, q \in Reviews : c \in InHand(r) /\ c \in InHand(q) => r = q
        /\ \A r \in Reviews : c \in InHand(r) => claim[c].status = "manual_review"
        /\ claim[c].status = "manual_review" /\ ~Paying(c) => payouts[c] = 0

PayingIsPaid == \A c \in Claims : Paying(c) => payouts[c] >= 1

ClaimInv ==
    ReviewsInOrder /\ Unfiled /\ Reviewed /\ Undisputed /\ PayingIsPaid /\ ClaimsArePaidOnce

-----------------------------------------------------------------------------
(* Policies *)

\* A policy exists from the commit of its activation, and the task has only such.
PoliciesExist ==
    /\ \A a \in Activations : activation[a].pc # "done" => policy[a].status = "none"
    /\ \A a \in run.todo \cup run.at : policy[a].status # "none"

\* Whoever has found no active policy while there is one has raced.
ChecksRaced ==
    \A a \in Activations, b \in Activations :
        activation[a].pc \in {"checked", "read"} /\ policy[b].status = "active"
          /\ Holder[a] = Holder[b] => Holder[a] \in raced

PolicyInv == PoliciesExist /\ ChecksRaced /\ PoliciesAreCounted

-----------------------------------------------------------------------------
(* Records *)

LEMMA RequestParts ==
  /\ \A a \in Activations : Holder[a] \in Users /\ a \notin Claims /\ a \notin Reviews
  /\ \A c \in Claims : /\ Holder[c] \in Users /\ Payout[c] \in Nat
                       /\ c \notin Activations /\ c \notin Reviews
  /\ \A r \in Reviews : r \notin Activations /\ r \notin Claims
  /\ Premium \in Nat
BY RequestsAssumption, AmountsAssumption

\* What a step of an activation does to its record.
ActivationMoves(a) ==
    \/ activation'[a].pc = "refused"
    \/ activation[a].pc = "idle" /\ activation'[a].pc = "checked" /\ ~Covered(Holder[a])
    \/ /\ activation[a].pc = "checked" /\ activation'[a].pc = "read"
       /\ activation'[a].seen = wallet[Holder[a]] /\ Premium <= wallet[Holder[a]]
    \/ activation[a].pc = "read" /\ activation'[a].pc = "done"

LEMMA ActivationRecord ==
  ASSUME InsuranceTypeOK, NEW a \in Activations,
         ActivateCheck(a) \/ ActivateRead(a) \/ ActivateCommit(a)
  PROVE  /\ activation' \in [Activations -> ActivationStates]
         /\ \A b \in Activations : b # a => activation'[b] = activation[b]
         /\ ActivationMoves(a)
         /\ activation[a].pc \in {"idle", "checked", "read"}
         /\ ActivateCheck(a) \/ ActivateRead(a) => activation'[a].pc # "done"
         /\ ActivateCommit(a) => activation'[a].pc = "done"
<1>1. activation \in [Activations -> ActivationStates] /\ activation[a] \in ActivationStates
  BY DEF InsuranceTypeOK
<1>2. wallet[Holder[a]] \in Nat /\ Premium \in Nat
  BY RequestParts DEF InsuranceTypeOK
<1>3. ASSUME NEW q \in ActivationStates, activation' = [activation EXCEPT ![a] = q]
      PROVE  /\ activation' \in [Activations -> ActivationStates] /\ activation'[a] = q
             /\ \A b \in Activations : b # a => activation'[b] = activation[b]
  BY <1>1, <1>3
<1>4. ASSUME NEW pc \in {"refused", "checked", "done"},
             activation' = [activation EXCEPT ![a] = [activation[a] EXCEPT !.pc = pc]]
      PROVE  /\ activation' \in [Activations -> ActivationStates]
             /\ \A b \in Activations : b # a => activation'[b] = activation[b]
             /\ activation'[a].pc = pc
  <2>1. [activation[a] EXCEPT !.pc = pc] \in ActivationStates
    BY <1>1 DEF ActivationStates
  <2>2. [activation[a] EXCEPT !.pc = pc].pc = pc
    BY <1>1 DEF ActivationStates
  <2> QED
    BY <1>3, <1>4, <2>1, <2>2
<1>5. CASE ActivateCheck(a)
  <2>1. CASE AlreadyActive(a)
    <3>1. activation' = [activation EXCEPT ![a] = [activation[a] EXCEPT !.pc = "refused"]]
      BY <1>5, <2>1 DEF ActivateCheck
    <3> QED
      BY <1>4, <1>5, <3>1 DEF ActivationMoves, ActivateCheck, ActivateCommit
  <2>2. CASE ~AlreadyActive(a)
    <3>1. activation' = [activation EXCEPT ![a] = [activation[a] EXCEPT !.pc = "checked"]]
      BY <1>5, <2>2 DEF ActivateCheck
    <3> QED
      BY <1>4, <1>5, <2>2, <3>1 DEF ActivationMoves, ActivateCheck, ActivateCommit, AlreadyActive
  <2> QED
    BY <2>1, <2>2
<1>6. CASE ActivateRead(a)
  <2>1. CASE Enough(wallet[Holder[a]], Premium)
    <3> DEFINE q == [pc |-> "read", seen |-> wallet[Holder[a]]]
    <3>1. q \in ActivationStates /\ q.pc = "read" /\ q.seen = wallet[Holder[a]]
      BY <1>2 DEF ActivationStates
    <3>2. activation' = [activation EXCEPT ![a] = q] /\ activation[a].pc = "checked"
      BY <1>6, <2>1 DEF ActivateRead
    <3>3. Premium <= wallet[Holder[a]]
      BY <1>2, <2>1 DEF Enough
    <3> HIDE DEF q
    <3> QED
      BY <1>3, <3>1, <3>2, <3>3 DEF ActivationMoves, ActivateCommit
  <2>2. CASE ~Enough(wallet[Holder[a]], Premium)
    <3>1. activation' = [activation EXCEPT ![a] = [activation[a] EXCEPT !.pc = "refused"]]
      BY <1>6, <2>2 DEF ActivateRead
    <3> QED
      BY <1>4, <1>6, <3>1 DEF ActivationMoves, ActivateRead, ActivateCommit
  <2> QED
    BY <2>1, <2>2
<1>7. CASE ActivateCommit(a)
  <2>1. activation' = [activation EXCEPT ![a] = [activation[a] EXCEPT !.pc = "done"]]
    BY <1>7 DEF ActivateCommit
  <2> QED
    BY <1>4, <1>7, <2>1 DEF ActivationMoves, ActivateCommit, ActivateCheck, ActivateRead
<1> QED
  BY <1>5, <1>6, <1>7

\* What a step of a claim's request does to its record.
ClaimMoves(c) ==
    \/ claim'[c].pc \in {"refused", "filed"} /\ claim'[c].status = claim[c].status
    \/ claim'[c].pc = "done" /\ claim'[c].status = "manual_review"
    \/ /\ claim'[c].pc = "locked" /\ claim'[c].status = claim[c].status
       /\ ~FloatLocked /\ claim'[c].float = float /\ Payout[c] <= float
    \/ /\ claim[c].pc = "locked" /\ claim'[c].pc = "found" /\ claim'[c].status = claim[c].status
       /\ claim'[c].float = claim[c].float /\ claim'[c].wallet = wallet[Holder[c]]

ClaimReads(c) == ClaimFile(c) \/ ClaimLock(c) \/ ClaimFind(c) \/ ClaimFail(c)

LEMMA ClaimRecord ==
  ASSUME InsuranceTypeOK, NEW c \in Claims, ClaimReads(c)
  PROVE  /\ claim' \in [Claims -> ClaimStates]
         /\ \A d \in Claims : d # c => claim'[d] = claim[d]
         /\ ClaimMoves(c) /\ claim[c].pc # "done"
<1>1. claim \in [Claims -> ClaimStates] /\ claim[c] \in ClaimStates
  BY DEF InsuranceTypeOK
<1>2. wallet[Holder[c]] \in Nat /\ float \in Nat /\ Payout[c] \in Nat
  BY RequestParts DEF InsuranceTypeOK
<1>3. ASSUME NEW q \in ClaimStates, claim' = [claim EXCEPT ![c] = q]
      PROVE  /\ claim' \in [Claims -> ClaimStates] /\ claim'[c] = q
             /\ \A d \in Claims : d # c => claim'[d] = claim[d]
  BY <1>1, <1>3
<1>4. ASSUME NEW pc \in {"refused", "filed"},
             claim' = [claim EXCEPT ![c] = [claim[c] EXCEPT !.pc = pc]]
      PROVE  /\ claim' \in [Claims -> ClaimStates]
             /\ \A d \in Claims : d # c => claim'[d] = claim[d]
             /\ ClaimMoves(c)
  <2> DEFINE q == [claim[c] EXCEPT !.pc = pc]
  <2>1. q \in ClaimStates /\ q.pc = pc /\ q.status = claim[c].status
    BY <1>1 DEF ClaimStates
  <2>2. claim' = [claim EXCEPT ![c] = q]
    BY <1>4
  <2> HIDE DEF q
  <2> QED
    BY <1>3, <2>1, <2>2 DEF ClaimMoves
<1>5. ASSUME claim' = [claim EXCEPT ![c] = [claim[c] EXCEPT !.pc = "done", !.status = "manual_review"]]
      PROVE  /\ claim' \in [Claims -> ClaimStates]
             /\ \A d \in Claims : d # c => claim'[d] = claim[d]
             /\ ClaimMoves(c)
  <2> DEFINE q == [claim[c] EXCEPT !.pc = "done", !.status = "manual_review"]
  <2>1. q \in ClaimStates /\ q.pc = "done" /\ q.status = "manual_review"
    BY <1>1 DEF ClaimStates
  <2>2. claim' = [claim EXCEPT ![c] = q]
    BY <1>5
  <2> HIDE DEF q
  <2> QED
    BY <1>3, <2>1, <2>2 DEF ClaimMoves
<1>6. CASE ClaimFile(c)
  <2>1. \/ claim' = [claim EXCEPT ![c] = [claim[c] EXCEPT !.pc = "refused"]]
        \/ claim' = [claim EXCEPT ![c] = [claim[c] EXCEPT !.pc = "filed"]]
        \/ claim' = [claim EXCEPT ![c] = [claim[c] EXCEPT !.pc = "done", !.status = "manual_review"]]
    BY <1>6 DEF ClaimFile
  <2>2. claim[c].pc # "done"
    BY <1>6 DEF ClaimFile
  <2> QED
    BY <1>4, <1>5, <2>1, <2>2
<1>7. CASE ClaimLock(c)
  <2>1. CASE Enough(float, Payout[c])
    <3> DEFINE q == [claim[c] EXCEPT !.pc = "locked", !.float = float]
    <3>1. q \in ClaimStates /\ q.pc = "locked" /\ q.status = claim[c].status /\ q.float = float
      BY <1>1, <1>2 DEF ClaimStates
    <3>2. claim' = [claim EXCEPT ![c] = q] /\ ~FloatLocked /\ claim[c].pc = "filed"
      BY <1>7, <2>1 DEF ClaimLock
    <3>3. Payout[c] <= float
      BY <1>2, <2>1 DEF Enough
    <3> HIDE DEF q
    <3> QED
      BY <1>3, <3>1, <3>2, <3>3 DEF ClaimMoves
  <2>2. CASE ~Enough(float, Payout[c])
    <3>1. claim' = [claim EXCEPT ![c] = [claim[c] EXCEPT !.pc = "done", !.status = "manual_review"]]
      BY <1>7, <2>2 DEF ClaimLock
    <3> QED
      BY <1>5, <1>7, <3>1 DEF ClaimLock
  <2> QED
    BY <2>1, <2>2
<1>8. CASE ClaimFind(c)
  <2> DEFINE q == [claim[c] EXCEPT !.pc = "found", !.wallet = wallet[Holder[c]]]
  <2>1. /\ q \in ClaimStates /\ q.pc = "found" /\ q.status = claim[c].status
        /\ q.float = claim[c].float /\ q.wallet = wallet[Holder[c]]
    BY <1>1, <1>2 DEF ClaimStates
  <2>2. claim' = [claim EXCEPT ![c] = q] /\ claim[c].pc = "locked"
    BY <1>8 DEF ClaimFind
  <2> HIDE DEF q
  <2> QED
    BY <1>3, <2>1, <2>2 DEF ClaimMoves
<1>9. CASE ClaimFail(c)
  <2>1. claim' = [claim EXCEPT ![c] = [claim[c] EXCEPT !.pc = "refused"]] /\ claim[c].pc # "done"
    BY <1>9 DEF ClaimFail
  <2> QED
    BY <1>4, <2>1
<1> QED
  BY <1>6, <1>7, <1>8, <1>9 DEF ClaimReads

\* What the steps of a review do to its record.
Lists(r, selected) ==
    /\ review[r].pc = "idle" /\ review'[r].pc = "next"
    /\ review'[r].todo = {c \in selected : Reviewable(c)} /\ review'[r].at = review[r].at

Picks(r, c) ==
    /\ review[r].pc = "next" /\ c \in review[r].todo /\ review'[r].todo = review[r].todo \ {c}
    /\ \/ review'[r].pc = "next" /\ review'[r].at = review[r].at
       \/ /\ review'[r].pc = "float" /\ review'[r].at = {c}
          /\ review'[r].seen = float /\ Payout[c] <= float

Goes(r, from, to) ==
    /\ review[r].pc = from /\ review'[r].pc = to
    /\ review'[r].todo = review[r].todo /\ review'[r].at = review[r].at

Drops(r) ==
    /\ review'[r].pc = "next" /\ review'[r].at = {}
    /\ review'[r].todo \subseteq review[r].todo

\* One step of a review, with what it does to the record.
ReviewMoves(r, c, selected) ==
    \/ ReviewList(r, selected) /\ Lists(r, selected)
    \/ ReviewFloat(r, c) /\ Picks(r, c)
    \/ ReviewDisburse(r, c) /\ Goes(r, "float", "disbursed")
    \/ ReviewFind(r, c) /\ Goes(r, "disbursed", "wallet") /\ review'[r].seen = wallet[Holder[c]]
    \/ ReviewCredit(r, c) /\ Goes(r, "wallet", "credited")
    \/ ReviewMark(r, c) /\ Drops(r)
    \/ ReviewFail(r, c) /\ Drops(r)

LEMMA ReviewRecord ==
  ASSUME InsuranceTypeOK, NEW r \in Reviews, NEW c \in Claims, NEW selected \in SUBSET Claims,
         ReviewList(r, selected) \/ ReviewStep(r, c) \/ ReviewFail(r, c)
  PROVE  /\ review' \in [Reviews -> ReviewStates]
         /\ \A q \in Reviews : q # r => review'[q] = review[q]
         /\ ReviewMoves(r, c, selected)
<1>1. review \in [Reviews -> ReviewStates] /\ review[r] \in ReviewStates
  BY DEF InsuranceTypeOK
<1>2. wallet[Holder[c]] \in Nat /\ float \in Nat /\ Payout[c] \in Nat
  BY RequestParts DEF InsuranceTypeOK
<1>3. ASSUME NEW q \in ReviewStates, review' = [review EXCEPT ![r] = q]
      PROVE  /\ review' \in [Reviews -> ReviewStates] /\ review'[r] = q
             /\ \A p \in Reviews : p # r => review'[p] = review[p]
  BY <1>1, <1>3
<1>4. ASSUME NEW from, NEW to \in {"disbursed", "credited"}, review[r].pc = from,
             review' = [review EXCEPT ![r] = [review[r] EXCEPT !.pc = to]]
      PROVE  /\ review' \in [Reviews -> ReviewStates]
             /\ \A q \in Reviews : q # r => review'[q] = review[q]
             /\ Goes(r, from, to)
  <2> DEFINE q == [review[r] EXCEPT !.pc = to]
  <2>1. q \in ReviewStates /\ q.pc = to /\ q.todo = review[r].todo /\ q.at = review[r].at
    BY <1>1 DEF ReviewStates
  <2>2. review' = [review EXCEPT ![r] = q]
    BY <1>4
  <2> HIDE DEF q
  <2> QED
    BY <1>3, <1>4, <2>1, <2>2 DEF Goes
<1>5. ASSUME NEW rest \in SUBSET review[r].todo,
             review' = [review EXCEPT ![r] = [review[r] EXCEPT !.pc = "next", !.at = {}, !.todo = rest]]
      PROVE  /\ review' \in [Reviews -> ReviewStates]
             /\ \A q \in Reviews : q # r => review'[q] = review[q]
             /\ Drops(r)
  <2> DEFINE q == [review[r] EXCEPT !.pc = "next", !.at = {}, !.todo = rest]
  <2>1. rest \in SUBSET Claims
    BY <1>1 DEF ReviewStates
  <2>2. q \in ReviewStates /\ q.pc = "next" /\ q.todo = rest /\ q.at = {}
    BY <1>1, <2>1 DEF ReviewStates
  <2>3. review' = [review EXCEPT ![r] = q]
    BY <1>5
  <2> HIDE DEF q
  <2> QED
    BY <1>3, <1>5, <2>2, <2>3 DEF Drops
<1>6. CASE ReviewList(r, selected)
  <2> DEFINE mine == {d \in selected : Reviewable(d)}
             q    == [review[r] EXCEPT !.pc = "next", !.todo = mine]
  <2>1. mine \in SUBSET Claims
    OBVIOUS
  <2>2. review' = [review EXCEPT ![r] = q] /\ review[r].pc = "idle"
    BY <1>6 DEF ReviewList
  <2> HIDE DEF mine
  <2>3. q \in ReviewStates /\ q.pc = "next" /\ q.todo = mine /\ q.at = review[r].at
    BY <1>1, <2>1 DEF ReviewStates
  <2> HIDE DEF q
  <2>4. Lists(r, selected)
    BY <1>3, <2>2, <2>3 DEF Lists, mine
  <2> QED
    BY <1>3, <1>6, <2>2, <2>3, <2>4 DEF ReviewMoves
<1>7. CASE ReviewFloat(r, c)
  <2>1. review[r].pc = "next" /\ c \in review[r].todo
    BY <1>7 DEF ReviewFloat
  <2>2. CASE Enough(float, Payout[c])
    <3> DEFINE q == [pc |-> "float", todo |-> review[r].todo \ {c}, at |-> {c}, seen |-> float]
    <3>1. /\ q \in ReviewStates /\ q.pc = "float" /\ q.todo = review[r].todo \ {c} /\ q.at = {c}
          /\ q.seen = float
      BY <1>1, <1>2 DEF ReviewStates
    <3>2. review' = [review EXCEPT ![r] = q]
      BY <1>7, <2>2 DEF ReviewFloat
    <3>3. Payout[c] <= float
      BY <1>2, <2>2 DEF Enough
    <3> HIDE DEF q
    <3>4. Picks(r, c)
      BY <1>3, <2>1, <3>1, <3>2, <3>3 DEF Picks
    <3> QED
      BY <1>3, <1>7, <3>1, <3>2, <3>4 DEF ReviewMoves
  <2>3. CASE ~Enough(float, Payout[c])
    <3> DEFINE q == [review[r] EXCEPT !.todo = review[r].todo \ {c}]
    <3>1. /\ q \in ReviewStates /\ q.pc = "next" /\ q.todo = review[r].todo \ {c}
          /\ q.at = review[r].at
      BY <1>1, <2>1 DEF ReviewStates
    <3>2. review' = [review EXCEPT ![r] = q]
      BY <1>7, <2>3 DEF ReviewFloat
    <3> HIDE DEF q
    <3>3. Picks(r, c)
      BY <1>3, <2>1, <3>1, <3>2 DEF Picks
    <3> QED
      BY <1>3, <1>7, <3>1, <3>2, <3>3 DEF ReviewMoves
  <2> QED
    BY <2>2, <2>3
<1>8. CASE ReviewDisburse(r, c)
  <2>1. review' = [review EXCEPT ![r] = [review[r] EXCEPT !.pc = "disbursed"]] /\ review[r].pc = "float"
    BY <1>8 DEF ReviewDisburse
  <2> QED
    BY <1>4, <1>8, <2>1 DEF ReviewMoves
<1>9. CASE ReviewFind(r, c)
  <2> DEFINE q == [review[r] EXCEPT !.pc = "wallet", !.seen = wallet[Holder[c]]]
  <2>1. /\ q \in ReviewStates /\ q.pc = "wallet" /\ q.todo = review[r].todo /\ q.at = review[r].at
        /\ q.seen = wallet[Holder[c]]
    BY <1>1, <1>2 DEF ReviewStates
  <2>2. review' = [review EXCEPT ![r] = q] /\ review[r].pc = "disbursed"
    BY <1>9 DEF ReviewFind
  <2> HIDE DEF q
  <2>3. Goes(r, "disbursed", "wallet") /\ review'[r].seen = wallet[Holder[c]]
    BY <1>3, <2>1, <2>2 DEF Goes
  <2> QED
    BY <1>3, <1>9, <2>1, <2>2, <2>3 DEF ReviewMoves
<1>10. CASE ReviewCredit(r, c)
  <2>1. review' = [review EXCEPT ![r] = [review[r] EXCEPT !.pc = "credited"]] /\ review[r].pc = "wallet"
    BY <1>10 DEF ReviewCredit
  <2> QED
    BY <1>4, <1>10, <2>1 DEF ReviewMoves
<1>11. CASE ReviewMark(r, c)
  <2>1. review' = [review EXCEPT ![r] = [review[r] EXCEPT !.pc = "next", !.at = {}]]
        /\ review[r].pc = "credited"
    BY <1>11 DEF ReviewMark
  <2>2. [review[r] EXCEPT !.pc = "next", !.at = {}]
          = [review[r] EXCEPT !.pc = "next", !.at = {}, !.todo = review[r].todo]
    BY <1>1 DEF ReviewStates
  <2> QED
    BY <1>5, <1>11, <2>1, <2>2 DEF ReviewMoves
<1>12. CASE ReviewFail(r, c)
  <2>1. PICK rest \in {review[r].todo, {}} :
          review' = [review EXCEPT ![r] = [review[r] EXCEPT !.pc = "next", !.at = {}, !.todo = rest]]
    BY <1>12 DEF ReviewFail
  <2>2. rest \in SUBSET review[r].todo
    OBVIOUS
  <2> QED
    BY <1>5, <1>12, <2>1, <2>2 DEF ReviewMoves
<1> QED
  BY <1>6, <1>7, <1>8, <1>9, <1>10, <1>11, <1>12 DEF ReviewStep

\* What the steps of the task do to its record.
LEMMA RunRecord ==
  ASSUME InsuranceTypeOK
  PROVE  /\ RunStart => /\ run' \in RunStates /\ run'.at = {} /\ run'.seen = wallet
                        /\ run'.todo = {a \in Activations : policy[a].status = "active"}
         /\ RunDie => /\ run' \in RunStates /\ run'.at = {} /\ run'.todo = {}
         /\ \A a \in Activations :
              /\ RunPause(a) => /\ run' \in RunStates /\ run'.todo = run.todo \ {a}
                                /\ run'.at = run.at /\ run'.seen = run.seen
              /\ RunDebit(a) => /\ run' \in RunStates /\ run'.todo = run.todo \ {a}
                                /\ run'.at = {a} /\ run'.seen = run.seen
              /\ RunCount(a) => /\ run' \in RunStates /\ run'.todo = run.todo
                                /\ run'.at = {} /\ run'.seen = run.seen
<1>1. run \in RunStates /\ wallet \in [Users -> Nat]
  BY DEF InsuranceTypeOK
<1>2. RunStart => /\ run' \in RunStates /\ run'.at = {} /\ run'.seen = wallet
                  /\ run'.todo = {a \in Activations : policy[a].status = "active"}
  BY <1>1 DEF RunStates, RunStart
<1>3. RunDie => run' \in RunStates /\ run'.at = {} /\ run'.todo = {}
  BY <1>1 DEF RunStates, RunDie
<1>4. ASSUME NEW a \in Activations
      PROVE  /\ RunPause(a) => /\ run' \in RunStates /\ run'.todo = run.todo \ {a}
                               /\ run'.at = run.at /\ run'.seen = run.seen
             /\ RunDebit(a) => /\ run' \in RunStates /\ run'.todo = run.todo \ {a}
                               /\ run'.at = {a} /\ run'.seen = run.seen
             /\ RunCount(a) => /\ run' \in RunStates /\ run'.todo = run.todo
                               /\ run'.at = {} /\ run'.seen = run.seen
  <2>1. RunPause(a) => run' = [run EXCEPT !.todo = run.todo \ {a}]
    BY DEF RunPause
  <2>2. RunDebit(a) => run' = [run EXCEPT !.todo = run.todo \ {a}, !.at = {a}]
    BY DEF RunDebit
  <2>3. RunCount(a) => run' = [run EXCEPT !.at = {}]
    BY DEF RunCount
  <2> QED
    BY <1>1, <2>1, <2>2, <2>3 DEF RunStates
<1> QED
  BY <1>2, <1>3, <1>4

-----------------------------------------------------------------------------
(* The money *)

LEMMA MoneyInit == Init => MoneyInv
<1> SUFFICES ASSUME Init PROVE MoneyInv
  OBVIOUS
<1>1. /\ activation \in [Activations -> ActivationStates] /\ policy \in [Activations -> PolicyStates]
      /\ claim \in [Claims -> ClaimStates] /\ review \in [Reviews -> ReviewStates] /\ run \in RunStates
  <2>1. activation \in [Activations -> ActivationStates] /\ policy \in [Activations -> PolicyStates]
    BY DEF Init, ActivationStates, PolicyStates
  <2>2. claim \in [Claims -> ClaimStates] /\ review \in [Reviews -> ReviewStates]
    BY DEF Init, ClaimStates, ReviewStates
  <2>3. run \in RunStates
    BY AmountsAssumption DEF Init, RunStates
  <2> QED
    BY <2>1, <2>2, <2>3
<1>2. InsuranceTypeOK
  <2>1. wallet \in [Users -> Nat] /\ walletDue \in [Users -> Int] /\ float \in Nat /\ floatDue \in Int
    BY AmountsAssumption DEF Init
  <2>2. payouts \in [Claims -> Nat] /\ premiums \in [Activations -> Nat] /\ day \in 0..Days
    BY BoundsAssumption DEF Init
  <2>3. /\ stale \subseteq Users /\ floatStale \in BOOLEAN /\ disputed \subseteq Claims
        /\ raced \subseteq Users /\ killed \subseteq Activations
    BY DEF Init
  <2> QED
    BY <1>1, <2>1, <2>2, <2>3 DEF InsuranceTypeOK
<1>3. /\ \A a \in Activations : activation[a].pc = "idle"
      /\ \A c \in Claims : claim[c].pc = "idle"
      /\ \A r \in Reviews : review[r].pc = "idle"
      /\ run.todo = {}
  BY DEF Init
<1>4. EnoughRead /\ FloatLockHeld /\ FloatSeen /\ WalletSeen
  BY <1>3 DEF EnoughRead, FloatLockHeld, HoldsFloat, FloatSeen, WalletSeen
<1>5. InsuranceIsKept
  BY DEF Init, InsuranceIsKept
<1> QED
  BY <1>2, <1>4, <1>5 DEF MoneyInv

\* Whoever has the wallet of u in hand when x writes it makes u stale.
LEMMA WalletWritten ==
  ASSUME MoneyInv, NEW u \in Users, NEW x, NEW w,
         wallet' = [wallet EXCEPT ![u] = w], stale' = StaleAfter(u, x), run'.seen = run.seen,
         \A a \in Activations : activation'[a].pc = "read" => a # x /\ activation'[a] = activation[a],
         \A c \in Claims : claim'[c].pc = "found" => c # x /\ claim'[c] = claim[c],
         \A r \in Reviews : review'[r].pc = "wallet" => r # x /\ review'[r] = review[r],
         \A a \in run'.todo : a \in Activations /\ a # x /\ a \in run.todo
  PROVE  WalletSeen'
<1>1. \A v \in Users : v # u => wallet'[v] = wallet[v]
  BY DEF MoneyInv, InsuranceTypeOK
<1>2. \A v : v \in stale => v \in stale'
  BY DEF StaleAfter
<1>3. WalletInHand(u, x) # {} => u \in stale'
  BY DEF StaleAfter
<1>4. ASSUME NEW a \in Activations, activation'[a].pc = "read", Holder[a] \notin stale'
      PROVE  activation'[a].seen = wallet'[Holder[a]]
  <2>1. Holder[a] # u
    BY <1>3, <1>4 DEF WalletInHand, Of
  <2> QED
    BY <1>1, <1>2, <1>4, <2>1, RequestParts DEF MoneyInv, WalletSeen
<1>5. ASSUME NEW c \in Claims, claim'[c].pc = "found", Holder[c] \notin stale'
      PROVE  claim'[c].wallet = wallet'[Holder[c]]
  <2>1. Holder[c] # u
    BY <1>3, <1>5 DEF WalletInHand
  <2> QED
    BY <1>1, <1>2, <1>5, <2>1, RequestParts DEF MoneyInv, WalletSeen
<1>6. ASSUME NEW r \in Reviews, NEW c \in Claims, review'[r].pc = "wallet", review'[r].at = {c},
             Holder[c] \notin stale'
      PROVE  review'[r].seen = wallet'[Holder[c]]
  <2>1. Holder[c] # u
    BY <1>3, <1>6 DEF WalletInHand
  <2> QED
    BY <1>1, <1>2, <1>6, <2>1, RequestParts DEF MoneyInv, WalletSeen
<1>7. ASSUME NEW a \in run'.todo, Holder[a] \notin stale'
      PROVE  run'.seen[Holder[a]] = wallet'[Holder[a]]
  <2>1. a \in Activations /\ a # x /\ a \in run.todo
    OBVIOUS
  <2>2. Holder[a] # u
    BY <1>3, <1>7, <2>1 DEF WalletInHand, Of
  <2> QED
    BY <1>1, <1>2, <1>7, <2>1, <2>2, RequestParts DEF MoneyInv, WalletSeen
<1> QED
  BY <1>4, <1>5, <1>6, <1>7 DEF WalletSeen

LEMMA ActivationsKeepMoney ==
  ASSUME MoneyInv, PoliciesExist, NEW a \in Activations,
         ActivateCheck(a) \/ ActivateRead(a) \/ ActivateCommit(a)
  PROVE  MoneyInv'
<1> USE DEF MoneyInv
<1>1. /\ activation' \in [Activations -> ActivationStates]
      /\ \A b \in Activations : b # a => activation'[b] = activation[b]
      /\ ActivationMoves(a) /\ activation[a].pc \in {"idle", "checked", "read"}
  BY ActivationRecord
<1>2. UNCHANGED <<float, claim, review, run, day, floatDue, payouts, floatStale, disputed, killed>>
  BY DEF ActivateCheck, ActivateRead, ActivateCommit, ledger, marks
<1>3. EnoughRead'
  BY <1>1, <1>2, RequestParts DEF EnoughRead, ActivationMoves, HoldsFloat
<1>4. FloatLockHeld' /\ FloatSeen'
  BY <1>2 DEF FloatLockHeld, FloatSeen, HoldsFloat
<1>5. CASE ActivateCheck(a) \/ ActivateRead(a)
  <2>1. UNCHANGED <<wallet, policy, walletDue, premiums, stale, raced>>
    BY <1>5 DEF ActivateCheck, ActivateRead, ledger, marks
  <2>2. InsuranceTypeOK'
    BY <1>1, <1>2, <2>1 DEF InsuranceTypeOK
  <2>3. WalletSeen'
    BY <1>1, <1>2, <2>1 DEF WalletSeen, ActivationMoves
  <2>4. InsuranceIsKept'
    BY <1>2, <2>1 DEF InsuranceIsKept
  <2> QED
    BY <1>3, <1>4, <2>2, <2>3, <2>4
<1>6. CASE ActivateCommit(a)
  <2> DEFINE u == Holder[a]
             n == activation[a].seen - Premium
  <2>1. /\ activation[a].pc = "read" /\ activation'[a].pc = "done"
        /\ wallet' = [wallet EXCEPT ![u] = n]
        /\ policy' = [policy EXCEPT ![a] = [status |-> "active", days |-> 1]]
        /\ walletDue' = [walletDue EXCEPT ![u] = @ - Premium]
        /\ premiums'  = [premiums EXCEPT ![a] = 1]
        /\ stale' = StaleAfter(u, a)
        /\ raced' \subseteq raced \cup {u}
    BY <1>6, ActivationRecord DEF ActivateCommit
  <2>2. u \in Users /\ Premium \in Nat /\ n \in Nat /\ activation[a].seen \in Nat
    <3>1. activation[a] \in ActivationStates
      BY DEF InsuranceTypeOK
    <3>2. activation[a].seen \in Nat /\ Premium <= activation[a].seen
      BY <2>1, <3>1 DEF ActivationStates, EnoughRead
    <3> QED
      BY <3>2, RequestParts
  <2>3. u \notin stale => activation[a].seen = wallet[u]
    BY <2>1 DEF WalletSeen
  <2>4. n = activation[a].seen - Premium
    OBVIOUS
  <2> HIDE DEF n
  <2>5. InsuranceTypeOK'
    <3>1. wallet' \in [Users -> Nat] /\ walletDue' \in [Users -> Int] /\ premiums' \in [Activations -> Nat]
      BY <2>1, <2>2 DEF InsuranceTypeOK
    <3>2. [status |-> "active", days |-> 1] \in PolicyStates
      BY DEF PolicyStates
    <3>3. policy' \in [Activations -> PolicyStates]
      BY <2>1, <3>2 DEF InsuranceTypeOK
    <3>4. stale' \subseteq Users /\ raced' \subseteq Users
      BY <2>1, <2>2 DEF InsuranceTypeOK, StaleAfter
    <3> QED
      BY <1>1, <1>2, <3>1, <3>3, <3>4 DEF InsuranceTypeOK
  <2>6. WalletSeen'
    <3>1. a \notin run.todo
      BY <2>1 DEF PoliciesExist
    <3>2. \A b \in run'.todo : b \in Activations /\ b # a /\ b \in run.todo
      BY <1>2, <3>1 DEF InsuranceTypeOK, RunStates
    <3>3. \A b \in Activations : activation'[b].pc = "read" => b # a /\ activation'[b] = activation[b]
      BY <1>1, <2>1
    <3>4. /\ \A c \in Claims : c # a
          /\ \A r \in Reviews : r # a
      BY RequestParts
    <3> QED
      BY <1>2, <2>1, <2>2, <3>2, <3>3, <3>4, WalletWritten
  <2>7. InsuranceIsKept'
    BY <1>2, <2>1, <2>2, <2>3, <2>4 DEF InsuranceIsKept, InsuranceTypeOK, StaleAfter
  <2> QED
    BY <1>3, <1>4, <2>5, <2>6, <2>7
<1> QED
  BY <1>5, <1>6

LEMMA ClaimReadsKeepMoney ==
  ASSUME MoneyInv, NEW c \in Claims, ClaimReads(c)
  PROVE  MoneyInv'
<1> USE DEF MoneyInv
<1>1. /\ claim' \in [Claims -> ClaimStates]
      /\ \A d \in Claims : d # c => claim'[d] = claim[d]
      /\ ClaimMoves(c)
  BY ClaimRecord
<1>2. UNCHANGED <<wallet, float, activation, policy, review, run, day, ledger, marks>>
  BY DEF ClaimReads, ClaimFile, ClaimLock, ClaimFind, ClaimFail
<1>3. InsuranceTypeOK'
  BY <1>1, <1>2 DEF InsuranceTypeOK, ledger, marks
<1>4. EnoughRead'
  BY <1>1, <1>2 DEF EnoughRead, HoldsFloat, ClaimMoves
<1>5. FloatLockHeld'
  <2>1. HoldsFloat(c)' => HoldsFloat(c) \/ ~FloatLocked
    BY <1>1 DEF HoldsFloat, ClaimMoves
  <2>2. \A d \in Claims : d # c => (HoldsFloat(d)' <=> HoldsFloat(d))
    BY <1>1 DEF HoldsFloat
  <2>3. HoldsFloat(c)' => claim'[c].float = float
    BY <1>1 DEF HoldsFloat, ClaimMoves, FloatLockHeld
  <2>4. \A d \in Claims : HoldsFloat(d)' => claim'[d].float = float'
    BY <1>1, <1>2, <2>2, <2>3 DEF FloatLockHeld
  <2>5. \A d \in Claims, e \in Claims : HoldsFloat(d)' /\ HoldsFloat(e)' => d = e
    BY <2>1, <2>2 DEF FloatLockHeld, FloatLocked
  <2> QED
    BY <2>4, <2>5 DEF FloatLockHeld
<1>6. FloatSeen' /\ InsuranceIsKept'
  BY <1>2 DEF FloatSeen, InsuranceIsKept, ledger, marks
<1>7. WalletSeen'
  BY <1>1, <1>2 DEF WalletSeen, ClaimMoves, marks
<1> QED
  BY <1>3, <1>4, <1>5, <1>6, <1>7

LEMMA ClaimCommitKeepsMoney ==
  ASSUME MoneyInv, NEW c \in Claims, ClaimCommit(c)
  PROVE  MoneyInv'
<1> USE DEF MoneyInv
<1> DEFINE u == Holder[c]
           n == Payout[c]
           w == claim[c].wallet + n
<1>1. /\ claim[c].pc = "found" /\ float' = claim[c].float - n
      /\ wallet'     = [wallet EXCEPT ![u] = w]
      /\ floatDue'   = floatDue - n
      /\ walletDue'  = [walletDue EXCEPT ![u] = @ + n]
      /\ payouts'    = [payouts EXCEPT ![c] = @ + 1]
      /\ stale'      = StaleAfter(u, c)
      /\ floatStale' = (floatStale \/ FloatInHand(c) # {})
      /\ UNCHANGED <<activation, policy, review, run, day, premiums, disputed, raced, killed>>
  BY DEF ClaimCommit
<1>2. /\ claim' \in [Claims -> ClaimStates] /\ claim'[c].pc = "done"
      /\ \A d \in Claims : d # c => claim'[d] = claim[d]
  <2> DEFINE q == [claim[c] EXCEPT !.pc = "done", !.status = "auto_approved"]
  <2>1. claim \in [Claims -> ClaimStates] /\ claim[c] \in ClaimStates
    BY DEF InsuranceTypeOK
  <2>2. q \in ClaimStates /\ q.pc = "done"
    BY <2>1 DEF ClaimStates
  <2>3. claim' = [claim EXCEPT ![c] = q]
    BY DEF ClaimCommit
  <2> HIDE DEF q
  <2> QED
    BY <2>1, <2>2, <2>3
<1>3. /\ u \in Users /\ n \in Nat /\ w \in Nat /\ claim[c].wallet \in Nat
      /\ claim[c].float \in Nat /\ n <= claim[c].float
  <2>1. claim[c] \in ClaimStates /\ HoldsFloat(c)
    BY <1>1 DEF InsuranceTypeOK, HoldsFloat
  <2> QED
    BY <2>1, RequestParts DEF ClaimStates, EnoughRead
<1>4. claim[c].float = float /\ (u \notin stale => claim[c].wallet = wallet[u])
  BY <1>1 DEF HoldsFloat, FloatLockHeld, WalletSeen
<1>5. w = claim[c].wallet + n
  OBVIOUS
<1> HIDE DEF w
<1>6. InsuranceTypeOK'
  <2>1. wallet' \in [Users -> Nat] /\ walletDue' \in [Users -> Int] /\ payouts' \in [Claims -> Nat]
    BY <1>1, <1>3 DEF InsuranceTypeOK
  <2>2. float' \in Nat /\ floatDue' \in Int
    BY <1>1, <1>3 DEF InsuranceTypeOK
  <2>3. stale' \subseteq Users /\ floatStale' \in BOOLEAN
    BY <1>1, <1>3 DEF InsuranceTypeOK, StaleAfter
  <2> QED
    BY <1>1, <1>2, <2>1, <2>2, <2>3 DEF InsuranceTypeOK
<1>7. \A d \in Claims : HoldsFloat(d)' => FALSE
  BY <1>1, <1>2 DEF HoldsFloat, FloatLockHeld
<1>8. EnoughRead' /\ FloatLockHeld'
  BY <1>1, <1>7 DEF EnoughRead, FloatLockHeld
<1>9. FloatSeen'
  <2>1. ASSUME NEW r \in Reviews, review[r].pc = "float"
        PROVE  floatStale'
    BY <1>1, <2>1, RequestParts DEF FloatInHand
  <2> QED
    BY <1>1, <2>1 DEF FloatSeen
<1>10. WalletSeen'
  <2>1. \A d \in Claims : claim'[d].pc = "found" => d # c /\ claim'[d] = claim[d]
    BY <1>2
  <2>2. /\ \A a \in Activations : a # c
        /\ \A r \in Reviews : r # c
        /\ \A a \in run'.todo : a \in Activations /\ a # c /\ a \in run.todo
    BY <1>1, RequestParts DEF InsuranceTypeOK, RunStates
  <2> QED
    BY <1>1, <1>3, <2>1, <2>2, WalletWritten
<1>11. InsuranceIsKept'
  <2>1. \A v \in Users \ stale' : wallet'[v] = walletDue'[v]
    BY <1>1, <1>3, <1>4, <1>5 DEF InsuranceIsKept, InsuranceTypeOK, StaleAfter
  <2>2. ~floatStale' => float' = floatDue'
    BY <1>1, <1>3, <1>4 DEF InsuranceIsKept, InsuranceTypeOK
  <2> QED
    BY <2>1, <2>2 DEF InsuranceIsKept
<1> QED
  BY <1>6, <1>8, <1>9, <1>10, <1>11

\* The steps of a review that write neither float nor wallet.
LEMMA ReviewReadsKeepMoney ==
  ASSUME MoneyInv, NEW r \in Reviews, NEW c \in Claims, NEW selected \in SUBSET Claims,
         \/ ReviewList(r, selected) \/ ReviewFloat(r, c) \/ ReviewFind(r, c)
         \/ ReviewMark(r, c) \/ ReviewFail(r, c)
  PROVE  MoneyInv'
<1> USE DEF MoneyInv
<1>1. /\ review' \in [Reviews -> ReviewStates]
      /\ \A q \in Reviews : q # r => review'[q] = review[q]
      /\ ReviewMoves(r, c, selected)
  BY ReviewRecord DEF ReviewStep
<1>2. UNCHANGED <<wallet, float, activation, policy, run, day, walletDue, floatDue, payouts, premiums,
                  stale, floatStale, raced, killed>>
  BY DEF ReviewList, ReviewFloat, ReviewFind, ReviewMark, ReviewFail, ledger, marks
<1>3. /\ claim' \in [Claims -> ClaimStates]
      /\ \A d \in Claims : /\ claim'[d].pc = claim[d].pc
                           /\ claim'[d].float = claim[d].float /\ claim'[d].wallet = claim[d].wallet
  <2>1. claim \in [Claims -> ClaimStates] /\ claim[c] \in ClaimStates
    BY DEF InsuranceTypeOK
  <2>2. CASE UNCHANGED claim
    BY <2>1, <2>2
  <2>3. CASE ReviewMark(r, c)
    <3> DEFINE q == [claim[c] EXCEPT !.status = "paid"]
    <3>1. /\ q \in ClaimStates /\ q.pc = claim[c].pc
          /\ q.float = claim[c].float /\ q.wallet = claim[c].wallet
      BY <2>1 DEF ClaimStates
    <3>2. claim' = [claim EXCEPT ![c] = q]
      BY <2>3 DEF ReviewMark
    <3> HIDE DEF q
    <3> QED
      BY <2>1, <3>1, <3>2
  <2> QED
    BY <2>2, <2>3 DEF ReviewList, ReviewFloat, ReviewFind, ReviewFail
<1>4. disputed' \subseteq Claims
  <2>1. CASE ReviewList(r, selected)
    BY <2>1 DEF ReviewList, InsuranceTypeOK
  <2>2. CASE ReviewFail(r, c)
    BY <2>2 DEF ReviewFail, InsuranceTypeOK
  <2> QED
    BY <2>1, <2>2 DEF ReviewFloat, ReviewFind, ReviewMark, ledger, marks, InsuranceTypeOK
<1>5. InsuranceTypeOK'
  BY <1>1, <1>2, <1>3, <1>4 DEF InsuranceTypeOK
<1>6. /\ review'[r].pc = "float" => \E d \in Claims : /\ review'[r].at = {d} /\ review'[r].seen = float
                                                      /\ Payout[d] <= float
      /\ review'[r].pc = "wallet" => review'[r].at = review[r].at /\ review[r].at = {c}
                                     /\ review'[r].seen = wallet[Holder[c]]
  BY <1>1 DEF ReviewMoves, Lists, Picks, Goes, Drops, ReviewFind
<1>7. EnoughRead'
  <2>1. \A q \in Reviews, d \in Claims :
           review'[q].pc = "float" /\ review'[q].at = {d} => Payout[d] <= review'[q].seen
    BY <1>1, <1>6 DEF EnoughRead
  <2> QED
    BY <1>2, <1>3, <2>1 DEF EnoughRead, HoldsFloat
<1>8. FloatLockHeld' /\ InsuranceIsKept'
  BY <1>2, <1>3 DEF FloatLockHeld, HoldsFloat, InsuranceIsKept
<1>9. FloatSeen'
  BY <1>1, <1>2, <1>6 DEF FloatSeen
<1>10. WalletSeen'
  <2>1. \A q \in Reviews, d \in Claims :
           review'[q].pc = "wallet" /\ review'[q].at = {d} /\ Holder[d] \notin stale
             => review'[q].seen = wallet[Holder[d]]
    BY <1>1, <1>6 DEF WalletSeen
  <2> QED
    BY <1>2, <1>3, <2>1 DEF WalletSeen
<1> QED
  BY <1>5, <1>7, <1>8, <1>9, <1>10

LEMMA DisburseKeepsMoney ==
  ASSUME MoneyInv, NEW r \in Reviews, NEW c \in Claims, ReviewDisburse(r, c)
  PROVE  MoneyInv'
<1> USE DEF MoneyInv
<1>1. /\ review[r].pc = "float" /\ review[r].at = {c} /\ ~FloatLocked
      /\ float'      = review[r].seen - Payout[c]
      /\ floatDue'   = floatDue - Payout[c]
      /\ floatStale' = (floatStale \/ FloatInHand(r) # {})
      /\ UNCHANGED <<wallet, activation, policy, claim, run, day, walletDue, payouts, premiums,
                     stale, disputed, raced, killed>>
  BY DEF ReviewDisburse
<1>2. /\ review' \in [Reviews -> ReviewStates] /\ review'[r].pc = "disbursed"
      /\ \A q \in Reviews : q # r => review'[q] = review[q]
  <2> DEFINE s == [review[r] EXCEPT !.pc = "disbursed"]
  <2>1. review \in [Reviews -> ReviewStates] /\ review[r] \in ReviewStates
    BY DEF InsuranceTypeOK
  <2>2. s \in ReviewStates /\ s.pc = "disbursed"
    BY <2>1 DEF ReviewStates
  <2>3. review' = [review EXCEPT ![r] = s]
    BY DEF ReviewDisburse
  <2> HIDE DEF s
  <2> QED
    BY <2>1, <2>2, <2>3
<1>3. review[r].seen \in Nat /\ Payout[c] \in Nat /\ Payout[c] <= review[r].seen
  <2>1. review[r] \in ReviewStates
    BY DEF InsuranceTypeOK
  <2> QED
    BY <1>1, <2>1, RequestParts DEF ReviewStates, EnoughRead
<1>4. ~floatStale => review[r].seen = float
  BY <1>1 DEF FloatSeen
<1>5. InsuranceTypeOK'
  <2>1. float' \in Nat /\ floatDue' \in Int /\ floatStale' \in BOOLEAN
    BY <1>1, <1>3 DEF InsuranceTypeOK
  <2> QED
    BY <1>1, <1>2, <2>1 DEF InsuranceTypeOK
<1>6. EnoughRead' /\ FloatLockHeld'
  BY <1>1, <1>2 DEF EnoughRead, FloatLockHeld, FloatLocked, HoldsFloat
<1>7. FloatSeen'
  <2>1. ASSUME NEW q \in Reviews, review'[q].pc = "float"
        PROVE  floatStale'
    BY <1>1, <1>2, <2>1 DEF FloatInHand
  <2> QED
    BY <2>1 DEF FloatSeen
<1>8. WalletSeen'
  BY <1>1, <1>2 DEF WalletSeen
<1>9. InsuranceIsKept'
  BY <1>1, <1>3, <1>4 DEF InsuranceIsKept, InsuranceTypeOK
<1> QED
  BY <1>5, <1>6, <1>7, <1>8, <1>9

LEMMA CreditKeepsMoney ==
  ASSUME MoneyInv, NEW r \in Reviews, NEW c \in Claims, ReviewCredit(r, c)
  PROVE  MoneyInv'
<1> USE DEF MoneyInv
<1> DEFINE u == Holder[c]
           w == review[r].seen + Payout[c]
<1>1. /\ review[r].pc = "wallet" /\ review[r].at = {c}
      /\ wallet'    = [wallet EXCEPT ![u] = w]
      /\ walletDue' = [walletDue EXCEPT ![u] = @ + Payout[c]]
      /\ payouts'   = [payouts EXCEPT ![c] = @ + 1]
      /\ stale'     = StaleAfter(u, r)
      /\ UNCHANGED <<float, activation, policy, claim, run, day, floatDue, premiums,
                     floatStale, disputed, raced, killed>>
  BY DEF ReviewCredit
<1>2. /\ review' \in [Reviews -> ReviewStates] /\ review'[r].pc = "credited"
      /\ \A q \in Reviews : q # r => review'[q] = review[q]
  <2> DEFINE s == [review[r] EXCEPT !.pc = "credited"]
  <2>1. review \in [Reviews -> ReviewStates] /\ review[r] \in ReviewStates
    BY DEF InsuranceTypeOK
  <2>2. s \in ReviewStates /\ s.pc = "credited"
    BY <2>1 DEF ReviewStates
  <2>3. review' = [review EXCEPT ![r] = s]
    BY DEF ReviewCredit
  <2> HIDE DEF s
  <2> QED
    BY <2>1, <2>2, <2>3
<1>3. u \in Users /\ Payout[c] \in Nat /\ w \in Nat /\ review[r].seen \in Nat
  <2>1. review[r] \in ReviewStates
    BY DEF InsuranceTypeOK
  <2> QED
    BY <2>1, RequestParts DEF ReviewStates
<1>4. u \notin stale => review[r].seen = wallet[u]
  BY <1>1 DEF WalletSeen
<1>5. w = review[r].seen + Payout[c]
  OBVIOUS
<1> HIDE DEF w
<1>6. InsuranceTypeOK'
  <2>1. wallet' \in [Users -> Nat] /\ walletDue' \in [Users -> Int] /\ payouts' \in [Claims -> Nat]
    BY <1>1, <1>3 DEF InsuranceTypeOK
  <2>2. stale' \subseteq Users
    BY <1>1, <1>3 DEF InsuranceTypeOK, StaleAfter
  <2> QED
    BY <1>1, <1>2, <2>1, <2>2 DEF InsuranceTypeOK
<1>7. EnoughRead' /\ FloatLockHeld' /\ FloatSeen'
  BY <1>1, <1>2 DEF EnoughRead, FloatLockHeld, HoldsFloat, FloatSeen
<1>8. WalletSeen'
  <2>1. \A q \in Reviews : review'[q].pc = "wallet" => q # r /\ review'[q] = review[q]
    BY <1>2
  <2>2. /\ \A a \in Activations : a # r
        /\ \A d \in Claims : d # r
        /\ \A a \in run'.todo : a \in Activations /\ a # r /\ a \in run.todo
    BY <1>1, RequestParts DEF InsuranceTypeOK, RunStates
  <2> QED
    BY <1>1, <1>3, <2>1, <2>2, WalletWritten
<1>9. InsuranceIsKept'
  BY <1>1, <1>3, <1>4, <1>5 DEF InsuranceIsKept, InsuranceTypeOK, StaleAfter
<1> QED
  BY <1>6, <1>7, <1>8, <1>9

\* The steps of the task that write no wallet.
LEMMA RunReadsKeepMoney ==
  ASSUME MoneyInv,
         RunStart \/ RunDie \/ \E a \in Activations : RunPause(a) \/ RunCount(a)
  PROVE  MoneyInv'
<1> USE DEF MoneyInv
<1>1. UNCHANGED <<wallet, float, activation, claim, review, ledger, stale, floatStale, disputed, raced>>
  BY DEF RunStart, RunDie, RunPause, RunCount, marks
<1>2. run' \in RunStates
  BY RunRecord
<1>3. day' \in 0..Days
  BY BoundsAssumption DEF InsuranceTypeOK, RunStart, RunDie, RunPause, RunCount
<1>4. policy' \in [Activations -> PolicyStates]
  <2>1. policy \in [Activations -> PolicyStates]
    BY DEF InsuranceTypeOK
  <2>2. ASSUME NEW a \in Activations, RunPause(a)
        PROVE  policy' \in [Activations -> PolicyStates]
    <3>1. [policy[a] EXCEPT !.status = "paused"] \in PolicyStates
      BY <2>1 DEF PolicyStates
    <3>2. policy' = [policy EXCEPT ![a] = [policy[a] EXCEPT !.status = "paused"]]
      BY <2>2 DEF RunPause
    <3> QED
      BY <2>1, <3>1, <3>2
  <2>3. ASSUME NEW a \in Activations, RunCount(a)
        PROVE  policy' \in [Activations -> PolicyStates]
    <3>1. [policy[a] EXCEPT !.days = policy[a].days + 1] \in PolicyStates
      BY <2>1 DEF PolicyStates
    <3>2. policy' = [policy EXCEPT ![a] = [policy[a] EXCEPT !.days = policy[a].days + 1]]
      BY <2>3 DEF RunCount
    <3> QED
      BY <2>1, <3>1, <3>2
  <2> QED
    BY <2>1, <2>2, <2>3 DEF RunStart, RunDie
<1>5. killed' \subseteq Activations
  BY DEF InsuranceTypeOK, RunStates, RunStart, RunDie, RunPause, RunCount, marks
<1>6. InsuranceTypeOK'
  BY <1>1, <1>2, <1>3, <1>4, <1>5 DEF InsuranceTypeOK, ledger
<1>7. EnoughRead' /\ FloatLockHeld' /\ FloatSeen' /\ InsuranceIsKept'
  BY <1>1 DEF EnoughRead, FloatLockHeld, HoldsFloat, FloatSeen, InsuranceIsKept, ledger
<1>8. WalletSeen'
  <2>1. \A a \in run'.todo : Holder[a] \notin stale => run'.seen[Holder[a]] = wallet[Holder[a]]
    BY RunRecord DEF WalletSeen
  <2> QED
    BY <1>1, <2>1 DEF WalletSeen
<1> QED
  BY <1>6, <1>7, <1>8

LEMMA DebitKeepsMoney ==
  ASSUME MoneyInv, PoliciesExist, NEW a \in Activations, RunDebit(a)
  PROVE  MoneyInv'
<1> USE DEF MoneyInv
<1> DEFINE u == Holder[a]
           w == run.seen[u] - Premium
<1>1. /\ a \in run.todo /\ Enough(run.seen[u], Premium)
      /\ wallet'    = [wallet EXCEPT ![u] = w]
      /\ walletDue' = [walletDue EXCEPT ![u] = @ - Premium]
      /\ premiums'  = [premiums EXCEPT ![a] = @ + 1]
      /\ stale'     = StaleAfter(u, a)
      /\ UNCHANGED <<float, activation, policy, claim, review, day, floatDue, payouts,
                     floatStale, disputed, raced, killed>>
  BY DEF RunDebit
<1>2. run' \in RunStates /\ run'.todo = run.todo \ {a} /\ run'.seen = run.seen
  BY RunRecord
<1>3. u \in Users /\ Premium \in Nat /\ w \in Nat /\ run.seen[u] \in Nat
  <2>1. u \in Users /\ Premium \in Nat /\ run \in RunStates
    BY RequestParts DEF InsuranceTypeOK
  <2>2. run.seen[u] \in Nat
    BY <2>1 DEF RunStates
  <2> QED
    BY <1>1, <2>1, <2>2 DEF Enough
<1>4. u \notin stale => run.seen[u] = wallet[u]
  BY <1>1 DEF WalletSeen
<1>5. w = run.seen[u] - Premium
  OBVIOUS
<1> HIDE DEF w
<1>6. InsuranceTypeOK'
  <2>1. wallet' \in [Users -> Nat] /\ walletDue' \in [Users -> Int] /\ premiums' \in [Activations -> Nat]
    BY <1>1, <1>3 DEF InsuranceTypeOK
  <2>2. stale' \subseteq Users
    BY <1>1, <1>3 DEF InsuranceTypeOK, StaleAfter
  <2> QED
    BY <1>1, <1>2, <2>1, <2>2 DEF InsuranceTypeOK
<1>7. EnoughRead' /\ FloatLockHeld' /\ FloatSeen'
  BY <1>1 DEF EnoughRead, FloatLockHeld, HoldsFloat, FloatSeen
<1>8. WalletSeen'
  <2>1. activation[a].pc # "read"
    BY <1>1 DEF PoliciesExist
  <2>2. /\ \A d \in Claims : d # a
        /\ \A r \in Reviews : r # a
        /\ \A b \in run'.todo : b \in Activations /\ b # a /\ b \in run.todo
    BY <1>2, RequestParts DEF InsuranceTypeOK, RunStates
  <2> QED
    BY <1>1, <1>2, <1>3, <2>1, <2>2, WalletWritten
<1>9. InsuranceIsKept'
  BY <1>1, <1>3, <1>4, <1>5 DEF InsuranceIsKept, InsuranceTypeOK, StaleAfter
<1> QED
  BY <1>6, <1>7, <1>8, <1>9

LEMMA MoneyNext == MoneyInv /\ PoliciesExist /\ [Next]_vars => MoneyInv'
<1> SUFFICES ASSUME MoneyInv, PoliciesExist, [Next]_vars PROVE MoneyInv'
  OBVIOUS
<1>1. CASE \E a \in Activations : ActivateCheck(a) \/ ActivateRead(a) \/ ActivateCommit(a)
  BY <1>1, ActivationsKeepMoney
<1>2. CASE \E c \in Claims : ClaimFile(c) \/ ClaimStep(c) \/ ClaimFail(c)
  BY <1>2, ClaimReadsKeepMoney, ClaimCommitKeepsMoney DEF ClaimStep, ClaimReads
<1>3. CASE \E r \in Reviews, selected \in SUBSET Claims : ReviewList(r, selected)
  <2>1. PICK r \in Reviews, selected \in SUBSET Claims : ReviewList(r, selected)
    BY <1>3
  <2>2. PICK c \in Claims : Reviewable(c)
    BY <2>1 DEF ReviewList
  <2> QED
    BY <2>1, <2>2, ReviewReadsKeepMoney
<1>4. CASE \E r \in Reviews, c \in Claims : ReviewStep(r, c) \/ ReviewFail(r, c)
  BY <1>4, ReviewReadsKeepMoney, DisburseKeepsMoney, CreditKeepsMoney DEF ReviewStep
<1>5. CASE (\E a \in Activations : RunStep(a)) \/ RunStart \/ RunDie
  BY <1>5, RunReadsKeepMoney, DebitKeepsMoney DEF RunStep
<1>6. CASE UNCHANGED vars
  BY <1>6 DEF vars, ledger, marks, MoneyInv, InsuranceTypeOK, EnoughRead, FloatLockHeld, HoldsFloat,
              FloatSeen, WalletSeen, InsuranceIsKept
<1> QED
  BY <1>1, <1>2, <1>3, <1>4, <1>5, <1>6 DEF Next

-----------------------------------------------------------------------------
(* The policies *)

LEMMA PolicyInit == Init => PolicyInv
<1> SUFFICES ASSUME Init PROVE PolicyInv
  OBVIOUS
<1>1. /\ \A a \in Activations : /\ activation[a].pc = "idle" /\ premiums[a] = 0
                                /\ policy[a].status = "none" /\ policy[a].days = 0
      /\ run.todo = {} /\ run.at = {}
  BY DEF Init
<1> QED
  BY <1>1 DEF PolicyInv, PoliciesExist, ChecksRaced, PoliciesAreCounted

LEMMA ActivationsKeepPolicies ==
  ASSUME InsuranceTypeOK, PolicyInv, NEW a \in Activations,
         ActivateCheck(a) \/ ActivateRead(a) \/ ActivateCommit(a)
  PROVE  PolicyInv'
<1> USE DEF PolicyInv
<1>1. /\ \A b \in Activations : b # a => activation'[b] = activation[b]
      /\ ActivationMoves(a) /\ activation[a].pc \in {"idle", "checked", "read"}
      /\ ActivateCheck(a) \/ ActivateRead(a) => activation'[a].pc # "done"
      /\ ActivateCommit(a) => activation'[a].pc = "done"
  BY ActivationRecord
<1>2. UNCHANGED <<run, killed>>
  BY DEF ActivateCheck, ActivateRead, ActivateCommit, marks
<1>3. policy[a].status = "none"
  BY <1>1 DEF PoliciesExist
<1>4. CASE ActivateCheck(a) \/ ActivateRead(a)
  <2>1. UNCHANGED <<policy, premiums, raced>>
    BY <1>4 DEF ActivateCheck, ActivateRead, ledger, marks
  <2>2. PoliciesExist' /\ PoliciesAreCounted'
    BY <1>1, <1>2, <1>3, <1>4, <2>1 DEF PoliciesExist, PoliciesAreCounted
  <2>3. ChecksRaced'
    BY <1>1, <2>1 DEF ChecksRaced, ActivationMoves, Covered, Of
  <2> QED
    BY <2>2, <2>3
<1>5. CASE ActivateCommit(a)
  <2> DEFINE q == [status |-> "active", days |-> 1]
  <2>1. /\ activation[a].pc = "read"
        /\ policy' = [policy EXCEPT ![a] = q]
        /\ premiums'  = [premiums EXCEPT ![a] = 1]
        /\ raced' = raced \cup {v \in {Holder[a]} :
                                  \E b \in Of(v) \ {a} : activation[b].pc \in {"checked", "read"}}
    BY <1>5 DEF ActivateCommit
  <2>2. q.status = "active" /\ q.days = 1
    OBVIOUS
  <2> HIDE DEF q
  <2>3. /\ policy'[a] = q /\ premiums'[a] = 1
        /\ \A b \in Activations : b # a => policy'[b] = policy[b] /\ premiums'[b] = premiums[b]
    BY <2>1 DEF InsuranceTypeOK
  <2>4. a \notin run.todo /\ a \notin run.at
    BY <1>3 DEF PoliciesExist
  <2>5. PoliciesExist'
    BY <1>1, <1>2, <1>5, <2>2, <2>3, <2>4 DEF PoliciesExist, InsuranceTypeOK, RunStates
  <2>6. ChecksRaced'
    BY <1>1, <1>5, <2>1, <2>2, <2>3 DEF ChecksRaced, Of
  <2>7. PoliciesAreCounted'
    <3>1. \A b \in Activations :
            b \notin killed => premiums'[b] = policy'[b].days + (IF b \in run.at THEN 1 ELSE 0)
      BY <2>2, <2>3, <2>4 DEF PoliciesAreCounted
    <3>2. \A b \in Activations, d \in Activations :
            policy'[b].status = "active" /\ policy'[d].status = "active" /\ b # d
              /\ Holder[b] = Holder[d] => Holder[b] \in raced'
      BY <2>1, <2>3 DEF PoliciesAreCounted, ChecksRaced
    <3> QED
      BY <1>2, <3>1, <3>2 DEF PoliciesAreCounted
  <2> QED
    BY <2>5, <2>6, <2>7
<1> QED
  BY <1>4, <1>5

LEMMA RunsKeepPolicies ==
  ASSUME InsuranceTypeOK, PolicyInv,
         RunStart \/ RunDie \/ \E a \in Activations : RunStep(a)
  PROVE  PolicyInv'
<1> USE DEF PolicyInv
<1>1. UNCHANGED <<activation, raced>>
  BY DEF RunStart, RunDie, RunStep, RunPause, RunDebit, RunCount, marks
<1>2. policy \in [Activations -> PolicyStates] /\ run \in RunStates /\ premiums \in [Activations -> Nat]
  BY DEF InsuranceTypeOK
<1>3. CASE RunStart
  <2>1. UNCHANGED <<policy, premiums, killed>> /\ run.at = {}
    BY <1>3 DEF RunStart, ledger, marks
  <2>2. run'.at = {} /\ \A a \in run'.todo : a \in Activations /\ policy[a].status = "active"
    BY <1>3, RunRecord
  <2> QED
    BY <1>1, <2>1, <2>2 DEF PoliciesExist, ChecksRaced, PoliciesAreCounted
<1>4. CASE RunDie
  <2>1. UNCHANGED <<policy, premiums>> /\ killed' = killed \cup run.at
    BY <1>4 DEF RunDie, ledger
  <2>2. run'.at = {} /\ run'.todo = {}
    BY <1>4, RunRecord
  <2> QED
    BY <1>1, <2>1, <2>2 DEF PoliciesExist, ChecksRaced, PoliciesAreCounted
<1>5. ASSUME NEW a \in Activations, RunPause(a)
      PROVE  PolicyInv'
  <2>1. UNCHANGED <<premiums, killed>> /\ a \in run.todo
        /\ policy' = [policy EXCEPT ![a] = [policy[a] EXCEPT !.status = "paused"]]
    BY <1>5 DEF RunPause, ledger, marks
  <2>2. run'.todo = run.todo \ {a} /\ run'.at = run.at
    BY <1>5, RunRecord
  <2>3. /\ policy'[a].status = "paused" /\ policy'[a].days = policy[a].days
        /\ \A b \in Activations : b # a => policy'[b] = policy[b]
    BY <1>2, <2>1 DEF PolicyStates
  <2>4. policy[a].status # "none"
    BY <2>1 DEF PoliciesExist
  <2>5. PoliciesExist'
    BY <1>1, <1>2, <2>2, <2>3, <2>4 DEF PoliciesExist, RunStates
  <2>6. ChecksRaced' /\ PoliciesAreCounted'
    BY <1>1, <2>1, <2>2, <2>3 DEF ChecksRaced, PoliciesAreCounted
  <2> QED
    BY <2>5, <2>6
<1>6. ASSUME NEW a \in Activations, RunDebit(a)
      PROVE  PolicyInv'
  <2>1. UNCHANGED <<policy, killed>> /\ a \in run.todo /\ run.at = {}
        /\ premiums' = [premiums EXCEPT ![a] = premiums[a] + 1]
    BY <1>6 DEF RunDebit
  <2>2. run'.todo = run.todo \ {a} /\ run'.at = {a}
    BY <1>6, RunRecord
  <2>3. PoliciesExist' /\ ChecksRaced'
    BY <1>1, <2>1, <2>2 DEF PoliciesExist, ChecksRaced
  <2>4. \A b \in Activations :
          b \notin killed => premiums'[b] = policy[b].days + (IF b \in run'.at THEN 1 ELSE 0)
    <3> SUFFICES ASSUME NEW b \in Activations, b \notin killed
                 PROVE  premiums'[b] = policy[b].days + (IF b \in run'.at THEN 1 ELSE 0)
      OBVIOUS
    <3>1. premiums[b] = policy[b].days /\ policy[b].days \in Nat
      BY <1>2, <2>1 DEF PoliciesAreCounted, PolicyStates
    <3> QED
      BY <1>2, <2>1, <2>2, <3>1
  <2>5. PoliciesAreCounted'
    BY <1>1, <2>1, <2>4 DEF PoliciesAreCounted
  <2> QED
    BY <2>3, <2>5
<1>7. ASSUME NEW a \in Activations, RunCount(a)
      PROVE  PolicyInv'
  <2>1. UNCHANGED <<premiums, killed>> /\ run.at = {a}
        /\ policy' = [policy EXCEPT ![a] = [policy[a] EXCEPT !.days = policy[a].days + 1]]
    BY <1>7 DEF RunCount, ledger, marks
  <2>2. run'.todo = run.todo /\ run'.at = {}
    BY <1>7, RunRecord
  <2>3. /\ policy'[a].status = policy[a].status /\ policy'[a].days = policy[a].days + 1
        /\ \A b \in Activations : b # a => policy'[b] = policy[b]
    BY <1>2, <2>1 DEF PolicyStates
  <2>4. PoliciesExist' /\ ChecksRaced'
    BY <1>1, <1>2, <2>2, <2>3 DEF PoliciesExist, ChecksRaced, RunStates
  <2>5. \A b \in Activations : b \notin killed => premiums[b] = policy'[b].days
    <3> SUFFICES ASSUME NEW b \in Activations, b \notin killed
                 PROVE  premiums[b] = policy'[b].days
      OBVIOUS
    <3>1. premiums[b] = policy[b].days + (IF b = a THEN 1 ELSE 0) /\ policy[b].days \in Nat
      BY <1>2, <2>1 DEF PoliciesAreCounted, PolicyStates
    <3> QED
      BY <2>3, <3>1
  <2>6. \A b \in Activations : /\ policy[b].days \in Nat /\ policy'[b].days \in Nat
                               /\ policy'[b].status = policy[b].status
    BY <1>2, <2>3 DEF PolicyStates
  <2>7. PoliciesAreCounted'
    BY <1>1, <2>1, <2>2, <2>5, <2>6 DEF PoliciesAreCounted
  <2> QED
    BY <2>4, <2>7
<1> QED
  BY <1>3, <1>4, <1>5, <1>6, <1>7 DEF RunStep

LEMMA PolicyNext == InsuranceTypeOK /\ PolicyInv /\ [Next]_vars => PolicyInv'
<1> SUFFICES ASSUME InsuranceTypeOK, PolicyInv, [Next]_vars PROVE PolicyInv'
  OBVIOUS
<1>1. CASE \E a \in Activations : ActivateCheck(a) \/ ActivateRead(a) \/ ActivateCommit(a)
  BY <1>1, ActivationsKeepPolicies
<1>2. CASE (\E a \in Activations : RunStep(a)) \/ RunStart \/ RunDie
  BY <1>2, RunsKeepPolicies
<1>3. CASE UNCHANGED <<activation, policy, run, premiums, raced, killed>>
  BY <1>3 DEF PolicyInv, PoliciesExist, ChecksRaced, PoliciesAreCounted
<1>4. ASSUME NEW c \in Claims, ClaimFile(c) \/ ClaimStep(c) \/ ClaimFail(c)
      PROVE  UNCHANGED <<activation, policy, run, premiums, raced, killed>>
  BY <1>4 DEF ClaimFile, ClaimFail, ClaimStep, ClaimLock, ClaimFind, ClaimCommit, ledger, marks
<1>5. ASSUME NEW r \in Reviews, NEW selected \in SUBSET Claims, ReviewList(r, selected)
      PROVE  UNCHANGED <<activation, policy, run, premiums, raced, killed>>
  BY <1>5 DEF ReviewList, ledger
<1>6. ASSUME NEW r \in Reviews, NEW c \in Claims, ReviewStep(r, c) \/ ReviewFail(r, c)
      PROVE  UNCHANGED <<activation, policy, run, premiums, raced, killed>>
  BY <1>6 DEF ReviewStep, ReviewFail, ReviewFloat, ReviewDisburse, ReviewFind, ReviewCredit, ReviewMark,
              ledger, marks
<1>7. CASE UNCHANGED vars
  BY <1>3, <1>7 DEF vars, ledger, marks
<1> QED
  BY <1>1, <1>2, <1>3, <1>4, <1>5, <1>6, <1>7 DEF Next

-----------------------------------------------------------------------------
(* The claims *)

LEMMA ClaimInit == Init => ClaimInv
<1> SUFFICES ASSUME Init PROVE ClaimInv
  OBVIOUS
<1>1. /\ \A c \in Claims : claim[c].pc = "idle" /\ claim[c].status = "none" /\ payouts[c] = 0
      /\ \A r \in Reviews : review[r].pc = "idle" /\ review[r].at = {} /\ review[r].todo = {}
  BY DEF Init
<1> QED
  BY <1>1 DEF ClaimInv, ReviewsInOrder, Unfiled, Reviewed, Undisputed, PayingIsPaid, ClaimsArePaidOnce,
              InHand, Paying

\* A claim whose request is under way is in nobody's hands.
LEMMA UnderWay ==
  ASSUME ClaimInv, NEW c \in Claims, claim[c].pc # "done"
  PROVE  /\ claim[c].status = "none" /\ payouts[c] = 0
         /\ \A r \in Reviews : c \notin InHand(r)
         /\ ~Paying(c)
<1>1. claim[c].status = "none" /\ payouts[c] = 0
  BY DEF ClaimInv, Unfiled
<1>2. \A r \in Reviews : c \notin InHand(r)
  BY <1>1 DEF ClaimInv, Reviewed
<1> QED
  BY <1>1, <1>2 DEF InHand, Paying

LEMMA ClaimReadsKeepClaims ==
  ASSUME InsuranceTypeOK, ClaimInv, NEW c \in Claims, ClaimReads(c)
  PROVE  ClaimInv'
<1>1. UNCHANGED <<review, payouts, disputed>>
  BY DEF ClaimReads, ClaimFile, ClaimLock, ClaimFind, ClaimFail, ledger, marks
<1>2. /\ \A d \in Claims : d # c => claim'[d] = claim[d]
      /\ ClaimMoves(c) /\ claim[c].pc # "done"
  BY ClaimRecord
<1>3. claim[c].status = "none" /\ payouts[c] = 0 /\ \A r \in Reviews : c \notin InHand(r)
  BY <1>2, UnderWay
<1>4. \/ claim'[c].pc # "done" /\ claim'[c].status = "none"
      \/ claim'[c].pc = "done" /\ claim'[c].status = "manual_review"
  BY <1>2, <1>3 DEF ClaimMoves
<1>5. \A d \in Claims : Paying(d)' = Paying(d)
  BY <1>1 DEF Paying
<1>6. \A r \in Reviews : InHand(r)' = InHand(r) /\ InHand(r) \subseteq Claims
  BY <1>1 DEF InHand, InsuranceTypeOK, ReviewStates
<1>7. ReviewsInOrder' /\ PayingIsPaid'
  BY <1>1, <1>5 DEF ClaimInv, ReviewsInOrder, PayingIsPaid
<1>8. Unfiled' /\ ClaimsArePaidOnce'
  BY <1>1, <1>2, <1>3, <1>4 DEF ClaimInv, Unfiled, ClaimsArePaidOnce
<1>9. Reviewed' /\ Undisputed'
  BY <1>1, <1>2, <1>3, <1>4, <1>5, <1>6 DEF ClaimInv, Reviewed, Undisputed
<1> QED
  BY <1>7, <1>8, <1>9 DEF ClaimInv

LEMMA ClaimCommitKeepsClaims ==
  ASSUME InsuranceTypeOK, ClaimInv, NEW c \in Claims, ClaimCommit(c)
  PROVE  ClaimInv'
<1> DEFINE q == [claim[c] EXCEPT !.pc = "done", !.status = "auto_approved"]
<1>1. /\ UNCHANGED <<review, disputed>> /\ claim[c].pc = "found"
      /\ claim' = [claim EXCEPT ![c] = q] /\ payouts' = [payouts EXCEPT ![c] = payouts[c] + 1]
  BY DEF ClaimCommit
<1>2. q.pc = "done" /\ q.status = "auto_approved"
  BY DEF InsuranceTypeOK, ClaimStates
<1> HIDE DEF q
<1>3. claim[c].status = "none" /\ payouts[c] = 0 /\ \A r \in Reviews : c \notin InHand(r)
  BY <1>1, UnderWay
<1>4. /\ claim'[c] = q /\ payouts'[c] = 1
      /\ \A d \in Claims : d # c => claim'[d] = claim[d] /\ payouts'[d] = payouts[d]
  BY <1>1, <1>3 DEF InsuranceTypeOK
<1>5. \A d \in Claims : Paying(d)' = Paying(d)
  BY <1>1 DEF Paying
<1>6. \A r \in Reviews : InHand(r)' = InHand(r) /\ InHand(r) \subseteq Claims
  BY <1>1 DEF InHand, InsuranceTypeOK, ReviewStates
<1>7. ReviewsInOrder'
  BY <1>1 DEF ClaimInv, ReviewsInOrder
<1>8. Unfiled' /\ ClaimsArePaidOnce' /\ PayingIsPaid'
  BY <1>1, <1>2, <1>4, <1>5 DEF ClaimInv, Unfiled, ClaimsArePaidOnce, PayingIsPaid
<1>9. Reviewed' /\ Undisputed'
  BY <1>1, <1>2, <1>3, <1>4, <1>5, <1>6 DEF ClaimInv, Reviewed, Undisputed
<1> QED
  BY <1>7, <1>8, <1>9 DEF ClaimInv

\* A step of a review that moves no money and marks no claim.
LEMMA ReviewReadsKeepClaims ==
  ASSUME InsuranceTypeOK, ClaimInv, NEW r \in Reviews, NEW c \in Claims,
         ReviewFloat(r, c) \/ ReviewDisburse(r, c) \/ ReviewFind(r, c)
  PROVE  ClaimInv'
<1>1. UNCHANGED <<claim, payouts, disputed>>
  BY DEF ReviewFloat, ReviewDisburse, ReviewFind, ledger, marks
<1>2. /\ \A q \in Reviews : q # r => review'[q] = review[q]
      /\ ReviewMoves(r, c, {})
  BY ReviewRecord DEF ReviewStep
<1>3. /\ InHand(r)' \subseteq InHand(r)
      /\ review[r].pc # "credited" /\ review'[r].pc # "credited"
      /\ review'[r].pc \in {"idle", "next"} => review'[r].at = {}
      /\ review'[r].at \cap review'[r].todo = {}
  <2>1. \/ Picks(r, c)
        \/ Goes(r, "float", "disbursed")
        \/ Goes(r, "disbursed", "wallet")
    <3>1. CASE ReviewFloat(r, c)
      BY <1>2, <3>1 DEF ReviewMoves, ReviewFloat, ReviewList, ReviewDisburse, ReviewFind, ReviewCredit,
                        ReviewMark, ReviewFail, ClaimInv, ReviewsInOrder
    <3>2. CASE ReviewDisburse(r, c)
      <4>1. review'[r] = [review[r] EXCEPT !.pc = "disbursed"] /\ review[r].pc = "float"
        BY <3>2 DEF ReviewDisburse, InsuranceTypeOK
      <4>2. review[r] \in ReviewStates
        BY DEF InsuranceTypeOK
      <4> QED
        BY <4>1, <4>2 DEF Goes, ReviewStates
    <3>3. CASE ReviewFind(r, c)
      <4>1. /\ review'[r] = [review[r] EXCEPT !.pc = "wallet", !.seen = wallet[Holder[c]]]
            /\ review[r].pc = "disbursed"
        BY <3>3 DEF ReviewFind, InsuranceTypeOK
      <4>2. review[r] \in ReviewStates
        BY DEF InsuranceTypeOK
      <4> QED
        BY <4>1, <4>2 DEF Goes, ReviewStates
    <3> QED
      BY <3>1, <3>2, <3>3
  <2>2. review[r].at \cap review[r].todo = {} /\ (review[r].pc = "next" => review[r].at = {})
    BY DEF ClaimInv, ReviewsInOrder
  <2>3. CASE Picks(r, c)
    BY <2>2, <2>3 DEF Picks, InHand
  <2>4. CASE Goes(r, "float", "disbursed") \/ Goes(r, "disbursed", "wallet")
    BY <2>2, <2>4 DEF Goes, InHand
  <2> QED
    BY <2>1, <2>3, <2>4
<1>4. \A q \in Reviews : InHand(q)' \subseteq InHand(q)
  BY <1>2, <1>3 DEF InHand
<1>5. \A d \in Claims : Paying(d)' = Paying(d)
  BY <1>2, <1>3 DEF Paying
<1>6. ReviewsInOrder'
  BY <1>2, <1>3 DEF ClaimInv, ReviewsInOrder
<1>7. Unfiled' /\ ClaimsArePaidOnce' /\ PayingIsPaid'
  BY <1>1, <1>5 DEF ClaimInv, Unfiled, ClaimsArePaidOnce, PayingIsPaid
<1>8. Reviewed' /\ Undisputed'
  BY <1>1, <1>4, <1>5 DEF ClaimInv, Reviewed, Undisputed
<1> QED
  BY <1>6, <1>7, <1>8 DEF ClaimInv

LEMMA ReviewListKeepsClaims ==
  ASSUME InsuranceTypeOK, ClaimInv, NEW r \in Reviews, NEW selected \in SUBSET Claims,
         ReviewList(r, selected)
  PROVE  ClaimInv'
<1> DEFINE mine == {d \in selected : Reviewable(d)}
<1>1. /\ UNCHANGED <<claim, payouts>> /\ review[r].pc = "idle"
      /\ disputed' = disputed \cup
            (mine \cap UNION {review[q].todo \cup review[q].at : q \in Reviews \ {r}})
      /\ review' = [review EXCEPT ![r] = [review[r] EXCEPT !.pc = "next", !.todo = mine]]
  BY DEF ReviewList, ledger
<1>2. \A d \in mine : d \in Claims /\ claim[d].status = "manual_review"
  BY DEF Reviewable
<1>3. review[r].at = {}
  BY <1>1 DEF ClaimInv, ReviewsInOrder
<1> HIDE DEF mine
<1>4. /\ review'[r].pc = "next" /\ review'[r].todo = mine /\ review'[r].at = {}
      /\ \A q \in Reviews : q # r => review'[q] = review[q]
  BY <1>1, <1>3 DEF InsuranceTypeOK, ReviewStates
<1>5. InHand(r)' = mine /\ \A q \in Reviews : q # r => InHand(q)' = InHand(q)
  BY <1>4 DEF InHand
<1>6. \A q \in Reviews \ {r} : mine \cap InHand(q) \subseteq disputed'
  BY <1>1 DEF InHand
<1>7. \A d \in Claims : Paying(d)' = Paying(d)
  BY <1>1, <1>4 DEF Paying
<1>8. ReviewsInOrder'
  BY <1>4 DEF ClaimInv, ReviewsInOrder
<1>9. disputed \subseteq disputed'
  BY <1>1
<1>10. Unfiled' /\ ClaimsArePaidOnce' /\ PayingIsPaid' /\ Reviewed'
  BY <1>1, <1>2, <1>5, <1>7, <1>9
     DEF ClaimInv, Unfiled, ClaimsArePaidOnce, PayingIsPaid, Reviewed
<1>11. Undisputed'
  <2> SUFFICES ASSUME NEW d \in Claims, d \notin disputed'
               PROVE  /\ \A p \in Reviews, q \in Reviews : d \in InHand(p)' /\ d \in InHand(q)' => p = q
                      /\ \A p \in Reviews : d \in InHand(p)' => claim[d].status = "manual_review"
                      /\ claim[d].status = "manual_review" /\ ~Paying(d) => payouts[d] = 0
    BY <1>1, <1>7 DEF Undisputed
  <2>1. d \notin disputed
    BY <1>9
  <2>2. \A q \in Reviews : q # r /\ d \in mine => d \notin InHand(q)
    BY <1>6
  <2> QED
    BY <1>2, <1>5, <2>1, <2>2 DEF ClaimInv, Undisputed
<1> QED
  BY <1>8, <1>10, <1>11 DEF ClaimInv

LEMMA ReviewCreditKeepsClaims ==
  ASSUME InsuranceTypeOK, ClaimInv, NEW r \in Reviews, NEW c \in Claims, ReviewCredit(r, c)
  PROVE  ClaimInv'
<1>1. /\ UNCHANGED <<claim, disputed>> /\ review[r].pc = "wallet" /\ review[r].at = {c}
      /\ payouts' = [payouts EXCEPT ![c] = payouts[c] + 1]
      /\ review'  = [review EXCEPT ![r] = [review[r] EXCEPT !.pc = "credited"]]
  BY DEF ReviewCredit
<1>2. /\ review'[r].pc = "credited" /\ review'[r].at = {c} /\ review'[r].todo = review[r].todo
      /\ \A q \in Reviews : q # r => review'[q] = review[q]
  BY <1>1 DEF InsuranceTypeOK, ReviewStates
<1>3. /\ payouts'[c] = payouts[c] + 1 /\ payouts[c] \in Nat
      /\ \A d \in Claims : d # c => payouts'[d] = payouts[d]
  BY <1>1 DEF InsuranceTypeOK
<1>4. \A q \in Reviews : InHand(q)' = InHand(q)
  BY <1>1, <1>2 DEF InHand
<1>5. \A d \in Claims : d # c => Paying(d)' = Paying(d)
  BY <1>1, <1>2 DEF Paying
<1>6. c \in InHand(r) /\ Paying(c)'
  BY <1>1, <1>2 DEF InHand, Paying
<1>7. claim[c].status \in {"manual_review", "paid"}
  BY <1>6 DEF ClaimInv, Reviewed
<1>8. c \notin disputed => payouts[c] = 0
  <2> SUFFICES ASSUME c \notin disputed PROVE payouts[c] = 0
    OBVIOUS
  <2>1. /\ claim[c].status = "manual_review"
        /\ \A q \in Reviews : c \in InHand(q) => q = r
    BY <1>6 DEF ClaimInv, Undisputed
  <2>2. ~Paying(c)
    BY <1>1, <2>1 DEF Paying, InHand
  <2> QED
    BY <2>1, <2>2 DEF ClaimInv, Undisputed
<1>9. ReviewsInOrder'
  BY <1>1, <1>2 DEF ClaimInv, ReviewsInOrder
<1>10. Unfiled' /\ PayingIsPaid' /\ ClaimsArePaidOnce'
  BY <1>1, <1>3, <1>5, <1>7, <1>8 DEF ClaimInv, Unfiled, PayingIsPaid, ClaimsArePaidOnce
<1>11. Reviewed' /\ Undisputed'
  BY <1>1, <1>3, <1>4, <1>5, <1>6 DEF ClaimInv, Reviewed, Undisputed
<1> QED
  BY <1>9, <1>10, <1>11 DEF ClaimInv

LEMMA ReviewMarkKeepsClaims ==
  ASSUME InsuranceTypeOK, ClaimInv, NEW r \in Reviews, NEW c \in Claims, ReviewMark(r, c)
  PROVE  ClaimInv'
<1>1. /\ UNCHANGED <<payouts, disputed>> /\ review[r].pc = "credited" /\ review[r].at = {c}
      /\ claim'  = [claim EXCEPT ![c] = [claim[c] EXCEPT !.status = "paid"]]
      /\ review' = [review EXCEPT ![r] = [review[r] EXCEPT !.pc = "next", !.at = {}]]
  BY DEF ReviewMark, ledger, marks
<1>2. /\ review'[r].pc = "next" /\ review'[r].at = {} /\ review'[r].todo = review[r].todo
      /\ \A q \in Reviews : q # r => review'[q] = review[q]
  BY <1>1 DEF InsuranceTypeOK, ReviewStates
<1>3. /\ claim'[c].status = "paid" /\ claim'[c].pc = claim[c].pc
      /\ \A d \in Claims : d # c => claim'[d] = claim[d]
  BY <1>1 DEF InsuranceTypeOK, ClaimStates
<1>4. \A q \in Reviews : InHand(q)' \subseteq InHand(q)
  BY <1>1, <1>2 DEF InHand
<1>5. c \in InHand(r) /\ Paying(c) /\ c \notin InHand(r)'
  BY <1>1, <1>2 DEF InHand, Paying, ClaimInv, ReviewsInOrder
<1>6. \A d \in Claims : d # c => Paying(d)' = Paying(d)
  BY <1>1, <1>2 DEF Paying
<1>7. payouts[c] >= 1
  BY <1>5 DEF ClaimInv, PayingIsPaid
<1>8. claim[c].pc = "done"
  BY <1>5 DEF ClaimInv, Reviewed, Unfiled
<1>9. ReviewsInOrder'
  BY <1>1, <1>2 DEF ClaimInv, ReviewsInOrder
<1>10. Unfiled' /\ PayingIsPaid' /\ ClaimsArePaidOnce'
  BY <1>1, <1>3, <1>6, <1>7, <1>8 DEF ClaimInv, Unfiled, PayingIsPaid, ClaimsArePaidOnce
<1>11. Reviewed'
  BY <1>1, <1>3, <1>4 DEF ClaimInv, Reviewed
<1>12. Undisputed'
  <2>1. c \notin disputed => \A q \in Reviews : c \notin InHand(q)'
    BY <1>4, <1>5 DEF ClaimInv, Undisputed
  <2> QED
    BY <1>1, <1>3, <1>4, <1>6, <2>1 DEF ClaimInv, Undisputed
<1> QED
  BY <1>9, <1>10, <1>11, <1>12 DEF ClaimInv

LEMMA ReviewFailKeepsClaims ==
  ASSUME InsuranceTypeOK, ClaimInv, NEW r \in Reviews, NEW c \in Claims, ReviewFail(r, c)
  PROVE  ClaimInv'
<1>1. /\ UNCHANGED <<claim, payouts>> /\ review[r].at = {c}
      /\ disputed' = disputed \cup (IF review[r].pc = "credited" THEN {c} ELSE {})
  BY DEF ReviewFail, ledger
<1>2. PICK rest \in {review[r].todo, {}} :
         review' = [review EXCEPT ![r] = [review[r] EXCEPT !.pc = "next", !.at = {}, !.todo = rest]]
  BY DEF ReviewFail
<1>3. /\ review'[r].pc = "next" /\ review'[r].at = {} /\ review'[r].todo = rest
      /\ \A q \in Reviews : q # r => review'[q] = review[q]
  BY <1>2 DEF InsuranceTypeOK, ReviewStates
<1>4. \A q \in Reviews : InHand(q)' \subseteq InHand(q)
  BY <1>2, <1>3 DEF InHand
<1>5. \A d \in Claims : /\ Paying(d)' => Paying(d)
                        /\ d \notin disputed' => Paying(d)' = Paying(d)
  BY <1>1, <1>3 DEF Paying
<1>6. ReviewsInOrder'
  BY <1>3 DEF ClaimInv, ReviewsInOrder
<1>7. Unfiled' /\ PayingIsPaid' /\ ClaimsArePaidOnce' /\ Reviewed'
  BY <1>1, <1>4, <1>5 DEF ClaimInv, Unfiled, PayingIsPaid, ClaimsArePaidOnce, Reviewed
<1>8. Undisputed'
  BY <1>1, <1>4, <1>5 DEF ClaimInv, Undisputed
<1> QED
  BY <1>6, <1>7, <1>8 DEF ClaimInv

LEMMA ClaimNext == InsuranceTypeOK /\ ClaimInv /\ [Next]_vars => ClaimInv'
<1> SUFFICES ASSUME InsuranceTypeOK, ClaimInv, [Next]_vars PROVE ClaimInv'
  OBVIOUS
<1>1. CASE UNCHANGED <<claim, review, payouts, disputed>>
  BY <1>1 DEF ClaimInv, ReviewsInOrder, Unfiled, Reviewed, Undisputed, PayingIsPaid, ClaimsArePaidOnce,
              InHand, Paying
<1>2. ASSUME NEW a \in Activations,
             ActivateCheck(a) \/ ActivateRead(a) \/ ActivateCommit(a) \/ RunStep(a)
      PROVE  UNCHANGED <<claim, review, payouts, disputed>>
  BY <1>2 DEF ActivateCheck, ActivateRead, ActivateCommit, RunStep, RunPause, RunDebit, RunCount,
              ledger, marks
<1>3. CASE RunStart \/ RunDie
  BY <1>1, <1>3 DEF RunStart, RunDie, ledger, marks
<1>4. CASE \E c \in Claims : ClaimFile(c) \/ ClaimStep(c) \/ ClaimFail(c)
  BY <1>4, ClaimReadsKeepClaims, ClaimCommitKeepsClaims DEF ClaimStep, ClaimReads
<1>5. CASE \E r \in Reviews, selected \in SUBSET Claims : ReviewList(r, selected)
  BY <1>5, ReviewListKeepsClaims
<1>6. CASE \E r \in Reviews, c \in Claims : ReviewStep(r, c) \/ ReviewFail(r, c)
  BY <1>6, ReviewReadsKeepClaims, ReviewCreditKeepsClaims, ReviewMarkKeepsClaims, ReviewFailKeepsClaims
     DEF ReviewStep
<1>7. CASE UNCHANGED vars
  BY <1>1, <1>7 DEF vars, ledger, marks
<1> QED
  BY <1>1, <1>2, <1>3, <1>4, <1>5, <1>6, <1>7 DEF Next

-----------------------------------------------------------------------------
(* The theorems *)

InsInv == MoneyInv /\ PolicyInv /\ ClaimInv

LEMMA InsAlways == Spec => []InsInv
<1>1. Init => InsInv
  BY MoneyInit, PolicyInit, ClaimInit DEF InsInv
<1>2. InsInv /\ [Next]_vars => InsInv'
  BY MoneyNext, PolicyNext, ClaimNext DEF InsInv, MoneyInv, PolicyInv
<1> QED
  BY <1>1, <1>2, PTL DEF Spec

\* Types hold for any users, policies, claims and reviews: no wallet and not the float goes
\* below zero, a premium and a payout are taken only from what was enough (models.py 26-27).
THEOREM InsuranceTypesHold == Spec => []InsuranceTypeOK
<1>1. InsInv => InsuranceTypeOK
  BY DEF InsInv, MoneyInv
<1> QED
  BY <1>1, InsAlways, PTL

\* Wallets and float hold what was moved unless a second writer came in between: a claim's
\* lock on the float is enough against other claims, not against reviews (views.py 778).
THEOREM InsuranceExact == Spec => []InsuranceIsKept
<1>1. InsInv => InsuranceIsKept
  BY DEF InsInv, MoneyInv
<1> QED
  BY <1>1, InsAlways, PTL

\* A claim approved at once is paid exactly once and one marked paid was paid; only two
\* reviews at once, or one that fails after paying, pay a claim twice (admin.py 57-65).
THEOREM ClaimsOnce == Spec => []ClaimsArePaidOnce
<1>1. InsInv => ClaimsArePaidOnce
  BY DEF InsInv, ClaimInv
<1> QED
  BY <1>1, InsAlways, PTL

\* Every premium taken is a day of its policy, and a second active policy takes two
\* activations that overlapped (views.py 628-660, tasks.py 97-101).
THEOREM PoliciesCounted == Spec => []PoliciesAreCounted
<1>1. InsInv => PoliciesAreCounted
  BY DEF InsInv, PolicyInv
<1> QED
  BY <1>1, InsAlways, PTL

-----------------------------------------------------------------------------
(* Induction on the natural numbers, as the least counterexample *)

Below == {p \in Nat \X Nat : p[1] < p[2]}

LEMMA BelowWellFounded == IsWellFoundedOn(Below, Nat)
  BY NatLessThanWellFounded DEF OpToRel, Below

LEMMA LeastElement ==
  ASSUME NEW T, T \subseteq Nat, T # {}
  PROVE  \E n \in T : \A m \in T : n <= m
<1>1. PICK n \in T : \A m \in T : ~ (<<m, n>> \in Below)
  BY BelowWellFounded, WFMin
<1>2. \A m \in T : n <= m
  <2>1. TAKE m \in T
  <2>2. n \in Nat /\ m \in Nat /\ ~ (<<m, n>> \in Below)
    BY <1>1
  <2> QED
    BY <2>2 DEF Below
<1> QED
  BY <1>2

-----------------------------------------------------------------------------
(* The running sums of a score *)

N == Len(Kinds)

\* What each kind counts for, when each event of h that is m's is counted once.
HowMany(h, m, k)  == Cardinality({e \in h : Owner[e] = m /\ Kind[e] = k})
Tally(h, m)  == [i \in 1..N |-> Points[Kinds[i]] * HowMany(h, m, Kinds[i])]

IsSums(g, n, d) == g = [i \in 0..n |-> IF i = 0 THEN Base ELSE g[i - 1] + d[i]]
Sums(d) == LET g[i \in 0..N] == IF i = 0 THEN Base ELSE g[i - 1] + d[i] IN g

\* What the first i kinds come to.
Upto(h, m, i) == Sums(Tally(h, m))[i]

LEMMA KindsFacts ==
  /\ N \in Nat /\ N >= 1
  /\ \A i \in 1..N : Points[Kinds[i]] \in Nat
  /\ Base \in Nat /\ Cap \in Nat /\ Base <= Cap /\ DemoScore \in 0..Cap /\ Absent \in Nat
<1>1. Kinds \in Seq(DOMAIN Points) /\ Kinds # <<>>
  BY PointsAssumption
<1>2. \A i \in 1..N : Kinds[i] \in DOMAIN Points
  BY <1>1, ElementOfSeq DEF N
<1> QED
  BY <1>1, <1>2, PointsAssumption DEF N, Absent

\* Running sums exist, however many kinds there are.
LEMMA SumsExist ==
  ASSUME NEW n \in Nat, NEW d
  PROVE  \E g : IsSums(g, n, d)
<1> DEFINE T == {k \in Nat : ~ \E g : IsSums(g, k, d)}
<1>1. SUFFICES ASSUME T # {} PROVE FALSE
  OBVIOUS
<1>2. PICK k \in T : \A j \in T : k <= j
  BY <1>1, LeastElement
<1>3. CASE k = 0
  <2>1. IsSums([i \in 0..0 |-> Base], k, d)
    BY <1>3 DEF IsSums
  <2> QED
    BY <2>1, <1>2
<1>4. CASE k # 0
  <2>1. k - 1 \in Nat /\ k - 1 \notin T /\ k \in Nat
    BY <1>2, <1>4
  <2>2. PICK g : IsSums(g, k - 1, d)
    BY <2>1
  <2> DEFINE h == [i \in 0..k |-> IF i = k THEN g[k - 1] + d[k] ELSE g[i]]
  <2>3. ASSUME NEW i \in 0..k
        PROVE  h[i] = IF i = 0 THEN Base ELSE h[i - 1] + d[i]
    <3>1. CASE i = k
      <4>1. i - 1 \in 0..k /\ i - 1 # k
        BY <3>1, <2>1, <1>4
      <4>2. h[i] = g[k - 1] + d[k] /\ h[i - 1] = g[i - 1]
        BY <3>1, <4>1
      <4> QED
        BY <3>1, <4>2, <1>4
    <3>2. CASE i # k
      <4>1. i \in 0..k - 1 /\ h[i] = g[i]
        BY <3>2, <2>1
      <4>2. g[i] = IF i = 0 THEN Base ELSE g[i - 1] + d[i]
        BY <2>2, <4>1 DEF IsSums
      <4>3. i # 0 => i - 1 \in 0..k /\ i - 1 # k
        BY <4>1, <2>1
      <4>4. i # 0 => h[i - 1] = g[i - 1]
        BY <4>3
      <4> QED
        BY <4>1, <4>2, <4>4
    <3> QED
      BY <3>1, <3>2
  <2>4. IsSums(h, k, d)
    <3>1. h = [i \in 0..k |-> h[i]]
      OBVIOUS
    <3> QED
      BY <3>1, <2>3 DEF IsSums
  <2> QED
    BY <2>4, <1>2
<1> QED
  BY <1>3, <1>4

LEMMA SumsChosen == ASSUME NEW d PROVE Sums(d) = CHOOSE g : IsSums(g, N, d)
  BY DEF Sums, IsSums

LEMMA SumsSteps ==
  ASSUME NEW d \in [1..N -> Nat]
  PROVE  /\ Sums(d) \in [0..N -> Nat] /\ Sums(d)[0] = Base
         /\ \A i \in 1..N : Sums(d)[i] = Sums(d)[i - 1] + d[i]
<1> DEFINE g == Sums(d)
<1>0. N \in Nat /\ Base \in Nat
  BY KindsFacts
<1>1. IsSums(g, N, d)
  BY <1>0, SumsExist, SumsChosen
<1>2. DOMAIN g = 0..N /\ g = [i \in 0..N |-> g[i]]
  BY <1>1 DEF IsSums
<1>3. g[0] = Base /\ \A i \in 1..N : g[i] = g[i - 1] + d[i]
  <2>1. 0 \in 0..N /\ \A i \in 1..N : i \in 0..N /\ i # 0
    BY <1>0
  <2>2. \A i \in 0..N : g[i] = IF i = 0 THEN Base ELSE g[i - 1] + d[i]
    BY <1>1 DEF IsSums
  <2> HIDE DEF g
  <2> QED
    BY <2>1, <2>2
<1>4. \A i \in 0..N : g[i] \in Nat
  <2> DEFINE T == {i \in 0..N : g[i] \notin Nat}
  <2>1. SUFFICES ASSUME T # {} PROVE FALSE
    OBVIOUS
  <2> HIDE DEF g
  <2>6. T \subseteq Nat
    BY <1>0
  <2>2. PICK k \in T : \A j \in T : k <= j
    <3> HIDE DEF T
    <3> QED
      BY <2>1, <2>6, LeastElement
  <2>3. k # 0
    <3>1. g[0] \in Nat /\ g[k] \notin Nat
      BY <2>2, <1>0, <1>3
    <3> QED
      BY <3>1
  <2>5. k \in 1..N /\ k - 1 \in 0..N
    BY <2>2, <2>3, <1>0
  <2>4. k - 1 \notin T
    BY <2>2, <2>5
  <2> QED
    BY <2>2, <2>5, <2>4, <1>3
<1> HIDE DEF g
<1>5. g \in [0..N -> Nat]
  BY <1>2, <1>4
<1> QED
  BY <1>3, <1>5 DEF g

\* What rises step by step rises.
LEMMA Rising ==
  ASSUME NEW f \in [0..N -> Int], \A i \in 1..N : f[i - 1] <= f[i]
  PROVE  \A i, j \in 0..N : i <= j => f[i] <= f[j]
<1>1. TAKE i \in 0..N
<1>0. N \in Nat
  BY KindsFacts
<1> DEFINE T == {j \in 0..N : i <= j /\ ~(f[i] <= f[j])}
<1>2. SUFFICES ASSUME T # {} PROVE FALSE
  OBVIOUS
<1>6. T \subseteq Nat
  BY <1>0
<1>3. PICK k \in T : \A j \in T : k <= j
  <2> HIDE DEF T
  <2> QED
    BY <1>2, <1>6, LeastElement
<1>4. i < k /\ k \in 1..N /\ k - 1 \in 0..N /\ i <= k - 1
  BY <1>3, <1>0
<1>5. k - 1 \notin T
  BY <1>3, <1>4
<1>7. f[i] <= f[k - 1] /\ f[k - 1] <= f[k] /\ f[i] \in Int /\ f[k - 1] \in Int /\ f[k] \in Int
  BY <1>4, <1>5
<1> QED
  BY <1>3, <1>7

-----------------------------------------------------------------------------
(* What the counts of a history come to *)

\* More counted of each kind: the sum is larger, and has grown by more the later.
LEMMA SumsGrow ==
  ASSUME NEW c \in [1..N -> Nat], NEW d \in [1..N -> Nat], \A i \in 1..N : c[i] <= d[i]
  PROVE  \A i, j \in 0..N : i <= j =>
           /\ Sums(c)[i] <= Sums(c)[j]
           /\ Sums(c)[i] <= Sums(d)[i]
           /\ Sums(c)[j] - Sums(c)[i] <= Sums(d)[j] - Sums(d)[i]
<1>1. /\ Sums(c) \in [0..N -> Nat] /\ Sums(c)[0] = Base
      /\ \A i \in 1..N : Sums(c)[i] = Sums(c)[i - 1] + c[i]
  BY SumsSteps
<1>2. /\ Sums(d) \in [0..N -> Nat] /\ Sums(d)[0] = Base
      /\ \A i \in 1..N : Sums(d)[i] = Sums(d)[i - 1] + d[i]
  BY SumsSteps
<1>3. N \in Nat
  BY KindsFacts
<1>4. \A i \in 1..N : i \in 0..N /\ i - 1 \in 0..N /\ c[i] \in Nat /\ d[i] \in Nat
  BY <1>3
<1>5. \A i \in 0..N : Sums(c)[i] \in Nat /\ Sums(d)[i] \in Nat
  BY <1>1, <1>2
<1> DEFINE f == [i \in 0..N |-> Sums(d)[i] - Sums(c)[i]]
<1>6. \A i, j \in 0..N : i <= j => Sums(c)[i] <= Sums(c)[j]
  <2>1. Sums(c) \in [0..N -> Int]
    BY <1>1
  <2>2. \A i \in 1..N : Sums(c)[i - 1] <= Sums(c)[i]
    BY <1>1, <1>4, <1>5
  <2> QED
    BY <2>1, <2>2, Rising
<1>7. \A i, j \in 0..N : i <= j => f[i] <= f[j]
  <2>1. f \in [0..N -> Int]
    BY <1>5
  <2>2. ASSUME NEW i \in 1..N
        PROVE  f[i - 1] <= f[i]
    <3>1. f[i] = Sums(d)[i] - Sums(c)[i] /\ f[i - 1] = Sums(d)[i - 1] - Sums(c)[i - 1]
      BY <1>4
    <3>2. Sums(d)[i] = Sums(d)[i - 1] + d[i] /\ Sums(c)[i] = Sums(c)[i - 1] + c[i] /\ c[i] <= d[i]
      BY <1>1, <1>2
    <3> QED
      BY <3>1, <3>2, <1>4, <1>5
  <2> HIDE DEF f
  <2> QED
    BY <2>1, <2>2, Rising
<1>8. ASSUME NEW i \in 0..N, NEW j \in 0..N, i <= j
      PROVE  /\ Sums(c)[i] <= Sums(d)[i]
             /\ Sums(c)[j] - Sums(c)[i] <= Sums(d)[j] - Sums(d)[i]
  <2>1. 0 \in 0..N /\ 0 <= i
    BY <1>3
  <2>2. f[0] <= f[i] /\ f[i] <= f[j]
    BY <1>7, <1>8, <2>1
  <2>3. f[0] = Base - Base /\ f[i] = Sums(d)[i] - Sums(c)[i] /\ f[j] = Sums(d)[j] - Sums(c)[j]
    BY <1>1, <1>2, <2>1
  <2>4. Base \in Nat
    BY KindsFacts
  <2> HIDE DEF f
  <2> QED
    BY <2>2, <2>3, <2>4, <1>5
<1> QED
  BY <1>6, <1>8

LEMMA HowManyNat ==
  ASSUME NEW h, IsFiniteSet(h), NEW m, NEW k
  PROVE  IsFiniteSet({e \in h : Owner[e] = m /\ Kind[e] = k}) /\ HowMany(h, m, k) \in Nat
<1>1. {e \in h : Owner[e] = m /\ Kind[e] = k} \subseteq h
  OBVIOUS
<1> QED
  BY <1>1, FS_Subset, FS_CardinalityType DEF HowMany

LEMMA TallyType ==
  ASSUME NEW h, IsFiniteSet(h), NEW m
  PROVE  /\ Tally(h, m) \in [1..N -> Nat]
         /\ \A i \in 1..N : Tally(h, m)[i] = Points[Kinds[i]] * HowMany(h, m, Kinds[i])
<1>1. \A i \in 1..N : Points[Kinds[i]] \in Nat /\ HowMany(h, m, Kinds[i]) \in Nat
  BY KindsFacts, HowManyNat
<1>2. \A i \in 1..N : Points[Kinds[i]] * HowMany(h, m, Kinds[i]) \in Nat
  BY <1>1
<1> QED
  BY <1>2 DEF Tally

\* A longer history counts for at least as much.
LEMMA TallyGrows ==
  ASSUME NEW h, NEW l, h \subseteq l, IsFiniteSet(l), NEW m
  PROVE  \A i \in 1..N : Tally(h, m)[i] <= Tally(l, m)[i]
<1>1. IsFiniteSet(h)
  BY FS_Subset
<1>2. TAKE i \in 1..N
<1> DEFINE k == Kinds[i]
           A == {e \in h : Owner[e] = m /\ Kind[e] = k}
           B == {e \in l : Owner[e] = m /\ Kind[e] = k}
<1>3. A \subseteq B /\ IsFiniteSet(B)
  <2>1. B \subseteq l
    OBVIOUS
  <2> QED
    BY <2>1, FS_Subset
<1>4. Cardinality(A) \in Nat /\ Cardinality(B) \in Nat /\ Cardinality(A) <= Cardinality(B)
  BY <1>3, FS_Subset, FS_CardinalityType
<1>5. Points[k] \in Nat
  BY KindsFacts
<1>6. \A p, a, b \in Nat : a <= b => p * a <= p * b
  OBVIOUS
<1>7. Points[k] * Cardinality(A) <= Points[k] * Cardinality(B)
  BY <1>4, <1>5, <1>6
<1> QED
  BY <1>1, <1>7, TallyType DEF HowMany

LEMMA WorthIsUpto == \A m : Worth(m) = AtMost(Upto(happened, m, N), Cap)
<1>0. TAKE m
<1> DEFINE A == CHOOSE g : g = [i \in 0..N |-> IF i = 0 THEN Base ELSE g[i - 1] +
                 Points[Kinds[i]] * Cardinality({e \in happened : Owner[e] = m /\ Kind[e] = Kinds[i]})]
<1>1. Worth(m) = AtMost(A[N], Cap)
  BY DEF Worth, N
<1>2. ASSUME NEW g
      PROVE  IsSums(g, N, Tally(happened, m)) <=>
             g = [i \in 0..N |-> IF i = 0 THEN Base ELSE g[i - 1] +
                 Points[Kinds[i]] * Cardinality({e \in happened : Owner[e] = m /\ Kind[e] = Kinds[i]})]
  <2>1. N \in Nat
    BY KindsFacts
  <2>2. \A i \in 0..N : i # 0 => Tally(happened, m)[i] =
           Points[Kinds[i]] * Cardinality({e \in happened : Owner[e] = m /\ Kind[e] = Kinds[i]})
    BY <2>1 DEF Tally, HowMany
  <2> QED
    BY <2>2 DEF IsSums
<1>3. A = Sums(Tally(happened, m))
  BY <1>2, SumsChosen
<1> QED
  BY <1>1, <1>3 DEF Upto

LEMMA WorthIsUptoNext == \A m : Worth(m)' = AtMost(Upto(happened', m, N), Cap)
<1>1. (\A m : Worth(m) = AtMost(Upto(happened, m, N), Cap))'
  BY WorthIsUpto, PTL
<1> QED
  BY <1>1

-----------------------------------------------------------------------------
(* The invariant *)

ScoreTyped == ScoreTypeOK /\ IsFiniteSet(happened)

\* What asks for a recalculation has happened, and a recalculation is where it counts.
InCount ==
    /\ \A e \in Events : recalc[e].pc # "none" => e \in happened
    /\ \A t \in Tasks : /\ recalc[t].pc = "counting" => recalc[t].next \in 1..N
                        /\ recalc[t].pc = "counted"  => recalc[t].next = N + 1

\* A recalculation that is not disturbed is the only one of its user.
Alone ==
    /\ \A t \in disturbed : Active(t)
    /\ \A t, r \in Tasks : Active(t) /\ Active(r) /\ For(r) = For(t) /\ t \notin disturbed => r = t

\* No recalculation counts what has not happened, and each counts the base.
SumsBounded ==
    \A t \in Tasks : Active(t) =>
        Base <= recalc[t].sum /\ recalc[t].sum <= Upto(happened, For(t), recalc[t].next - 1)

\* One that nothing came in between has counted what there is.
WholeSums ==
    \A t \in Tasks : Active(t) /\ t \notin disturbed /\ recalc[t].whole =>
        recalc[t].sum = Upto(happened, For(t), recalc[t].next - 1)

\* What another one may have missed asks for a further one, or is known to be missed.
MissedIsDue ==
    \A t \in Tasks : Active(t) /\ t \notin disturbed /\ ~recalc[t].whole =>
        \/ For(t) \in behind
        \/ \E e \in Tasks : For(e) = For(t) /\ recalc[e].pc \in {"committed", "queued"}

\* A score is not more than its history is worth ...
ScoresBounded ==
    \A m \in Members \ inflated : score[m] # Absent => score[m] <= AtMost(Upto(happened, m, N), Cap)

\* ... nor more than an undisturbed recalculation will find.
ScoresAhead ==
    \A t \in Tasks : Active(t) /\ t \notin disturbed /\ For(t) \notin inflated /\ score[For(t)] # Absent =>
        score[For(t)] <= recalc[t].sum + (Upto(happened, For(t), N) - Upto(happened, For(t), recalc[t].next - 1))

\* A user without a row, for whom nothing is due, has no history.
AbsentIsNew ==
    \A m \in Members \ behind : Quiet(m) /\ score[m] = Absent => \A e \in happened : Owner[e] # m

ScoreInv ==
    /\ ScoreTyped /\ InCount /\ Alone /\ SumsBounded /\ WholeSums /\ MissedIsDue
    /\ ScoresBounded /\ ScoresAhead /\ AbsentIsNew /\ QuietScoreIsWorth

-----------------------------------------------------------------------------
LEMMA ForMember == \A t \in Tasks : For(t) \in Members
  BY EventsAssumption, ListingsAssumption DEF Tasks, For

LEMMA UptoFacts ==
  ASSUME ScoreTyped, NEW m
  PROVE  /\ \A i \in 0..N : Upto(happened, m, i) \in Nat
         /\ Upto(happened, m, 0) = Base
         /\ \A i, j \in 0..N : i <= j => Upto(happened, m, i) <= Upto(happened, m, j)
         /\ \A i \in 1..N : /\ Counted(m, Kinds[i]) \in Nat
                            /\ Upto(happened, m, i) = Upto(happened, m, i - 1) + Counted(m, Kinds[i])
<1> DEFINE d == Tally(happened, m)
<1>1. d \in [1..N -> Nat] /\ \A i \in 1..N : d[i] = Counted(m, Kinds[i])
  BY TallyType DEF ScoreTyped, Counted, HowMany
<1>2. /\ Sums(d) \in [0..N -> Nat] /\ Sums(d)[0] = Base
      /\ \A i \in 1..N : Sums(d)[i] = Sums(d)[i - 1] + d[i]
  <2> HIDE DEF d
  <2> QED
    BY <1>1, SumsSteps
<1>3. \A i, j \in 0..N : i <= j => Sums(d)[i] <= Sums(d)[j]
  <2>1. \A i \in 1..N : d[i] <= d[i]
    BY <1>1
  <2> HIDE DEF d
  <2> QED
    BY <1>1, <2>1, SumsGrow
<1>4. \A i : Upto(happened, m, i) = Sums(d)[i]
  BY DEF Upto
<1> HIDE DEF d
<1> QED
  BY <1>1, <1>2, <1>3, <1>4

\* An event makes its owner's history worth more, and nobody else's.
LEMMA HappenGrows ==
  ASSUME ScoreTyped, NEW e \in Events, happened' = happened \cup {e}
  PROVE  /\ IsFiniteSet(happened')
         /\ \A m, i, j : i \in 0..N /\ j \in 0..N /\ i <= j =>
              /\ Upto(happened, m, i) <= Upto(happened', m, i)
              /\ Upto(happened, m, j) - Upto(happened, m, i) <= Upto(happened', m, j) - Upto(happened', m, i)
              /\ Upto(happened', m, i) \in Nat
              /\ m # Owner[e] => Upto(happened', m, i) = Upto(happened, m, i)
<1>1. IsFiniteSet(happened') /\ IsFiniteSet(happened) /\ happened \subseteq happened'
  BY FS_AddElement DEF ScoreTyped
<1>2. ASSUME NEW m, NEW i \in 0..N, NEW j \in 0..N, i <= j
      PROVE  /\ Upto(happened, m, i) <= Upto(happened', m, i)
             /\ Upto(happened, m, j) - Upto(happened, m, i) <= Upto(happened', m, j) - Upto(happened', m, i)
             /\ Upto(happened', m, i) \in Nat
             /\ m # Owner[e] => Upto(happened', m, i) = Upto(happened, m, i)
  <2> DEFINE c == Tally(happened, m)
             d == Tally(happened', m)
  <2>1. c \in [1..N -> Nat] /\ d \in [1..N -> Nat] /\ \A k \in 1..N : c[k] <= d[k]
    BY <1>1, TallyType, TallyGrows
  <2>2. ASSUME m # Owner[e] PROVE d = c
    <3>1. \A k : {f \in happened' : Owner[f] = m /\ Kind[f] = k} =
                 {f \in happened : Owner[f] = m /\ Kind[f] = k}
      BY <2>2
    <3>2. \A k : HowMany(happened', m, k) = HowMany(happened, m, k)
      BY <3>1 DEF HowMany
    <3> QED
      BY <3>2 DEF Tally
  <2>3. /\ Upto(happened, m, i) = Sums(c)[i] /\ Upto(happened, m, j) = Sums(c)[j]
        /\ Upto(happened', m, i) = Sums(d)[i] /\ Upto(happened', m, j) = Sums(d)[j]
    BY DEF Upto
  <2> HIDE DEF c, d
  <2>4. Sums(d) \in [0..N -> Nat]
    BY <2>1, SumsSteps
  <2>5. Sums(c)[i] <= Sums(d)[i] /\ Sums(c)[j] - Sums(c)[i] <= Sums(d)[j] - Sums(d)[i]
    BY <1>2, <2>1, SumsGrow
  <2> QED
    BY <2>2, <2>3, <2>4, <2>5
<1> QED
  BY <1>1, <1>2

\* Otherwise histories stay what they are worth.
LEMMA WorthStays ==
  ASSUME UNCHANGED happened
  PROVE  /\ \A m : Worth(m)' = Worth(m)
         /\ IsFiniteSet(happened)' = IsFiniteSet(happened)
  BY DEF Upto, Worth

\* A history of nothing is worth the base.
LEMMA NothingIsBase ==
  ASSUME ScoreTyped, NEW m, \A e \in happened : Owner[e] # m
  PROVE  Worth(m) = Base
<1>1. N \in Nat /\ N >= 1 /\ Base \in Nat /\ Cap \in Nat /\ Base <= Cap
  BY KindsFacts
<1>2. \A i \in 1..N : Upto(happened, m, i) = Upto(happened, m, i - 1)
  <2>1. TAKE i \in 1..N
  <2>2. {e \in happened : Owner[e] = m /\ Kind[e] = Kinds[i]} = {}
    OBVIOUS
  <2>3. Counted(m, Kinds[i]) = 0
    <3>1. Cardinality({e \in happened : Owner[e] = m /\ Kind[e] = Kinds[i]}) = 0
      BY <2>2, FS_EmptySet
    <3>2. Points[Kinds[i]] \in Nat
      BY KindsFacts
    <3> QED
      BY <3>1, <3>2 DEF Counted
  <2>4. Upto(happened, m, i) = Upto(happened, m, i - 1) + Counted(m, Kinds[i]) /\ Upto(happened, m, i - 1) \in Nat
    <3>1. i - 1 \in 0..N
      BY <1>1
    <3> QED
      BY <3>1, UptoFacts
  <2> QED
    BY <2>3, <2>4
<1> DEFINE f == [i \in 0..N |-> 0 - Upto(happened, m, i)]
<1>3. \A i, j \in 0..N : i <= j => f[i] <= f[j]
  <2>1. f \in [0..N -> Int]
    BY UptoFacts
  <2>2. \A i \in 1..N : f[i - 1] <= f[i]
    BY <1>1, <1>2, UptoFacts
  <2> HIDE DEF f
  <2> QED
    BY <2>1, <2>2, Rising
<1>4. 0 \in 0..N /\ N \in 0..N /\ 0 <= N
  BY <1>1
<1>5. f[0] <= f[N] /\ f[0] = 0 - Upto(happened, m, 0) /\ f[N] = 0 - Upto(happened, m, N)
  BY <1>3, <1>4
<1>6. Upto(happened, m, 0) = Base /\ Upto(happened, m, 0) <= Upto(happened, m, N) /\ Upto(happened, m, N) \in Nat
  BY <1>4, UptoFacts
<1>7. Upto(happened, m, N) = Base
  <2> HIDE DEF f
  <2> QED
    BY <1>1, <1>5, <1>6
<1> QED
  BY <1>1, <1>7, WorthIsUpto DEF AtMost

LEMMA ScoreStarts == ScoreInit => ScoreInv
<1>1. SUFFICES ASSUME ScoreInit PROVE ScoreInv
  OBVIOUS
<1>2. Absent \in Nat /\ Absent \in 0..Absent
  BY KindsFacts
<1>3. \A t \in Tasks : recalc[t].pc = "none"
  BY <1>1 DEF ScoreInit
<1>4. ScoreTyped
  <2>1. [pc |-> "none", next |-> 1, sum |-> 0, whole |-> FALSE] \in RecalcStates
    BY DEF RecalcStates
  <2> QED
    BY <1>1, <1>2, <2>1, FS_EmptySet DEF ScoreInit, ScoreTyped, ScoreTypeOK
<1>5. \A e \in Events : e \in Tasks
  BY DEF Tasks
<1> QED
  BY <1>1, <1>3, <1>4, <1>5
  DEF ScoreInit, ScoreInv, InCount, Alone, SumsBounded, WholeSums, MissedIsDue, ScoresBounded,
      ScoresAhead, AbsentIsNew, QuietScoreIsWorth, Active

-----------------------------------------------------------------------------
(* The steps *)

LEMMA Moved ==
  ASSUME ScoreTypeOK, NEW t \in Tasks,
         NEW pc \in {"none", "committed", "queued", "counting", "counted", "done", "lost"}, Moves(t, pc)
  PROVE  /\ recalc' \in [Tasks -> RecalcStates]
         /\ \A r \in Tasks : r # t => recalc'[r] = recalc[r]
         /\ recalc'[t].pc = pc /\ recalc'[t].next = recalc[t].next
         /\ recalc'[t].sum = recalc[t].sum /\ recalc'[t].whole = recalc[t].whole
<1> DEFINE q == [recalc[t] EXCEPT !.pc = pc]
<1>1. recalc \in [Tasks -> RecalcStates]
  BY DEF ScoreTypeOK
<1>2. q \in RecalcStates /\ q.pc = pc /\ q.next = recalc[t].next /\ q.sum = recalc[t].sum /\ q.whole = recalc[t].whole
  BY <1>1 DEF RecalcStates
<1>3. recalc' = [recalc EXCEPT ![t] = q]
  BY DEF Moves
<1> HIDE DEF q
<1> QED
  BY <1>1, <1>2, <1>3

\* To ask for a recalculation leaves everything as it is.
LEMMA AskKeeps ==
  ASSUME ScoreInv, NEW t \in Tasks, Moves(t, "queued"),
         recalc[t].pc = "committed" \/ (t \in Listings /\ recalc[t].pc = "none"),
         UNCHANGED <<score, first, happened, disturbed, inflated, behind>>
  PROVE  ScoreInv'
<1>1. /\ recalc' \in [Tasks -> RecalcStates] /\ recalc'[t].pc = "queued"
      /\ \A r \in Tasks : r # t => recalc'[r] = recalc[r]
  BY Moved DEF ScoreInv, ScoreTyped
<1>2. \A r \in Tasks : /\ Active(r)' <=> Active(r)
                       /\ Active(r) => r # t /\ recalc'[r] = recalc[r]
  BY <1>1 DEF Active
<1>3. \A m : Quiet(m)' => Quiet(m)
  BY <1>1 DEF Quiet
<1>4. /\ happened' = happened
      /\ \A m : Worth(m)' = Worth(m)
  BY WorthStays
<1>5. \A e \in Events : e \in Tasks /\ e \notin Listings
  BY ListingsAssumption DEF Tasks
<1>6. ScoreTyped'
  BY <1>1, WorthStays DEF ScoreInv, ScoreTyped, ScoreTypeOK
<1>7. InCount'
  BY <1>1, <1>5 DEF ScoreInv, InCount
<1>8. Alone'
  BY <1>2 DEF ScoreInv, ScoreTyped, ScoreTypeOK, Alone
<1>9. SumsBounded' /\ WholeSums' /\ ScoresAhead'
  BY <1>2, <1>4 DEF ScoreInv, SumsBounded, WholeSums, ScoresAhead
<1>10. MissedIsDue'
  BY <1>1, <1>2 DEF ScoreInv, MissedIsDue
<1>11. ScoresBounded' /\ AbsentIsNew' /\ QuietScoreIsWorth'
  BY <1>3, <1>4 DEF ScoreInv, ScoresBounded, AbsentIsNew, QuietScoreIsWorth
<1> QED
  BY <1>6, <1>7, <1>8, <1>9, <1>10, <1>11 DEF ScoreInv

LEMMA HappenKeeps ==
  ASSUME ScoreInv, NEW e \in Events, Happen(e)
  PROVE  ScoreInv'
<1>1. e \in Tasks /\ For(e) = Owner[e] /\ Owner[e] \in Members
  BY EventsAssumption DEF Tasks, For
<1>2. e \notin happened /\ happened' = happened \cup {e} /\ recalc[e].pc = "none" /\ ~Active(e)
  BY <1>1 DEF Happen, ScoreInv, InCount, Active
<1>3. UNCHANGED <<score, first, disturbed, inflated>> /\ behind \subseteq behind' /\ behind' \subseteq behind \cup {Owner[e]}
  BY DEF Happen
<1>4. PICK pc \in {"committed", "done"} : Breaks(e, pc) /\ (pc = "done" => Owner[e] \in behind')
  BY DEF Happen
<1>5. /\ recalc' \in [Tasks -> RecalcStates] /\ recalc'[e].pc = pc
      /\ \A r \in Tasks : r # e =>
           /\ recalc'[r].pc = recalc[r].pc /\ recalc'[r].next = recalc[r].next
           /\ recalc'[r].sum = recalc[r].sum
           /\ recalc'[r].whole <=> recalc[r].whole /\ r \notin Running(For(e))
  <2>1. recalc \in [Tasks -> RecalcStates]
    BY DEF ScoreInv, ScoreTyped, ScoreTypeOK
  <2>2. [recalc[e] EXCEPT !.pc = pc] \in RecalcStates /\ [recalc[e] EXCEPT !.pc = pc].pc = pc
    BY <1>1, <2>1 DEF RecalcStates
  <2>3. ASSUME NEW r \in Tasks, NEW w \in BOOLEAN
        PROVE  /\ [recalc[r] EXCEPT !.whole = w] \in RecalcStates
               /\ [recalc[r] EXCEPT !.whole = w].pc = recalc[r].pc
               /\ [recalc[r] EXCEPT !.whole = w].next = recalc[r].next
               /\ [recalc[r] EXCEPT !.whole = w].sum = recalc[r].sum
               /\ [recalc[r] EXCEPT !.whole = w].whole = w
    BY <2>1 DEF RecalcStates
  <2>4. /\ recalc'[e] = [recalc[e] EXCEPT !.pc = pc]
        /\ \A r \in Tasks : r # e =>
             recalc'[r] = [recalc[r] EXCEPT !.whole = (recalc[r].whole /\ r \notin Running(For(e)))]
        /\ recalc' = [r \in Tasks |-> recalc'[r]]
    BY <1>1, <1>4 DEF Breaks
  <2>5. \A r \in Tasks : recalc[r].whole \in BOOLEAN
    BY <2>1 DEF RecalcStates
  <2>6. \A r \in Tasks : (recalc[r].whole /\ r \notin Running(For(e))) \in BOOLEAN
    OBVIOUS
  <2>7. \A r \in Tasks : recalc'[r] \in RecalcStates
    BY <2>2, <2>3, <2>4, <2>6
  <2> QED
    BY <2>2, <2>3, <2>4, <2>6, <2>7
<1>6. \A r \in Tasks : Active(r)' <=> Active(r)
  BY <1>2, <1>5 DEF Active
<1>7. \A r \in Tasks : Active(r) => r # e /\ recalc'[r].next = recalc[r].next /\ recalc'[r].sum = recalc[r].sum
  BY <1>2, <1>5
<1>8. \A r \in Tasks : Active(r) => recalc[r].next - 1 \in 0..N
  BY KindsFacts DEF ScoreInv, InCount, Active
<1>9. /\ IsFiniteSet(happened') /\ N \in 0..N /\ N \in Nat
      /\ \A m, i, j : i \in 0..N /\ j \in 0..N /\ i <= j =>
              /\ Upto(happened, m, i) <= Upto(happened', m, i)
              /\ Upto(happened, m, j) - Upto(happened, m, i) <= Upto(happened', m, j) - Upto(happened', m, i)
              /\ Upto(happened', m, i) \in Nat
              /\ m # Owner[e] => Upto(happened', m, i) = Upto(happened, m, i)
  BY <1>2, HappenGrows, KindsFacts DEF ScoreInv
<1>10. \A m, i : i \in 0..N => Upto(happened, m, i) \in Nat
  BY UptoFacts DEF ScoreInv
<1>11. \A t \in Tasks : recalc[t].sum \in Nat
  BY DEF ScoreInv, ScoreTyped, ScoreTypeOK, RecalcStates
<1>12. \A m \in Members : Quiet(m)' /\ m \notin behind' => m # Owner[e] /\ Quiet(m) /\ m \notin behind
  <2>1. TAKE m \in Members
  <2>2. HAVE Quiet(m)' /\ m \notin behind'
  <2>3. m # Owner[e]
    <3>1. SUFFICES ASSUME m = Owner[e] PROVE FALSE
      OBVIOUS
    <3>2. recalc'[e].pc \in {"none", "done", "lost"}
      BY <1>1, <2>2, <3>1 DEF Quiet
    <3> QED
      BY <1>4, <1>5, <2>2, <3>1, <3>2
  <2>4. Quiet(m)
    BY <1>1, <1>5, <2>2, <2>3 DEF Quiet
  <2> QED
    BY <1>3, <2>2, <2>3, <2>4
<1>13. ScoreTyped'
  BY <1>1, <1>2, <1>3, <1>5, <1>9 DEF ScoreInv, ScoreTyped, ScoreTypeOK
<1>14. InCount'
  <2>1. \A f \in Events : f \in Tasks
    BY DEF Tasks
  <2> QED
    BY <1>1, <1>2, <1>5, <2>1 DEF ScoreInv, InCount
<1>15. Alone'
  BY <1>3, <1>6 DEF ScoreInv, ScoreTyped, ScoreTypeOK, Alone
<1>16. SumsBounded'
  <2>1. ASSUME NEW t \in Tasks, Active(t)'
        PROVE  Base <= recalc'[t].sum /\ recalc'[t].sum <= Upto(happened', For(t), recalc'[t].next - 1)
    <3> DEFINE i == recalc[t].next - 1
    <3>1. Active(t) /\ i \in 0..N /\ recalc'[t].sum = recalc[t].sum /\ recalc'[t].next = recalc[t].next
      BY <1>6, <1>7, <1>8, <2>1
    <3>2. Base <= recalc[t].sum /\ recalc[t].sum <= Upto(happened, For(t), i)
      BY <3>1 DEF ScoreInv, SumsBounded
    <3>3. i <= i /\ Upto(happened, For(t), i) \in Nat
      BY <1>10, <3>1
    <3>4. Upto(happened, For(t), i) <= Upto(happened', For(t), i) /\ Upto(happened', For(t), i) \in Nat
      BY <1>9, <3>1, <3>3
    <3> HIDE DEF i
    <3> QED
      BY <1>11, <3>1, <3>2, <3>3, <3>4 DEF i
  <2> QED
    BY <2>1 DEF SumsBounded
<1>17. WholeSums'
  <2>1. ASSUME NEW t \in Tasks, Active(t)', t \notin disturbed', recalc'[t].whole
        PROVE  recalc'[t].sum = Upto(happened', For(t), recalc'[t].next - 1)
    <3> DEFINE i == recalc[t].next - 1
    <3>1. /\ Active(t) /\ i \in 0..N /\ recalc'[t].sum = recalc[t].sum /\ recalc'[t].next = recalc[t].next
          /\ t # e
      BY <1>6, <1>7, <1>8, <2>1
    <3>2. recalc[t].whole /\ t \notin Running(For(e))
      BY <1>5, <2>1, <3>1
    <3>3. For(t) # Owner[e]
      BY <1>1, <3>1, <3>2 DEF Running
    <3>4. recalc[t].sum = Upto(happened, For(t), i)
      BY <1>3, <2>1, <3>1, <3>2 DEF ScoreInv, WholeSums
    <3>5. Upto(happened', For(t), i) = Upto(happened, For(t), i)
      BY <1>9, <3>1, <3>3
    <3> QED
      BY <3>1, <3>4, <3>5
  <2> QED
    BY <2>1 DEF WholeSums
<1>18. MissedIsDue'
  <2>1. ASSUME NEW t \in Tasks, Active(t)', t \notin disturbed', ~recalc'[t].whole
        PROVE  \/ For(t) \in behind'
               \/ \E f \in Tasks : For(f) = For(t) /\ recalc'[f].pc \in {"committed", "queued"}
    <3>1. Active(t) /\ t # e /\ t \notin disturbed
      BY <1>3, <1>6, <1>7, <2>1
    <3>2. CASE recalc[t].whole
      <4>1. For(t) = For(e)
        BY <1>5, <2>1, <3>1, <3>2 DEF Running
      <4> QED
        BY <1>1, <1>4, <1>5, <4>1
    <3>3. CASE ~recalc[t].whole
      <4>1. \/ For(t) \in behind
            \/ \E f \in Tasks : For(f) = For(t) /\ recalc[f].pc \in {"committed", "queued"}
        BY <3>1, <3>3 DEF ScoreInv, MissedIsDue
      <4> QED
        BY <1>2, <1>3, <1>5, <4>1
    <3> QED
      BY <3>2, <3>3
  <2> QED
    BY <2>1 DEF MissedIsDue
<1>19. ScoresBounded'
  <2>1. ASSUME NEW m \in Members, m \notin inflated', score'[m] # Absent
        PROVE  score'[m] <= AtMost(Upto(happened', m, N), Cap)
    <3>1. score'[m] = score[m] /\ score[m] <= AtMost(Upto(happened, m, N), Cap)
      BY <1>3, <2>1 DEF ScoreInv, ScoresBounded
    <3>2. Upto(happened, m, N) <= Upto(happened', m, N) /\ Upto(happened, m, N) \in Nat /\ Upto(happened', m, N) \in Nat
      BY <1>9, <1>10
    <3>3. score[m] \in Nat /\ Cap \in Nat
      BY KindsFacts DEF ScoreInv, ScoreTyped, ScoreTypeOK
    <3> QED
      BY <3>1, <3>2, <3>3 DEF AtMost
  <2> QED
    BY <2>1 DEF ScoresBounded
<1>20. ScoresAhead'
  <2>1. ASSUME NEW t \in Tasks, Active(t)', t \notin disturbed', For(t) \notin inflated', score'[For(t)] # Absent
        PROVE  score'[For(t)] <= recalc'[t].sum + (Upto(happened', For(t), N) - Upto(happened', For(t), recalc'[t].next - 1))
    <3> DEFINE i == recalc[t].next - 1
               m == For(t)
    <3>1. /\ Active(t) /\ i \in 0..N /\ recalc'[t].sum = recalc[t].sum /\ recalc'[t].next = recalc[t].next
          /\ t \notin disturbed /\ m \notin inflated /\ score'[m] = score[m] /\ score[m] # Absent
      BY <1>3, <1>6, <1>7, <1>8, <2>1
    <3>2. score[m] <= recalc[t].sum + (Upto(happened, m, N) - Upto(happened, m, i))
      BY <3>1 DEF ScoreInv, ScoresAhead
    <3>3. i <= N /\ Upto(happened, m, i) \in Nat /\ Upto(happened, m, N) \in Nat
      BY <1>9, <1>10, <3>1
    <3>4. Upto(happened, m, N) - Upto(happened, m, i) <= Upto(happened', m, N) - Upto(happened', m, i) /\ Upto(happened', m, i) \in Nat /\ Upto(happened', m, N) \in Nat
      <4>1. N <= N
        BY <1>9
      <4> QED
        BY <1>9, <3>1, <3>3, <4>1
    <3>6. score[m] \in Nat
      BY ForMember, KindsFacts DEF ScoreInv, ScoreTyped, ScoreTypeOK
    <3> HIDE DEF i, m
    <3> QED
      BY <1>11, <3>1, <3>2, <3>3, <3>4, <3>6 DEF i, m
  <2> QED
    BY <2>1 DEF ScoresAhead
<1>21. AbsentIsNew'
  BY <1>2, <1>3, <1>12 DEF ScoreInv, AbsentIsNew
<1>22. QuietScoreIsWorth'
  <2>1. ASSUME NEW m \in Members, m \notin behind' \cup inflated', Quiet(m)', score'[m] # Absent
        PROVE  score'[m] = Worth(m)'
    <3>1. m # Owner[e] /\ score[m] = Worth(m)
      BY <1>3, <1>12, <2>1 DEF ScoreInv, QuietScoreIsWorth
    <3>2. Upto(happened', m, N) = Upto(happened, m, N)
      BY <1>9, <3>1
    <3>3. \A p : Worth(p)' = AtMost(Upto(happened', p, N), Cap)
      BY WorthIsUptoNext
    <3> QED
      BY <1>3, <3>1, <3>2, <3>3, WorthIsUpto
  <2> QED
    BY <2>1 DEF QuietScoreIsWorth
<1> QED
  BY <1>13, <1>14, <1>15, <1>16, <1>17, <1>18, <1>19, <1>20, <1>21, <1>22 DEF ScoreInv

LEMMA InitialiseKeeps ==
  ASSUME ScoreInv, NEW m \in Members, Initialise(m) \/ InitialiseLost(m)
  PROVE  ScoreInv'
<1>1. UNCHANGED <<happened, recalc, disturbed, inflated, behind>>
  BY DEF Initialise, InitialiseLost
<1>2. Base \in Nat /\ Cap \in Nat /\ Base <= Cap /\ Base # Absent /\ Base \in 0..Absent
  BY KindsFacts DEF Absent
<1>3. /\ score' \in [Members -> 0..Absent] /\ first' \in [Members -> {"queued", "done", "lost"}]
      /\ \A p \in Members : \/ score'[p] = score[p]
                            \/ p = m /\ score[p] = Absent /\ score'[p] = Base
  BY <1>2 DEF ScoreInv, ScoreTyped, ScoreTypeOK, Initialise, InitialiseLost
<1>4. \A t \in Tasks : Active(t)' <=> Active(t)
  BY <1>1 DEF Active
<1>5. \A p : Worth(p)' = Worth(p) /\ (Quiet(p)' <=> Quiet(p))
  BY <1>1, WorthStays DEF Quiet
<1>6. N \in 0..N /\ 0 \in 0..N
  BY KindsFacts
<1>7. \A p : \A i \in 0..N : Base <= Upto(happened, p, i) /\ Upto(happened, p, i) \in Nat /\ Upto(happened, p, i) <= Upto(happened, p, N)
  BY <1>6, UptoFacts DEF ScoreInv
<1>8. ScoreTyped' /\ InCount' /\ Alone' /\ SumsBounded' /\ WholeSums' /\ MissedIsDue'
  BY <1>1, <1>3, <1>4
  DEF ScoreInv, ScoreTyped, ScoreTypeOK, InCount, Alone, SumsBounded, WholeSums, MissedIsDue
<1>9. ScoresBounded'
  BY <1>1, <1>2, <1>3, <1>6, <1>7 DEF ScoreInv, ScoresBounded, AtMost
<1>10. ScoresAhead'
  <2>1. ASSUME NEW t \in Tasks, Active(t), t \notin disturbed, For(t) \notin inflated, score'[For(t)] # Absent
        PROVE  score'[For(t)] <= recalc[t].sum + (Upto(happened, For(t), N) - Upto(happened, For(t), recalc[t].next - 1))
    <3>1. For(t) \in Members /\ recalc[t].next - 1 \in 0..N /\ recalc[t].sum \in Nat /\ Base <= recalc[t].sum
      BY <2>1, ForMember, KindsFacts
      DEF ScoreInv, InCount, Active, SumsBounded, ScoreTyped, ScoreTypeOK, RecalcStates
    <3>2. CASE score'[For(t)] = score[For(t)]
      BY <2>1, <3>1, <3>2 DEF ScoreInv, ScoresAhead
    <3>3. CASE score'[For(t)] = Base
      BY <1>2, <1>6, <1>7, <3>1, <3>3
    <3> QED
      BY <1>3, <3>1, <3>2, <3>3
  <2> QED
    BY <1>1, <1>4, <2>1 DEF ScoresAhead
<1>11. AbsentIsNew'
  BY <1>1, <1>2, <1>3, <1>5 DEF ScoreInv, AbsentIsNew
<1>12. QuietScoreIsWorth'
  <2>1. ASSUME NEW p \in Members, p \notin behind \cup inflated, Quiet(p), score'[p] # Absent
        PROVE  score'[p] = Worth(p)
    <3>1. CASE score'[p] = score[p]
      BY <2>1, <3>1 DEF ScoreInv, QuietScoreIsWorth
    <3>2. CASE score[p] = Absent /\ score'[p] = Base
      <4>1. \A e \in happened : Owner[e] # p
        BY <2>1, <3>2 DEF ScoreInv, AbsentIsNew
      <4> QED
        BY <3>2, <4>1, NothingIsBase DEF ScoreInv
    <3> QED
      BY <1>3, <3>1, <3>2
  <2> QED
    BY <1>1, <1>5, <2>1 DEF QuietScoreIsWorth
<1> QED
  BY <1>8, <1>9, <1>10, <1>11, <1>12 DEF ScoreInv

LEMMA MakeUpKeeps ==
  ASSUME ScoreInv, NEW m \in Members, MakeUp(m)
  PROVE  ScoreInv'
<1>1. UNCHANGED <<first, happened, recalc, disturbed, behind>> /\ inflated' = inflated \cup {m}
  BY DEF MakeUp
<1>2. DemoScore # Absent /\ DemoScore \in 0..Absent
  BY KindsFacts DEF Absent
<1>3. /\ score' \in [Members -> 0..Absent]
      /\ score'[m] # Absent /\ \A p \in Members : p # m => score'[p] = score[p]
  BY <1>2 DEF ScoreInv, ScoreTyped, ScoreTypeOK, MakeUp
<1>4. \A t \in Tasks : (Active(t)' <=> Active(t)) /\ For(t) \in Members
  BY <1>1, ForMember DEF Active
<1>5. \A p : Worth(p)' = Worth(p) /\ (Quiet(p)' <=> Quiet(p))
  BY <1>1, WorthStays DEF Quiet
<1>6. ScoreTyped' /\ InCount' /\ Alone' /\ SumsBounded' /\ WholeSums' /\ MissedIsDue'
  BY <1>1, <1>3, <1>4
  DEF ScoreInv, ScoreTyped, ScoreTypeOK, InCount, Alone, SumsBounded, WholeSums, MissedIsDue
<1>7. ScoresBounded' /\ ScoresAhead'
  BY <1>1, <1>3, <1>4 DEF ScoreInv, ScoresBounded, ScoresAhead
<1>8. AbsentIsNew' /\ QuietScoreIsWorth'
  BY <1>1, <1>3, <1>5 DEF ScoreInv, AbsentIsNew, QuietScoreIsWorth
<1> QED
  BY <1>6, <1>7, <1>8 DEF ScoreInv

\* A recalculation that begins finds what the history is worth, if it is not disturbed.
LEMMA BeginKeeps ==
  ASSUME ScoreInv, NEW t \in Tasks, Begin(t)
  PROVE  ScoreInv'
<1> DEFINE others == Running(For(t))
           q == [pc |-> "counting", next |-> 1, sum |-> Base, whole |-> others = {}]
<1>1. /\ UNCHANGED <<score, first, happened, inflated, behind>>
      /\ recalc[t].pc = "queued" /\ recalc' = [recalc EXCEPT ![t] = q]
      /\ disturbed' = IF others = {} THEN disturbed ELSE disturbed \cup others \cup {t}
  BY DEF Begin, Start
<1>2. /\ q \in RecalcStates /\ q.pc = "counting" /\ q.next = 1 /\ q.sum = Base
      /\ q.whole <=> others = {}
  BY KindsFacts DEF RecalcStates
<1>3. others \subseteq Tasks /\ \A r \in Tasks : r \in others <=> For(r) = For(t) /\ Active(r)
  BY DEF Running
<1> HIDE DEF q, others
<1>4. /\ recalc' \in [Tasks -> RecalcStates] /\ recalc'[t] = q
      /\ \A r \in Tasks : r # t => recalc'[r] = recalc[r]
  BY <1>1, <1>2 DEF ScoreInv, ScoreTyped, ScoreTypeOK
<1>5. /\ ~Active(t) /\ Active(t)'
      /\ \A r \in Tasks : r # t => (Active(r)' <=> Active(r))
  BY <1>1, <1>2, <1>4 DEF Active
<1>6. \A p \in Members : Quiet(p)' => Quiet(p)
  BY <1>1, <1>2, <1>4 DEF Quiet
<1>7. \A p : Worth(p)' = Worth(p)
  BY <1>1, WorthStays
<1>8. N \in Nat /\ N >= 1 /\ Base \in Nat /\ Upto(happened, For(t), 0) = Base
  BY KindsFacts, UptoFacts DEF ScoreInv
<1>9. ScoreTyped'
  BY <1>1, <1>3, <1>4 DEF ScoreInv, ScoreTyped, ScoreTypeOK
<1>10. InCount'
  <2>1. 1 \in 1..N
    BY <1>8
  <2>2. \A e \in Events : e \in Tasks
    BY DEF Tasks
  <2> QED
    BY <1>1, <1>2, <1>4, <2>1, <2>2 DEF ScoreInv, InCount
<1>11. Alone'
  <2>1. ASSUME NEW r \in disturbed' PROVE Active(r)'
    <3>1. r \in Tasks
      BY <1>1, <1>3 DEF ScoreInv, ScoreTyped, ScoreTypeOK
    <3>2. r = t \/ Active(r)
      BY <1>1, <1>3, <2>1 DEF ScoreInv, Alone
    <3> QED
      BY <1>5, <3>1, <3>2
  <2>2. ASSUME NEW p \in Tasks, NEW r \in Tasks, Active(p)', Active(r)', For(r) = For(p), p \notin disturbed'
        PROVE  r = p
    <3>1. CASE p # t /\ r # t
      <4>1. p \notin disturbed
        BY <1>1, <2>2
      <4> QED
        BY <1>5, <2>2, <3>1, <4>1 DEF ScoreInv, Alone
    <3>2. CASE p = t /\ r # t
      BY <1>1, <1>3, <1>5, <2>2, <3>2
    <3>3. CASE p # t /\ r = t
      BY <1>1, <1>3, <1>5, <2>2, <3>3
    <3> QED
      BY <3>1, <3>2, <3>3
  <2> QED
    BY <2>1, <2>2 DEF Alone
<1>12. SumsBounded'
  <2>1. ASSUME NEW r \in Tasks, Active(r)'
        PROVE  Base <= recalc'[r].sum /\ recalc'[r].sum <= Upto(happened, For(r), recalc'[r].next - 1)
    <3>1. CASE r = t
      BY <1>2, <1>4, <1>8, <3>1
    <3>2. CASE r # t
      BY <1>4, <1>5, <2>1, <3>2 DEF ScoreInv, SumsBounded
    <3> QED
      BY <3>1, <3>2
  <2> QED
    BY <1>1, <2>1 DEF SumsBounded
<1>13. WholeSums'
  <2>1. ASSUME NEW r \in Tasks, Active(r)', r \notin disturbed', recalc'[r].whole
        PROVE  recalc'[r].sum = Upto(happened, For(r), recalc'[r].next - 1)
    <3>1. CASE r = t
      BY <1>2, <1>4, <1>8, <3>1
    <3>2. CASE r # t
      BY <1>1, <1>4, <1>5, <2>1, <3>2 DEF ScoreInv, WholeSums
    <3> QED
      BY <3>1, <3>2
  <2> QED
    BY <1>1, <2>1 DEF WholeSums
<1>14. MissedIsDue'
  <2>1. ASSUME NEW r \in Tasks, Active(r)', r \notin disturbed', ~recalc'[r].whole
        PROVE  \/ For(r) \in behind
               \/ \E e \in Tasks : For(e) = For(r) /\ recalc'[e].pc \in {"committed", "queued"}
    <3>1. CASE r = t
      BY <1>1, <1>2, <1>4, <2>1, <3>1
    <3>2. CASE r # t
      <4>1. For(r) # For(t)
        BY <1>1, <1>3, <1>5, <2>1, <3>2
      <4>2. \/ For(r) \in behind
            \/ \E e \in Tasks : For(e) = For(r) /\ recalc[e].pc \in {"committed", "queued"}
        BY <1>1, <1>4, <1>5, <2>1, <3>2 DEF ScoreInv, MissedIsDue
      <4> QED
        BY <1>4, <4>1, <4>2
    <3> QED
      BY <3>1, <3>2
  <2> QED
    BY <1>1, <2>1 DEF MissedIsDue
<1>15. ScoresAhead'
  <2>1. ASSUME NEW r \in Tasks, Active(r)', r \notin disturbed', For(r) \notin inflated, score[For(r)] # Absent
        PROVE  score[For(r)] <= recalc'[r].sum + (Upto(happened, For(r), N) - Upto(happened, For(r), recalc'[r].next - 1))
    <3>1. CASE r = t
      <4>1. score[For(t)] <= AtMost(Upto(happened, For(t), N), Cap)
        BY <2>1, <3>1, ForMember DEF ScoreInv, ScoresBounded
      <4>2. N \in 0..N
        BY <1>8
      <4>3. Upto(happened, For(t), N) \in Nat /\ Cap \in Nat /\ score[For(t)] \in Nat
        <5>1. Upto(happened, For(t), N) \in Nat
          BY <4>2, UptoFacts DEF ScoreInv
        <5> QED
          BY <5>1, ForMember, KindsFacts DEF ScoreInv, ScoreTyped, ScoreTypeOK
      <4>4. score[For(t)] <= Upto(happened, For(t), N)
        BY <4>1, <4>3 DEF AtMost
      <4>5. recalc'[r].sum = Base /\ recalc'[r].next - 1 = 0
        BY <1>2, <1>4, <3>1
      <4> QED
        BY <1>8, <3>1, <4>3, <4>4, <4>5
    <3>2. CASE r # t
      BY <1>1, <1>4, <1>5, <2>1, <3>2 DEF ScoreInv, ScoresAhead
    <3> QED
      BY <3>1, <3>2
  <2> QED
    BY <1>1, <2>1 DEF ScoresAhead
<1>16. ScoresBounded' /\ AbsentIsNew' /\ QuietScoreIsWorth'
  BY <1>1, <1>6, <1>7 DEF ScoreInv, ScoresBounded, AbsentIsNew, QuietScoreIsWorth
<1> QED
  BY <1>9, <1>10, <1>11, <1>12, <1>13, <1>14, <1>15, <1>16 DEF ScoreInv

LEMMA CountKeeps ==
  ASSUME ScoreInv, NEW t \in Tasks, Count(t)
  PROVE  ScoreInv'
<1> DEFINE at == recalc[t].next
           c  == Counted(For(t), Kinds[at])
           q  == [pc |-> IF at = Len(Kinds) THEN "counted" ELSE "counting",
                  next |-> at + 1, sum |-> recalc[t].sum + c, whole |-> recalc[t].whole]
<1>1. /\ UNCHANGED <<score, first, happened, disturbed, inflated, behind>>
      /\ recalc[t].pc = "counting" /\ recalc' = [recalc EXCEPT ![t] = q]
  BY DEF Count, ScoreInv, ScoreTyped, ScoreTypeOK, RecalcStates
<1>2. recalc \in [Tasks -> RecalcStates] /\ at \in 1..N /\ N \in Nat
  BY <1>1, KindsFacts DEF ScoreInv, ScoreTyped, ScoreTypeOK, InCount
<1>3. /\ \A m : Upto(happened, m, at - 1) \in Nat /\ Upto(happened, m, at) \in Nat /\ Upto(happened, m, N) \in Nat
      /\ c \in Nat /\ Upto(happened, For(t), at) = Upto(happened, For(t), at - 1) + c
  <2>1. at - 1 \in 0..N /\ at \in 0..N /\ N \in 0..N
    BY <1>2
  <2>2. ScoreTyped
    BY DEF ScoreInv
  <2> HIDE DEF at
  <2> QED
    BY <1>2, <2>1, <2>2, UptoFacts
<1>4. /\ q \in RecalcStates /\ q.next = at + 1 /\ q.sum = recalc[t].sum + c /\ q.whole = recalc[t].whole
      /\ q.pc = IF at = N THEN "counted" ELSE "counting"
  <2>1. /\ q.pc \in {"counting", "counted"} /\ q.next \in Nat /\ q.sum \in Nat
        /\ q.whole \in BOOLEAN
    BY <1>2, <1>3 DEF RecalcStates
  <2> QED
    BY <2>1 DEF RecalcStates, N
<1> HIDE DEF q, c
<1>5. /\ recalc' \in [Tasks -> RecalcStates] /\ recalc'[t] = q
      /\ \A r \in Tasks : r # t => recalc'[r] = recalc[r]
  BY <1>1, <1>2, <1>4
<1>6. Active(t) /\ \A r \in Tasks : Active(r)' <=> Active(r)
  BY <1>1, <1>4, <1>5 DEF Active
<1>7. \A p \in Members : Quiet(p)' => Quiet(p)
  BY <1>1, <1>4, <1>5 DEF Quiet
<1>8. \A p : Worth(p)' = Worth(p)
  BY <1>1, WorthStays
<1>9. /\ recalc[t].sum \in Nat /\ Base <= recalc[t].sum /\ recalc[t].sum <= Upto(happened, For(t), at - 1)
      /\ recalc'[t].next - 1 = at /\ recalc'[t].sum = recalc[t].sum + c
  BY <1>2, <1>4, <1>5, <1>6 DEF ScoreInv, SumsBounded, RecalcStates
<1>10. ScoreTyped'
  BY <1>1, <1>5 DEF ScoreInv, ScoreTyped, ScoreTypeOK
<1>11. InCount'
  <2>1. \A e \in Events : e \in Tasks
    BY DEF Tasks
  <2>2. at # N => at + 1 \in 1..N
    BY <1>2
  <2> QED
    BY <1>1, <1>4, <1>5, <2>1, <2>2 DEF ScoreInv, InCount
<1>12. Alone'
  BY <1>1, <1>6 DEF ScoreInv, ScoreTyped, ScoreTypeOK, Alone
<1>13. SumsBounded'
  <2>1. ASSUME NEW r \in Tasks, Active(r)
        PROVE  Base <= recalc'[r].sum /\ recalc'[r].sum <= Upto(happened, For(r), recalc'[r].next - 1)
    <3>1. CASE r = t
      <4>1. Base \in Nat
        BY KindsFacts
      <4> QED
        BY <1>3, <1>9, <3>1, <4>1
    <3>2. CASE r # t
      BY <1>5, <2>1, <3>2 DEF ScoreInv, SumsBounded
    <3> QED
      BY <3>1, <3>2
  <2> QED
    BY <1>1, <1>6, <2>1 DEF SumsBounded
<1>14. WholeSums'
  <2>1. ASSUME NEW r \in Tasks, Active(r), r \notin disturbed, recalc'[r].whole
        PROVE  recalc'[r].sum = Upto(happened, For(r), recalc'[r].next - 1)
    <3>1. CASE r = t
      <4>1. recalc[t].sum = Upto(happened, For(t), at - 1)
        BY <1>4, <1>5, <2>1, <3>1 DEF ScoreInv, WholeSums
      <4> QED
        BY <1>3, <1>9, <3>1, <4>1
    <3>2. CASE r # t
      BY <1>5, <2>1, <3>2 DEF ScoreInv, WholeSums
    <3> QED
      BY <3>1, <3>2
  <2> QED
    BY <1>1, <1>6, <2>1 DEF WholeSums
<1>15. MissedIsDue'
  BY <1>1, <1>4, <1>5, <1>6 DEF ScoreInv, MissedIsDue
<1>16. ScoresAhead'
  <2>1. ASSUME NEW r \in Tasks, Active(r), r \notin disturbed, For(r) \notin inflated, score[For(r)] # Absent
        PROVE  score[For(r)] <= recalc'[r].sum + (Upto(happened, For(r), N) - Upto(happened, For(r), recalc'[r].next - 1))
    <3>1. CASE r = t
      <4>1. score[For(t)] <= recalc[t].sum + (Upto(happened, For(t), N) - Upto(happened, For(t), at - 1))
        BY <2>1, <3>1 DEF ScoreInv, ScoresAhead
      <4>2. score[For(t)] \in Nat
        BY ForMember, KindsFacts DEF ScoreInv, ScoreTyped, ScoreTypeOK
      <4> QED
        BY <1>3, <1>9, <3>1, <4>1, <4>2
    <3>2. CASE r # t
      BY <1>5, <2>1, <3>2 DEF ScoreInv, ScoresAhead
    <3> QED
      BY <3>1, <3>2
  <2> QED
    BY <1>1, <1>6, <2>1 DEF ScoresAhead
<1>17. ScoresBounded' /\ AbsentIsNew' /\ QuietScoreIsWorth'
  BY <1>1, <1>7, <1>8 DEF ScoreInv, ScoresBounded, AbsentIsNew, QuietScoreIsWorth
<1> QED
  BY <1>10, <1>11, <1>12, <1>13, <1>14, <1>15, <1>16, <1>17 DEF ScoreInv

\* What a recalculation saves.
LEMMA SaveFacts ==
  ASSUME ScoreInv, NEW t \in Tasks, Save(t)
  PROVE  LET m == For(t) IN
         /\ m \in Members /\ Active(t) /\ recalc[t].next - 1 = N /\ recalc[t].sum \in Nat
         /\ score'[m] = AtMost(recalc[t].sum, Cap) /\ score'[m] \in 0..Cap /\ score'[m] # Absent
         /\ score' \in [Members -> 0..Absent] /\ \A p \in Members : p # m => score'[p] = score[p]
         /\ score'[m] <= AtMost(Upto(happened, m, N), Cap)
<1> DEFINE m == For(t)
<1>1. recalc[t].pc = "counted" /\ score' = [score EXCEPT ![m] = AtMost(recalc[t].sum, Cap)]
  BY DEF Save
<1>2. m \in Members /\ Active(t) /\ N \in Nat /\ Cap \in Nat /\ N \in 0..N
  BY <1>1, ForMember, KindsFacts DEF Active
<1>3. recalc[t].next = N + 1 /\ recalc[t].next - 1 = N /\ recalc[t].sum \in Nat
  BY <1>1, <1>2 DEF ScoreInv, InCount, ScoreTyped, ScoreTypeOK, RecalcStates
<1>4. recalc[t].sum <= Upto(happened, m, N)
  BY <1>2, <1>3 DEF ScoreInv, SumsBounded
<1>5. Upto(happened, m, N) \in Nat
  BY <1>2, UptoFacts DEF ScoreInv
<1>6. AtMost(recalc[t].sum, Cap) \in 0..Cap /\ AtMost(recalc[t].sum, Cap) <= AtMost(Upto(happened, m, N), Cap)
  BY <1>2, <1>3, <1>4, <1>5 DEF AtMost
<1>7. score \in [Members -> 0..Absent]
  BY DEF ScoreInv, ScoreTyped, ScoreTypeOK
<1>8. \A x \in 0..Cap : x # Absent /\ x \in 0..Absent
  BY <1>2 DEF Absent
<1> HIDE DEF m
<1>9. /\ score'[m] = AtMost(recalc[t].sum, Cap)
      /\ score' \in [Members -> 0..Absent] /\ \A p \in Members : p # m => score'[p] = score[p]
  BY <1>1, <1>2, <1>6, <1>7, <1>8
<1> QED
  BY <1>2, <1>3, <1>6, <1>8, <1>9 DEF m

LEMMA SaveKeeps ==
  ASSUME ScoreInv, NEW t \in Tasks, Save(t)
  PROVE  ScoreInv'
<1> DEFINE m == For(t)
<1>1. /\ UNCHANGED <<first, happened>> /\ inflated' = inflated \ {m} /\ disturbed' = disturbed \ {t}
      /\ behind' = IF t \in disturbed THEN behind \cup {m}
                   ELSE IF recalc[t].whole THEN behind \ {m} ELSE behind
      /\ recalc[t].pc = "counted" /\ Moves(t, "done")
  BY DEF Save
<1>2. /\ m \in Members /\ Active(t) /\ recalc[t].next - 1 = N
      /\ score'[m] = AtMost(recalc[t].sum, Cap) /\ score'[m] # Absent
      /\ score' \in [Members -> 0..Absent] /\ \A p \in Members : p # m => score'[p] = score[p]
      /\ score'[m] <= AtMost(Upto(happened, m, N), Cap)
  BY SaveFacts
<1>3. /\ recalc' \in [Tasks -> RecalcStates] /\ recalc'[t].pc = "done"
      /\ \A r \in Tasks : r # t => recalc'[r] = recalc[r]
  BY <1>1, Moved DEF ScoreInv, ScoreTyped
<1>4. ~Active(t)' /\ \A r \in Tasks : r # t => (Active(r)' <=> Active(r))
  BY <1>3 DEF Active
<1>5. \A p \in Members : p # m => (Quiet(p)' <=> Quiet(p)) /\ (p \in behind' <=> p \in behind)
  BY <1>1, <1>3 DEF Quiet
<1>6. \A p : Worth(p)' = Worth(p)
  BY <1>1, WorthStays
<1>7. \A r \in Tasks : Active(r) /\ r # t /\ r \notin disturbed => For(r) # m
  BY <1>2 DEF ScoreInv, Alone
<1>8. \A r \in Tasks : For(r) \in Members
  BY ForMember
<1> HIDE DEF m
<1>9. ScoreTyped'
  BY <1>1, <1>2, <1>3 DEF ScoreInv, ScoreTyped, ScoreTypeOK
<1>10. InCount'
  <2>1. \A e \in Events : e \in Tasks
    BY DEF Tasks
  <2> QED
    BY <1>1, <1>3, <2>1 DEF ScoreInv, InCount
<1>11. Alone'
  BY <1>1, <1>4 DEF ScoreInv, ScoreTyped, ScoreTypeOK, Alone
<1>12. SumsBounded'
  BY <1>1, <1>3, <1>4 DEF ScoreInv, SumsBounded
<1>13. WholeSums'
  BY <1>1, <1>3, <1>4 DEF ScoreInv, WholeSums
<1>14. MissedIsDue'
  <2>1. ASSUME NEW r \in Tasks, Active(r)', r \notin disturbed', ~recalc'[r].whole
        PROVE  \/ For(r) \in behind'
               \/ \E e \in Tasks : For(e) = For(r) /\ recalc'[e].pc \in {"committed", "queued"}
    <3>1. Active(r) /\ r # t /\ r \notin disturbed /\ ~recalc[r].whole /\ For(r) # m
      BY <1>1, <1>3, <1>4, <1>7, <2>1
    <3>2. \/ For(r) \in behind
          \/ \E e \in Tasks : For(e) = For(r) /\ recalc[e].pc \in {"committed", "queued"}
      BY <3>1 DEF ScoreInv, MissedIsDue
    <3> QED
      BY <1>1, <1>3, <1>5, <1>8, <3>1, <3>2
  <2> QED
    BY <2>1 DEF MissedIsDue
<1>15. ScoresBounded'
  BY <1>1, <1>2 DEF ScoreInv, ScoresBounded
<1>16. ScoresAhead'
  <2>1. ASSUME NEW r \in Tasks, Active(r)', r \notin disturbed', For(r) \notin inflated', score'[For(r)] # Absent
        PROVE  score'[For(r)] <= recalc'[r].sum + (Upto(happened, For(r), N) - Upto(happened, For(r), recalc'[r].next - 1))
    <3>1. Active(r) /\ r # t /\ r \notin disturbed /\ For(r) # m /\ For(r) \notin inflated
      BY <1>1, <1>4, <1>7, <2>1
    <3>2. score'[For(r)] = score[For(r)] /\ recalc'[r] = recalc[r]
      BY <1>2, <1>3, <1>8, <3>1
    <3> QED
      BY <2>1, <3>1, <3>2 DEF ScoreInv, ScoresAhead
  <2> QED
    BY <1>1, <2>1 DEF ScoresAhead
<1>17. AbsentIsNew'
  BY <1>1, <1>2, <1>5 DEF ScoreInv, AbsentIsNew
<1>18. QuietScoreIsWorth'
  <2>1. ASSUME NEW p \in Members, p \notin behind' \cup inflated', Quiet(p)', score'[p] # Absent
        PROVE  score'[p] = Worth(p)
    <3>1. CASE p # m
      BY <1>1, <1>2, <1>5, <2>1, <3>1 DEF ScoreInv, QuietScoreIsWorth
    <3>2. CASE p = m
      <4>1. t \notin disturbed
        BY <1>1, <2>1, <3>2
      <4>2. CASE recalc[t].whole
        <5>1. recalc[t].sum = Upto(happened, m, N)
          BY <1>2, <4>1, <4>2 DEF ScoreInv, WholeSums, m
        <5> QED
          BY <1>2, <3>2, <5>1, WorthIsUpto
      <4>3. CASE ~recalc[t].whole
        <5>1. m \notin behind
          BY <1>1, <2>1, <3>2, <4>1, <4>3
        <5>2. PICK e \in Tasks : For(e) = m /\ recalc[e].pc \in {"committed", "queued"}
          BY <1>2, <4>1, <4>3, <5>1 DEF ScoreInv, MissedIsDue, m
        <5>3. recalc'[e] = recalc[e]
          BY <1>1, <1>3, <5>2
        <5> QED
          BY <2>1, <3>2, <5>2, <5>3 DEF Quiet
      <4> QED
        BY <4>2, <4>3
    <3> QED
      BY <3>1, <3>2
  <2> QED
    BY <1>6, <2>1 DEF QuietScoreIsWorth
<1> QED
  BY <1>9, <1>10, <1>11, <1>12, <1>13, <1>14, <1>15, <1>16, <1>17, <1>18 DEF ScoreInv

LEMMA LostKeeps ==
  ASSUME ScoreInv, NEW t \in Tasks, RecalcLost(t)
  PROVE  ScoreInv'
<1>1. /\ UNCHANGED <<score, first, happened, inflated>> /\ disturbed' = disturbed \ {t}
      /\ behind' = behind \cup {For(t)} /\ For(t) \in Members
      /\ recalc[t].pc \in {"committed", "counting", "counted"} /\ Moves(t, "lost")
  BY ForMember DEF RecalcLost
<1>2. /\ recalc' \in [Tasks -> RecalcStates] /\ recalc'[t].pc = "lost"
      /\ \A r \in Tasks : r # t => recalc'[r] = recalc[r]
  BY <1>1, Moved DEF ScoreInv, ScoreTyped
<1>3. ~Active(t)' /\ \A r \in Tasks : r # t => (Active(r)' <=> Active(r))
  BY <1>2 DEF Active
<1>4. \A p \in Members : p \notin behind' /\ Quiet(p)' => p \notin behind /\ Quiet(p)
  BY <1>1, <1>2 DEF Quiet
<1>5. \A p : Worth(p)' = Worth(p)
  BY <1>1, WorthStays
<1>6. ScoreTyped'
  BY <1>1, <1>2 DEF ScoreInv, ScoreTyped, ScoreTypeOK
<1>7. InCount'
  <2>1. \A e \in Events : e \in Tasks
    BY DEF Tasks
  <2> QED
    BY <1>1, <1>2, <2>1 DEF ScoreInv, InCount
<1>8. Alone'
  BY <1>1, <1>3 DEF ScoreInv, ScoreTyped, ScoreTypeOK, Alone
<1>9. SumsBounded' /\ WholeSums' /\ ScoresAhead'
  BY <1>1, <1>2, <1>3 DEF ScoreInv, SumsBounded, WholeSums, ScoresAhead
<1>10. MissedIsDue'
  BY <1>1, <1>2, <1>3 DEF ScoreInv, MissedIsDue
<1>11. ScoresBounded' /\ AbsentIsNew' /\ QuietScoreIsWorth'
  BY <1>1, <1>4, <1>5 DEF ScoreInv, ScoresBounded, AbsentIsNew, QuietScoreIsWorth
<1> QED
  BY <1>6, <1>7, <1>8, <1>9, <1>10, <1>11 DEF ScoreInv

LEMMA ScoreStep == ScoreInv /\ [ScoreNext]_scoreVars => ScoreInv'
<1>1. SUFFICES ASSUME ScoreInv, [ScoreNext]_scoreVars PROVE ScoreInv'
  OBVIOUS
<1>2. ASSUME NEW m \in Members, Initialise(m) \/ InitialiseLost(m) PROVE ScoreInv'
  BY <1>1, <1>2, InitialiseKeeps
<1>3. ASSUME NEW m \in Members, MakeUp(m) PROVE ScoreInv'
  BY <1>1, <1>3, MakeUpKeeps
<1>4. ASSUME NEW e \in Events, Happen(e) PROVE ScoreInv'
  BY <1>1, <1>4, HappenKeeps
<1>5. ASSUME NEW e \in Events, Queue(e) PROVE ScoreInv'
  <2>1. e \in Tasks
    BY DEF Tasks
  <2> QED
    BY <1>1, <1>5, <2>1, AskKeeps DEF Queue
<1>6. ASSUME NEW t \in Tasks, List(t) PROVE ScoreInv'
  BY <1>1, <1>6, AskKeeps DEF List
<1>7. ASSUME NEW t \in Tasks, Begin(t) PROVE ScoreInv'
  BY <1>1, <1>7, BeginKeeps
<1>8. ASSUME NEW t \in Tasks, Count(t) PROVE ScoreInv'
  BY <1>1, <1>8, CountKeeps
<1>9. ASSUME NEW t \in Tasks, Save(t) PROVE ScoreInv'
  BY <1>1, <1>9, SaveKeeps
<1>10. ASSUME NEW t \in Tasks, RecalcLost(t) PROVE ScoreInv'
  BY <1>1, <1>10, LostKeeps
<1>11. CASE UNCHANGED scoreVars
  <2>1. /\ UNCHANGED <<score, first, happened, recalc, disturbed, inflated, behind>>
        /\ \A m : Worth(m)' = Worth(m)
    BY <1>11, WorthStays DEF scoreVars
  <2> QED
    BY <1>1, <2>1
    DEF ScoreInv, ScoreTyped, ScoreTypeOK, InCount, Alone, SumsBounded, WholeSums, MissedIsDue,
        ScoresBounded, ScoresAhead, AbsentIsNew, QuietScoreIsWorth, Active, Quiet
<1> QED
  BY <1>1, <1>2, <1>3, <1>4, <1>5, <1>6, <1>7, <1>8, <1>9, <1>10, <1>11 DEF ScoreNext

LEMMA ScoreInvHolds == ScoreSpec => []ScoreInv
  BY ScoreStarts, ScoreStep, PTL DEF ScoreSpec

\* The invariant of a score with nothing due: it is what the user's history is worth,
\* whatever the kinds, their points, and the order in which recalculations overlap.
THEOREM ScoreIsWorth == ScoreSpec => [](ScoreTypeOK /\ QuietScoreIsWorth)
<1>1. ScoreInv => ScoreTypeOK /\ QuietScoreIsWorth
  BY DEF ScoreInv, ScoreTyped
<1> QED
  BY <1>1, ScoreInvHolds, PTL

\* Only a disturbed recalculation, or one that corrects a made-up score, takes points away.
LEMMA ScoreDropsOnlyThen ==
  ASSUME ScoreInv, [ScoreNext]_scoreVars, NEW m \in Members, score[m] # Absent, score'[m] < score[m]
  PROVE  \/ m \in inflated \cup inflated'
         \/ \E t \in disturbed : For(t) = m /\ recalc[t].pc = "counted"
<1>1. score[m] \in Nat
  BY KindsFacts DEF ScoreInv, ScoreTyped, ScoreTypeOK
<1>2. score'[m] # score[m]
  BY <1>1
<1>3. score \in [Members -> 0..Absent]
  BY DEF ScoreInv, ScoreTyped, ScoreTypeOK
<1>4. CASE \E p \in Members : Initialise(p) \/ InitialiseLost(p)
  BY <1>2, <1>3, <1>4 DEF Initialise, InitialiseLost
<1>5. CASE \E p \in Members : MakeUp(p)
  BY <1>2, <1>3, <1>5 DEF MakeUp
<1>6. CASE \E t \in Tasks : Save(t)
  <2>1. PICK t \in Tasks : Save(t)
    BY <1>6
  <2>2. /\ For(t) \in Members /\ Active(t) /\ recalc[t].next - 1 = N /\ recalc[t].sum \in Nat
        /\ score'[For(t)] = AtMost(recalc[t].sum, Cap)
        /\ \A p \in Members : p # For(t) => score'[p] = score[p]
    BY <2>1, SaveFacts
  <2>3. For(t) = m
    BY <1>2, <2>2
  <2>4. CASE t \in disturbed
    BY <2>1, <2>3, <2>4 DEF Save
  <2>5. CASE t \notin disturbed /\ m \notin inflated
    <3>1. N \in 0..N /\ Cap \in Nat
      BY KindsFacts
    <3>2. Upto(happened, m, N) \in Nat
      BY <3>1, UptoFacts DEF ScoreInv
    <3>3. score[m] <= recalc[t].sum + (Upto(happened, m, N) - Upto(happened, m, N))
      BY <2>2, <2>3, <2>5 DEF ScoreInv, ScoresAhead
    <3>4. score[m] <= AtMost(Upto(happened, m, N), Cap)
      BY <2>5 DEF ScoreInv, ScoresBounded
    <3>5. score[m] <= recalc[t].sum /\ score[m] <= Cap
      BY <1>1, <2>2, <3>1, <3>2, <3>3, <3>4 DEF AtMost
    <3>6. score[m] <= AtMost(recalc[t].sum, Cap)
      BY <3>5 DEF AtMost
    <3>7. AtMost(recalc[t].sum, Cap) \in Nat
      BY <2>2, <3>1 DEF AtMost
    <3> QED
      BY <1>1, <2>2, <2>3, <3>6, <3>7
  <2> QED
    BY <2>4, <2>5
<1>7. CASE UNCHANGED score
  BY <1>2, <1>7
<1> QED
  BY <1>4, <1>5, <1>6, <1>7
  DEF ScoreNext, scoreVars, Happen, Queue, List, Begin, Count, RecalcLost

THEOREM ScoresRise == ScoreSpec => ScoreNeverDecreases
<1>1. ScoreInv /\ [ScoreNext]_scoreVars =>
        [\A m \in Members :
           score[m] # Absent /\ score'[m] < score[m] =>
             \/ m \in inflated \cup inflated'
             \/ \E t \in disturbed : For(t) = m /\ recalc[t].pc = "counted"]_scoreVars
  BY ScoreDropsOnlyThen
<1> QED
  BY <1>1, ScoreInvHolds, PTL DEF ScoreSpec, ScoreNeverDecreases
=============================================================================
