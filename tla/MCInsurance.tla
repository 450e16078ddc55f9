----------------------------- MODULE MCInsurance -----------------------------
(***************************************************************************)
(* Small instances of Insurance (one user activates twice, has a claim     *)
(* below the threshold and one above it, and two reviewers approve claims) *)
(* and of Score (one member with a gig, the credit that its release makes, *)
(* which may come before it, and a seeded credit, so that only one of the  *)
(* three asks for a recalculation; a listing, which asks for one too; and  *)
(* a cap that all of them together exceed).                                *)
(*                                                                         *)
(* The two share no variable: a behaviour chooses its part at the start    *)
(* and the other part keeps its initial state.                             *)
(***************************************************************************)
EXTENDS Insurance, Score, TLC

CONSTANTS u1, a1, a2, c1, c2, r1, r2, e1, e2, e3, t1

mcHolder  == a1 :> u1 @@ a2 :> u1 @@ c1 :> u1 @@ c2 :> u1
mcPayout  == c1 :> 2 @@ c2 :> 3
mcOpening == u1 :> 3
mcReviewers == Permutations({r1, r2}) \cup Permutations({a1, a2})

mcOwner   == [e \in Events |-> u1]
mcKind    == e1 :> "gigs" @@ e2 :> "credits" @@ e3 :> "credits"
mcKinds   == <<"gigs", "credits">>
mcPoints  == [gigs |-> 5, credits |-> 2]
mcLister  == [t \in Listings |-> u1]

-----------------------------------------------------------------------------
VARIABLE part

CoverInit ==
    /\ part \in {"insurance", "score"}
    /\ Init /\ ScoreInit

CoverNext ==
    \/ part = "insurance" /\ Next /\ UNCHANGED <<part, scoreVars>>
    \/ part = "score" /\ ScoreNext /\ UNCHANGED <<part, vars>>

CoverSpec == CoverInit /\ [][CoverNext]_<<part, vars, scoreVars>>
=============================================================================
