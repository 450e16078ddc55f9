------------------------------- MODULE MCLoans -------------------------------
(***************************************************************************)
(* A small instance of Loans: one user applies twice and repays once, in   *)
(* two instalments.                                                        *)
(***************************************************************************)
EXTENDS Loans, TLC

CONSTANTS u1, float, a1, a2, p1

mcApplicant == a1 :> u1 @@ a2 :> u1
mcAmount    == a1 :> 10 @@ a2 :> 10    \* 15 with interest, in instalments of 8 (7.5)
mcRepaid    == p1 :> a1
mcOffer     == p1 :> 6                 \* less than an instalment
mcDeposit   == u1 :> 1 @@ float :> 20
=============================================================================
