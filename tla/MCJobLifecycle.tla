--------------------------- MODULE MCJobLifecycle ---------------------------
(***************************************************************************)
(* Small instances of JobLifecycle (three workers for a job that needs     *)
(* two, every request of theirs and of the employer sent twice) and of     *)
(* JobBoard (four jobs of two employers, two of them equally good, and a   *)
(* feed of two jobs that looks at three).                                  *)
(*                                                                         *)
(* JobBoard has its own, coarser picture of a job: a behaviour chooses its *)
(* part at the start and the other part keeps its initial state.           *)
(***************************************************************************)
EXTENDS JobLifecycle, JobBoard, TLC

CONSTANTS e1, j1, w1, w2, w3, a1, a2, c1, c2,
          b1, b2, s1, s2, f1, f2, r1, r2, r3, r4

mcOwner  == [j \in Jobs |-> e1]
mcPay    == [j \in Jobs |-> 30]
mcNeeded == [j \in Jobs |-> 2]

symmetry == Permutations(Workers) \cup Permutations(CompleteClicks)
              \cup Permutations(AcceptClicks)

\* The first and the last are alike but for the employer, and pay nothing; s1 cannot do
\* the second.
mcBoss   == <<b1, b1, b2, b2>>
mcSkill  == <<"cooking", "cleaning", "other", "cooking">>
mcWage   == <<0, 50, 50, 0>>
mcKnows  == s1 :> {"cooking"} @@ s2 :> {}
mcAway   == <<s1 :> 5 @@ s2 :> 0, s1 :> 0 @@ s2 :> 0, s1 :> 0 @@ s2 :> 15, s1 :> 5 @@ s2 :> 25>>
mcApplicants == {<<1, s1>>, <<4, s1>>}
mcViewer == f1 :> s1 @@ f2 :> b1
mcRates  == r1 :> [by |-> s1, whom |-> b1, gig |-> 1, stars |-> 5] @@
            r2 :> [by |-> s2, whom |-> b2, gig |-> 3, stars |-> 1] @@
            r3 :> [by |-> b2, whom |-> s1, gig |-> 1, stars |-> 4] @@
            r4 :> [by |-> s1, whom |-> b1, gig |-> 1, stars |-> 2]

-----------------------------------------------------------------------------
VARIABLE part

WorkInit ==
    /\ part \in {"lifecycle", "board"}
    /\ JobInit /\ BoardInit

WorkNext ==
    \/ part = "lifecycle" /\ JobNext /\ UNCHANGED <<part, boardVars>>
    \/ part = "board" /\ BoardNext /\ UNCHANGED <<part, jobVars>>

WorkSpec == WorkInit /\ [][WorkNext]_<<part, jobVars, boardVars>>
=============================================================================
