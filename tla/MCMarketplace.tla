---------------------------- MODULE MCMarketplace ----------------------------
(***************************************************************************)
(* Small instances of Marketplace (u1 and u2 sell to each other, u2 wants  *)
(* more than it can pay for, and u1 is paid from elsewhere) and of         *)
(* Catalogue (one seller with two active listings allowed, and a few       *)
(* requests at a time about its first listing).                            *)
(*                                                                         *)
(* The two share no variable: a behaviour chooses its part at the start    *)
(* and the other part keeps its initial state.                             *)
(***************************************************************************)
EXTENDS Marketplace, Catalogue, TLC

CONSTANTS u1, u2, l1, l2, o1, o2, o3, e1, p1,
          c1, c2, c3, c4, a1, a2, b1, q1, q2, v1,
          i1, i2, i3, i4, i5, i6, t1, t2, t3, t4

mcSeller   == l1 :> u1 @@ l2 :> u2
mcPrice    == l1 :> 25 @@ l2 :> 75   \* 2% is 0.5 and 1.5: both are rounded
mcStock    == l1 :> 2 @@ l2 :> 1
mcBuyer    == o1 :> u2 @@ o2 :> u1 @@ o3 :> u2
mcItem     == o1 :> l1 @@ o2 :> l2 @@ o3 :> l1
mcQuantity == o1 :> 1 @@ o2 :> 1 @@ o3 :> 2
mcEdited   == e1 :> l1
mcPayee    == p1 :> u1
mcAmount   == p1 :> 30
mcDeposit  == u1 :> 60 @@ u2 :> 60

mcPoster   == [l \in Posts |-> u1]
mcAmended  == [a \in Amends |-> c1]
mcBought   == [b \in Buys |-> c1]
mcAbout    == [q \in Enquiries |-> c1]
mcWatched  == [v \in Looks |-> c1]
mcPictured == [i \in Pictures |-> IF i \in {i4, i5, i6} THEN c4 ELSE c1]
mcMarked   == [t \in Toggles |-> <<IF t = t4 THEN u2 ELSE u1, c1>>]
mcVisitors == {{c1, c2, c3, a1}, {c1, c2, c3, b1}, {c1, a1, a2},
               {c1, a1, q1, v1}, {c1, q1, q2, v1}, {c1, i1, i2, i3},
               {c4, i4, i5, i6, v1, a2}, {c1, t1, t2, t3, t4}}

-----------------------------------------------------------------------------
VARIABLE part

MarketInit ==
    /\ part \in {"purchases", "listings"}
    /\ Init /\ CatInit
    \* One initial state of Catalogue is enough when it is not the part chosen.
    /\ part = "purchases" => {a1, c3} \subseteq {r \in Requests : step[r] = "due"}

MarketNext ==
    \/ part = "purchases" /\ Next /\ UNCHANGED <<part, catVars>>
    \/ part = "listings" /\ CatNext /\ UNCHANGED <<part, vars>>

MarketSpec ==
    MarketInit /\ [][MarketNext]_<<part, vars, catVars>> /\ Fairness
=============================================================================
