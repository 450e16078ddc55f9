--------------------------- MODULE MCSquadWebhook ---------------------------
(***************************************************************************)
(* Small instances of SquadWebhook: one wallet that is paid twice, and a   *)
(* payment that belongs to nobody.                                         *)
(***************************************************************************)
EXTENDS SquadWebhook, TLC

CONSTANTS u1, p1, p2, p3, d1, d2, d3, d4, d5

\* p1 is announced twice by Squad; p2 by Squad and by the partner service.
mcEvent  == d1 :> p1 @@ d2 :> p1 @@ d3 :> p2 @@ d4 :> p2 @@ d5 :> p3
mcTwice  == [d \in Deliveries |-> p1]
mcPayee  == [p \in Payments |-> u1]
mcAmount == [p \in Payments |-> IF p = p1 THEN 1 ELSE 2]
=============================================================================
