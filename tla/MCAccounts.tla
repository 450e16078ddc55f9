----------------------------- MODULE MCAccounts -----------------------------
(***************************************************************************)
(* Small instances of the modules about accounts: SquadWebhook, one wallet *)
(* that is paid twice and a payment that belongs to nobody; Provisioning,  *)
(* a user who signs up or is seeded and, on its own, an account of Kolliq; *)
(* PinReset, one person's requests with the number typed in both ways;     *)
(* DemoBalances, one employer and overlapping, repeated and reset runs of  *)
(* the command.                                                            *)
(*                                                                         *)
(* The four share no variable: their behaviours are explored one after the *)
(* other in one run.  A behaviour chooses its part at the start, and the   *)
(* other parts keep their initial state, in which a worker has nothing to  *)
(* do, so that fairness asks nothing of them.  Provisioning makes two      *)
(* parts, as no step of it reads or writes what is about another customer. *)
(***************************************************************************)
EXTENDS SquadWebhook, Provisioning, PinReset, DemoBalances, TLC

CONSTANTS u1, u2, p1, p2, p3, d1, d2, d3, d4, d5,
          v1, v2, n1,
          local, intl, s1, s2, l1, h1, r1, r2, k1, k2, m1,
          g1, g2, g3, g4, g5, x1

\* p1 is announced twice by Squad; p2 by Squad and by the partner service.
mcEvent  == d1 :> p1 @@ d2 :> p1 @@ d3 :> p2 @@ d4 :> p2 @@ d5 :> p3
mcPayee  == [p \in Payments |-> u1]
mcAmount == [p \in Payments |-> IF p = p1 THEN 1 ELSE 2]

mcPaidTo  == [p \in Income |-> u1]
mcVisitor == [v \in Visits |-> u1]

\* An account whose number is typed with 0 is not found by the reset views.
mcIntl    == local :> intl @@ intl :> intl
mcMixes   == {{s1, s2, l1, h1}, {s1, s2, h1, r1, k1}, {s1, h1, r1, r2, k1},
              {s1, l1, r1, k1}, {s1, r1, r2, k1, k2}, {s1, h1, r1, k1, m1}}

mcOptions == g1 :> {} @@ g2 :> {} @@ g3 :> {"reset"} @@ g4 :> {"demo-only"}
               @@ g5 :> {"dry-run"}
mcSeedMixes == {{g1, g2}, {g1, g3}, {g3, g4}, {g1, g5}}
mcEarner  == [x \in Earnings |-> u1]
mcDeposit == [u \in Employers |-> 5]

-----------------------------------------------------------------------------
VARIABLE part

AccountsInit ==
    /\ part \in {"webhooks", "provisioning", "system", "pins", "demo balances"}
    /\ Init /\ ProvInit /\ PinInit /\ DemoInit
    \* One initial state of a part is enough when it is not the one chosen.
    /\ part # "pins" => request[s2].pc = "due" /\ request[l1].pc = "due"
    /\ part # "demo balances" => run[g2].pc = "due"

AccountsNext ==
    \/ /\ part = "webhooks" /\ Next
       /\ UNCHANGED <<part, provVars, pinVars, demoVars>>
    \/ /\ ProvNext
       /\ IF part = "system" THEN seeder'[u2] # seeder[u2]
                             ELSE part = "provisioning" /\ seeder'[u2] = seeder[u2]
       /\ UNCHANGED <<part, vars, pinVars, demoVars>>
    \/ /\ part = "pins" /\ PinNext
       /\ UNCHANGED <<part, vars, provVars, demoVars>>
    \/ /\ part = "demo balances" /\ DemoNext
       /\ UNCHANGED <<part, vars, provVars, pinVars>>

AccountsSpec ==
    /\ AccountsInit
    /\ [][AccountsNext]_<<part, vars, provVars, pinVars, demoVars>>
    /\ Fairness /\ ProvFairness
=============================================================================
