---------------------------- MODULE DemoBalances ----------------------------
(***************************************************************************)
(* The command seed_demo_balances, and what it does to the wallets of the  *)
(* demo employers: it moves money into their escrow balance, tops up their *)
(* balance and fills the DemoFloat.  One run reads every wallet once, at   *)
(* the start, and writes from what it has read; each wallet is a           *)
(* transaction of its own, whatever line 5 of the command says of "one     *)
(* atomic operation".  Runs may overlap, be killed and be started again,   *)
(* and other code credits the wallets meanwhile.                           *)
(***************************************************************************)
EXTENDS Integers, FiniteSets

CONSTANTS
    Employers,
    Seedings,        \* the runs of the command
    Options,     \* Options[r], a subset of {"reset", "escrow-only", "float-only", "demo-only", "dry-run"}
    SeedMixes,   \* the sets of runs that occur together
    Earnings,    \* credits by other code, each of 1
    Earner,      \* Earner[x]
    Deposit,     \* Deposit[u]: the balance at first
    Migration,   \* ESCROW_MIGRATION_AMOUNT
    TopUp,       \* EMPLOYER_FLOAT_AMOUNT
    Liquidity    \* DEMO_FLOAT_AMOUNT

ASSUME DemoAssumption ==
    /\ \A r \in Seedings : Options[r] \subseteq {"reset", "escrow-only", "float-only", "demo-only", "dry-run"}
    /\ Earner \in [Earnings -> Employers] /\ Deposit \in [Employers -> Nat]
    /\ Migration \in Nat /\ TopUp \in Nat /\ Liquidity \in Nat

VARIABLES
    purse,     \* purse[u]: Wallet.balance
    escrowed,  \* escrowed[u]: Wallet.escrow_balance
    demo,      \* DemoFloat.balance
    rows,      \* the Transaction rows with seeded_by: the run, the employer, "hold" or "credit"
    run,       \* run[r]: where it is, who is still to do, and the wallets as it has them
    earned,    \* the earnings that have arrived
    wiped,     \* wiped[u]: what resets have zeroed of the escrow balance
    clash,     \* the employers whose wallet changed while a run had it in hand
    together   \* the runs that had passed the guard when another did

demoVars == <<purse, escrowed, demo, rows, run, earned, wiped, clash, together>>

Has(r, option) == option \in Options[r]
Only(r) == Options[r] \cap {"escrow-only", "float-only", "demo-only"}
Does(r, part) == Only(r) \subseteq {part}   \* no filter, or this one and no other
Dry(r)  == Has(r, "dry-run")

DemoInit ==
    /\ purse = Deposit /\ escrowed = [u \in Employers |-> 0] /\ demo = 0
    /\ rows = {}
    /\ \E mix \in SeedMixes :
         run = [r \in Seedings |-> [pc |-> IF r \in mix THEN "due" ELSE "never",
                                todo |-> {}, zeroed |-> {}, purse |-> Deposit,
                                escrow |-> [u \in Employers |-> 0]]]
    /\ earned = {} /\ wiped = [u \in Employers |-> 0]
    /\ clash = {} /\ together = {}

UnderWay(r) == run[r].pc \in {"guarded", "escrow", "float", "demo"}
Holds(r)    == run[r].pc \in {"escrow", "float"}

\* The wallet of u is written, perhaps while one of the others has it in hand.
Clashes(u, others) == clash' = IF \E q \in others : Holds(q) THEN clash \cup {u} ELSE clash

At(r, state) == run' = [run EXCEPT ![r].pc = state]

-----------------------------------------------------------------------------
\* The guard looks for any row of an earlier run, of any part.
SeededBefore == rows # {}

\* --reset, --dry-run and --demo-only pass in any case.
Guard(r) ==
    /\ run[r].pc = "due"
    /\ IF SeededBefore /\ Options[r] \cap {"reset", "dry-run", "demo-only"} = {}
         THEN At(r, "aborted") /\ UNCHANGED together
         ELSE /\ At(r, "guarded")
              /\ together' = LET others == {q \in Seedings \ {r} : UnderWay(q)} IN
                               IF others = {} THEN together ELSE together \cup others \cup {r}
    /\ UNCHANGED <<purse, escrowed, demo, rows, earned, wiped, clash>>

\* All the wallets in one query.
Load(r) ==
    /\ run[r].pc = "guarded"
    /\ run' = [run EXCEPT ![r] = [pc |-> "escrow", todo |-> Employers, zeroed |-> {},
                                  purse |-> purse, escrow |-> escrowed]]
    /\ UNCHANGED <<purse, escrowed, demo, rows, earned, wiped, clash, together>>

\* The part is done, or was not asked for, and all employers are ahead again.
NextPart(r) ==
    /\ \/ run[r].pc = "escrow" /\ (run[r].todo = {} \/ ~Does(r, "escrow-only"))
       \/ run[r].pc = "float"  /\ (run[r].todo = {} \/ ~Does(r, "float-only"))
    /\ run' = [run EXCEPT ![r] = [run[r] EXCEPT !.pc = IF @ = "escrow" THEN "float" ELSE "demo",
                                                !.todo = Employers]]
    /\ UNCHANGED <<purse, escrowed, demo, rows, earned, wiped, clash, together>>

-----------------------------------------------------------------------------
(* Step 1: the escrow of one employer *)

\* --reset first saves an escrow balance of zero, by itself.
Wipe(r, u) ==
    /\ run[r].pc = "escrow" /\ Does(r, "escrow-only") /\ u \in run[r].todo
    /\ Has(r, "reset") /\ ~Dry(r) /\ u \notin run[r].zeroed
    /\ escrowed' = [escrowed EXCEPT ![u] = 0]
    /\ wiped' = [wiped EXCEPT ![u] = @ + escrowed[u]]
    /\ run' = [run EXCEPT ![r] = [run[r] EXCEPT !.escrow = [@ EXCEPT ![u] = 0],
                                                 !.zeroed = @ \cup {u}]]
    /\ Clashes(u, Seedings \ {r})
    /\ UNCHANGED <<purse, demo, rows, earned, together>>

\* Mutant of Left: the money is moved and stays.
LeftAll(r, u) == run[r].purse[u]

Left(r, u) == run[r].purse[u] - Migration

\* One transaction: both balances as they were read, moved, and the row.
Migrate(r, u) ==
    /\ run[r].pc = "escrow" /\ Does(r, "escrow-only") /\ u \in run[r].todo
    /\ Has(r, "reset") /\ ~Dry(r) => u \in run[r].zeroed
    /\ IF run[r].purse[u] < Migration \/ Dry(r)
         THEN /\ run' = [run EXCEPT ![r].todo = @ \ {u}]
              /\ UNCHANGED <<purse, escrowed, rows, clash>>
         ELSE LET left == Left(r, u)
                  moved == run[r].escrow[u] + Migration
              IN /\ purse' = [purse EXCEPT ![u] = left]
                 /\ escrowed' = [escrowed EXCEPT ![u] = moved]
                 /\ run' = [run EXCEPT ![r] =
                              [run[r] EXCEPT !.todo = @ \ {u}, !.purse = [@ EXCEPT ![u] = left],
                                             !.escrow = [@ EXCEPT ![u] = moved]]]
                 /\ rows' = rows \cup {<<r, u, "hold">>}
                 /\ Clashes(u, Seedings \ {r})
    /\ UNCHANGED <<demo, earned, wiped, together>>

-----------------------------------------------------------------------------
(* Steps 2 and 3 *)

TopUpWallet(r, u) ==
    /\ run[r].pc = "float" /\ Does(r, "float-only") /\ u \in run[r].todo
    /\ IF Dry(r)
         THEN /\ run' = [run EXCEPT ![r].todo = @ \ {u}]
              /\ UNCHANGED <<purse, rows, clash>>
         ELSE LET new == run[r].purse[u] + TopUp IN
              /\ purse' = [purse EXCEPT ![u] = new]
              /\ run' = [run EXCEPT ![r] = [run[r] EXCEPT !.todo = @ \ {u}, !.purse = [@ EXCEPT ![u] = new]]]
              /\ rows' = rows \cup {<<r, u, "credit">>}
              /\ Clashes(u, Seedings \ {r})
    /\ UNCHANGED <<escrowed, demo, earned, wiped, together>>

\* The float is read and saved with nothing in between that matters here.
Fill(r) ==
    /\ run[r].pc = "demo"
    /\ IF Does(r, "demo-only") /\ ~Dry(r)
         THEN demo' = demo + Liquidity
         ELSE UNCHANGED demo
    /\ At(r, "done")
    /\ UNCHANGED <<purse, escrowed, rows, earned, wiped, clash, together>>

\* The command is interrupted: what it has committed stays.
Interrupt(r) ==
    /\ UnderWay(r)
    /\ At(r, "dead")
    /\ UNCHANGED <<purse, escrowed, demo, rows, earned, wiped, clash, together>>

\* Other code credits a wallet, in a transaction of its own.
Earn(x) ==
    /\ x \notin earned
    /\ purse' = [purse EXCEPT ![Earner[x]] = @ + 1]
    /\ earned' = earned \cup {x}
    /\ Clashes(Earner[x], Seedings)
    /\ UNCHANGED <<escrowed, demo, rows, run, wiped, together>>

DemoNext ==
    \/ \E r \in Seedings : \/ Guard(r) \/ Load(r) \/ NextPart(r) \/ Fill(r) \/ Interrupt(r)
                       \/ \E u \in Employers : Wipe(r, u) \/ Migrate(r, u) \/ TopUpWallet(r, u)
    \/ \E x \in Earnings : Earn(x)

DemoSpec == DemoInit /\ [][DemoNext]_demoVars

-----------------------------------------------------------------------------
Rows(u, kind) == {row \in rows : row[2] = u /\ row[3] = kind}

RunRow == [pc : {"never", "due", "aborted", "guarded", "escrow", "float", "demo", "done", "dead"},
           todo : SUBSET Employers, zeroed : SUBSET Employers,
           purse : [Employers -> Nat], escrow : [Employers -> Nat]]

DemoTypeOK ==
    /\ purse \in [Employers -> Nat] /\ escrowed \in [Employers -> Nat] /\ demo \in Nat
    /\ wiped \in [Employers -> Nat] /\ run \in [Seedings -> RunRow]
    /\ rows \subseteq Seedings \X Employers \X {"hold", "credit"}
    /\ earned \subseteq Earnings /\ clash \subseteq Employers /\ together \subseteq Seedings

\* What an employer has, in balance and escrow, is the first deposit, what was earned
\* and the recorded top-ups, less what resets have wiped out, unless the wallet
\* changed while a run had it in hand.
SeedMoneyAddsUp ==
    \A u \in Employers \ clash :
        purse[u] + escrowed[u] + wiped[u] =
            Deposit[u] + Cardinality({x \in earned : Earner[x] = u})
              + TopUp * Cardinality(Rows(u, "credit"))

\* Line 106 of the command, "Aborting to prevent duplicate balances": an employer is
\* seeded twice only by a run that was asked to, or by two at once.
SeededOnce ==
    \A u \in Employers, kind \in {"hold", "credit"} :
        Cardinality({row \in Rows(u, kind) :
                       row[1] \notin together /\ ~Has(row[1], "reset")}) <= 1

\* The demo money is given once, and none of it is lost or made on the way.
SeedingAddsUp == SeedMoneyAddsUp /\ SeededOnce
=============================================================================
