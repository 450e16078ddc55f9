------------------------------- MODULE Score --------------------------------
(***************************************************************************)
(* The Economic Identity Score.  initialise_score_for_user makes the row   *)
(* of a new user; recalculate_score counts the user's history, one query   *)
(* for each kind of event, and saves the score.  Most code that makes a    *)
(* scoring event commits it and then queues a recalculation, in a step of  *)
(* its own.  JobCompleteView makes gigs and queues none: that is left to   *)
(* the release task, which it sends before it commits (views.py:235) and   *)
(* which queues one for the credit it has made (escrow.py:140), before or  *)
(* after the gig is there to be counted.  Listing an item, a loan and a    *)
(* claim queue one for no event.  The seeding commands write the row       *)
(* themselves.                                                             *)
(***************************************************************************)
EXTENDS Naturals, Sequences, FiniteSets

CONSTANTS
    Members,     \* the users
    Events,      \* what a score is counted from: gigs, credits, repayments, ratings, ...
    Owner,       \* Owner[e]: whose score the event is counted for
    Kind,        \* Kind[e]
    Kinds,       \* the kinds in the order in which they are counted
    Points,      \* Points[k]: what one event of kind k is worth
    Silent,      \* the events whose code queues no recalculation after them: gigs,
                 \* and the rows of the seeding commands
    Listings,    \* recalculations that nothing has changed for (ListingCreateView)
    Lister,      \* Lister[t]: the user of such a recalculation
    Base,        \* BASE_SCORE
    Cap,         \* SCORE_CAP
    DemoScore    \* the score that seed_pilot gives

Tasks == Events \cup Listings

ASSUME EventsAssumption   == /\ Owner \in [Events -> Members] /\ Silent \subseteq Events
                             /\ \A e \in Events : Kind[e] \in {Kinds[i] : i \in DOMAIN Kinds}
ASSUME ListingsAssumption == Lister \in [Listings -> Members] /\ Listings \cap Events = {}
ASSUME PointsAssumption   == /\ Points \in [DOMAIN Points -> Nat]
                             /\ Kinds \in Seq(DOMAIN Points) \ {<<>>}
                             /\ Base \in Nat /\ Cap \in Nat /\ Base <= Cap /\ DemoScore \in 0..Cap

VARIABLES
    score,     \* score[m]: the row's score, or Absent
    first,     \* first[m]: initialise_score_for_user: "queued", "done" or "lost"
    happened,  \* the events committed
    recalc,    \* recalc[t]: progress of a recalculation and its sum so far
    disturbed, \* the recalculations under way that do not have m's history to themselves
    inflated,  \* the users whose score has been set by a seeding command
    behind     \* the users something has happened to that no recalculation is due for

scoreVars == <<score, first, happened, recalc, disturbed, inflated, behind>>

Absent == Cap + 1

For(t)     == IF t \in Events THEN Owner[t] ELSE Lister[t]
Active(t)  == recalc[t].pc \in {"counting", "counted"}
Running(m) == {t \in Tasks : For(t) = m /\ Active(t)}
Quiet(m)   == \A t \in Tasks : For(t) = m => recalc[t].pc \in {"none", "done", "lost"}

AtMost(a, b) == IF a <= b THEN a ELSE b

ScoreInit ==
    /\ score = [m \in Members |-> Absent]
    /\ first = [m \in Members |-> "queued"]
    /\ happened = {}
    /\ recalc = [t \in Tasks |-> [pc |-> "none", next |-> 1, sum |-> 0, whole |-> FALSE]]
    /\ disturbed = {} /\ inflated = {} /\ behind = {}

Moves(t, pc) == recalc' = [recalc EXCEPT ![t].pc = pc]

\* t goes to pc, and the recalculations under way for the same user may have missed
\* something.
Breaks(t, pc) ==
    recalc' = [r \in Tasks |->
                 IF r = t THEN [recalc[t] EXCEPT !.pc = pc]
                 ELSE [recalc[r] EXCEPT !.whole = @ /\ r \notin Running(For(t))]]

-----------------------------------------------------------------------------
\* An event is committed; a recalculation of its owner that is counting may or
\* may not see it.  When it is silent, the one that its release queues is that of
\* another event, and may have been saved already.
Happen(e) ==
    /\ e \notin happened
    /\ happened' = happened \cup {e}
    /\ IF e \in Silent THEN Breaks(e, "done") /\ behind' = behind \cup {Owner[e]}
                       ELSE Breaks(e, "committed") /\ UNCHANGED behind
    /\ UNCHANGED <<score, first, disturbed, inflated>>

\* Then the recalculation is queued, unless the process dies or the broker is gone.
Queue(e) ==
    /\ recalc[e].pc = "committed"
    /\ Moves(e, "queued")
    /\ UNCHANGED <<score, first, happened, disturbed, inflated, behind>>

\* A listing is created, which calculate_score counts for nothing.
List(t) ==
    /\ t \in Listings /\ recalc[t].pc = "none"
    /\ Moves(t, "queued")
    /\ UNCHANGED <<score, first, happened, disturbed, inflated, behind>>

-----------------------------------------------------------------------------
(* initialise_score_for_user *)

\* get_or_create: a row that is there already stays as it is.
Initialise(m) ==
    /\ first[m] = "queued"
    /\ score' = [score EXCEPT ![m] = IF @ = Absent THEN Base ELSE @]
    /\ first' = [first EXCEPT ![m] = "done"]
    /\ UNCHANGED <<happened, recalc, disturbed, inflated, behind>>

InitialiseLost(m) ==
    /\ first[m] = "queued"
    /\ first' = [first EXCEPT ![m] = "lost"]
    /\ UNCHANGED <<score, happened, recalc, disturbed, inflated, behind>>

-----------------------------------------------------------------------------
(* recalculate_score and calculate_score *)

\* Mutant of Start: the base is not counted.
StartEmpty(t) == 0

\* What a sum starts with.
Start(t) == Base

Begin(t) ==
    /\ recalc[t].pc = "queued"
    /\ LET others == Running(For(t)) IN
         /\ recalc' = [recalc EXCEPT ![t] = [pc |-> "counting", next |-> 1, sum |-> Start(t),
                                             whole |-> others = {}]]
         /\ disturbed' = IF others = {} THEN disturbed ELSE disturbed \cup others \cup {t}
    /\ UNCHANGED <<score, first, happened, inflated, behind>>

\* Mutant of Counted: one event of a kind counts, as if they were not distinct.
CountedOnce(m, k) ==
    IF \E e \in happened : Owner[e] = m /\ Kind[e] = k THEN Points[k] ELSE 0

\* One query: the events of kind k so far.
Counted(m, k) == Points[k] * Cardinality({e \in happened : Owner[e] = m /\ Kind[e] = k})

Count(t) ==
    /\ recalc[t].pc = "counting"
    /\ LET at == recalc[t].next IN
         recalc' = [recalc EXCEPT
                      ![t].pc   = IF at = Len(Kinds) THEN "counted" ELSE "counting",
                      ![t].next = at + 1,
                      ![t].sum  = recalc[t].sum + Counted(For(t), Kinds[at])]
    /\ UNCHANGED <<score, first, happened, disturbed, inflated, behind>>

\* The row is found or made, and saved with the score and the unlocked services.
\* A recalculation during which nothing happened makes up for what was missed before.
Save(t) ==
    /\ recalc[t].pc = "counted"
    /\ LET m == For(t) IN
         /\ score' = [score EXCEPT ![m] = AtMost(recalc[t].sum, Cap)]
         /\ inflated' = inflated \ {m}
         /\ behind' = IF t \in disturbed THEN behind \cup {m}
                      ELSE IF recalc[t].whole THEN behind \ {m} ELSE behind
    /\ disturbed' = disturbed \ {t}
    /\ Moves(t, "done")
    /\ UNCHANGED <<first, happened>>

\* Nothing is retried.
RecalcLost(t) ==
    /\ recalc[t].pc \in {"committed", "counting", "counted"}
    /\ Moves(t, "lost")
    /\ behind' = behind \cup {For(t)}
    /\ disturbed' = disturbed \ {t}
    /\ UNCHANGED <<score, first, happened, inflated>>

-----------------------------------------------------------------------------
\* seed_pilot and seed_employers write the score they want, with no events for it.
MakeUp(m) ==
    /\ m \notin inflated
    /\ score' = [score EXCEPT ![m] = DemoScore]
    /\ inflated' = inflated \cup {m}
    /\ UNCHANGED <<first, happened, recalc, disturbed, behind>>

ScoreNext ==
    \/ \E m \in Members : Initialise(m) \/ InitialiseLost(m) \/ MakeUp(m)
    \/ \E e \in Events : Happen(e) \/ Queue(e)
    \/ \E t \in Tasks : List(t) \/ Begin(t) \/ Count(t) \/ Save(t) \/ RecalcLost(t)

ScoreSpec == ScoreInit /\ [][ScoreNext]_scoreVars

-----------------------------------------------------------------------------
\* What the history of a user is worth.
Worth(m) ==
    LET Of(k)  == Cardinality({e \in happened : Owner[e] = m /\ Kind[e] = k})
        sum[i \in 0..Len(Kinds)] ==
            IF i = 0 THEN Base ELSE sum[i - 1] + Points[Kinds[i]] * Of(Kinds[i])
    IN AtMost(sum[Len(Kinds)], Cap)

RecalcStates ==
    [pc : {"none", "committed", "queued", "counting", "counted", "done", "lost"},
     next : Nat, sum : Nat, whole : BOOLEAN]

ScoreTypeOK ==
    /\ score \in [Members -> 0..Absent]
    /\ first \in [Members -> {"queued", "done", "lost"}]
    /\ recalc \in [Tasks -> RecalcStates]
    /\ happened \subseteq Events /\ disturbed \subseteq Tasks
    /\ inflated \subseteq Members /\ behind \subseteq Members

\* When no recalculation is due any more, the score is what the history is worth,
\* unless since the last undisturbed one another was lost or disturbed, an event did
\* not ask for one (a gig does not), or the score was made up.
QuietScoreIsWorth ==
    \A m \in Members \ (behind \cup inflated) :
        Quiet(m) /\ score[m] # Absent => score[m] = Worth(m)

\* README.md:301, "Each active marketplace listing | +3": nobody who has listed items,
\* and whose recalculations have all been made, has less than that.
ListingsCount ==
    \A m \in Members \ (behind \cup inflated) :
        LET listed == {t \in Listings : Lister[t] = m /\ recalc[t].pc = "done"} IN
          Quiet(m) /\ score[m] # Absent => score[m] >= AtMost(Base + 3 * Cardinality(listed), Cap)

\* README.md:304, "Score never decreases": only a recalculation that ran at the
\* same time as another takes points away, or the first one after a made-up score.
ScoreNeverDecreases ==
    [][\A m \in Members :
         score[m] # Absent /\ score'[m] < score[m] =>
             \/ m \in inflated \cup inflated'
             \/ \E t \in disturbed : For(t) = m /\ recalc[t].pc = "counted"]_scoreVars
=============================================================================
