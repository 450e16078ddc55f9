------------------------------ MODULE JobBoard ------------------------------
(***************************************************************************)
(* How workers find jobs: JobCreateView posts them, the task               *)
(* trigger_job_matching_notifications announces a funded one by SMS, and   *)
(* JobFeedView shows a worker the best of the open ones.  What employers   *)
(* were rated counts for the feed, so RatingCreateView is here too.        *)
(*                                                                         *)
(* Job g is the g-th in the order of created_at.  The feed reads the jobs  *)
(* in one query and the ratings in another.  (Who gets a job and who is    *)
(* paid for it: JobLifecycle and JobEscrow.)                               *)
(***************************************************************************)
EXTENDS Integers, Sequences, FiniteSets, FiniteSetsExt, SequencesExt

CONSTANTS
    Gigs,      \* how many jobs are posted
    Boss,      \* Boss[g]: Job.employer
    Skill,     \* Skill[g]: Job.skill_required
    Wage,      \* Wage[g]: Job.pay_per_worker
    Seekers,   \* the workers who look for a job
    Knows,     \* Knows[w]: User.skills
    Away,      \* Away[g][w]: km by the haversine formula, or 0 in the worker's city
               \* and 15 elsewhere when either has no coordinates
    Staged,    \* the jobs that seed_jobs_and_listings makes, if at all
    Unheard,   \* the jobs whose funding dies before it has queued the announcement
    Applicants, \* the pairs of a job and a worker who would take it
    Feeds,     \* the requests for a feed
    Viewer,    \* Viewer[f]: who asks
    Reviews,   \* the requests to rate
    Rates,     \* Rates[r]: [by, whom, gig, stars]
    Window,    \* how many jobs the feed looks at: 100
    Top,       \* TOP_N_JOBS
    MaxTexts   \* how many workers are sent an SMS: 20

Jobbers == Seekers \cup {Boss[g] : g \in 1..Gigs}

ASSUME BoardAssumption ==
    /\ Gigs \in Nat /\ Window \in Nat /\ Top \in Nat /\ MaxTexts \in Nat
    /\ Unheard \cup Staged \subseteq 1..Gigs /\ Applicants \subseteq (1..Gigs) \X Seekers
    /\ Wage \in [1..Gigs -> Nat]
    /\ Away \in [1..Gigs -> [Seekers -> Nat]] /\ Viewer \in [Feeds -> Jobbers]
    /\ \A r \in Reviews : Rates[r].stars \in 1..5 /\ Rates[r].gig \in 1..Gigs

VARIABLES
    post,      \* post[g]: "none", "unfunded", "live" (open and funded) or "taken"
    notice,    \* notice[g]: the announcement, "none", "queued" or "over"
    texted,    \* the pairs of a job and a worker who got an SMS about it
    hired,     \* the JobApplication rows: a job and a worker
    stars,     \* the Rating rows
    rating,    \* rating[r]: progress of a request to rate
    feed       \* feed[f]: progress, the jobs read (newest first), all the live ones
               \* there were, and the answer

boardVars == <<post, notice, texted, hired, stars, rating, feed>>

BoardInit ==
    /\ post = [g \in 1..Gigs |-> "none"] /\ notice = [g \in 1..Gigs |-> "none"]
    /\ texted = {} /\ hired = {} /\ stars = {}
    /\ rating = [r \in Reviews |-> "due"]
    /\ feed = [f \in Feeds |-> [pc |-> "due", read |-> <<>>, live |-> {}, shown |-> <<>>]]

Live == {g \in 1..Gigs : post[g] = "live"}

-----------------------------------------------------------------------------
(* JobCreateView, the funding, the acceptance and the announcement *)

\* Only employers post; the job is open and unfunded, and newer than all others.
PostGig(g) ==
    /\ \A h \in g..Gigs : post[h] = "none"
    /\ post' = [post EXCEPT ![g] = "unfunded"]
    /\ UNCHANGED <<notice, texted, hired, stars, rating, feed>>

\* seed_jobs_and_listings gives its jobs a date in the past and a status of its choice;
\* those in progress or completed are called funded, with no escrow behind them.
SeedGig(g) ==
    /\ g \in Staged /\ post[g] = "none"
    /\ \E status \in {"unfunded", "taken"} : post' = [post EXCEPT ![g] = status]
    /\ UNCHANGED <<notice, texted, hired, stars, rating, feed>>

\* From the wallet or by a transfer: the funding commits, and then the announcement
\* is queued.
FundGig(g) ==
    /\ post[g] = "unfunded"
    /\ post' = [post EXCEPT ![g] = "live"]
    /\ notice' = [notice EXCEPT ![g] = IF g \in Unheard THEN "over" ELSE "queued"]
    /\ UNCHANGED <<texted, hired, stars, rating, feed>>

\* A worker is taken on, and the job may have all it needs.
Hire(g, w) ==
    /\ post[g] = "live" /\ <<g, w>> \in Applicants \ hired
    /\ hired' = hired \cup {<<g, w>>}
    /\ \E next \in {"live", "taken"} : post' = [post EXCEPT ![g] = next]
    /\ UNCHANGED <<notice, texted, stars, rating, feed>>

\* Who hears of a job: for "other" anybody, with or without a skill.
Hears(g, w) == Skill[g] = "other" \/ Skill[g] \in Knows[w]

\* Each of up to MaxTexts workers gets one SMS, or does not when the gateway fails or
\* the task dies first.
Announce(g) ==
    /\ notice[g] = "queued"
    /\ \E S \in SUBSET {w \in Seekers : Hears(g, w)} :
         /\ Cardinality(S) <= MaxTexts
         /\ texted' = texted \cup ({g} \X S)
    /\ notice' = [notice EXCEPT ![g] = "over"]
    /\ UNCHANGED <<post, hired, stars, rating, feed>>

-----------------------------------------------------------------------------
(* RatingCreateView *)

\* A worker rates the employer of any job.  Everybody else rates whoever applied to
\* the job, whoever posted it.  Nobody rates himself.
MayRate(r) ==
    LET by == Rates[r].by  whom == Rates[r].whom  gig == Rates[r].gig IN
      /\ by # whom
      /\ IF by \in Seekers THEN Boss[gig] = whom ELSE <<gig, whom>> \in hired

RateCheck(r) ==
    /\ rating[r] = "due" /\ post[Rates[r].gig] # "none"
    /\ rating' = [rating EXCEPT ![r] = IF MayRate(r) THEN "valid" ELSE "refused"]
    /\ UNCHANGED <<post, notice, texted, hired, stars, feed>>

\* The unique index refuses a second rating of one person by another for one job.
RateSave(r) ==
    /\ rating[r] = "valid"
    /\ IF \E s \in stars : s.by = Rates[r].by /\ s.whom = Rates[r].whom /\ s.gig = Rates[r].gig
         THEN rating' = [rating EXCEPT ![r] = "error"] /\ UNCHANGED stars
         ELSE rating' = [rating EXCEPT ![r] = "saved"] /\ stars' = stars \cup {Rates[r]}
    /\ UNCHANGED <<post, notice, texted, hired, feed>>

-----------------------------------------------------------------------------
(* match_jobs_for_worker; points are counted in tenths *)

SkillPoints(g, w) ==
    CASE Skill[g] \in Knows[w] -> 400
      [] Skill[g] \notin Knows[w] /\ Knows[w] # {} /\ "other" \in Knows[w] \cup {Skill[g]} -> 100
      [] OTHER -> 0

\* 30 points at 0 km, none from 20 km on.
DistancePoints(g, w) == IF Away[g][w] >= 20 THEN 0 ELSE 15 * (20 - Away[g][w])

RatingsOf(e) == {s \in stars : s.whom = e}
StarsOf(e)   == MapThenSumSet(LAMBDA s : s.stars, RatingsOf(e))
CountOf(e)   == Cardinality(RatingsOf(e))

\* 15 points for the best paid job of those read, none when all are unpaid (nothing keeps
\* an employer from posting a pay of 0), 15 for an average of five stars and
\* 7.5 for no rating; the total is rounded to a tenth of a point (of a tie between two
\* tenths, which floating point decides, the upper one).
TotalPoints(g, w, maxPay) ==
    LET e == Boss[g]
        n == IF CountOf(e) = 0 THEN 1 ELSE CountOf(e)
        rated == IF CountOf(e) = 0 THEN 75 ELSE 30 * StarsOf(e)
        most == IF maxPay = 0 THEN 1 ELSE maxPay
        pay  == IF maxPay = 0 THEN 0 ELSE Wage[g]
        part == 150 * pay * n + rated * most
    IN SkillPoints(g, w) + DistancePoints(g, w) + (2 * part + most * n) \div (2 * most * n)

\* Mutant of Before: the newer of two equals goes last.
BeforeUnstable(a, b) == a > b

\* Is a job with a points, read earlier, before one with b points?
Before(a, b) == a >= b

\* A job without a point for the skill is left out.  sorted() is stable: a job goes
\* behind those read before it with as many points.
Ranked(gigs, w, maxPay) ==
    LET points(g) == TotalPoints(g, w, maxPay)
        insert(list, g) ==
            LET at == 1 + Cardinality({i \in DOMAIN list : Before(points(list[i]), points(g))})
            IN IF SkillPoints(g, w) = 0 THEN list ELSE InsertAt(list, at, g)
    IN FoldLeft(insert, <<>>, gigs)

MaxPay(gigs) == CHOOSE m \in {Wage[gigs[i]] : i \in DOMAIN gigs} :
                   \A i \in DOMAIN gigs : Wage[gigs[i]] <= m

\* ORDER BY created_at DESC, and the first n of it.
Newest(S, n) ==
    LET order == CHOOSE q \in [1..Cardinality(S) -> S] :
                    \A i, j \in DOMAIN q : i < j => q[i] > q[j]
    IN SubSeq(order, 1, IF Len(order) < n THEN Len(order) ELSE n)

\* The feed is for workers; with no live job the answer is empty.
FeedRead(f) ==
    /\ feed[f].pc = "due"
    /\ feed' = [feed EXCEPT ![f] =
         IF Viewer[f] \notin Seekers THEN [@ EXCEPT !.pc = "refused"]
         ELSE [@ EXCEPT !.pc = IF Live = {} THEN "done" ELSE "read",
                        !.read = Newest(Live, Window), !.live = Live]]
    /\ UNCHANGED <<post, notice, texted, hired, stars, rating>>

FeedRank(f) ==
    /\ feed[f].pc = "read"
    /\ LET ranked == Ranked(feed[f].read, Viewer[f], MaxPay(feed[f].read))
       IN feed' = [feed EXCEPT ![f] =
            [@ EXCEPT !.pc = "done",
                      !.shown = SubSeq(ranked, 1, IF Len(ranked) < Top THEN Len(ranked) ELSE Top)]]
    /\ UNCHANGED <<post, notice, texted, hired, stars, rating>>

-----------------------------------------------------------------------------
BoardNext ==
    \/ \E g \in 1..Gigs : PostGig(g) \/ SeedGig(g) \/ FundGig(g) \/ Announce(g) \/ \E w \in Seekers : Hire(g, w)
    \/ \E r \in Reviews : RateCheck(r) \/ RateSave(r)
    \/ \E f \in Feeds : FeedRead(f) \/ FeedRank(f)

BoardSpec == BoardInit /\ [][BoardNext]_boardVars

-----------------------------------------------------------------------------
\* matching.py:78, "top N scored jobs for a given worker": of all the live jobs that
\* need what the worker can do, those are shown that fewer than Top others beat, with
\* more points or with as many and newer, whatever was posted, rated or taken meanwhile;
\* unless there were more live jobs than the query takes, fitting or not.
FeedIsBest ==
    [][\A f \in Feeds :
         feed[f].pc = "read" /\ feed'[f].pc = "done" /\ Cardinality(feed[f].live) <= Window =>
           LET w == Viewer[f]
               fits == {g \in feed[f].live : SkillPoints(g, w) > 0}
               points == [g \in fits |-> TotalPoints(g, w, MaxPay(feed[f].read))]
               beats(h, g) == points[h] > points[g] \/ (points[h] = points[g] /\ h > g)
           IN /\ ToSet(feed'[f].shown) =
                   {g \in fits : Cardinality({h \in fits : beats(h, g)}) < Top}
              /\ \A i, j \in DOMAIN feed'[f].shown :
                   i < j => beats(feed'[f].shown[i], feed'[f].shown[j])]_boardVars
=============================================================================
