---------------------------- MODULE JobLifecycle ----------------------------
(***************************************************************************)
(* A job and the applications to it: JobAcceptView and JobCompleteView.    *)
(* No request locks the job row.  A request reads the job when it starts,  *)
(* decides from what it read, and writes in a transaction later on; other  *)
(* requests run between those steps.  PostgreSQL's READ COMMITTED level    *)
(* lets a statement see what was committed when it started, and the rows   *)
(* its own transaction wrote.                                              *)
(*                                                                         *)
(* Job.Status.FILLED, CANCELLED and DISPUTED, and the application statuses *)
(* PENDING, REJECTED and CANCELLED, are written by no code.                *)
(***************************************************************************)
EXTENDS JobEscrowState

CONSTANT AcceptClicks  \* the acceptances a worker may send per job

VARIABLES
    status,   \* status[j]: Job.status
    app,      \* app[j, w]: the status of w's JobApplication, "none" if no row
    accept,   \* accept[k, j, w]: progress of w's k-th acceptance of j
    complete  \* complete[k, j]: progress of the k-th completion request of j

jobPrivate == <<status, app, accept, complete>>
jobVars    == <<funded, sent, status, app, accept, complete>>

AcceptRequests   == AcceptClicks \X Jobs \X Workers
CompleteRequests == CompleteClicks \X Jobs
Completions      == [pc   : {"idle", "checked", "found", "captured", "updated", "done"},
                     only : SUBSET Workers, ids : SUBSET Workers, hit : SUBSET Workers]

\* The workers with an application row, and those that are still to work.
Applied(j)  == {w \in Workers : app[j, w] # "none"}
Accepted(j) == {w \in Workers : app[j, w] = "accepted"}

\* A job as JobCreateView leaves it: open, unfunded, nobody applied.
JobInit ==
    /\ funded   = [j \in Jobs |-> FALSE]
    /\ sent     = {}
    /\ status   = [j \in Jobs |-> "open"]
    /\ app      = [a \in Jobs \X Workers |-> "none"]
    /\ accept   = [r \in AcceptRequests |-> [pc |-> "idle", fill |-> FALSE]]
    /\ complete = [r \in CompleteRequests |->
                     [pc |-> "idle", only |-> {}, ids |-> {}, hit |-> {}]]

-----------------------------------------------------------------------------
(* JobAcceptView *)

\* A worker is taken on for an open, funded job.
Available(j) == status[j] = "open" /\ funded[j]

\* Mutant of Fills: the new application is counted twice.
FillsCountedTwice(j, w) == Cardinality(Accepted(j) \cup {w}) + 1 >= Needed[j]

\* The accepted applications, the committed ones and w's, are enough.
Fills(j, w) == Cardinality(Accepted(j) \cup {w}) >= Needed[j]

\* The status a job gets with its last application.
WhenFilled == "in_progress"

\* The view reads the job and looks for an application of this worker.
AcceptCheck(k, j, w) ==
    /\ accept[k, j, w].pc = "idle"
    /\ Available(j)
    /\ app[j, w] = "none"
    /\ accept' = [accept EXCEPT ![<<k, j, w>>].pc = "checked"]
    /\ UNCHANGED <<funded, sent, status, app, complete>>

\* The transaction inserts the row and counts the accepted applications: the
\* committed ones and its own.  The unique (job, worker) index makes a second
\* insert wait for the transaction that inserted first.
AcceptInsert(k, j, w) ==
    /\ accept[k, j, w].pc = "checked"
    /\ app[j, w] = "none"
    /\ \A l \in AcceptClicks : accept[l, j, w].pc # "inserted"
    /\ accept' = [accept EXCEPT ![<<k, j, w>>] = [pc |-> "inserted", fill |-> Fills(j, w)]]
    /\ UNCHANGED <<funded, sent, status, app, complete>>

\* The insert finds a committed row: IntegrityError, the request ends in a 500.
AcceptConflict(k, j, w) ==
    /\ accept[k, j, w].pc = "checked"
    /\ app[j, w] # "none"
    /\ accept' = [accept EXCEPT ![<<k, j, w>>].pc = "done"]
    /\ UNCHANGED <<funded, sent, status, app, complete>>

\* The commit.  The status is written from the count taken before it, over
\* whatever the job's status has become.
AcceptCommit(k, j, w) ==
    /\ accept[k, j, w].pc = "inserted"
    /\ app' = [app EXCEPT ![<<j, w>>] = "accepted"]
    /\ status' = IF accept[k, j, w].fill
                 THEN [status EXCEPT ![j] = WhenFilled]
                 ELSE status
    /\ accept' = [accept EXCEPT ![<<k, j, w>>].pc = "done"]
    /\ UNCHANGED <<funded, sent, complete>>

-----------------------------------------------------------------------------
(* JobCompleteView *)

\* Mutant of Chosen: the filter on the application status is missing.
ChosenUnfiltered(k, j) == complete[k, j].only

\* The queryset of the request, evaluated anew each time it is used.
Chosen(k, j) == complete[k, j].only \cap Accepted(j)

\* Mutant of AfterExists: the exists() check is missing.
AfterExistsUnchecked(k, j) == "found"

\* With nobody to complete, the request answers an error.
AfterExists(k, j) == IF Chosen(k, j) = {} THEN "done" ELSE "found"

\* The view reads the job's status.  The employer names one worker or none;
\* "only" is the set of workers the request is about.
CompleteCheck(k, j, only) ==
    /\ complete[k, j].pc = "idle"
    /\ status[j] \in {"open", "in_progress"}
    /\ complete' = [complete EXCEPT ![<<k, j>>] = [@ EXCEPT !.pc = "checked", !.only = only]]
    /\ UNCHANGED <<funded, sent, status, app, accept>>

\* The transaction asks whether there is anybody to complete.
CompleteExists(k, j) ==
    /\ complete[k, j].pc = "checked"
    /\ complete' = [complete EXCEPT ![<<k, j>>].pc = AfterExists(k, j)]
    /\ UNCHANGED <<funded, sent, status, app, accept>>

\* Then it captures their ids, which may be fewer or more by now.
CompleteCapture(k, j) ==
    /\ complete[k, j].pc = "found"
    /\ complete' = [complete EXCEPT ![<<k, j>>] =
                      [@ EXCEPT !.pc = "captured", !.ids = Chosen(k, j)]]
    /\ UNCHANGED <<funded, sent, status, app, accept>>

\* The UPDATE ... WHERE status = 'accepted' is evaluated anew, after the ids
\* were captured.  It waits while another completion holds a row it wants.
CompleteUpdate(k, j) ==
    /\ complete[k, j].pc = "captured"
    /\ \A l \in CompleteClicks :
          complete[l, j].pc = "updated" => complete[l, j].hit \cap Chosen(k, j) = {}
    /\ complete' = [complete EXCEPT ![<<k, j>>] =
                      [@ EXCEPT !.pc = "updated", !.hit = Chosen(k, j)]]
    /\ UNCHANGED <<funded, sent, status, app, accept>>

\* The job row is saved, one release task per captured id is sent, and the
\* transaction commits.
CompleteCommit(k, j) ==
    /\ complete[k, j].pc = "updated"
    /\ app' = [a \in Jobs \X Workers |->
                 IF a[1] = j /\ a[2] \in complete[k, j].hit THEN "completed" ELSE app[a]]
    /\ status' = [status EXCEPT ![j] = "completed"]
    /\ sent' = sent \cup ({k} \X {j} \X complete[k, j].ids)
    /\ complete' = [complete EXCEPT ![<<k, j>>].pc = "done"]
    /\ UNCHANGED <<funded, accept>>

\* The release tasks are sent inside the transaction.  When the broker or the
\* commit fails the database rolls back, and the tasks already sent stay sent.
CompleteRollback(k, j) ==
    /\ Faults
    /\ complete[k, j].pc = "updated"
    /\ \E S \in SUBSET complete[k, j].ids :
          sent' = sent \cup ({k} \X {j} \X S)
    /\ complete' = [complete EXCEPT ![<<k, j>>].pc = "done"]
    /\ UNCHANGED <<funded, status, app, accept>>

-----------------------------------------------------------------------------
\* What the requests do, and what the money side may do to a job: fund it.
JobStep ==
    \/ \E k \in AcceptClicks, j \in Jobs, w \in Workers :
          \/ AcceptCheck(k, j, w)    \/ AcceptInsert(k, j, w)
          \/ AcceptConflict(k, j, w) \/ AcceptCommit(k, j, w)
    \/ \E k \in CompleteClicks, j \in Jobs :
          \/ \E only \in {Workers} \cup {{w} : w \in Workers} : CompleteCheck(k, j, only)
          \/ CompleteExists(k, j) \/ CompleteCapture(k, j) \/ CompleteUpdate(k, j)
          \/ CompleteCommit(k, j) \/ CompleteRollback(k, j)

JobEnvironment ==
    /\ \E j \in Jobs : funded' = [funded EXCEPT ![j] = TRUE]
    /\ UNCHANGED <<sent, jobPrivate>>

JobNext == JobStep \/ JobEnvironment
JobSpec == JobInit /\ [][JobNext]_jobVars

-----------------------------------------------------------------------------
JobTypeOK ==
    /\ funded \in [Jobs -> BOOLEAN]
    /\ sent \subseteq Tasks
    /\ status \in [Jobs -> {"open", "in_progress", "completed"}]
    /\ app \in [Jobs \X Workers -> {"none", "accepted", "completed"}]
    /\ accept \in [AcceptRequests ->
                     [pc : {"idle", "checked", "inserted", "done"}, fill : BOOLEAN]]
    /\ complete \in [CompleteRequests -> Completions]

\* Nobody is taken on for a job whose escrow is not funded, although the flag
\* is read long before the application is written (JobAcceptView 139, 147).
FundedBeforeAccepted == \A j \in Jobs : Applied(j) # {} => funded[j]

\* A job in progress has as many applications as it asked for, whatever was
\* committed between the count and the write of the status (154-159).
InProgressMeansStaffed ==
    \A j \in Jobs : status[j] = "in_progress" => Cardinality(Applied(j)) >= Needed[j]

\* A completed job has a worker whose application is completed: no two
\* completions that race leave a closed job that nobody is credited with
\* (JobCompleteView 216-230).
CompletedJobHasWorker ==
    \A j \in Jobs : status[j] = "completed" => \E w \in Workers : app[j, w] = "completed"

\* A release task names a worker who did accept that job (220-235).
ReleaseOnlyForAccepted == \A t \in sent : app[t[2], t[3]] # "none"
=============================================================================
