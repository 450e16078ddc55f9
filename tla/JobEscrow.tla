----------------------------- MODULE JobEscrow ------------------------------
(***************************************************************************)
(* The job lifecycle and the escrow pool together.  They share only the    *)
(* escrow_funded flag, which the money side sets, and the queue of release *)
(* tasks, which completion requests fill: a step of one part is a step of  *)
(* the other part's environment.                                           *)
(***************************************************************************)
EXTENDS JobLifecycle, EscrowPool, FiniteSetsExt

vars == <<funded, sent, jobPrivate, poolPrivate>>

Init == JobInit /\ PoolInit

Next ==
    \/ JobStep  /\ UNCHANGED poolPrivate
    \/ PoolStep /\ UNCHANGED jobPrivate

Spec == Init /\ [][Next]_vars

\* gunicorn finishes the requests it started, the Celery workers run the release
\* tasks that are queued, and PostgreSQL breaks a deadlock.  Nobody has to send
\* a request or a transfer.
Fairness ==
    /\ \A r \in FundRequests : WF_vars(FundStep(r) /\ UNCHANGED jobPrivate)
    /\ \A p \in Payments : WF_vars(MatchStep(p) /\ UNCHANGED jobPrivate)
    /\ \A r \in FundRequests, p \in Payments :
          WF_vars(BreakDeadlock(r, p) /\ UNCHANGED jobPrivate)
    /\ \A t \in Tasks : WF_vars(ReleaseStep(t) /\ UNCHANGED jobPrivate)

FairSpec == Spec /\ Fairness

-----------------------------------------------------------------------------
\* Escrow is paid only to a worker who accepted the job, and only out of a job
\* that was funded: the release task itself checks neither.
PaidWorkerWasAccepted ==
    \A t \in Tasks : paid[t] > 0 => app[t[2], t[3]] # "none" /\ funded[t[2]]

\* No release ever finds the pool short: what the employer holds in escrow
\* covers every release task that has not paid yet.
EscrowCoversReleases ==
    \A e \in Employers :
        escrow[e] >= MapThenSumSet(LAMBDA t : Pay[t[2]],
                                   {t \in sent : Owner[t[2]] = e /\ paid[t] = 0})

-----------------------------------------------------------------------------
(* The promise *)

Due     == {<<t[2], t[3]>> : t \in sent}
Payouts == UNION {{<<t[2], t[3], <<t[1], n>>>> : n \in 1..paid[t]} : t \in Tasks}

Promise == INSTANCE EscrowPromise WITH
             Ids <- CompleteClicks \X (1 .. MaxRetries + 1), due <- Due, payouts <- Payouts

\* An employer who confirms a job once, on a platform where nothing fails in
\* the middle, gets what escrow promises: every worker of the completion is
\* paid, and paid once, whatever the release tasks do beside each other.
KeepsPromise == Promise!Spec

\* README.md:66: on release 95% of the pay goes to the worker's account.  What
\* a worker is credited for a job is that or nothing.
NetPaidOnce ==
    \A j \in Jobs, w \in Workers :
        MapThenSumSet(LAMBDA t : paid[t] * Net(j), {t \in Tasks : t[2] = j /\ t[3] = w})
          \in {0, Net(j)}
=============================================================================
