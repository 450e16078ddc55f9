--------------------------- MODULE JobEscrowState ---------------------------
(***************************************************************************)
(* What the job lifecycle (JobLifecycle) and the money behind it           *)
(* (EscrowPool) have in common: the jobs with their immutable fields, the  *)
(* "escrow_funded" flag that the money side sets and the lifecycle reads,  *)
(* and the Celery queue of release tasks, which the lifecycle fills and    *)
(* the money side empties.                                                 *)
(***************************************************************************)
EXTENDS Naturals, FiniteSets

CONSTANTS
    Jobs,            \* the posted jobs
    Employers,       \* the employers, each with one wallet
    Workers,         \* the workers, each with one wallet
    Owner,           \* Owner[j]: the employer of job j
    Needed,          \* Needed[j]: Job.workers_needed
    Pay,             \* Pay[j]: Job.pay_per_worker, in kobo
    CompleteClicks,  \* the completion requests an employer may send per job
    Faults           \* TRUE: the broker, a worker process or the database may
                     \* fail in the middle of a request or a task

ASSUME WorkersAssumption  == IsFiniteSet(Workers)
ASSUME OwnerAssumption    == Owner \in [Jobs -> Employers]
ASSUME NeededAssumption   == Needed \in [Jobs -> Nat]
ASSUME PayAssumption      == Pay \in [Jobs -> Nat]
ASSUME FaultsAssumption   == Faults \in BOOLEAN

VARIABLES
    funded,  \* funded[j]: Job.escrow_funded
    sent     \* the release tasks ever put on the queue

\* One release_escrow_for_job.delay(job, worker): the request that sent it,
\* the job and the worker.
Tasks == CompleteClicks \X Jobs \X Workers
=============================================================================
