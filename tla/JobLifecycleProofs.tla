------------------------- MODULE JobLifecycleProofs -------------------------
(***************************************************************************)
(* Proofs about JobLifecycle: its invariants hold for any number of jobs,  *)
(* workers and requests, with or without faults, and only acceptances that *)
(* overlap can overfill a job.  And about JobBoard: the feed shows a       *)
(* worker the best jobs, however many there are.                           *)
(***************************************************************************)
EXTENDS JobLifecycle, JobBoard, FiniteSetTheorems, SequenceTheorems, TLAPS

\* What a request that is under way knows about the database.

\* A request that passed the check of the job goes on for a funded job.
CheckedIsFunded ==
    \A k \in AcceptClicks, j \in Jobs, w \in Workers :
        accept[k, j, w].pc \in {"checked", "inserted"} => funded[j]

Inserting(k, j, w) == accept[k, j, w].pc = "inserted"

\* An inserted row is the only one of its worker and job.
InsertedAlone ==
    \A k \in AcceptClicks, l \in AcceptClicks, j \in Jobs, w \in Workers :
        Inserting(k, j, w) => app[j, w] = "none" /\ (Inserting(l, j, w) => l = k)

\* A transaction that will set the job's status still has the applications it
\* counted.
InsertedCounts ==
    \A k \in AcceptClicks, j \in Jobs, w \in Workers :
        accept[k, j, w].pc = "inserted" /\ accept[k, j, w].fill =>
            Cardinality(Applied(j) \cup {w}) >= Needed[j]

\* A completion that goes on is about a worker who applied to the job.
FoundApplied ==
    \A k \in CompleteClicks, j \in Jobs :
        complete[k, j].pc \in {"found", "captured", "updated"} =>
            complete[k, j].only \cap Applied(j) # {}

\* The ids a completion captured are of applications to the job.
CapturedApplied ==
    \A k \in CompleteClicks, j \in Jobs :
        complete[k, j].pc \in {"captured", "updated"} =>
            complete[k, j].ids \subseteq Applied(j)

\* After its UPDATE, a worker is completed by this completion or was by an
\* earlier one.
UpdatedCompletes ==
    \A k \in CompleteClicks, j \in Jobs :
        complete[k, j].pc = "updated" =>
            /\ complete[k, j].hit \subseteq Applied(j)
            /\ \E w \in complete[k, j].only :
                  w \in complete[k, j].hit \/ app[j, w] = "completed"

JobInv ==
    /\ JobTypeOK
    /\ CheckedIsFunded   /\ InsertedAlone  /\ InsertedCounts
    /\ FoundApplied      /\ CapturedApplied /\ UpdatedCompletes
    /\ FundedBeforeAccepted
    /\ InProgressMeansStaffed
    /\ CompletedJobHasWorker
    /\ ReleaseOnlyForAccepted

-----------------------------------------------------------------------------
(* Sets of workers are finite *)

\* A larger set of workers satisfies a demand that a smaller one satisfies.
LEMMA MoreWorkers ==
  ASSUME NEW S \in SUBSET Workers, NEW T \in SUBSET Workers, S \subseteq T,
         NEW n \in Nat, Cardinality(S) >= n
  PROVE  Cardinality(T) >= n
<1>1. IsFiniteSet(T)
  BY WorkersAssumption, FS_Subset
<1>2. IsFiniteSet(S) /\ Cardinality(S) <= Cardinality(T)
  BY <1>1, FS_Subset
<1>3. Cardinality(S) \in Nat /\ Cardinality(T) \in Nat
  BY <1>1, <1>2, FS_CardinalityType
<1> QED
  BY <1>2, <1>3

-----------------------------------------------------------------------------
(* Types *)

LEMMA JobTypeInit == JobInit => JobTypeOK
  BY DEF JobInit, JobTypeOK, AcceptRequests, CompleteRequests, Completions, Tasks

LEMMA JobTypeStep == JobTypeOK /\ [JobNext]_jobVars => JobTypeOK'
<1> SUFFICES ASSUME JobTypeOK, [JobNext]_jobVars PROVE JobTypeOK'
  OBVIOUS
<1> USE DEF JobTypeOK, AcceptRequests, CompleteRequests
<1>1. CASE UNCHANGED jobVars
  BY <1>1 DEF jobVars
<1>2. CASE JobEnvironment
  BY <1>2 DEF JobEnvironment, jobPrivate
<1>3. ASSUME NEW k \in AcceptClicks, NEW j \in Jobs, NEW w \in Workers,
             \/ AcceptCheck(k, j, w)    \/ AcceptInsert(k, j, w)
             \/ AcceptConflict(k, j, w) \/ AcceptCommit(k, j, w)
      PROVE  JobTypeOK'
  <2>1. CASE AcceptCheck(k, j, w)
    BY <2>1 DEF AcceptCheck
  <2>2. CASE AcceptInsert(k, j, w)
    <3>1. Fills(j, w) \in BOOLEAN
      BY DEF Fills
    <3> QED
      BY <2>2, <3>1 DEF AcceptInsert
  <2>3. CASE AcceptConflict(k, j, w)
    BY <2>3 DEF AcceptConflict
  <2>4. CASE AcceptCommit(k, j, w)
    BY <2>4 DEF AcceptCommit, WhenFilled
  <2> QED
    BY <1>3, <2>1, <2>2, <2>3, <2>4
<1>4. ASSUME NEW k \in CompleteClicks, NEW j \in Jobs, NEW only \in SUBSET Workers,
             CompleteCheck(k, j, only)
      PROVE  JobTypeOK'
  <2>1. complete[k, j] \in Completions
    OBVIOUS
  <2>2. [complete[k, j] EXCEPT !.pc = "checked", !.only = only] \in Completions
    BY <2>1 DEF Completions
  <2> QED
    BY <1>4, <2>2 DEF CompleteCheck
<1>5. ASSUME NEW k \in CompleteClicks, NEW j \in Jobs,
             \/ CompleteExists(k, j) \/ CompleteCapture(k, j) \/ CompleteUpdate(k, j)
             \/ CompleteCommit(k, j) \/ CompleteRollback(k, j)
      PROVE  JobTypeOK'
  <2> DEFINE ids == Chosen(k, j)
  <2>1. complete[k, j] \in Completions
    OBVIOUS
  <2>2. ids \in SUBSET Workers /\ AfterExists(k, j) \in {"done", "found"}
    BY DEF Chosen, Accepted, AfterExists
  <2>3. [complete[k, j] EXCEPT !.pc = "done"] \in Completions
    BY <2>1 DEF Completions
  <2> HIDE DEF ids
  <2>4. CASE CompleteCapture(k, j)
    <3>1. [complete[k, j] EXCEPT !.pc = "captured", !.ids = ids] \in Completions
      BY <2>1, <2>2 DEF Completions
    <3> QED
      BY <2>4, <3>1 DEF CompleteCapture, ids
  <2>5. CASE CompleteUpdate(k, j)
    <3>1. [complete[k, j] EXCEPT !.pc = "updated", !.hit = ids] \in Completions
      BY <2>1, <2>2 DEF Completions
    <3> QED
      BY <2>5, <3>1 DEF CompleteUpdate, ids
  <2>6. CASE CompleteCommit(k, j)
    <3>1. {k} \X {j} \X complete[k, j].ids \subseteq Tasks
      BY <2>1 DEF Tasks, Completions
    <3>2. sent' \subseteq Tasks /\ status' \in [Jobs -> {"open", "in_progress", "completed"}]
      BY <2>6, <3>1 DEF CompleteCommit
    <3>3. app' \in [Jobs \X Workers -> {"none", "accepted", "completed"}]
      BY <2>6 DEF CompleteCommit
    <3>4. complete' \in [CompleteRequests -> Completions]
      BY <2>6, <2>3 DEF CompleteCommit
    <3> QED
      BY <2>6, <3>2, <3>3, <3>4 DEF CompleteCommit
  <2>7. CASE CompleteRollback(k, j)
    <3>1. PICK S \in SUBSET complete[k, j].ids : sent' = sent \cup ({k} \X {j} \X S)
      BY <2>7 DEF CompleteRollback
    <3>2. {k} \X {j} \X S \subseteq Tasks
      BY <2>1 DEF Tasks, Completions
    <3>3. complete' \in [CompleteRequests -> Completions]
      BY <2>7, <2>3 DEF CompleteRollback
    <3> QED
      BY <2>7, <3>1, <3>2, <3>3 DEF CompleteRollback
  <2>8. CASE CompleteExists(k, j)
    <3>1. [complete[k, j] EXCEPT !.pc = AfterExists(k, j)] \in Completions
      BY <2>1, <2>2 DEF Completions
    <3> QED
      BY <2>8, <3>1 DEF CompleteExists
  <2> QED
    BY <1>5, <2>4, <2>5, <2>6, <2>7, <2>8
<1> QED
  BY <1>1, <1>2, <1>3, <1>4, <1>5 DEF JobNext, JobStep

-----------------------------------------------------------------------------
(* Invariants *)

LEMMA JobInvInit == JobInit => JobInv
<1> SUFFICES ASSUME JobInit PROVE JobInv
  OBVIOUS
<1>1. JobTypeOK
  BY JobTypeInit
<1>2. CheckedIsFunded /\ InsertedAlone /\ InsertedCounts
  BY DEF JobInit, CheckedIsFunded, Inserting, InsertedAlone, InsertedCounts, AcceptRequests
<1>3. FoundApplied /\ CapturedApplied /\ UpdatedCompletes
  BY DEF JobInit, FoundApplied, CapturedApplied, UpdatedCompletes, CompleteRequests
<1>4. FundedBeforeAccepted /\ InProgressMeansStaffed /\ CompletedJobHasWorker
  BY DEF JobInit, FundedBeforeAccepted, InProgressMeansStaffed, CompletedJobHasWorker, Applied
<1>5. ReleaseOnlyForAccepted
  BY DEF JobInit, ReleaseOnlyForAccepted
<1> QED
  BY <1>1, <1>2, <1>3, <1>4, <1>5 DEF JobInv

\* An application stays, and a completed one stays completed.
ApplicationsKept ==
    \A j \in Jobs, w \in Workers :
        /\ app[j, w] # "none" => app'[j, w] # "none"
        /\ app[j, w] = "completed" => app'[j, w] = "completed"

LEMMA ApplicationsStay == JobInv /\ [JobNext]_jobVars => ApplicationsKept
<1> SUFFICES ASSUME JobInv, [JobNext]_jobVars,
                    NEW j \in Jobs, NEW w \in Workers
             PROVE  /\ app[j, w] # "none" => app'[j, w] # "none"
                    /\ app[j, w] = "completed" => app'[j, w] = "completed"
  BY DEF ApplicationsKept
<1>1. CASE app' = app
  BY <1>1
<1>2. ASSUME NEW k \in AcceptClicks, NEW i \in Jobs, NEW v \in Workers,
             \/ AcceptCheck(k, i, v)    \/ AcceptInsert(k, i, v)
             \/ AcceptConflict(k, i, v) \/ AcceptCommit(k, i, v)
      PROVE  \/ app' = app
             \/ app[i, v] = "none" /\ app' = [app EXCEPT ![<<i, v>>] = "accepted"]
  <2>1. CASE AcceptCommit(k, i, v)
    BY <2>1 DEF AcceptCommit, JobInv, Inserting, InsertedAlone
  <2> QED
    BY <1>2, <2>1 DEF AcceptCheck, AcceptInsert, AcceptConflict
<1>3. ASSUME NEW k \in CompleteClicks, NEW i \in Jobs, CompleteCommit(k, i)
      PROVE  /\ app[j, w] # "none" => app'[j, w] # "none"
             /\ app[j, w] = "completed" => app'[j, w] = "completed"
  BY <1>3 DEF CompleteCommit, JobInv, JobTypeOK
<1>4. ASSUME NEW k \in CompleteClicks, NEW i \in Jobs,
             \/ \E only \in {Workers} \cup {{v} : v \in Workers} : CompleteCheck(k, i, only)
             \/ CompleteExists(k, i) \/ CompleteCapture(k, i)
             \/ CompleteUpdate(k, i) \/ CompleteRollback(k, i)
      PROVE  app' = app
  BY <1>4 DEF CompleteCheck, CompleteExists, CompleteCapture, CompleteUpdate, CompleteRollback
<1>5. ASSUME JobEnvironment \/ UNCHANGED jobVars
      PROVE  app' = app
  BY <1>5 DEF JobEnvironment, jobVars, jobPrivate
<1>6. ASSUME NEW i \in Jobs, NEW v \in Workers, app[i, v] = "none",
             app' = [app EXCEPT ![<<i, v>>] = "accepted"]
      PROVE  /\ app[j, w] # "none" => app'[j, w] # "none"
             /\ app[j, w] = "completed" => app'[j, w] = "completed"
  BY <1>6 DEF JobInv, JobTypeOK
<1> QED
  BY <1>1, <1>2, <1>3, <1>4, <1>5, <1>6 DEF JobNext, JobStep

\* What a step leaves alone keeps the invariants that speak of it.

LEMMA CompletionsFrame ==
  ASSUME JobInv, ApplicationsKept, UNCHANGED complete
  PROVE  FoundApplied' /\ CapturedApplied' /\ UpdatedCompletes'
<1>1. \A j \in Jobs : Applied(j) \subseteq Applied(j)'
  BY DEF ApplicationsKept, Applied
<1>2. complete \in [CompleteRequests -> Completions]
  BY DEF JobInv, JobTypeOK
<1>3. FoundApplied' /\ CapturedApplied'
  BY <1>1 DEF JobInv, FoundApplied, CapturedApplied
<1>4. UpdatedCompletes'
  BY <1>1, <1>2 DEF JobInv, UpdatedCompletes, ApplicationsKept, CompleteRequests, Completions
<1> QED
  BY <1>3, <1>4

LEMMA ReleasesFrame ==
  ASSUME JobInv, ApplicationsKept, UNCHANGED sent
  PROVE  ReleaseOnlyForAccepted'
BY DEF JobInv, JobTypeOK, ReleaseOnlyForAccepted, ApplicationsKept, Tasks

LEMMA StatusFrame ==
  ASSUME JobInv, JobTypeOK', ApplicationsKept, UNCHANGED status
  PROVE  InProgressMeansStaffed' /\ CompletedJobHasWorker'
<1>1. \A j \in Jobs : Applied(j) \subseteq Applied(j)'
  BY DEF ApplicationsKept, Applied
<1>2. InProgressMeansStaffed'
  <2> SUFFICES ASSUME NEW j \in Jobs, status[j] = "in_progress"
               PROVE  Cardinality(Applied(j)') >= Needed[j]
    BY DEF InProgressMeansStaffed
  <2>1. Cardinality(Applied(j)) >= Needed[j] /\ Needed[j] \in Nat
    BY NeededAssumption DEF JobInv, InProgressMeansStaffed
  <2>2. Applied(j) \in SUBSET Workers /\ Applied(j)' \in SUBSET Workers
    BY DEF Applied
  <2> QED
    BY <1>1, <2>1, <2>2, MoreWorkers
<1>3. CompletedJobHasWorker'
  BY DEF JobInv, CompletedJobHasWorker, ApplicationsKept
<1> QED
  BY <1>2, <1>3

LEMMA AcceptsFrame ==
  ASSUME JobInv, UNCHANGED <<app, accept>>, \A j \in Jobs : funded[j] => funded'[j]
  PROVE  CheckedIsFunded' /\ InsertedAlone' /\ InsertedCounts' /\ FundedBeforeAccepted'
<1>1. \A j \in Jobs : Applied(j)' = Applied(j)
  BY DEF Applied
<1>2. CheckedIsFunded' /\ InsertedAlone' /\ FundedBeforeAccepted'
  BY <1>1 DEF JobInv, CheckedIsFunded, Inserting, InsertedAlone, FundedBeforeAccepted
<1>3. InsertedCounts'
  BY <1>1 DEF JobInv, InsertedCounts
<1> QED
  BY <1>2, <1>3

-----------------------------------------------------------------------------
(* Each step keeps the invariant *)

\* The acceptances write the application, so all that speaks of it is shown.
LEMMA AcceptStep ==
  ASSUME JobInv, JobTypeOK', ApplicationsKept,
         NEW k \in AcceptClicks, NEW j \in Jobs, NEW w \in Workers,
         \/ AcceptCheck(k, j, w)    \/ AcceptInsert(k, j, w)
         \/ AcceptConflict(k, j, w) \/ AcceptCommit(k, j, w)
  PROVE  JobInv'
<1> USE DEF AcceptRequests
<1>t. /\ accept \in [AcceptRequests ->
                      [pc : {"idle", "checked", "inserted", "done"}, fill : BOOLEAN]]
      /\ app \in [Jobs \X Workers -> {"none", "accepted", "completed"}]
      /\ status \in [Jobs -> {"open", "in_progress", "completed"}]
  BY DEF JobInv, JobTypeOK
<1>a. InsertedAlone /\ InsertedCounts
  BY DEF JobInv
<1>1. UNCHANGED <<funded, sent, complete>>
  BY DEF AcceptCheck, AcceptInsert, AcceptConflict, AcceptCommit
<1>2. FoundApplied' /\ CapturedApplied' /\ UpdatedCompletes' /\ ReleaseOnlyForAccepted'
  BY <1>1, CompletionsFrame, ReleasesFrame
<1>3. CheckedIsFunded'
  BY <1>1, <1>t DEF JobInv, CheckedIsFunded, AcceptCheck, AcceptInsert, AcceptConflict,
     AcceptCommit, Available
\* The record of this request is the only one that changes.
<1>r. \A l \in AcceptClicks, i \in Jobs, v \in Workers :
        ~(l = k /\ i = j /\ v = w) => accept'[l, i, v] = accept[l, i, v]
  BY <1>t DEF AcceptCheck, AcceptInsert, AcceptConflict, AcceptCommit
<1>s. ~AcceptInsert(k, j, w) => accept'[k, j, w].pc # "inserted"
  BY <1>t DEF AcceptCheck, AcceptConflict, AcceptCommit
<1>i. AcceptInsert(k, j, w) => app[j, w] = "none" /\ \A l \in AcceptClicks : ~Inserting(l, j, w)
  BY DEF AcceptInsert, Inserting
<1>f. ASSUME AcceptInsert(k, j, w)
      PROVE  accept'[k, j, w].fill => Fills(j, w)
  <2>1. PICK fill \in BOOLEAN : /\ fill <=> Fills(j, w)
                                /\ accept' = [accept EXCEPT ![<<k, j, w>>] =
                                               [pc |-> "inserted", fill |-> fill]]
    <3>1. Fills(j, w) \in BOOLEAN
      BY DEF Fills
    <3> QED
      BY Zenon, <1>f, <3>1 DEF AcceptInsert
  <2> QED
    BY <1>t, <2>1
<1>n. \A l \in AcceptClicks, i \in Jobs, v \in Workers :
        Inserting(l, i, v)' =>
          \/ Inserting(l, i, v) /\ ~(l = k /\ i = j /\ v = w)
          \/ AcceptInsert(k, j, w) /\ l = k /\ i = j /\ v = w
  BY <1>r, <1>s DEF Inserting
<1>4. CASE UNCHANGED <<app, status>>
  <2>1. InProgressMeansStaffed' /\ CompletedJobHasWorker'
    BY <1>4, StatusFrame
  <2>2. \A i \in Jobs : Applied(i)' = Applied(i) /\ Accepted(i) \subseteq Applied(i)
    BY <1>4 DEF Applied, Accepted
  <2>3. FundedBeforeAccepted'
    BY <1>1, <2>2 DEF JobInv, FundedBeforeAccepted
  <2>4. InsertedAlone'
    <3> SUFFICES ASSUME NEW l \in AcceptClicks, NEW m \in AcceptClicks,
                        NEW i \in Jobs, NEW v \in Workers, Inserting(l, i, v)'
                 PROVE  app[i, v] = "none" /\ (Inserting(m, i, v)' => m = l)
      BY <1>4 DEF InsertedAlone
    <3>1. CASE Inserting(l, i, v)
      <4>1. app[i, v] = "none" /\ \A n \in AcceptClicks : Inserting(n, i, v) => n = l
        BY <1>a, <3>1 DEF InsertedAlone
      <4>2. ~(AcceptInsert(k, j, w) /\ i = j /\ v = w)
        BY <1>i, <3>1
      <4> QED
        BY <1>n, <4>1, <4>2
    <3>2. CASE ~Inserting(l, i, v)
      BY <1>i, <1>n, <3>2
    <3> QED
      BY <3>1, <3>2
  <2>5. InsertedCounts'
    <3> SUFFICES ASSUME NEW l \in AcceptClicks, NEW i \in Jobs, NEW v \in Workers,
                        accept'[l, i, v].pc = "inserted", accept'[l, i, v].fill
                 PROVE  Cardinality(Applied(i)' \cup {v}) >= Needed[i]
      BY DEF InsertedCounts
    <3>1. CASE accept'[l, i, v] = accept[l, i, v]
      BY <2>2, <3>1 DEF JobInv, InsertedCounts
    <3>2. CASE accept'[l, i, v] # accept[l, i, v]
      <4>1. i = j /\ v = w /\ Fills(j, w)
        BY <1>r, <1>s, <1>f, <3>2
      <4>2. /\ Accepted(j) \cup {w} \in SUBSET Workers
            /\ Applied(j) \cup {w} \in SUBSET Workers
            /\ Accepted(j) \cup {w} \subseteq Applied(j) \cup {w}
        BY <2>2 DEF Applied, Accepted
      <4>3. Cardinality(Accepted(j) \cup {w}) >= Needed[j]
        BY <4>1 DEF Fills
      <4>4. Cardinality(Applied(j) \cup {w}) >= Needed[j]
        BY <4>2, <4>3, MoreWorkers, NeededAssumption
      <4> QED
        BY <2>2, <4>1, <4>4
    <3> QED
      BY <3>1, <3>2
  <2> QED
    BY <1>2, <1>3, <2>1, <2>3, <2>4, <2>5 DEF JobInv
<1>5. CASE AcceptCommit(k, j, w)
  <2>1. /\ accept[k, j, w].pc = "inserted"
        /\ app' = [app EXCEPT ![<<j, w>>] = "accepted"]
        /\ status' = IF accept[k, j, w].fill THEN [status EXCEPT ![j] = "in_progress"] ELSE status
        /\ accept' = [accept EXCEPT ![<<k, j, w>>].pc = "done"]
    BY <1>5 DEF AcceptCommit, WhenFilled
  <2>2. \A i \in Jobs : Applied(i)' = IF i = j THEN Applied(i) \cup {w} ELSE Applied(i)
    BY <1>t, <2>1 DEF Applied
  <2>3. FundedBeforeAccepted'
    BY <1>1, <2>1, <2>2 DEF JobInv, FundedBeforeAccepted, CheckedIsFunded
  <2>4. InProgressMeansStaffed'
    <3> SUFFICES ASSUME NEW i \in Jobs, status'[i] = "in_progress"
                 PROVE  Cardinality(Applied(i)') >= Needed[i]
      BY DEF InProgressMeansStaffed
    <3>1. CASE i = j /\ accept[k, j, w].fill
      BY <2>1, <2>2, <3>1 DEF JobInv, InsertedCounts
    <3>2. CASE ~(i = j /\ accept[k, j, w].fill)
      <4>1. Cardinality(Applied(i)) >= Needed[i] /\ Needed[i] \in Nat
        BY <1>t, <2>1, <3>2, NeededAssumption DEF JobInv, InProgressMeansStaffed
      <4>2. /\ Applied(i) \in SUBSET Workers /\ Applied(i)' \in SUBSET Workers
            /\ Applied(i) \subseteq Applied(i)'
        BY <2>2 DEF Applied
      <4> QED
        BY <4>1, <4>2, MoreWorkers
    <3> QED
      BY <3>1, <3>2
  <2>5. CompletedJobHasWorker'
    <3> SUFFICES ASSUME NEW i \in Jobs, status'[i] = "completed"
                 PROVE  \E v \in Workers : app'[i, v] = "completed"
      BY DEF CompletedJobHasWorker
    <3>1. status[i] = "completed"
      BY <1>t, <2>1
    <3> QED
      BY <3>1 DEF JobInv, CompletedJobHasWorker, ApplicationsKept
  <2>6. ~AcceptInsert(k, j, w) /\ \A m \in AcceptClicks : Inserting(m, j, w) => m = k
    BY <1>a, <2>1 DEF InsertedAlone, Inserting, AcceptInsert
  <2>7. InsertedAlone'
    <3> SUFFICES ASSUME NEW l \in AcceptClicks, NEW m \in AcceptClicks,
                        NEW i \in Jobs, NEW v \in Workers, Inserting(l, i, v)'
                 PROVE  app'[i, v] = "none" /\ (Inserting(m, i, v)' => m = l)
      BY DEF InsertedAlone
    <3>1. Inserting(l, i, v) /\ (i # j \/ v # w)
      BY <1>n, <2>6
    <3>2. app'[i, v] = app[i, v]
      BY <1>t, <2>1, <3>1
    <3>3. \A n \in AcceptClicks : Inserting(n, i, v)' => Inserting(n, i, v)
      BY <1>n, <2>6
    <3>4. app[i, v] = "none" /\ \A n \in AcceptClicks : Inserting(n, i, v) => n = l
      BY <1>a, <3>1 DEF InsertedAlone
    <3> QED
      BY <3>2, <3>3, <3>4
  <2>8. InsertedCounts'
    <3> SUFFICES ASSUME NEW l \in AcceptClicks, NEW i \in Jobs, NEW v \in Workers,
                        accept'[l, i, v].pc = "inserted", accept'[l, i, v].fill
                 PROVE  Cardinality(Applied(i)' \cup {v}) >= Needed[i]
      BY DEF InsertedCounts
    <3>1. accept'[l, i, v] = accept[l, i, v]
      BY <1>n, <1>r, <2>6 DEF Inserting
    <3>2. Cardinality(Applied(i) \cup {v}) >= Needed[i] /\ Needed[i] \in Nat
      BY <1>a, <3>1, NeededAssumption DEF InsertedCounts
    <3>3. /\ Applied(i) \cup {v} \in SUBSET Workers /\ Applied(i)' \cup {v} \in SUBSET Workers
          /\ Applied(i) \cup {v} \subseteq Applied(i)' \cup {v}
      BY <2>2 DEF Applied
    <3> QED
      BY <3>2, <3>3, MoreWorkers
  <2> QED
    BY <1>2, <1>3, <2>3, <2>4, <2>5, <2>7, <2>8 DEF JobInv
<1> QED
  BY <1>4, <1>5 DEF AcceptCheck, AcceptInsert, AcceptConflict

\* The completions, up to the commit, read the applications.
LEMMA CompleteStep ==
  ASSUME JobInv, JobTypeOK', ApplicationsKept,
         NEW k \in CompleteClicks, NEW j \in Jobs,
         \/ \E only \in {Workers} \cup {{w} : w \in Workers} : CompleteCheck(k, j, only)
         \/ CompleteExists(k, j) \/ CompleteCapture(k, j) \/ CompleteUpdate(k, j)
         \/ CompleteCommit(k, j) \/ CompleteRollback(k, j)
  PROVE  JobInv'
<1> USE DEF CompleteRequests
<1>t. /\ complete \in [CompleteRequests -> Completions]
      /\ app \in [Jobs \X Workers -> {"none", "accepted", "completed"}]
      /\ complete[k, j] \in Completions
  BY DEF JobInv, JobTypeOK
<1>a. FoundApplied /\ CapturedApplied /\ UpdatedCompletes
  BY DEF JobInv
<1>k. \A i \in Jobs : Applied(i) \subseteq Applied(i)'
  BY DEF ApplicationsKept, Applied
<1>1. UNCHANGED <<funded, accept>>
  BY DEF CompleteCheck, CompleteExists, CompleteCapture, CompleteUpdate, CompleteCommit,
     CompleteRollback
\* The record of this request is the only one that changes.
<1>r. \A l \in CompleteClicks, i \in Jobs :
        ~(l = k /\ i = j) => complete'[l, i] = complete[l, i]
  BY <1>t DEF CompleteCheck, CompleteExists, CompleteCapture, CompleteUpdate, CompleteCommit,
     CompleteRollback
\* What is to be shown of a record, and that it holds of one that stays.
<1> DEFINE Found(l, i) ==
             complete'[l, i].pc \in {"found", "captured", "updated"} =>
               complete'[l, i].only \cap Applied(i)' # {}
           Captured(l, i) ==
             complete'[l, i].pc \in {"captured", "updated"} =>
               complete'[l, i].ids \subseteq Applied(i)'
           Updated(l, i) ==
             complete'[l, i].pc = "updated" =>
               /\ complete'[l, i].hit \subseteq Applied(i)'
               /\ \E w \in complete'[l, i].only :
                     w \in complete'[l, i].hit \/ app'[i, w] = "completed"
<1>u. ASSUME NEW l \in CompleteClicks, NEW i \in Jobs, complete'[l, i] = complete[l, i]
      PROVE  Found(l, i) /\ Captured(l, i) /\ Updated(l, i)
  <2>1. complete[l, i].only \subseteq Workers
    BY <1>t DEF Completions
  <2>2. Found(l, i) /\ Captured(l, i)
    BY <1>a, <1>k, <1>u DEF FoundApplied, CapturedApplied
  <2>3. Updated(l, i)
    BY <1>a, <1>k, <1>u, <2>1 DEF UpdatedCompletes, ApplicationsKept
  <2> QED
    BY <2>2, <2>3
<1>v. ASSUME Found(k, j), Captured(k, j), Updated(k, j)
      PROVE  FoundApplied' /\ CapturedApplied' /\ UpdatedCompletes'
  <2>1. \A l \in CompleteClicks, i \in Jobs : Found(l, i) /\ Captured(l, i) /\ Updated(l, i)
    <3> SUFFICES ASSUME NEW l \in CompleteClicks, NEW i \in Jobs
                 PROVE  Found(l, i) /\ Captured(l, i) /\ Updated(l, i)
      OBVIOUS
    <3>1. CASE l = k /\ i = j
      BY <1>v, <3>1
    <3>2. CASE ~(l = k /\ i = j)
      <4>1. complete'[l, i] = complete[l, i]
        BY <1>r, <3>2
      <4> QED
        BY <1>u, <4>1
    <3> QED
      BY <3>1, <3>2
  <2> QED
    BY <2>1 DEF FoundApplied, CapturedApplied, UpdatedCompletes
\* The workers the request would complete now.
<1>c. /\ Chosen(k, j) \subseteq Applied(j)
      /\ Chosen(k, j) \subseteq complete[k, j].only
  BY DEF Chosen, Accepted, Applied
<1>2. CASE CompleteExists(k, j)
  <2>1. /\ complete'[k, j] = [complete[k, j] EXCEPT !.pc = AfterExists(k, j)]
        /\ UNCHANGED <<sent, status, app>>
    BY <1>2, <1>t DEF CompleteExists
  <2>2. /\ complete'[k, j].pc = AfterExists(k, j)
        /\ complete'[k, j].only = complete[k, j].only
    BY <1>t, <2>1 DEF Completions
  <2>3. complete'[k, j].pc \notin {"captured", "updated"}
    BY <2>2 DEF AfterExists
  <2>4. Found(k, j)
    BY <1>c, <1>k, <2>2 DEF AfterExists
  <2>5. FoundApplied' /\ CapturedApplied' /\ UpdatedCompletes'
    BY <1>v, <2>3, <2>4
  <2> QED
    BY <1>1, <2>1, <2>5, AcceptsFrame, ReleasesFrame, StatusFrame DEF JobInv
<1>3. CASE CompleteCapture(k, j)
  <2>1. /\ complete'[k, j] = [complete[k, j] EXCEPT !.pc = "captured", !.ids = Chosen(k, j)]
        /\ complete[k, j].pc = "found"
        /\ UNCHANGED <<sent, status, app>>
    BY <1>3, <1>t DEF CompleteCapture
  <2>2. /\ complete'[k, j].pc = "captured"
        /\ complete'[k, j].only = complete[k, j].only
        /\ complete'[k, j].ids = Chosen(k, j)
    BY <1>t, <2>1 DEF Completions
  <2>3. Found(k, j)
    BY <1>a, <1>k, <2>1, <2>2 DEF FoundApplied
  <2>4. Captured(k, j)
    BY <1>c, <1>k, <2>2
  <2>5. FoundApplied' /\ CapturedApplied' /\ UpdatedCompletes'
    BY <1>v, <2>2, <2>3, <2>4
  <2> QED
    BY <1>1, <2>1, <2>5, AcceptsFrame, ReleasesFrame, StatusFrame DEF JobInv
<1>4. CASE CompleteUpdate(k, j)
  <2>1. /\ complete'[k, j] = [complete[k, j] EXCEPT !.pc = "updated", !.hit = Chosen(k, j)]
        /\ complete[k, j].pc = "captured"
        /\ UNCHANGED <<sent, status, app>>
    BY <1>4, <1>t DEF CompleteUpdate
  <2>2. /\ complete'[k, j].pc = "updated"
        /\ complete'[k, j].hit = Chosen(k, j)
        /\ complete'[k, j].only = complete[k, j].only
        /\ complete'[k, j].ids = complete[k, j].ids
    BY <1>t, <2>1 DEF Completions
  <2>3. Found(k, j) /\ Captured(k, j)
    BY <1>a, <1>k, <2>1, <2>2 DEF FoundApplied, CapturedApplied
  <2>4. PICK w \in complete[k, j].only : w \in Applied(j)
    BY <1>a, <2>1 DEF FoundApplied
  <2>5. w \in Chosen(k, j) \/ app[j, w] = "completed"
    BY <1>t, <2>4 DEF Applied, Chosen, Accepted
  <2>6. Updated(k, j)
    BY <1>c, <1>k, <2>1, <2>2, <2>5
  <2>7. FoundApplied' /\ CapturedApplied' /\ UpdatedCompletes'
    BY <1>v, <2>3, <2>6
  <2> QED
    BY <1>1, <2>1, <2>7, AcceptsFrame, ReleasesFrame, StatusFrame DEF JobInv
<1>5. ASSUME \/ \E only \in {Workers} \cup {{w} : w \in Workers} : CompleteCheck(k, j, only)
             \/ CompleteCommit(k, j) \/ CompleteRollback(k, j)
      PROVE  FoundApplied' /\ CapturedApplied' /\ UpdatedCompletes'
  <2>1. complete'[k, j].pc \notin {"found", "captured", "updated"}
    BY <1>5, <1>t DEF CompleteCheck, CompleteCommit, CompleteRollback, Completions
  <2> QED
    BY <1>v, <2>1
<1>8. ASSUME \E only \in {Workers} \cup {{w} : w \in Workers} : CompleteCheck(k, j, only)
      PROVE  JobInv'
  <2>1. UNCHANGED <<sent, status, app>>
    BY <1>8 DEF CompleteCheck
  <2> QED
    BY <1>1, <1>5, <1>8, <2>1, AcceptsFrame, ReleasesFrame, StatusFrame DEF JobInv
<1>6. CASE CompleteRollback(k, j)
  <2>1. PICK S \in SUBSET complete[k, j].ids : sent' = sent \cup ({k} \X {j} \X S)
    BY <1>6 DEF CompleteRollback
  <2>2. UNCHANGED <<status, app>> /\ complete[k, j].pc = "updated"
    BY <1>6 DEF CompleteRollback
  <2>3. ReleaseOnlyForAccepted'
    <3>1. S \subseteq Applied(j)
      BY <1>a, <2>2 DEF CapturedApplied
    <3> QED
      BY <2>1, <2>2, <3>1 DEF JobInv, ReleaseOnlyForAccepted, Applied
  <2> QED
    BY <1>1, <1>5, <1>6, <2>2, <2>3, AcceptsFrame, StatusFrame DEF JobInv
<1>7. CASE CompleteCommit(k, j)
  <2>1. /\ complete[k, j].pc = "updated"
        /\ app' = [a \in Jobs \X Workers |->
                     IF a[1] = j /\ a[2] \in complete[k, j].hit THEN "completed" ELSE app[a]]
        /\ status' = [status EXCEPT ![j] = "completed"]
        /\ sent' = sent \cup ({k} \X {j} \X complete[k, j].ids)
    BY <1>7 DEF CompleteCommit
  <2>2. complete[k, j].ids \subseteq Applied(j)
    BY <1>a, <2>1 DEF CapturedApplied
  <2>3. \A i \in Jobs, w \in Workers :
          app'[i, w] = IF i = j /\ w \in complete[k, j].hit THEN "completed" ELSE app[i, w]
    BY <2>1
  <2>4. \A i \in Jobs : Applied(i)' = Applied(i)
    <3>1. complete[k, j].hit \subseteq Applied(j)
      BY <1>a, <2>1 DEF UpdatedCompletes
    <3> QED
      BY <2>3, <3>1 DEF Applied
  <2>5. FundedBeforeAccepted' /\ CheckedIsFunded'
    BY <1>1, <2>4 DEF JobInv, FundedBeforeAccepted, CheckedIsFunded
  <2>6. InsertedCounts'
    BY <1>1, <2>4 DEF JobInv, InsertedCounts
  <2>7. InsertedAlone'
    <3> SUFFICES ASSUME NEW l \in AcceptClicks, NEW m \in AcceptClicks,
                        NEW i \in Jobs, NEW w \in Workers, Inserting(l, i, w)'
                 PROVE  app'[i, w] = "none" /\ (Inserting(m, i, w)' => m = l)
      BY DEF InsertedAlone
    <3>1. Inserting(l, i, w) /\ (Inserting(m, i, w)' => Inserting(m, i, w))
      BY <1>1 DEF Inserting
    <3>2. app[i, w] = "none" /\ (Inserting(m, i, w) => m = l)
      BY <3>1 DEF JobInv, InsertedAlone
    <3>3. w \notin Applied(i)
      BY <3>2 DEF Applied
    <3> QED
      BY <2>4, <3>1, <3>2, <3>3 DEF Applied
  <2>8. InProgressMeansStaffed'
    BY <2>1, <2>4 DEF JobInv, JobTypeOK, InProgressMeansStaffed
  <2>9. CompletedJobHasWorker'
    <3> SUFFICES ASSUME NEW i \in Jobs, status'[i] = "completed"
                 PROVE  \E w \in Workers : app'[i, w] = "completed"
      BY DEF CompletedJobHasWorker
    <3>1. CASE i = j
      <4>1. PICK w \in complete[k, j].only : w \in complete[k, j].hit \/ app[j, w] = "completed"
        BY <1>a, <2>1 DEF UpdatedCompletes
      <4>2. w \in Workers
        BY <1>t DEF Completions
      <4> QED
        BY <2>3, <3>1, <4>1, <4>2
    <3>2. CASE i # j
      BY <2>1, <3>2 DEF JobInv, JobTypeOK, CompletedJobHasWorker, ApplicationsKept
    <3> QED
      BY <3>1, <3>2
  <2>10. ReleaseOnlyForAccepted'
    <3> SUFFICES ASSUME NEW t \in sent' PROVE app'[t[2], t[3]] # "none"
      BY DEF ReleaseOnlyForAccepted
    <3>1. CASE t \in sent
      BY <3>1 DEF JobInv, JobTypeOK, ReleaseOnlyForAccepted, ApplicationsKept, Tasks
    <3>2. CASE t \in {k} \X {j} \X complete[k, j].ids
      <4>1. t[2] = j /\ t[3] \in Applied(j)'
        BY <2>2, <2>4, <3>2
      <4> QED
        BY <4>1 DEF Applied
    <3> QED
      BY <2>1, <3>1, <3>2
  <2> QED
    BY <1>5, <1>7, <2>5, <2>6, <2>7, <2>8, <2>9, <2>10 DEF JobInv
<1> QED
  BY <1>2, <1>3, <1>4, <1>6, <1>7, <1>8

LEMMA JobInvStep == JobInv /\ [JobNext]_jobVars => JobInv'
<1> SUFFICES ASSUME JobInv, [JobNext]_jobVars PROVE JobInv'
  OBVIOUS
<1>1. JobTypeOK' /\ ApplicationsKept
  BY JobTypeStep, ApplicationsStay DEF JobInv
<1>2. CASE JobEnvironment \/ UNCHANGED jobVars
  <2>1. UNCHANGED <<sent, status, app, accept, complete>>
    BY <1>2 DEF JobEnvironment, jobVars, jobPrivate
  <2>2. \A j \in Jobs : funded[j] => funded'[j]
    BY <1>2 DEF JobEnvironment, jobVars, JobInv, JobTypeOK
  <2> QED
    BY <1>1, <2>1, <2>2, AcceptsFrame, CompletionsFrame, ReleasesFrame, StatusFrame DEF JobInv
<1>3. CASE JobStep
  BY <1>1, <1>3, AcceptStep, CompleteStep DEF JobStep
<1> QED
  BY <1>2, <1>3 DEF JobNext

LEMMA JobInvariant == JobSpec => []JobInv
  BY JobInvInit, JobInvStep, PTL DEF JobSpec

-----------------------------------------------------------------------------
(* The theorems *)

\* JobAcceptView and JobCompleteView write only the statuses the lifecycle
\* knows, whatever requests run beside each other.
THEOREM JobTypesHold == JobSpec => []JobTypeOK
  BY JobTypeInit, JobTypeStep, PTL DEF JobSpec

\* Nobody is taken on for an unfunded job, for any number of workers, requests
\* and interleavings.
THEOREM AcceptedOnlyWhenFunded == JobSpec => []FundedBeforeAccepted
<1>1. JobInv => FundedBeforeAccepted
  BY DEF JobInv
<1> QED
  BY <1>1, JobInvariant, PTL

\* A job is in progress only with as many applications as it needs.
THEOREM StaffedWhenInProgress == JobSpec => []InProgressMeansStaffed
<1>1. JobInv => InProgressMeansStaffed
  BY DEF JobInv
<1> QED
  BY <1>1, JobInvariant, PTL

\* Every completed job has a worker whose work is completed.
THEOREM CompletedHasWorker == JobSpec => []CompletedJobHasWorker
<1>1. JobInv => CompletedJobHasWorker
  BY DEF JobInv
<1> QED
  BY <1>1, JobInvariant, PTL

\* Release tasks name workers who accepted the job, whatever is rolled back.
THEOREM ReleasedWereAccepted == JobSpec => []ReleaseOnlyForAccepted
<1>1. JobInv => ReleaseOnlyForAccepted
  BY DEF JobInv
<1> QED
  BY <1>1, JobInvariant, PTL

-----------------------------------------------------------------------------
(* No more workers than the job needs, unless acceptances overlap *)

\* An acceptance that has read the job and not yet ended.
Going(k, j, w) == accept[k, j, w].pc \in {"checked", "inserted"}

\* What the view does not ensure: of one job, one acceptance runs at a time.
OneAtATime ==
    \A k \in AcceptClicks, l \in AcceptClicks, j \in Jobs, v \in Workers, w \in Workers :
        Going(k, j, v) /\ Going(l, j, w) => k = l /\ v = w

\* An employer never has more workers for a job than it pays for.
NotOverfull == \A j \in Jobs : Cardinality(Applied(j)) <= Needed[j]

\* An open job has a place left, and nobody has completed it ...
OpenHasRoom ==
    \A j \in Jobs : status[j] = "open" =>
        Cardinality(Applied(j)) < Needed[j] /\ Accepted(j) = Applied(j)

\* ... so has a job with an acceptance under way, whatever its status is now ...
GoingHasRoom ==
    \A k \in AcceptClicks, j \in Jobs, w \in Workers :
        Going(k, j, w) => Cardinality(Applied(j)) < Needed[j]

\* ... and one whose acceptance will not fill it has a place left after it.
UnfilledHasRoom ==
    \A k \in AcceptClicks, j \in Jobs, w \in Workers :
        Inserting(k, j, w) /\ ~accept[k, j, w].fill /\ status[j] = "open" =>
            Cardinality(Applied(j) \cup {w}) < Needed[j]

RoomInv == NotOverfull /\ OpenHasRoom /\ GoingHasRoom /\ UnfilledHasRoom

LEMMA OneMoreWorker ==
  ASSUME NEW S \in SUBSET Workers, NEW w \in Workers
  PROVE  /\ Cardinality(S) \in Nat /\ Cardinality(S \cup {w}) \in Nat
         /\ Cardinality(S \cup {w}) <= Cardinality(S) + 1
<1>1. IsFiniteSet(S)
  BY WorkersAssumption, FS_Subset
<1>2. Cardinality(S) \in Nat
  BY <1>1, FS_CardinalityType
<1>3. Cardinality(S \cup {w}) = IF w \in S THEN Cardinality(S) ELSE Cardinality(S) + 1
  BY <1>1, FS_AddElement
<1> QED
  BY <1>2, <1>3

\* Nothing that speaks of room changes.
LEMMA RoomFrame ==
  ASSUME RoomInv, UNCHANGED <<status, app, accept>>
  PROVE  RoomInv'
<1>1. \A j \in Jobs : Applied(j)' = Applied(j) /\ Accepted(j)' = Accepted(j)
  BY DEF Applied, Accepted
<1> QED
  BY <1>1 DEF RoomInv, NotOverfull, OpenHasRoom, GoingHasRoom, UnfilledHasRoom, Going, Inserting

\* An acceptance takes a place that no other acceptance can have taken meanwhile.
LEMMA AcceptHasRoom ==
  ASSUME JobInv, RoomInv, OneAtATime,
         NEW k \in AcceptClicks, NEW j \in Jobs, NEW w \in Workers,
         \/ AcceptCheck(k, j, w)    \/ AcceptInsert(k, j, w)
         \/ AcceptConflict(k, j, w) \/ AcceptCommit(k, j, w)
  PROVE  RoomInv'
<1> USE DEF AcceptRequests
<1>t. /\ accept \in [AcceptRequests ->
                      [pc : {"idle", "checked", "inserted", "done"}, fill : BOOLEAN]]
      /\ app \in [Jobs \X Workers -> {"none", "accepted", "completed"}]
      /\ status \in [Jobs -> {"open", "in_progress", "completed"}]
  BY DEF JobInv, JobTypeOK
<1>c. \A i \in Jobs : /\ Needed[i] \in Nat
                      /\ Applied(i) \in SUBSET Workers /\ Accepted(i) \in SUBSET Workers
  BY NeededAssumption DEF Applied, Accepted
<1>r. \A l \in AcceptClicks, i \in Jobs, v \in Workers :
        ~(l = k /\ i = j /\ v = w) => accept'[l, i, v] = accept[l, i, v]
  BY <1>t DEF AcceptCheck, AcceptInsert, AcceptConflict, AcceptCommit
<1>1. CASE AcceptCommit(k, j, w)
  <2>1. /\ Inserting(k, j, w) /\ Going(k, j, w)
        /\ app' = [app EXCEPT ![<<j, w>>] = "accepted"]
        /\ status' = IF accept[k, j, w].fill THEN [status EXCEPT ![j] = "in_progress"] ELSE status
        /\ accept'[k, j, w].pc = "done"
    BY <1>1, <1>t DEF AcceptCommit, WhenFilled, Inserting, Going
  <2>2. \A i \in Jobs : i # j => Applied(i)' = Applied(i) /\ Accepted(i)' = Accepted(i)
    BY <1>t, <2>1 DEF Applied, Accepted
  <2>3. Applied(j)' = Applied(j) \cup {w} /\ Accepted(j)' = Accepted(j) \cup {w}
    BY <1>t, <2>1 DEF Applied, Accepted
  <2>4. \A l \in AcceptClicks, v \in Workers : ~Going(l, j, v)'
    BY <1>r, <2>1 DEF OneAtATime, Going
  <2>5. NotOverfull'
    <3>1. Cardinality(Applied(j) \cup {w}) <= Needed[j]
      <4>1. Cardinality(Applied(j)) < Needed[j]
        BY <2>1 DEF RoomInv, GoingHasRoom
      <4> QED
        BY <1>c, <4>1, OneMoreWorker
    <3> QED
      BY <2>2, <2>3, <3>1 DEF RoomInv, NotOverfull
  <2>6. OpenHasRoom'
    <3>1. status'[j] = "open" => Cardinality(Applied(j) \cup {w}) < Needed[j]
                                   /\ Accepted(j) = Applied(j)
      BY <1>t, <2>1 DEF RoomInv, OpenHasRoom, UnfilledHasRoom
    <3> QED
      BY <1>t, <2>1, <2>2, <2>3, <3>1 DEF RoomInv, OpenHasRoom
  <2>7. \A l \in AcceptClicks, i \in Jobs, v \in Workers :
          Going(l, i, v)' => i # j /\ accept'[l, i, v] = accept[l, i, v]
    BY <1>r, <2>4
  <2>8. GoingHasRoom'
    BY <2>2, <2>7 DEF RoomInv, GoingHasRoom, Going
  <2>9. UnfilledHasRoom'
    <3> SUFFICES ASSUME NEW l \in AcceptClicks, NEW i \in Jobs, NEW v \in Workers,
                        Inserting(l, i, v)', ~accept'[l, i, v].fill, status'[i] = "open"
                 PROVE  Cardinality(Applied(i)' \cup {v}) < Needed[i]
      BY DEF UnfilledHasRoom
    <3>1. i # j /\ accept'[l, i, v] = accept[l, i, v]
      BY <2>7 DEF Going, Inserting
    <3>2. status[i] = "open"
      BY <1>t, <2>1, <3>1
    <3> QED
      BY <2>2, <3>1, <3>2 DEF RoomInv, UnfilledHasRoom, Inserting
  <2> QED
    BY <2>5, <2>6, <2>8, <2>9 DEF RoomInv
<1>2. CASE ~AcceptCommit(k, j, w)
  <2>1. UNCHANGED <<status, app>>
    BY <1>2 DEF AcceptCheck, AcceptInsert, AcceptConflict
  <2>2. \A i \in Jobs : Applied(i)' = Applied(i) /\ Accepted(i)' = Accepted(i)
    BY <2>1 DEF Applied, Accepted
  <2>3. NotOverfull' /\ OpenHasRoom'
    BY <2>1, <2>2 DEF RoomInv, NotOverfull, OpenHasRoom
  <2>4. Going(k, j, w)' => status[j] = "open" \/ Going(k, j, w)
    BY <1>2, <1>t DEF AcceptCheck, AcceptInsert, AcceptConflict, Available, Going
  <2>5. GoingHasRoom'
    <3>1. Going(k, j, w)' => Cardinality(Applied(j)) < Needed[j]
      BY <2>4 DEF RoomInv, OpenHasRoom, GoingHasRoom
    <3> QED
      BY <1>r, <2>2, <3>1 DEF RoomInv, GoingHasRoom, Going
  <2>6. Inserting(k, j, w)' /\ ~accept'[k, j, w].fill => ~Fills(j, w)
    <3>1. Inserting(k, j, w)' => AcceptInsert(k, j, w)
      BY <1>2, <1>t DEF AcceptCheck, AcceptConflict, Inserting
    <3>2. ASSUME AcceptInsert(k, j, w)
          PROVE  Fills(j, w) => accept'[k, j, w].fill
      <4>1. PICK fill \in BOOLEAN : /\ fill <=> Fills(j, w)
                                    /\ accept' = [accept EXCEPT ![<<k, j, w>>] =
                                                   [pc |-> "inserted", fill |-> fill]]
        <5>1. Fills(j, w) \in BOOLEAN
          BY DEF Fills
        <5> QED
          BY Zenon, <3>2, <5>1 DEF AcceptInsert
      <4> QED
        BY <1>t, <4>1
    <3> QED
      BY <3>1, <3>2
  <2>7. Accepted(j) = Applied(j) /\ ~Fills(j, w) => Cardinality(Applied(j) \cup {w}) < Needed[j]
    <3>1. Cardinality(Applied(j) \cup {w}) \in Nat /\ Needed[j] \in Nat
      BY <1>c, OneMoreWorker
    <3>2. Accepted(j) = Applied(j) /\ ~Fills(j, w) =>
            ~(Cardinality(Applied(j) \cup {w}) >= Needed[j])
      BY Zenon DEF Fills
    <3> QED
      BY <3>1, <3>2
  <2>8. UnfilledHasRoom'
    <3> SUFFICES ASSUME NEW l \in AcceptClicks, NEW i \in Jobs, NEW v \in Workers,
                        Inserting(l, i, v)', ~accept'[l, i, v].fill, status[i] = "open"
                 PROVE  Cardinality(Applied(i) \cup {v}) < Needed[i]
      BY <2>1, <2>2 DEF UnfilledHasRoom
    <3>1. CASE l = k /\ i = j /\ v = w
      <4>1. Accepted(j) = Applied(j) /\ ~Fills(j, w)
        BY <2>6, <3>1 DEF RoomInv, OpenHasRoom
      <4> QED
        BY Zenon, <2>7, <3>1, <4>1
    <3>2. CASE ~(l = k /\ i = j /\ v = w)
      BY <1>r, <3>2 DEF RoomInv, UnfilledHasRoom, Inserting
    <3> QED
      BY <3>1, <3>2
  <2> QED
    BY <2>3, <2>5, <2>8 DEF RoomInv
<1> QED
  BY <1>1, <1>2

\* A completion takes nobody on, and closes the job.
LEMMA CompletionHasRoom ==
  ASSUME JobInv, RoomInv, NEW k \in CompleteClicks, NEW j \in Jobs, CompleteCommit(k, j)
  PROVE  RoomInv'
<1>t. /\ app \in [Jobs \X Workers -> {"none", "accepted", "completed"}]
      /\ status \in [Jobs -> {"open", "in_progress", "completed"}]
  BY DEF JobInv, JobTypeOK
<1>1. complete[k, j].hit \subseteq Applied(j)
  BY DEF JobInv, UpdatedCompletes, CompleteCommit
<1>2. \A i \in Jobs, v \in Workers :
        app'[i, v] = IF i = j /\ v \in complete[k, j].hit THEN "completed" ELSE app[i, v]
  BY DEF CompleteCommit
<1>3. \A i \in Jobs : Applied(i)' = Applied(i)
  BY <1>1, <1>2 DEF Applied
<1>4. \A i \in Jobs : i # j => Accepted(i)' = Accepted(i)
  BY <1>2 DEF Accepted
<1>5. \A i \in Jobs : status'[i] = "open" => i # j /\ status[i] = "open"
  BY <1>t DEF CompleteCommit
<1>6. accept' = accept
  BY DEF CompleteCommit
<1> QED
  BY <1>3, <1>4, <1>5, <1>6
  DEF RoomInv, NotOverfull, OpenHasRoom, GoingHasRoom, UnfilledHasRoom, Going, Inserting

LEMMA RoomStep == JobInv /\ RoomInv /\ OneAtATime /\ [JobNext]_jobVars => RoomInv'
<1> SUFFICES ASSUME JobInv, RoomInv, OneAtATime, [JobNext]_jobVars
             PROVE  RoomInv'
  OBVIOUS
<1>1. CASE JobEnvironment \/ UNCHANGED jobVars
  BY <1>1, RoomFrame DEF JobEnvironment, jobVars, jobPrivate
<1>2. ASSUME NEW k \in AcceptClicks, NEW j \in Jobs, NEW w \in Workers,
             \/ AcceptCheck(k, j, w)    \/ AcceptInsert(k, j, w)
             \/ AcceptConflict(k, j, w) \/ AcceptCommit(k, j, w)
      PROVE  RoomInv'
  BY <1>2, AcceptHasRoom
<1>3. ASSUME NEW k \in CompleteClicks, NEW j \in Jobs, CompleteCommit(k, j)
      PROVE  RoomInv'
  BY <1>3, CompletionHasRoom
<1>4. ASSUME NEW k \in CompleteClicks, NEW j \in Jobs,
             \/ \E only \in {Workers} \cup {{v} : v \in Workers} : CompleteCheck(k, j, only)
             \/ CompleteExists(k, j) \/ CompleteCapture(k, j)
             \/ CompleteUpdate(k, j) \/ CompleteRollback(k, j)
      PROVE  RoomInv'
  <2>1. UNCHANGED <<status, app, accept>>
    BY <1>4 DEF CompleteCheck, CompleteExists, CompleteCapture, CompleteUpdate, CompleteRollback
  <2> QED
    BY <2>1, RoomFrame
<1> QED
  BY <1>1, <1>2, <1>3, <1>4 DEF JobNext, JobStep

LEMMA RoomInit == ASSUME \A j \in Jobs : Needed[j] > 0 PROVE JobInit => RoomInv
<1> SUFFICES ASSUME JobInit PROVE RoomInv
  OBVIOUS
<1>1. \A j \in Jobs : Applied(j) = {} /\ Accepted(j) = {}
  BY DEF JobInit, Applied, Accepted
<1>2. Cardinality({}) = 0 /\ \A j \in Jobs : Needed[j] \in Nat
  BY FS_EmptySet, NeededAssumption
<1>3. \A k \in AcceptClicks, j \in Jobs, w \in Workers : accept[k, j, w].pc = "idle"
  BY DEF JobInit, AcceptRequests
<1>4. NotOverfull /\ OpenHasRoom
  <2>1. \A j \in Jobs : Cardinality(Applied(j)) = 0 /\ Accepted(j) = Applied(j)
    BY Zenon, <1>1, <1>2
  <2> QED
    BY <1>2, <2>1 DEF NotOverfull, OpenHasRoom
<1>5. GoingHasRoom /\ UnfilledHasRoom
  BY <1>3 DEF GoingHasRoom, UnfilledHasRoom, Going, Inserting
<1> QED
  BY <1>4, <1>5 DEF RoomInv

\* A job never has more workers than it needs, as long as no two acceptances of
\* it overlap: nothing else the requests do can overfill a job.  The job must
\* need somebody, for the view takes a worker on before it counts.
THEOREM NeverOverfull ==
  ASSUME \A j \in Jobs : Needed[j] > 0
  PROVE  JobSpec /\ []OneAtATime => []NotOverfull
<1>1. JobInit => RoomInv
  BY RoomInit
<1>2. JobInv /\ RoomInv /\ OneAtATime /\ [JobNext]_jobVars => RoomInv'
  BY RoomStep
<1>3. RoomInv => NotOverfull
  BY DEF RoomInv
<1> QED
  BY <1>1, <1>2, <1>3, JobInvariant, PTL DEF JobSpec

-----------------------------------------------------------------------------
(* Induction, as the least counterexample *)

Below == {p \in Nat \X Nat : p[1] < p[2]}

LEMMA BelowWellFounded == IsWellFoundedOn(Below, Nat)
  BY NatLessThanWellFounded DEF OpToRel, Below

LEMMA LeastElement ==
  ASSUME NEW T, T \subseteq Nat, T # {}
  PROVE  \E n \in T : \A m \in T : n <= m
<1>1. PICK n \in T : \A m \in T : ~ (<<m, n>> \in Below)
  BY BelowWellFounded, WFMin
<1>2. ASSUME NEW m \in T PROVE n <= m
  <2>1. n \in Nat /\ m \in Nat /\ ~ (<<m, n>> \in Below)
    BY <1>1
  <2> QED
    BY <2>1 DEF Below
<1> QED
  BY <1>2

\* Among the sets of a family over a finite set one has no smaller one in the
\* family: the way to argue by induction over a finite set.
LEMMA Minimal ==
  ASSUME NEW S, IsFiniteSet(S), NEW U, U \subseteq SUBSET S, U # {}
  PROVE  \E X \in U : \A Y \in U : Y \subseteq X => Y = X
<1>1. IsWellFoundedOn(StrictSubsetOrdering(S), SUBSET S)
  BY FS_StrictSubsetOrderingWellFounded, FS_FiniteSubsetsOfFinite
<1>2. PICK X \in U : \A Y \in U : ~(<<Y, X>> \in StrictSubsetOrdering(S))
  BY <1>1, WFMin
<1>3. ASSUME NEW Y \in U, Y \subseteq X PROVE Y = X
  BY <1>2, <1>3 DEF StrictSubsetOrdering
<1> QED
  BY <1>3

\* A set of indices with everything below its members is an interval.
LEMMA InitialPart ==
  ASSUME NEW n \in Nat, NEW S \in SUBSET (1..n),
         \A i \in S, j \in 1..n : j < i => j \in S
  PROVE  \E m \in 0..n : S = 1..m /\ Cardinality(S) = m
<1> DEFINE T == (1..n) \ S
<1>1. \A m \in Nat : Cardinality(1..m) = m
  <2> TAKE m \in Nat
  <2> QED
    BY FS_Interval
<1>2. CASE T = {}
  <2>1. S = 1..n
    BY <1>2
  <2>2. n \in 0..n /\ Cardinality(1..n) = n
    BY <1>1
  <2> QED
    BY <2>1, <2>2
<1>3. CASE T # {}
  <2>1. T \subseteq Nat
    OBVIOUS
  <2>2. PICK k \in T : \A i \in T : k <= i
    <3> HIDE DEF T
    <3> QED
      BY <1>3, <2>1, LeastElement
  <2>3. k \in 1..n /\ k \notin S
    OBVIOUS
  <2>4. S = 1..(k - 1)
    <3>1. ASSUME NEW i \in S PROVE i \in 1..(k - 1)
      <4>1. i \in 1..n /\ i # k /\ ~ (k < i)
        BY <2>3
      <4> QED
        BY <2>3, <4>1
    <3>2. ASSUME NEW i \in 1..(k - 1) PROVE i \in S
      <4>1. i \in 1..n /\ i < k
        BY <2>3
      <4>2. i \notin T
        BY <2>2, <2>3, <4>1
      <4> QED
        BY <4>1, <4>2
    <3> QED
      BY <3>1, <3>2
  <2> QED
    BY <1>1, <2>3, <2>4
<1> QED
  BY <1>2, <1>3

-----------------------------------------------------------------------------
(* Orders of jobs *)

Beats(P, h, g) == P[h] > P[g] \/ (P[h] = P[g] /\ h > g)
Ordered(q, P)  == \A i, j \in DOMAIN q : i < j => Beats(P, q[i], q[j])
Descending(q)  == \A i, j \in DOMAIN q : i < j => q[i] > q[j]

\* The points of the jobs for a worker, and those that need what he can do.
PointsOf(w, maxPay) == [g \in 1..Gigs |-> TotalPoints(g, w, maxPay)]
FitFor(w, S)        == {g \in S : SkillPoints(g, w) > 0}

LEMMA SkillTyped ==
  ASSUME NEW g, NEW w
  PROVE  SkillPoints(g, w) \in {0, 100, 400}
<1>1. CASE Skill[g] \in Knows[w]
  BY <1>1 DEF SkillPoints
<1>2. CASE Skill[g] \notin Knows[w] /\ Knows[w] # {} /\ "other" \in Knows[w] \cup {Skill[g]}
  BY <1>2 DEF SkillPoints
<1>3. CASE /\ Skill[g] \notin Knows[w]
           /\ ~ (Knows[w] # {} /\ "other" \in Knows[w] \cup {Skill[g]})
  BY <1>3 DEF SkillPoints
<1> QED
  BY <1>1, <1>2, <1>3

\* A job put behind those with as many points or more, all newer, keeps the order.
Placed(P, q, g) == InsertAt(q, 1 + Cardinality({i \in DOMAIN q : P[q[i]] >= P[g]}), g)
Older(g, q)     == \A i \in DOMAIN q : g < q[i]

LEMMA InsertOrdered ==
  ASSUME NEW P \in [1..Gigs -> Int], NEW q \in Seq(1..Gigs), Ordered(q, P),
         NEW g \in 1..Gigs, Older(g, q)
  PROVE  /\ Placed(P, q, g) \in Seq(1..Gigs) /\ Ordered(Placed(P, q, g), P)
         /\ ToSet(Placed(P, q, g)) = ToSet(q) \cup {g}
<1> DEFINE n == Len(q)
           S == {i \in 1..n : P[q[i]] >= P[g]}
<1>n. n \in Nat /\ DOMAIN q = 1..n /\ \A i \in 1..n : q[i] \in 1..Gigs /\ P[q[i]] \in Int
  <2>1. n \in Nat /\ DOMAIN q = 1..n
    OBVIOUS
  <2>2. \A i \in 1..n : q[i] \in 1..Gigs
    BY ElementOfSeq
  <2> QED
    BY <2>1, <2>2
<1>g. Gigs \in Nat /\ P[g] \in Int
  BY BoardAssumption
<1>1. PICK m \in 0..n : S = 1..m /\ Cardinality(S) = m
  <2>1. \A i \in S, j \in 1..n : j < i => j \in S
    <3> SUFFICES ASSUME NEW i \in S, NEW j \in 1..n, j < i PROVE P[q[j]] >= P[g]
      OBVIOUS
    <3>1. Beats(P, q[j], q[i]) /\ i \in 1..n
      BY <1>n DEF Ordered
    <3>2. P[q[j]] >= P[q[i]] /\ P[q[i]] >= P[g]
      BY <1>n, <3>1 DEF Beats
    <3> QED
      BY <1>n, <1>g, <3>1, <3>2
  <2> HIDE DEF n
  <2>2. S \in SUBSET (1..n)
    OBVIOUS
  <2> HIDE DEF S
  <2> QED
    BY <1>n, <2>1, <2>2, InitialPart
<1> DEFINE front == SubSeq(q, 1, m)
           back  == SubSeq(q, m + 1, n)
           new   == InsertAt(q, 1 + m, g)
<1>2. /\ front \in Seq(1..Gigs) /\ Len(front) = m
      /\ \A i \in 1..m : front[i] = q[i]
  <2>1. \A i \in 1..m : q[i] \in 1..Gigs
    BY <1>n
  <2>2. 1 \in Int /\ m \in Int
    OBVIOUS
  <2> HIDE DEF n
  <2> QED
    BY <2>1, <2>2, SubSeqProperties
<1>3. /\ back \in Seq(1..Gigs) /\ Len(back) = n - m
      /\ \A i \in 1..(n - m) : back[i] = q[m + i]
  <2>1. \A i \in (m + 1)..n : q[i] \in 1..Gigs
    BY <1>n
  <2>2. m + 1 \in Int /\ n \in Int /\ m \in 0..n
    BY <1>n
  <2> HIDE DEF n
  <2>3. /\ back \in Seq(1..Gigs)
        /\ Len(back) = IF m + 1 <= n THEN n - (m + 1) + 1 ELSE 0
        /\ \A i \in 1 .. n - (m + 1) + 1 : back[i] = q[m + 1 + i - 1]
    BY <2>1, <2>2, SubSeqProperties
  <2> HIDE DEF back
  <2> QED
    BY <1>n, <2>2, <2>3
<1>4. /\ new \in Seq(1..Gigs) /\ Len(new) = n + 1
      /\ \A i \in 1..m : new[i] = q[i]
      /\ new[m + 1] = g
      /\ \A i \in (m + 2)..(n + 1) : new[i] = q[i - 1]
  <2>1. new = front \o <<g>> \o back
    <3>1. (1 + m) - 1 = m /\ 1 + m = m + 1
      OBVIOUS
    <3> QED
      BY <3>1 DEF InsertAt
  <2> HIDE DEF front, back, new, n
  <2>2. /\ front \o <<g>> \in Seq(1..Gigs) /\ Len(front \o <<g>>) = m + 1
        /\ \A i \in 1..m : (front \o <<g>>)[i] = q[i]
        /\ (front \o <<g>>)[m + 1] = g
    BY <1>2
  <2> DEFINE left == front \o <<g>>
  <2> HIDE DEF left
  <2>3. /\ new \in Seq(1..Gigs) /\ Len(new) = (m + 1) + (n - m)
        /\ \A i \in 1..(m + 1) + (n - m) :
              new[i] = IF i <= m + 1 THEN left[i] ELSE back[i - (m + 1)]
    <3>1. left \in Seq(1..Gigs) /\ back \in Seq(1..Gigs) /\ new = left \o back
          /\ Len(left) = m + 1 /\ Len(back) = n - m
      BY <2>1, <2>2, <1>3 DEF left
    <3>2. /\ left \o back \in Seq(1..Gigs) /\ Len(left \o back) = Len(left) + Len(back)
          /\ \A i \in 1..Len(left) + Len(back) :
                (left \o back)[i] = IF i <= Len(left) THEN left[i] ELSE back[i - Len(left)]
      BY <3>1, ConcatProperties
    <3> QED
      BY <3>1, <3>2
  <2>4. n \in Nat /\ m \in 0..n
    BY <1>n
  <2>5. ASSUME NEW i \in (m + 2)..(n + 1) PROVE new[i] = q[i - 1]
    <3>1. i - (m + 1) \in 1..(n - m) /\ i \in 1..(m + 1) + (n - m) /\ ~ (i <= m + 1)
          /\ m + (i - (m + 1)) = i - 1
      BY <2>4
    <3>2. new[i] = back[i - (m + 1)] /\ back[i - (m + 1)] = q[m + (i - (m + 1))]
      BY <1>3, <2>3, <3>1
    <3> QED
      BY <3>1, <3>2
  <2> QED
    BY <2>2, <2>3, <2>4, <2>5 DEF left
<1> HIDE DEF new, front, back, n
<1>5. DOMAIN new = 1..(n + 1) /\ n \in Nat /\ m \in 0..n
  BY <1>4, <1>n
<1>6. Ordered(new, P)
  <2> SUFFICES ASSUME NEW i \in 1..(n + 1), NEW j \in 1..(n + 1), i < j
               PROVE  Beats(P, new[i], new[j])
    BY <1>5 DEF Ordered
  <2>1. CASE j <= m
    <3>1. i \in 1..m /\ j \in 1..m /\ i \in 1..n /\ j \in 1..n
      BY <1>5, <2>1
    <3> QED
      BY <1>4, <1>n, <3>1 DEF Ordered
  <2>2. CASE j = m + 1
    <3>1. i \in 1..m /\ i \in 1..n /\ i \in S
      BY <1>1, <1>5, <2>2
    <3>2. new[i] = q[i] /\ new[j] = g /\ g < q[i] /\ P[q[i]] >= P[g]
      BY <1>4, <1>n, <2>2, <3>1 DEF Older
    <3> QED
      BY <1>g, <1>n, <3>1, <3>2 DEF Beats
  <2>3. CASE j > m + 1
    <3>1. j \in (m + 2)..(n + 1) /\ j - 1 \in 1..n /\ new[j] = q[j - 1]
      BY <1>4, <1>5, <2>3
    <3>2. CASE i = m + 1
      <4>1. j - 1 \notin S
        <5>1. j - 1 \notin 1..m
          BY <1>5, <2>3
        <5> HIDE DEF S
        <5> QED
          BY <1>1, <5>1
      <4>2. P[g] > P[q[j - 1]]
        BY <1>g, <1>n, <3>1, <4>1
      <4> QED
        BY <1>4, <3>1, <3>2, <4>2 DEF Beats
    <3>3. CASE i <= m
      <4>1. i \in 1..m /\ i \in 1..n /\ i < j - 1
        BY <1>5, <2>3, <3>3
      <4> QED
        BY <1>4, <1>n, <3>1, <4>1 DEF Ordered
    <3>4. CASE i > m + 1
      <4>1. i \in (m + 2)..(n + 1) /\ i - 1 \in 1..n /\ i - 1 < j - 1
        BY <1>5, <3>4
      <4> QED
        BY <1>4, <1>n, <3>1, <4>1 DEF Ordered
    <3> QED
      BY <1>5, <3>2, <3>3, <3>4
  <2> QED
    BY <1>5, <2>1, <2>2, <2>3
<1>7. ToSet(new) = ToSet(q) \cup {g}
  <2>1. ASSUME NEW i \in 1..(n + 1) PROVE new[i] \in ToSet(q) \cup {g}
    <3>1. CASE i <= m
      <4>1. i \in 1..m /\ i \in 1..n
        BY <1>5, <3>1
      <4> QED
        BY <1>4, <1>n, <4>1 DEF ToSet
    <3>2. CASE i = m + 1
      BY <1>4, <3>2
    <3>3. CASE i > m + 1
      <4>1. i \in (m + 2)..(n + 1) /\ i - 1 \in 1..n
        BY <1>5, <3>3
      <4> QED
        BY <1>4, <1>n, <4>1 DEF ToSet
    <3> QED
      BY <1>5, <3>1, <3>2, <3>3
  <2>2. ASSUME NEW i \in 1..n PROVE q[i] \in ToSet(new)
    <3>1. CASE i <= m
      <4>1. i \in 1..m /\ i \in 1..(n + 1)
        BY <1>5, <3>1
      <4> QED
        BY <1>4, <1>5, <4>1 DEF ToSet
    <3>2. CASE i > m
      <4>1. i + 1 \in (m + 2)..(n + 1) /\ i + 1 \in 1..(n + 1) /\ (i + 1) - 1 = i
        BY <1>5, <3>2
      <4>2. new[i + 1] = q[i]
        BY <1>4, <4>1
      <4> QED
        BY <1>5, <4>1, <4>2 DEF ToSet
    <3> QED
      BY <1>5, <3>1, <3>2
  <2>3. g \in ToSet(new)
    <3>1. m + 1 \in 1..(n + 1)
      BY <1>5
    <3> QED
      BY <1>4, <1>5, <3>1 DEF ToSet
  <2>4. ToSet(q) = {q[i] : i \in 1..n} /\ ToSet(new) = {new[i] : i \in 1..(n + 1)}
    BY <1>5, <1>n DEF ToSet
  <2> QED
    BY <2>1, <2>2, <2>3, <2>4
<1>8. {i \in DOMAIN q : P[q[i]] >= P[g]} = S
  BY <1>n
<1> QED
  <2>1. Placed(P, q, g) = new
    BY <1>1, <1>8 DEF new, Placed
  <2> QED
    BY <1>4, <1>6, <1>7, <2>1

-----------------------------------------------------------------------------
(* Folds *)

LEMMA MaxIsMax ==
  ASSUME NEW n \in Nat, NEW t \in SUBSET (1..n), t # {}
  PROVE  Max(t) \in t /\ \A i \in t : Max(t) >= i
<1> DEFINE T == {n - i : i \in t}
<1>1. T \subseteq Nat /\ T # {}
  <2>1. \A i \in t : n - i \in Nat
    OBVIOUS
  <2> QED
    BY <2>1
<1>2. PICK k \in T : \A m \in T : k <= m
  <2> HIDE DEF T
  <2> QED
    BY <1>1, LeastElement
<1>3. PICK x \in t : k = n - x
  OBVIOUS
<1>4. \A i \in t : x >= i
  <2> TAKE i \in t
  <2>1. n - x <= n - i /\ i \in 1..n /\ x \in 1..n
    BY <1>2, <1>3
  <2> QED
    BY <2>1
<1> QED
  BY <1>4 DEF Max

\* The function a fold is the value of exists: f is applied to what the indices
\* below the largest gave and the element at the largest.
IsFold(it, n, s, B, base, f) ==
    /\ it \in [SUBSET (1..n) -> B]
    /\ \A t \in SUBSET (1..n) :
          it[t] = IF t = {} THEN base ELSE f[it[t \ {Max(t)}], s[Max(t)]]

LEMMA FoldExists ==
  ASSUME NEW n \in Nat, NEW G, NEW s \in [1..n -> G], NEW B, NEW base \in B,
         NEW f \in [B \X G -> B]
  PROVE  \E it : IsFold(it, n, s, B, base, f)
<1> DEFINE Fold(it, k) == IsFold(it, k, s, B, base, f)
           T == {k \in 0..n : ~ \E it : Fold(it, k)}
<1>1. SUFFICES ASSUME T # {} PROVE FALSE
  OBVIOUS
<1>2. PICK k \in T : \A j \in T : k <= j
  <2>1. T \subseteq Nat
    OBVIOUS
  <2> HIDE DEF T
  <2> QED
    BY <1>1, <2>1, LeastElement
<1>3. CASE k = 0
  <2>1. SUBSET (1..0) = {{}}
    OBVIOUS
  <2>2. Fold([t \in SUBSET (1..0) |-> base], 0)
    BY <2>1 DEF IsFold
  <2> QED
    BY <1>2, <1>3, <2>2
<1>4. CASE k # 0
  <2>1. k \in Nat /\ k - 1 \in 0..n /\ k - 1 \notin T /\ k \in 1..n
    <3>1. k \in 0..n
      OBVIOUS
    <3> HIDE DEF T
    <3>2. k - 1 \in 0..n /\ ~ (k <= k - 1) /\ k \in 1..n
      BY <1>4, <3>1
    <3> QED
      BY <1>2, <3>2
  <2>2. PICK it : Fold(it, k - 1)
    BY <2>1
  <2> DEFINE new == [t \in SUBSET (1..k) |->
                       IF k \in t THEN f[it[t \ {k}], s[k]] ELSE it[t]]
  <2>3. \A t \in SUBSET (1..k) : t \ {k} \in SUBSET (1..(k - 1))
    BY <2>1
  <2>4. new \in [SUBSET (1..k) -> B]
    <3> SUFFICES ASSUME NEW t \in SUBSET (1..k)
                 PROVE  (IF k \in t THEN f[it[t \ {k}], s[k]] ELSE it[t]) \in B
      OBVIOUS
    <3>1. t \ {k} \in SUBSET (1..(k - 1)) /\ (k \notin t => t \ {k} = t)
      BY <2>3
    <3>2. it[t \ {k}] \in B
      BY <2>2, <3>1 DEF IsFold
    <3> QED
      BY <2>1, <3>1, <3>2
  <2>5. ASSUME NEW t \in SUBSET (1..k)
        PROVE  new[t] = IF t = {} THEN base ELSE f[new[t \ {Max(t)}], s[Max(t)]]
    <3>1. CASE k \in t
      <4>1. t # {} /\ Max(t) \in t /\ Max(t) >= k
        <5>1. t # {} /\ t \in SUBSET (1..k) /\ k \in Nat
          BY <2>1, <3>1
        <5> HIDE DEF new
        <5>2. Max(t) \in t /\ \A i \in t : Max(t) >= i
          BY <5>1, MaxIsMax
        <5> QED
          BY <3>1, <5>1, <5>2
      <4>2. Max(t) = k
        <5>1. Max(t) \in 1..k
          BY <4>1
        <5> HIDE DEF new
        <5> QED
          BY <2>1, <4>1, <5>1
      <4>3. new[t] = f[it[t \ {k}], s[k]]
        BY <3>1
      <4>4. new[t \ {k}] = it[t \ {k}]
        OBVIOUS
      <4> HIDE DEF new
      <4> QED
        BY <4>1, <4>2, <4>3, <4>4
    <3>2. CASE k \notin t /\ t # {}
      <4>1. t \in SUBSET (1..(k - 1))
        BY <2>3, <3>2
      <4>2. Max(t) \in t
        <5>1. t # {} /\ t \in SUBSET (1..k) /\ k \in Nat
          BY <2>1, <3>2
        <5> HIDE DEF new
        <5> QED
          BY <5>1, MaxIsMax
      <4>3. t \ {Max(t)} \in SUBSET (1..k) /\ k \notin t \ {Max(t)}
        BY <3>2
      <4>4. new[t] = it[t] /\ new[t \ {Max(t)}] = it[t \ {Max(t)}]
        BY <3>2, <4>3
      <4> HIDE DEF new
      <4>5. it[t] = f[it[t \ {Max(t)}], s[Max(t)]]
        BY <2>2, <3>2, <4>1 DEF IsFold
      <4> QED
        BY <3>2, <4>4, <4>5
    <3>3. CASE t = {}
      <4>1. new[t] = it[t]
        BY <3>3
      <4>2. it[{}] = base
        BY <2>2 DEF IsFold
      <4> HIDE DEF new
      <4> QED
        BY <3>3, <4>1, <4>2
    <3> QED
      BY <3>1, <3>2, <3>3
  <2>6. Fold(new, k)
    <3> HIDE DEF new
    <3> QED
      BY <2>4, <2>5 DEF IsFold
  <2> QED
    BY <1>2, <2>6
<1> QED
  BY <1>3, <1>4

-----------------------------------------------------------------------------
(* Positions *)

LEMMA InsertTyped ==
  ASSUME NEW q \in Seq(1..Gigs), NEW g \in 1..Gigs, NEW S \in SUBSET DOMAIN q
  PROVE  InsertAt(q, 1 + Cardinality(S), g) \in Seq(1..Gigs)
<1> DEFINE n == Len(q)
           m == Cardinality(S)
<1>1. n \in Nat /\ DOMAIN q = 1..n /\ \A i \in 1..n : q[i] \in 1..Gigs
  <2>1. n \in Nat /\ DOMAIN q = 1..n
    OBVIOUS
  <2>2. \A i \in 1..n : q[i] \in 1..Gigs
    BY ElementOfSeq
  <2> QED
    BY <2>1, <2>2
<1>2. m \in 0..n
  <2>1. IsFiniteSet(1..n) /\ Cardinality(1..n) = n
    <3>1. n \in Nat /\ n \in Int /\ 1 \in Int
      BY <1>1
    <3> HIDE DEF n
    <3>2. IsFiniteSet(1..n) /\ Cardinality(1..n) = (IF 1 > n THEN 0 ELSE n - 1 + 1)
      BY <3>1, FS_Interval
    <3> QED
      BY <3>1, <3>2
  <2>2. IsFiniteSet(S) /\ Cardinality(S) <= Cardinality(1..n)
    BY <1>1, <2>1, FS_Subset
  <2>3. Cardinality(S) \in Nat
    BY <2>2, FS_CardinalityType
  <2> QED
    BY <1>1, <2>1, <2>2, <2>3
<1> HIDE DEF n, m
<1>3. /\ SubSeq(q, 1, m) \in Seq(1..Gigs) /\ SubSeq(q, m + 1, n) \in Seq(1..Gigs)
  <2>1. m \in Int /\ m + 1 \in Int /\ n \in Int /\ 1 \in Int
    BY <1>1, <1>2
  <2>2. \A i \in 1..m : q[i] \in 1..Gigs
    BY <1>1, <1>2
  <2>3. \A i \in (m + 1)..n : q[i] \in 1..Gigs
    BY <1>1, <1>2
  <2>4. SubSeq(q, 1, m) \in Seq(1..Gigs)
    BY <2>1, <2>2, SubSeqProperties
  <2>5. SubSeq(q, m + 1, n) \in Seq(1..Gigs)
    BY <2>1, <2>3, SubSeqProperties
  <2> QED
    BY <2>4, <2>5
<1>4. InsertAt(q, 1 + m, g) = SubSeq(q, 1, m) \o <<g>> \o SubSeq(q, m + 1, n)
  <2>1. (1 + m) - 1 = m /\ 1 + m = m + 1
    BY <1>2
  <2> QED
    BY <2>1 DEF InsertAt, n
<1>5. SubSeq(q, 1, m) \o <<g>> \o SubSeq(q, m + 1, n) \in Seq(1..Gigs)
  BY <1>3
<1> QED
  BY <1>4, <1>5 DEF m

-----------------------------------------------------------------------------
(* Ranking *)

\* What Ranked does with one job.
Inserted(list, g, w, maxPay) ==
    LET at == 1 + Cardinality({i \in DOMAIN list :
                     Before(TotalPoints(list[i], w, maxPay), TotalPoints(g, w, maxPay))})
    IN IF SkillPoints(g, w) = 0 THEN list ELSE InsertAt(list, at, g)

LEMMA RankedUnfolded ==
  ASSUME NEW gigs, NEW w, NEW maxPay
  PROVE  Ranked(gigs, w, maxPay) =
           (CHOOSE it : it = [s \in SUBSET DOMAIN gigs |->
               IF s = {} THEN <<>>
               ELSE Inserted(it[s \ {Max(s)}], gigs[Max(s)], w, maxPay)])[DOMAIN gigs]
  BY Zenon DEF Ranked, FoldLeft, MapThenFoldSet, Inserted

\* One job after another: the function Ranked folds with.
RanksWith(it, gigs, w, maxPay) ==
    /\ Ranked(gigs, w, maxPay) = it[DOMAIN gigs]
    /\ \A s \in SUBSET DOMAIN gigs :
          it[s] = IF s = {} THEN <<>>
                  ELSE Inserted(it[s \ {Max(s)}], gigs[Max(s)], w, maxPay)

LEMMA RankedStep ==
  ASSUME NEW w, NEW maxPay, NEW gigs \in Seq(1..Gigs)
  PROVE  \E it : RanksWith(it, gigs, w, maxPay)
<1> DEFINE n == Len(gigs)
           B == Seq(1..Gigs)
           f == [p \in B \X (1..Gigs) |-> Inserted(p[1], p[2], w, maxPay)]
           Steps(it) == it = [s \in SUBSET DOMAIN gigs |->
               IF s = {} THEN <<>>
               ELSE Inserted(it[s \ {Max(s)}], gigs[Max(s)], w, maxPay)]
<1>1. n \in Nat /\ DOMAIN gigs = 1..n /\ gigs \in [1..n -> 1..Gigs]
  <2>1. n \in Nat /\ DOMAIN gigs = 1..n
    OBVIOUS
  <2>2. \A i \in 1..n : gigs[i] \in 1..Gigs
    BY ElementOfSeq
  <2> QED
    BY <2>1, <2>2
<1>2. f \in [B \X (1..Gigs) -> B]
  <2> SUFFICES ASSUME NEW q \in B, NEW g \in 1..Gigs
               PROVE  Inserted(q, g, w, maxPay) \in B
    OBVIOUS
  <2> DEFINE S == {i \in DOMAIN q :
                     Before(TotalPoints(q[i], w, maxPay), TotalPoints(g, w, maxPay))}
  <2>1. S \in SUBSET DOMAIN q
    OBVIOUS
  <2>2. InsertAt(q, 1 + Cardinality(S), g) \in B
    <3> HIDE DEF S
    <3> QED
      BY <2>1, InsertTyped
  <2> QED
    BY <2>2 DEF Inserted
<1>3. PICK h : IsFold(h, n, gigs, B, <<>>, f)
  <2>1. <<>> \in B
    OBVIOUS
  <2> HIDE DEF n, B, f
  <2> QED
    BY <1>1, <1>2, <2>1, FoldExists
<1>4. Steps(h)
  <2>1. h \in [SUBSET (1..n) -> B]
    BY <1>3 DEF IsFold
  <2>2. ASSUME NEW s \in SUBSET (1..n)
        PROVE  h[s] = IF s = {} THEN <<>>
                      ELSE Inserted(h[s \ {Max(s)}], gigs[Max(s)], w, maxPay)
    <3>1. CASE s = {}
      BY <1>3, <3>1 DEF IsFold
    <3>2. CASE s # {}
      <4>1. Max(s) \in s
        <5> HIDE DEF n
        <5> QED
          BY <1>1, <3>2, MaxIsMax
      <4>2. s \ {Max(s)} \in SUBSET (1..n) /\ Max(s) \in 1..n
        BY <4>1
      <4>3. h[s \ {Max(s)}] \in B /\ gigs[Max(s)] \in 1..Gigs
        <5> HIDE DEF B, n
        <5> QED
          BY <1>1, <2>1, <4>2
      <4>4. h[s] = f[h[s \ {Max(s)}], gigs[Max(s)]]
        BY <1>3, <3>2 DEF IsFold
      <4> HIDE DEF B, n
      <4> QED
        BY <3>2, <4>3, <4>4
    <3> QED
      BY <3>1, <3>2
  <2> HIDE DEF n, B
  <2> QED
    BY <1>1, <2>1, <2>2
<1> DEFINE it == CHOOSE x : Steps(x)
<1>5. Steps(it)
  <2> HIDE DEF Steps
  <2> QED
    BY <1>4
<1>6. Ranked(gigs, w, maxPay) = it[DOMAIN gigs]
  BY RankedUnfolded, Zenon
<1> HIDE DEF it
<1>7. \A s \in SUBSET DOMAIN gigs :
         it[s] = IF s = {} THEN <<>>
                 ELSE Inserted(it[s \ {Max(s)}], gigs[Max(s)], w, maxPay)
  BY <1>5, Zenon
<1> QED
  BY <1>6, <1>7 DEF RanksWith

\* Of jobs read from the newest to the oldest, Ranked gives those that fit, best first.
LEMMA RankedIsOrdered ==
  ASSUME NEW w, NEW maxPay, NEW gigs \in Seq(1..Gigs),
         Descending(gigs), PointsOf(w, maxPay) \in [1..Gigs -> Int]
  PROVE  /\ Ranked(gigs, w, maxPay) \in Seq(1..Gigs)
         /\ Ordered(Ranked(gigs, w, maxPay), PointsOf(w, maxPay))
         /\ ToSet(Ranked(gigs, w, maxPay)) = FitFor(w, ToSet(gigs))
<1> DEFINE n == Len(gigs)
           P == PointsOf(w, maxPay)
<1>p. P \in [1..Gigs -> Int] /\ \A g \in 1..Gigs : P[g] = TotalPoints(g, w, maxPay)
  BY DEF PointsOf
<1> HIDE DEF P
<1>1. n \in Nat /\ DOMAIN gigs = 1..n /\ \A i \in 1..n : gigs[i] \in 1..Gigs
  <2>1. n \in Nat /\ DOMAIN gigs = 1..n
    OBVIOUS
  <2>2. \A i \in 1..n : gigs[i] \in 1..Gigs
    BY ElementOfSeq
  <2> QED
    BY <2>1, <2>2
<1> HIDE DEF n
<1>2. PICK it : RanksWith(it, gigs, w, maxPay)
  BY RankedStep
<1> DEFINE Fits(k) == {gigs[i] : i \in {j \in 1..k : SkillPoints(gigs[j], w) # 0}}
           Good(k) == /\ it[1..k] \in Seq(1..Gigs) /\ Ordered(it[1..k], P)
                      /\ ToSet(it[1..k]) = Fits(k)
           T == {k \in 0..n : ~ Good(k)}
<1>3. T = {}
  <2> SUFFICES ASSUME T # {} PROVE FALSE
    OBVIOUS
  <2>1. PICK k \in T : \A m \in T : k <= m
    <3>1. T \subseteq Nat
      BY <1>1
    <3> HIDE DEF T
    <3> QED
      BY <3>1, LeastElement
  <2>2. k \in 0..n /\ ~ Good(k)
    OBVIOUS
  <2>3. CASE k = 0
    <3>1. 1..k = {} /\ {} \in SUBSET DOMAIN gigs
      BY <2>3
    <3>2. it[1..k] = <<>>
      BY <1>2, <3>1 DEF RanksWith
    <3>3. <<>> \in Seq(1..Gigs) /\ DOMAIN <<>> = {}
      OBVIOUS
    <3>4. Fits(k) = {} /\ ToSet(<<>>) = {} /\ Ordered(<<>>, P)
      BY <3>1, <3>3 DEF ToSet, Ordered
    <3> QED
      BY <2>2, <3>2, <3>3, <3>4
  <2>4. CASE k # 0
    <3>1. k \in Nat /\ k \in 1..n /\ k - 1 \in 0..n /\ ~ (k <= k - 1)
      BY <1>1, <2>2, <2>4
    <3>2. Good(k - 1)
      <4>1. k - 1 \notin T
        <5> HIDE DEF T
        <5> QED
          BY <2>1, <3>1
      <4> QED
        BY <3>1, <4>1
    <3> DEFINE q == it[1..(k - 1)]
               g == gigs[k]
    <3>3. g \in 1..Gigs /\ q \in Seq(1..Gigs) /\ Ordered(q, P) /\ ToSet(q) = Fits(k - 1)
      BY <1>1, <3>1, <3>2
    <3>4. it[1..k] = Inserted(q, g, w, maxPay)
      <4>1. 1..k # {} /\ 1..k \in SUBSET (1..k) /\ k \in 1..k
        <5>1. k \in 1..k
          BY <3>1
        <5> HIDE DEF T
        <5> QED
          BY <5>1
      <4>2. Max(1..k) \in 1..k /\ Max(1..k) >= k
        BY <3>1, <4>1, MaxIsMax
      <4>3. Max(1..k) = k
        BY <3>1, <4>2
      <4>4. (1..k) \ {k} = 1..(k - 1) /\ 1..k \in SUBSET DOMAIN gigs
        BY <1>1, <3>1
      <4> QED
        BY <1>2, <4>1, <4>3, <4>4 DEF RanksWith
    <3>5. Fits(k) = IF SkillPoints(g, w) = 0 THEN Fits(k - 1) ELSE Fits(k - 1) \cup {g}
      <4>1. \A j : j \in 1..k <=> j \in 1..(k - 1) \/ j = k
        BY <3>1
      <4> QED
        BY <4>1
    <3>6. Older(g, q)
      <4> SUFFICES ASSUME NEW i \in DOMAIN q PROVE g < q[i]
        BY DEF Older
      <4>1. q[i] \in Fits(k - 1)
        <5> HIDE DEF q, g
        <5>1. q[i] \in ToSet(q)
          BY DEF ToSet
        <5> QED
          BY <3>3, <5>1
      <4>2. PICK j \in 1..(k - 1) : q[i] = gigs[j]
        BY <4>1
      <4>3. j \in 1..n /\ k \in 1..n /\ j < k
        BY <1>1, <3>1
      <4>4. gigs[j] > gigs[k] /\ gigs[j] \in Int /\ gigs[k] \in Int
        BY <1>1, <4>3 DEF Descending
      <4> QED
        BY <4>2, <4>4
    <3> DEFINE S == {i \in DOMAIN q : P[q[i]] >= P[g]}
    <3>7. S = {i \in DOMAIN q :
                 Before(TotalPoints(q[i], w, maxPay), TotalPoints(g, w, maxPay))}
      <4>1. \A i \in DOMAIN q : q[i] \in 1..Gigs
        <5> HIDE DEF q, g
        <5>1. DOMAIN q = 1..Len(q)
          BY <3>3
        <5> QED
          BY <3>3, <5>1, ElementOfSeq
      <4> HIDE DEF q, g
      <4> QED
        BY <1>p, <3>3, <4>1 DEF Before
    <3>8. /\ Placed(P, q, g) \in Seq(1..Gigs) /\ Ordered(Placed(P, q, g), P)
          /\ ToSet(Placed(P, q, g)) = ToSet(q) \cup {g}
      <4> HIDE DEF q, g, Fits, T
      <4>1. P \in [1..Gigs -> Int] /\ g \in 1..Gigs /\ q \in Seq(1..Gigs) /\ Ordered(q, P)
        BY <1>p, <3>3
      <4> QED
        BY <3>6, <4>1, InsertOrdered
    <3>9. it[1..k] = IF SkillPoints(g, w) = 0 THEN q ELSE Placed(P, q, g)
      <4>1. Placed(P, q, g) = InsertAt(q, 1 + Cardinality(S), g)
        BY DEF Placed
      <4> HIDE DEF q, g, S
      <4> QED
        BY <3>4, <3>7, <4>1 DEF Inserted
    <3> HIDE DEF q, g, S, Fits
    <3> QED
      BY <2>2, <3>3, <3>5, <3>8, <3>9
  <2> QED
    BY <2>3, <2>4
<1>4. Good(n)
  <2>1. n \in 0..n
    BY <1>1
  <2> QED
    BY <1>3, <2>1
<1>5. Fits(n) = FitFor(w, ToSet(gigs))
  <2>1. \A g : SkillPoints(g, w) # 0 <=> SkillPoints(g, w) > 0
    BY SkillTyped
  <2>2. Fits(n) = {g \in ToSet(gigs) : SkillPoints(g, w) # 0}
    BY <1>1 DEF ToSet
  <2> QED
    BY <2>1, <2>2 DEF FitFor
<1> HIDE DEF Fits
<1> QED
  BY <1>1, <1>2, <1>4, <1>5 DEF RanksWith, P

-----------------------------------------------------------------------------
(* Sizes *)

LEMMA IntervalSize ==
  ASSUME NEW n \in Nat
  PROVE  IsFiniteSet(1..n) /\ Cardinality(1..n) = n
  BY FS_Interval

LEMMA GigsFinite ==
  ASSUME NEW S \in SUBSET (1..Gigs)
  PROVE  IsFiniteSet(S) /\ Cardinality(S) \in Nat
<1>1. IsFiniteSet(1..Gigs)
  BY BoardAssumption, IntervalSize
<1>2. IsFiniteSet(S)
  BY <1>1, FS_Subset
<1> QED
  BY <1>2, FS_CardinalityType

LEMMA ManyToOne ==
  ASSUME NEW k \in Nat, NEW S, NEW f \in [1..k -> S],
         \A x \in S : \E i \in 1..k : f[i] = x,
         \A i, j \in 1..k : f[i] = f[j] => i = j
  PROVE  Cardinality(S) = k
<1>1. f \in Surjection(1..k, S) /\ f \in Injection(1..k, S)
  BY DEF Surjection, Injection, IsInjective
<1>2. IsFiniteSet(1..k) /\ Cardinality(1..k) = k
  BY IntervalSize
<1> QED
  BY <1>1, <1>2, FS_Surjection

-----------------------------------------------------------------------------
(* The first Top of a ranking *)

First(q)   == SubSeq(q, 1, IF Len(q) < Top THEN Len(q) ELSE Top)
Best(P, S) == {g \in S : Cardinality({h \in S : Beats(P, h, g)}) < Top}

LEMMA TopIsBest ==
  ASSUME NEW P \in [1..Gigs -> Int], NEW q \in Seq(1..Gigs), Ordered(q, P)
  PROVE  Ordered(First(q), P) /\ ToSet(First(q)) = Best(P, ToSet(q))
<1> DEFINE top == Top
           n == Len(q)
           m == IF n < top THEN n ELSE top
           front == SubSeq(q, 1, m)
<1>1. n \in Nat /\ DOMAIN q = 1..n /\ \A i \in 1..n : q[i] \in 1..Gigs /\ P[q[i]] \in Int
  <2>1. n \in Nat /\ DOMAIN q = 1..n
    OBVIOUS
  <2>2. \A i \in 1..n : q[i] \in 1..Gigs
    BY ElementOfSeq
  <2> QED
    BY <2>1, <2>2
<1> HIDE DEF n
<1>g. Gigs \in Nat /\ top \in Nat
  BY BoardAssumption
<1> HIDE DEF top
<1>2. m \in 0..n /\ m <= top /\ (m < n => m = top)
  BY <1>1, <1>g
<1> HIDE DEF m
<1>3. Len(front) = m /\ DOMAIN front = 1..m /\ \A i \in 1..m : front[i] = q[i]
  <2>1. m \in Int /\ 1 \in Int /\ \A i \in 1..m : q[i] \in 1..Gigs
    BY <1>1, <1>2
  <2>2. /\ front \in Seq(1..Gigs)
        /\ Len(front) = (IF 1 <= m THEN m - 1 + 1 ELSE 0)
        /\ \A i \in 1..m - 1 + 1 : front[i] = q[1 + i - 1]
    BY <2>1, SubSeqProperties
  <2> HIDE DEF front
  <2>3. DOMAIN front = 1..Len(front)
    BY <2>2
  <2>4. Len(front) = m
    BY <1>1, <1>2, <2>2
  <2>5. ASSUME NEW i \in 1..m PROVE front[i] = q[i]
    <3>1. i \in 1..m - 1 + 1 /\ 1 + i - 1 = i
      BY <1>1, <1>2
    <3> QED
      BY <2>2, <3>1
  <2> QED
    BY <2>3, <2>4, <2>5
<1> HIDE DEF front
<1>4. \A i, j \in 1..n : Beats(P, q[i], q[j]) <=> i < j
  <2> SUFFICES ASSUME NEW i \in 1..n, NEW j \in 1..n
               PROVE  Beats(P, q[i], q[j]) <=> i < j
    OBVIOUS
  <2>1. /\ i < j => Beats(P, q[i], q[j])
        /\ j < i => Beats(P, q[j], q[i])
    BY <1>1 DEF Ordered
  <2>2. i = j => ~ Beats(P, q[i], q[j])
    BY <1>1, <1>g DEF Beats
  <2>3. ~ (Beats(P, q[i], q[j]) /\ Beats(P, q[j], q[i]))
    BY <1>1, <1>g DEF Beats
  <2> QED
    BY <1>1, <2>1, <2>2, <2>3
<1>5. \A j \in 1..n : Cardinality({h \in ToSet(q) : Beats(P, h, q[j])}) = j - 1
  <2> SUFFICES ASSUME NEW j \in 1..n
               PROVE  Cardinality({h \in ToSet(q) : Beats(P, h, q[j])}) = j - 1
    OBVIOUS
  <2> DEFINE S == {h \in ToSet(q) : Beats(P, h, q[j])}
             f == [i \in 1..(j - 1) |-> q[i]]
             k == j - 1
  <2>1. k \in Nat /\ \A i \in 1..k : i \in 1..n /\ i < j
    BY <1>1
  <2>2. f \in [1..k -> S]
    <3> SUFFICES ASSUME NEW i \in 1..k PROVE q[i] \in S
      OBVIOUS
    <3>1. i \in 1..n /\ Beats(P, q[i], q[j])
      BY <1>4, <2>1
    <3> QED
      BY <1>1, <3>1 DEF ToSet
  <2>3. ASSUME NEW x \in S PROVE \E i \in 1..k : f[i] = x
    <3>1. PICK i \in 1..n : q[i] = x
      BY <1>1 DEF ToSet
    <3>2. i < j
      BY <1>4, <3>1
    <3>3. i \in 1..k
      BY <1>1, <3>2
    <3> QED
      BY <3>1, <3>3
  <2>4. ASSUME NEW i \in 1..k, NEW l \in 1..k, f[i] = f[l] PROVE i = l
    <3>1. i \in 1..n /\ l \in 1..n /\ q[i] = q[l]
      BY <2>1, <2>4
    <3>2. ~ (i < l) /\ ~ (l < i)
      <4>1. ~ (i < i)
        BY <3>1
      <4>2. ~ Beats(P, q[i], q[i])
        BY <1>4, <3>1, <4>1
      <4> QED
        BY <1>4, <3>1, <4>2
    <3> QED
      BY <1>1, <3>1, <3>2
  <2> HIDE DEF S, f, k
  <2>5. Cardinality(S) = k
    BY <2>1, <2>2, <2>3, <2>4, ManyToOne
  <2> QED
    BY <2>5 DEF S, k
<1>6. Ordered(front, P)
  <2>1. \A i \in 1..m : i \in 1..n
    BY <1>1, <1>2
  <2> QED
    BY <1>1, <1>3, <2>1 DEF Ordered
<1> DEFINE best == {g \in ToSet(q) : Cardinality({h \in ToSet(q) : Beats(P, h, g)}) < top}
<1>7. ASSUME NEW g \in ToSet(front) PROVE g \in best
  <2>1. PICK i \in 1..m : g = q[i]
    BY <1>3 DEF ToSet
  <2>2. i \in 1..n /\ i - 1 < top
    BY <1>1, <1>2, <1>g
  <2>3. g \in ToSet(q)
    BY <1>1, <2>1, <2>2 DEF ToSet
  <2> QED
    BY <1>5, <2>1, <2>2, <2>3
<1>8. ASSUME NEW g \in best PROVE g \in ToSet(front)
  <2>1. PICK i \in 1..n : g = q[i]
    BY <1>1 DEF ToSet
  <2>2. i - 1 < top
    BY <1>5, <2>1
  <2>3. i \in 1..m
    BY <1>1, <1>2, <1>g, <2>2
  <2> QED
    BY <1>3, <2>1, <2>3 DEF ToSet
<1> HIDE DEF best
<1>9. ToSet(front) = best
  BY <1>7, <1>8
<1> QED
  BY <1>6, <1>9 DEF best, Best, First, front, m, n, top

-----------------------------------------------------------------------------
(* The jobs a feed reads *)

LEMMA NewestExists ==
  ASSUME NEW S \in SUBSET (1..Gigs)
  PROVE  \E q \in [1..Cardinality(S) -> S] : Descending(q)
<1> DEFINE Listed(X) == \E q \in [1..Cardinality(X) -> X] : Descending(q)
           T == {c \in Nat : \E X \in SUBSET (1..Gigs) : Cardinality(X) = c /\ ~ Listed(X)}
<1>1. SUFFICES ASSUME T # {} PROVE FALSE
  <2>1. Cardinality(S) \in Nat
    BY GigsFinite
  <2> QED
    BY <2>1
<1>2. PICK c \in T : \A d \in T : c <= d
  <2>1. T \subseteq Nat
    OBVIOUS
  <2> HIDE DEF T
  <2> QED
    BY <1>1, <2>1, LeastElement
<1>3. PICK X \in SUBSET (1..Gigs) : Cardinality(X) = c /\ ~ Listed(X)
  OBVIOUS
<1>4. c \in Nat /\ IsFiniteSet(X)
  BY <1>3, GigsFinite
<1>5. X # {}
  <2> SUFFICES ASSUME X = {} PROVE FALSE
    OBVIOUS
  <2>1. Cardinality(X) = 0 /\ 1..0 = {}
    BY FS_EmptySet
  <2>2. [i \in {} |-> 0] \in [1..Cardinality(X) -> X]
    BY <2>1
  <2>3. Descending([i \in {} |-> 0])
    BY DEF Descending
  <2> QED
    BY <1>3, <2>2, <2>3
<1>6. PICK x \in X : \A y \in X : x <= y
  <2>1. X \subseteq Nat
    BY BoardAssumption
  <2> QED
    BY <1>5, <2>1, LeastElement
<1> DEFINE Y == X \ {x}
<1>7. Y \in SUBSET (1..Gigs) /\ Cardinality(Y) = c - 1
  BY <1>3, <1>4, FS_RemoveElement
<1>8. c - 1 \in Nat /\ ~ (c <= c - 1)
  <2>1. Cardinality(Y) \in Nat
    <3> HIDE DEF Y
    <3> QED
      BY <1>7, GigsFinite
  <2> QED
    BY <1>4, <1>7, <2>1
<1>9. PICK q \in [1..(c - 1) -> Y] : Descending(q)
  <2>1. c - 1 \notin T
    <3> HIDE DEF T
    <3> QED
      BY <1>2, <1>8
  <2>2. Listed(Y)
    <3> HIDE DEF Y
    <3> QED
      BY <1>7, <1>8, <2>1
  <2> QED
    BY <1>7, <2>2
<1> DEFINE new == [i \in 1..c |-> IF i = c THEN x ELSE q[i]]
<1>10. new \in [1..c -> X]
  <2> SUFFICES ASSUME NEW i \in 1..c, i # c PROVE q[i] \in X
    OBVIOUS
  <2>1. i \in 1..(c - 1)
    BY <1>4
  <2> QED
    BY <2>1
<1>11. Descending(new)
  <2> SUFFICES ASSUME NEW i \in 1..c, NEW j \in 1..c, i < j
               PROVE  new[i] > new[j]
    BY DEF Descending
  <2>1. i \in 1..(c - 1) /\ i # c
    BY <1>4
  <2>2. new[i] = q[i] /\ q[i] \in Y
    BY <2>1
  <2>3. CASE j = c
    <3>1. new[j] = x /\ q[i] \in X /\ q[i] # x
      BY <2>2, <2>3
    <3>2. x \in Int /\ q[i] \in Int
      <4>1. \A y \in 1..Gigs : y \in Int
        OBVIOUS
      <4>2. x \in X /\ q[i] \in X
        BY <3>1
      <4> HIDE DEF new, T
      <4> QED
        BY <4>1, <4>2
    <3> HIDE DEF new
    <3> QED
      BY <1>6, <2>2, <3>1, <3>2
  <2>4. CASE j # c
    <3>1. j \in 1..(c - 1)
      BY <1>4, <2>4
    <3>2. new[j] = q[j]
      BY <2>4
    <3>3. q[i] > q[j]
      BY <1>9, <2>1, <3>1 DEF Descending
    <3> HIDE DEF new
    <3> QED
      BY <2>2, <3>2, <3>3
  <2> QED
    BY <2>3, <2>4
<1> QED
  BY <1>3, <1>10, <1>11

\* As long as there are not too many, the feed reads them all, the newest first.
LEMMA NewestIsAll ==
  ASSUME NEW S \in SUBSET (1..Gigs), NEW n \in Nat, Cardinality(S) <= n
  PROVE  LET q == Newest(S, n)
         IN  q \in Seq(1..Gigs) /\ Descending(q) /\ ToSet(q) = S
<1> DEFINE c == Cardinality(S)
           order == CHOOSE q \in [1..c -> S] : \A i, j \in DOMAIN q : i < j => q[i] > q[j]
<1>1. c \in Nat /\ IsFiniteSet(S)
  BY GigsFinite
<1>2. order \in [1..c -> S] /\ Descending(order)
  BY NewestExists DEF Descending
<1>3. Newest(S, n) = SubSeq(order, 1, IF Len(order) < n THEN Len(order) ELSE n)
  BY DEF Newest
<1>c. Cardinality(S) = c
  OBVIOUS
<1> HIDE DEF c, order
<1>s. \A i \in 1..c : order[i] \in S /\ order[i] \in 1..Gigs /\ order[i] \in Int
  <2>1. \A y \in 1..Gigs : y \in Int
    OBVIOUS
  <2>2. \A i \in 1..c : order[i] \in S
    BY <1>2
  <2>3. \A y \in S : y \in 1..Gigs
    OBVIOUS
  <2> QED
    BY <2>1, <2>2, <2>3
<1>4. order \in Seq(1..Gigs) /\ Len(order) = c /\ DOMAIN order = 1..c
  <2>1. order \in [1..c -> 1..Gigs]
    BY <1>2, <1>s
  <2>2. order \in Seq(1..Gigs)
    BY <1>1, <2>1, SeqDef
  <2>3. DOMAIN order = 1..c /\ DOMAIN order = 1..Len(order) /\ Len(order) \in Nat
    BY <2>1, <2>2, LenProperties
  <2>4. Cardinality(1..c) = c /\ Cardinality(1..Len(order)) = Len(order)
    BY <1>1, <2>3, IntervalSize
  <2> QED
    BY <2>2, <2>3, <2>4
<1>5. Newest(S, n) = SubSeq(order, 1, c)
  <2>1. (IF c < n THEN c ELSE n) = c
    BY <1>1, <1>c
  <2> QED
    BY <1>3, <1>4, <2>1
<1>6. SubSeq(order, 1, c) = order
  <2> DEFINE sub == SubSeq(order, 1, c)
  <2>1. 1 \in Int /\ c \in Int /\ \A i \in 1..c : order[i] \in 1..Gigs
    BY <1>1, <1>s
  <2>2. /\ sub \in Seq(1..Gigs)
        /\ Len(sub) = (IF 1 <= c THEN c - 1 + 1 ELSE 0)
        /\ \A i \in 1..c - 1 + 1 : sub[i] = order[1 + i - 1]
    BY <2>1, SubSeqProperties
  <2> HIDE DEF sub
  <2>3. Len(sub) = c
    BY <1>1, <2>2
  <2>4. ASSUME NEW i \in 1..c PROVE sub[i] = order[i]
    <3>1. i \in 1..c - 1 + 1 /\ 1 + i - 1 = i
      BY <1>1
    <3> QED
      BY <2>2, <3>1
  <2>5. sub = order
    BY <1>4, <2>2, <2>3, <2>4
  <2> QED
    BY <2>5 DEF sub
<1>7. ToSet(order) = S
  <2>1. \A i, j \in 1..c : order[i] = order[j] => i = j
    <3> SUFFICES ASSUME NEW i \in 1..c, NEW j \in 1..c, order[i] = order[j]
                 PROVE  i = j
      OBVIOUS
    <3>1. order[i] \in Int /\ ~ (order[i] > order[i])
      BY <1>s
    <3>2. ~ (i < j) /\ ~ (j < i)
      BY <1>2, <3>1 DEF Descending
    <3> QED
      BY <1>1, <3>2
  <2>2. order \in Injection(1..c, S)
    BY <1>2, <2>1 DEF Injection, IsInjective
  <2>3. Cardinality(1..c) = c
    BY <1>1, IntervalSize
  <2>4. order \in Surjection(1..c, S)
    BY <1>1, <1>c, <2>2, <2>3, FS_Injection
  <2> QED
    BY <1>2, <1>4, <2>4 DEF Surjection, ToSet
<1> QED
  BY <1>2, <1>4, <1>5, <1>6, <1>7

-----------------------------------------------------------------------------
(* Points *)

LEMMA LargestExists ==
  ASSUME NEW n \in Nat \ {0}, NEW v \in [1..n -> Nat]
  PROVE  \E i \in 1..n : \A j \in 1..n : v[j] <= v[i]
<1> DEFINE Has(k) == \E i \in 1..k : \A j \in 1..k : v[j] <= v[i]
           T == {k \in 1..n : ~ Has(k)}
<1>1. T = {}
  <2> SUFFICES ASSUME T # {} PROVE FALSE
    OBVIOUS
  <2>1. PICK k \in T : \A m \in T : k <= m
    <3>1. T \subseteq Nat
      OBVIOUS
    <3> HIDE DEF T
    <3> QED
      BY <3>1, LeastElement
  <2>2. k \in 1..n /\ ~ Has(k)
    OBVIOUS
  <2>3. CASE k = 1
    <3>1. \A j \in 1..k : j = 1
      BY <2>3
    <3>2. 1 \in 1..k /\ v[1] \in Nat
      BY <2>2, <2>3
    <3>3. v[1] <= v[1]
      BY <3>2
    <3>4. \A j \in 1..k : v[j] <= v[1]
      BY <3>1, <3>3
    <3> HIDE DEF T
    <3>5. Has(k)
      BY <3>2, <3>4
    <3> QED
      BY <2>2, <3>5
  <2>4. CASE k # 1
    <3>1. k - 1 \in 1..n /\ ~ (k <= k - 1)
      BY <2>2, <2>4
    <3>2. Has(k - 1)
      <4>1. k - 1 \notin T
        <5> HIDE DEF T
        <5> QED
          BY <2>1, <3>1
      <4> QED
        BY <3>1, <4>1
    <3>3. PICK i \in 1..(k - 1) : \A j \in 1..(k - 1) : v[j] <= v[i]
      BY <3>2
    <3>4. \A j \in 1..k : v[j] \in Nat /\ (j \in 1..(k - 1) \/ j = k)
      BY <2>2
    <3>5. i \in 1..k /\ k \in 1..k /\ v[i] \in Nat /\ v[k] \in Nat
      BY <2>2, <3>1, <3>4
    <3>6. CASE v[k] <= v[i]
      <4>1. \A j \in 1..k : v[j] <= v[i]
        BY <3>3, <3>4, <3>6
      <4> QED
        BY <2>2, <3>5, <4>1
    <3>7. CASE ~ (v[k] <= v[i])
      <4>1. \A j \in 1..k : v[j] <= v[k]
        <5> SUFFICES ASSUME NEW j \in 1..k PROVE v[j] <= v[k]
          OBVIOUS
        <5>1. v[j] \in Nat /\ (v[j] <= v[i] \/ j = k)
          BY <3>3, <3>4
        <5> QED
          BY <3>5, <3>7, <5>1
      <4> QED
        BY <2>2, <3>5, <4>1
    <3> QED
      BY <3>6, <3>7
  <2> QED
    BY <2>3, <2>4
<1>2. n \in 1..n
  OBVIOUS
<1> QED
  BY <1>1, <1>2

LEMMA MaxPayTyped ==
  ASSUME NEW gigs \in Seq(1..Gigs), ToSet(gigs) # {}
  PROVE  MaxPay(gigs) \in Nat
<1> DEFINE n == Len(gigs)
           v == [i \in 1..n |-> Wage[gigs[i]]]
<1>1. n \in Nat /\ DOMAIN gigs = 1..n /\ \A i \in 1..n : gigs[i] \in 1..Gigs
  BY LenProperties, ElementOfSeq
<1>2. n # 0
  BY <1>1 DEF ToSet
<1> HIDE DEF n
<1>3. \A i \in 1..n : v[i] \in Nat /\ v[i] = Wage[gigs[i]]
  BY <1>1, BoardAssumption
<1>4. v \in [1..n -> Nat]
  BY <1>3
<1> HIDE DEF v
<1>5. PICK i \in 1..n : \A j \in 1..n : v[j] <= v[i]
  BY <1>1, <1>2, <1>4, LargestExists
<1> DEFINE Pays == {Wage[gigs[j]] : j \in DOMAIN gigs}
<1>6. v[i] \in Pays /\ \A j \in DOMAIN gigs : Wage[gigs[j]] <= v[i]
  BY <1>1, <1>3, <1>5
<1>7. MaxPay(gigs) \in Pays
  BY <1>6 DEF MaxPay
<1> QED
  BY <1>1, <1>3, <1>7

\* The function a sum over a finite set is the value of exists, and has numbers as values.
IsSum(h, S, p) ==
    \A s \in SUBSET S :
       h[s] = IF s = {} THEN 0
              ELSE p[CHOOSE y \in s : TRUE] + h[s \ {CHOOSE y \in s : TRUE}]

LEMMA SumExists ==
  ASSUME NEW S, IsFiniteSet(S), NEW p \in [S -> Nat]
  PROVE  \E h \in [SUBSET S -> Nat] : IsSum(h, S, p)
<1> DEFINE any(s) == CHOOSE y \in s : TRUE
           Sums(h, k) == \A s \in SUBSET S : Cardinality(s) <= k =>
                            h[s] = IF s = {} THEN 0 ELSE p[any(s)] + h[s \ {any(s)}]
           T == {k \in Nat : ~ \E h \in [SUBSET S -> Nat] : Sums(h, k)}
<1>1. \A s \in SUBSET S :
         /\ IsFiniteSet(s) /\ Cardinality(s) \in Nat /\ Cardinality(s) <= Cardinality(S)
         /\ Cardinality(s) = 0 <=> s = {}
         /\ s # {} => /\ any(s) \in s /\ p[any(s)] \in Nat
                      /\ s \ {any(s)} \in SUBSET S
                      /\ Cardinality(s \ {any(s)}) = Cardinality(s) - 1
  <2> SUFFICES ASSUME NEW s \in SUBSET S
               PROVE  /\ IsFiniteSet(s) /\ Cardinality(s) \in Nat /\ Cardinality(s) <= Cardinality(S)
                      /\ Cardinality(s) = 0 <=> s = {}
                      /\ s # {} => /\ any(s) \in s /\ p[any(s)] \in Nat
                                   /\ s \ {any(s)} \in SUBSET S
                                   /\ Cardinality(s \ {any(s)}) = Cardinality(s) - 1
    OBVIOUS
  <2>1. IsFiniteSet(s) /\ Cardinality(s) \in Nat /\ Cardinality(s) <= Cardinality(S)
    BY FS_Subset, FS_CardinalityType
  <2>2. Cardinality(s) = 0 <=> s = {}
    BY <2>1, FS_EmptySet
  <2>3. s # {} => any(s) \in s
    OBVIOUS
  <2> HIDE DEF any
  <2>4. s # {} => Cardinality(s \ {any(s)}) = Cardinality(s) - 1
    BY <2>1, <2>3, FS_RemoveElement
  <2> QED
    BY <2>1, <2>2, <2>3, <2>4
<1> HIDE DEF any
<1>2. T = {}
  <2> SUFFICES ASSUME T # {} PROVE FALSE
    OBVIOUS
  <2>1. PICK k \in T : \A m \in T : k <= m
    <3>1. T \subseteq Nat
      OBVIOUS
    <3> HIDE DEF T
    <3> QED
      BY <3>1, LeastElement
  <2>2. k \in Nat /\ ~ \E h \in [SUBSET S -> Nat] : Sums(h, k)
    OBVIOUS
  <2>3. CASE k = 0
    <3> DEFINE h == [s \in SUBSET S |-> 0]
    <3>1. \A s \in SUBSET S : Cardinality(s) <= k => s = {}
      <4> SUFFICES ASSUME NEW s \in SUBSET S, Cardinality(s) <= 0 PROVE s = {}
        BY <2>3
      <4>1. Cardinality(s) \in Nat /\ (Cardinality(s) = 0 <=> s = {})
        BY <1>1
      <4> QED
        BY <4>1
    <3>2. \A s \in SUBSET S : h[s] = 0
      OBVIOUS
    <3>3. h \in [SUBSET S -> Nat]
      OBVIOUS
    <3> HIDE DEF h
    <3>4. Sums(h, k)
      BY <3>1, <3>2
    <3> QED
      BY <2>2, <3>3, <3>4
  <2>4. CASE k # 0
    <3>1. k - 1 \in Nat /\ ~ (k <= k - 1)
      BY <2>2, <2>4
    <3>2. PICK h \in [SUBSET S -> Nat] : Sums(h, k - 1)
      <4>1. k - 1 \notin T
        <5> HIDE DEF T
        <5> QED
          BY <2>1, <3>1
      <4> HIDE DEF Sums
      <4> QED
        BY <3>1, <4>1
    <3> DEFINE new == [s \in SUBSET S |->
                         IF Cardinality(s) = k THEN p[any(s)] + h[s \ {any(s)}] ELSE h[s]]
    <3>3. new \in [SUBSET S -> Nat]
      <4> SUFFICES ASSUME NEW s \in SUBSET S, Cardinality(s) = k
                   PROVE  p[any(s)] + h[s \ {any(s)}] \in Nat
        OBVIOUS
      <4>1. s # {}
        BY <1>1, <2>4
      <4>2. p[any(s)] \in Nat /\ h[s \ {any(s)}] \in Nat
        BY <1>1, <4>1
      <4> QED
        BY <4>2
    <3>4. Sums(new, k)
      <4> SUFFICES ASSUME NEW s \in SUBSET S, Cardinality(s) <= k
                   PROVE  new[s] = IF s = {} THEN 0 ELSE p[any(s)] + new[s \ {any(s)}]
        OBVIOUS
      <4>1. CASE s = {}
        <5>1. new[s] = h[s] /\ Cardinality(s) <= k - 1
          BY <1>1, <2>2, <2>4, <4>1
        <5> HIDE DEF new
        <5> QED
          BY <3>2, <4>1, <5>1
      <4>2. CASE s # {}
        <5>1. s \ {any(s)} \in SUBSET S /\ Cardinality(s \ {any(s)}) # k
          BY <1>1, <2>2, <4>2
        <5>2. new[s \ {any(s)}] = h[s \ {any(s)}]
          BY <5>1
        <5>3. CASE Cardinality(s) = k
          <6>1. new[s] = p[any(s)] + h[s \ {any(s)}]
            BY <5>3
          <6> HIDE DEF new
          <6> QED
            BY <4>2, <5>2, <6>1
        <5>4. CASE Cardinality(s) # k
          <6>1. new[s] = h[s]
            BY <5>4
          <6>2. Cardinality(s) <= k - 1
            <7>1. Cardinality(s) \in Nat
              BY <1>1
            <7> HIDE DEF T
            <7>2. k \in Nat
              BY <2>2
            <7> QED
              BY <5>4, <7>1, <7>2
          <6> HIDE DEF new
          <6> QED
            BY <3>2, <4>2, <5>2, <6>1, <6>2
        <5> QED
          BY <5>3, <5>4
      <4> QED
        BY <4>1, <4>2
    <3> HIDE DEF new, Sums
    <3> QED
      BY <2>2, <3>3, <3>4
  <2> QED
    BY <2>3, <2>4
<1>3. Cardinality(S) \in Nat
  BY FS_CardinalityType
<1>4. PICK h \in [SUBSET S -> Nat] : Sums(h, Cardinality(S))
  <2> HIDE DEF Sums
  <2> QED
    BY <1>2, <1>3
<1>5. \A s \in SUBSET S :
         h[s] = IF s = {} THEN 0 ELSE p[any(s)] + h[s \ {any(s)}]
  BY <1>1, <1>4
<1> QED
  BY <1>5 DEF any, IsSum

LEMMA StarsUnfolded ==
  ASSUME NEW e
  PROVE  StarsOf(e) =
           (CHOOSE it : it = [s \in SUBSET RatingsOf(e) |->
               IF s = {} THEN 0
               ELSE LET x == CHOOSE y \in s : TRUE IN x.stars + it[s \ {x}]])[RatingsOf(e)]
  BY DEF StarsOf, MapThenSumSet, MapThenFoldSet

LEMMA StarsTyped ==
  ASSUME NEW e, IsFiniteSet(stars), \A s \in stars : s.stars \in Nat
  PROVE  StarsOf(e) \in Nat /\ CountOf(e) \in Nat
<1> DEFINE S == RatingsOf(e)
           any(s) == CHOOSE y \in s : TRUE
           Sums(f) == f = [s \in SUBSET S |->
                             IF s = {} THEN 0
                             ELSE LET x == CHOOSE y \in s : TRUE IN x.stars + f[s \ {x}]]
           p == [s \in S |-> s.stars]
           f == CHOOSE x : Sums(x)
<1>1. S \subseteq stars
  BY DEF RatingsOf
<1>2. IsFiniteSet(S) /\ Cardinality(S) \in Nat
  <2> HIDE DEF S
  <2>1. IsFiniteSet(S)
    BY <1>1, FS_Subset
  <2> QED
    BY <2>1, FS_CardinalityType
<1>3. p \in [S -> Nat]
  BY <1>1
<1>4. \A s \in SUBSET S : s # {} => any(s) \in S /\ any(s) \in s /\ p[any(s)] = any(s).stars
  <2> SUFFICES ASSUME NEW s \in SUBSET S, s # {}
               PROVE  any(s) \in S /\ any(s) \in s /\ p[any(s)] = any(s).stars
    OBVIOUS
  <2>1. any(s) \in s
    OBVIOUS
  <2> HIDE DEF S, any
  <2> QED
    BY <2>1
<1>5. StarsOf(e) = f[S]
  BY StarsUnfolded, Zenon
<1> HIDE DEF S, p
<1>6. PICK h \in [SUBSET S -> Nat] : IsSum(h, S, p)
  BY <1>2, <1>3, SumExists
<1>7. Sums(h)
  <2> SUFFICES ASSUME NEW s \in SUBSET S
               PROVE  h[s] = IF s = {} THEN 0 ELSE any(s).stars + h[s \ {any(s)}]
    OBVIOUS
  <2>1. CASE s = {}
    BY <1>6, <2>1 DEF IsSum
  <2>2. CASE s # {}
    <3>1. h[s] = p[any(s)] + h[s \ {any(s)}]
      BY <1>6, <2>2 DEF IsSum
    <3> HIDE DEF any
    <3> QED
      BY <1>4, <2>2, <3>1
  <2> QED
    BY <2>1, <2>2
<1>8. Sums(f)
  <2> HIDE DEF Sums
  <2> QED
    BY <1>7
<1> HIDE DEF f
<1>9. \A s \in SUBSET S : f[s] = IF s = {} THEN 0 ELSE any(s).stars + f[s \ {any(s)}]
  BY <1>8, Zenon
<1> HIDE DEF any
<1> DEFINE U == {s \in SUBSET S : f[s] \notin Nat}
<1>10. U = {}
  <2> SUFFICES ASSUME U # {} PROVE FALSE
    OBVIOUS
  <2>1. PICK X \in U : \A Y \in U : Y \subseteq X => Y = X
    <3>1. U \subseteq SUBSET S
      OBVIOUS
    <3> HIDE DEF U
    <3> QED
      BY <1>2, <3>1, Minimal
  <2>2. X \in SUBSET S /\ f[X] \notin Nat
    OBVIOUS
  <2>3. X # {}
    <3>1. {} \in SUBSET S
      OBVIOUS
    <3>2. f[{}] = 0
      BY <1>9, <3>1
    <3> HIDE DEF U
    <3>3. 0 \in Nat
      OBVIOUS
    <3>4. f[{}] \in Nat
      BY <3>2, <3>3
    <3> QED
      BY <2>2, <3>4, Zenon
  <2>4. any(X) \in X /\ any(X).stars \in Nat
    BY <1>1, <1>4, <2>2, <2>3
  <2>5. f[X \ {any(X)}] \in Nat
    <3>1. X \ {any(X)} \notin U
      <4> HIDE DEF U
      <4> QED
        BY <2>1, <2>4
    <3> QED
      BY <2>2, <3>1
  <2>6. f[X] = any(X).stars + f[X \ {any(X)}]
    BY <1>9, <2>2, <2>3
  <2> QED
    BY <2>2, <2>4, <2>5, <2>6
<1>11. f[S] \in Nat
  BY <1>10
<1> QED
  BY <1>2, <1>5, <1>11 DEF CountOf, S

LEMMA PointsTyped ==
  ASSUME IsFiniteSet(stars), \A s \in stars : s.stars \in Nat,
         NEW g \in 1..Gigs, NEW w \in Seekers, NEW maxPay \in Nat
  PROVE  TotalPoints(g, w, maxPay) \in Int
<1> DEFINE n == IF CountOf(Boss[g]) = 0 THEN 1 ELSE CountOf(Boss[g])
           rated == IF CountOf(Boss[g]) = 0 THEN 75 ELSE 30 * StarsOf(Boss[g])
           most == IF maxPay = 0 THEN 1 ELSE maxPay
           pay == IF maxPay = 0 THEN 0 ELSE Wage[g]
           part == 150 * pay * n + rated * most
           down == 2 * most * n
<1>1. StarsOf(Boss[g]) \in Nat /\ CountOf(Boss[g]) \in Nat
  BY StarsTyped
<1>2. n \in Nat \ {0} /\ rated \in Nat /\ pay \in Nat /\ most \in Nat \ {0}
  BY <1>1, BoardAssumption
<1>3. SkillPoints(g, w) \in Int
  BY SkillTyped
<1>4. DistancePoints(g, w) \in Int
  <2>1. Away[g] \in [Seekers -> Nat]
    BY BoardAssumption
  <2>2. Away[g][w] \in Nat
    BY <2>1
  <2> QED
    BY <2>2 DEF DistancePoints
<1>5. TotalPoints(g, w, maxPay) =
        SkillPoints(g, w) + DistancePoints(g, w) + (2 * part + most * n) \div down
  BY DEF TotalPoints
<1>6. \A a, b \in Nat \ {0} : a * b \in Nat \ {0}
  OBVIOUS
<1> HIDE DEF n, rated, most, pay
<1>7. most * n \in Nat \ {0}
  BY <1>2, <1>6
<1>8. down = 2 * (most * n)
  BY <1>2
<1>9. down \in Nat \ {0}
  <2> HIDE DEF down
  <2> QED
    BY <1>7, <1>8
<1>10. \A a, b, c, d \in Nat : a * b \in Nat /\ (150 * a * b + c * d) \in Int
  OBVIOUS
<1>11. part \in Int
  BY <1>2, <1>10
<1> HIDE DEF part, down
<1>12. 2 * part + most * n \in Int
  BY <1>7, <1>11
<1> DEFINE up == 2 * part + most * n
<1> HIDE DEF up
<1>13. up \div down \in Int
  BY <1>9, <1>12 DEF up
<1> QED
  BY <1>3, <1>4, <1>5, <1>13 DEF up

-----------------------------------------------------------------------------
(* The feed shows the best jobs *)

\* The ratings are some of those asked for.  A worker's feed that has read the jobs
\* has read the newest of those that were live.
BoardInv ==
    /\ IsFiniteSet(stars) /\ \A s \in stars : s.stars \in Nat
    /\ feed = [f \in Feeds |-> feed[f]]
    /\ \A f \in Feeds : DOMAIN feed[f] = {"pc", "read", "live", "shown"}
    /\ \A f \in Feeds : feed[f].pc = "read" =>
          /\ Viewer[f] \in Seekers
          /\ feed[f].live \in SUBSET (1..Gigs) /\ feed[f].live # {}
          /\ feed[f].read = Newest(feed[f].live, Window)

LEMMA BoardInvInit == BoardInit => BoardInv
<1> SUFFICES ASSUME BoardInit PROVE BoardInv
  OBVIOUS
<1>1. IsFiniteSet(stars) /\ \A s \in stars : s.stars \in Nat
  BY FS_EmptySet DEF BoardInit
<1>2. \A f \in Feeds : feed[f] = [pc |-> "due", read |-> <<>>, live |-> {}, shown |-> <<>>]
  BY DEF BoardInit
<1> QED
  BY <1>1, <1>2 DEF BoardInit, BoardInv

LEMMA BoardInvStep == BoardInv /\ [BoardNext]_boardVars => BoardInv'
<1> SUFFICES ASSUME BoardInv, [BoardNext]_boardVars PROVE BoardInv'
  OBVIOUS
<1> USE DEF BoardInv
<1>1. CASE UNCHANGED <<stars, feed>>
  BY <1>1
<1>2. ASSUME NEW r \in Reviews, RateSave(r) PROVE BoardInv'
  <2>1. UNCHANGED feed /\ (stars' = stars \/ stars' = stars \cup {Rates[r]})
    BY <1>2 DEF RateSave
  <2>2. IsFiniteSet(stars') /\ \A s \in stars' : s.stars \in Nat
    <3>1. Rates[r].stars \in Nat
      <4>1. Rates[r].stars \in 1..5
        BY BoardAssumption
      <4> QED
        BY <4>1
    <3>2. IsFiniteSet(stars \cup {Rates[r]})
      BY FS_AddElement
    <3> QED
      BY <2>1, <3>1, <3>2
  <2> QED
    BY <2>1, <2>2
<1>3. ASSUME NEW f \in Feeds, FeedRead(f) PROVE BoardInv'
  <2> DEFINE new == IF Viewer[f] \notin Seekers THEN [feed[f] EXCEPT !.pc = "refused"]
                    ELSE [feed[f] EXCEPT !.pc = IF Live = {} THEN "done" ELSE "read",
                                         !.read = Newest(Live, Window), !.live = Live]
  <2>1. UNCHANGED stars /\ feed' = [feed EXCEPT ![f] = new]
    BY <1>3 DEF FeedRead
  <2>2. DOMAIN feed = Feeds /\ DOMAIN feed[f] = {"pc", "read", "live", "shown"}
    OBVIOUS
  <2>3. DOMAIN new = {"pc", "read", "live", "shown"}
    BY <2>2
  <2>4. new.pc = "read" => /\ Viewer[f] \in Seekers
                           /\ new.live \in SUBSET (1..Gigs) /\ new.live # {}
                           /\ new.read = Newest(new.live, Window)
    BY <2>2 DEF Live
  <2> HIDE DEF new
  <2>5. \A e \in Feeds : feed'[e] = IF e = f THEN new ELSE feed[e]
    BY <2>1, <2>2
  <2>6. feed' = [e \in Feeds |-> feed'[e]]
    BY <2>1, <2>2
  <2> QED
    BY <2>1, <2>3, <2>4, <2>5, <2>6
<1>4. ASSUME NEW f \in Feeds, FeedRank(f) PROVE BoardInv'
  <2>1. PICK shown : UNCHANGED stars /\
          feed' = [feed EXCEPT ![f] = [feed[f] EXCEPT !.pc = "done", !.shown = shown]]
    BY <1>4 DEF FeedRank
  <2> DEFINE new == [feed[f] EXCEPT !.pc = "done", !.shown = shown]
  <2>2. DOMAIN feed = Feeds /\ DOMAIN feed[f] = {"pc", "read", "live", "shown"}
    OBVIOUS
  <2>3. DOMAIN new = {"pc", "read", "live", "shown"} /\ new.pc = "done"
    BY <2>2
  <2>4. feed' = [feed EXCEPT ![f] = new]
    BY <2>1
  <2> HIDE DEF new
  <2>5. \A e \in Feeds : feed'[e] = IF e = f THEN new ELSE feed[e]
    BY <2>2, <2>4
  <2>6. feed' = [e \in Feeds |-> feed'[e]]
    BY <2>2, <2>4
  <2> QED
    BY <2>1, <2>3, <2>5, <2>6
<1>5. ASSUME NEW g \in 1..Gigs,
             PostGig(g) \/ SeedGig(g) \/ FundGig(g) \/ Announce(g) \/ \E w \in Seekers : Hire(g, w)
      PROVE  UNCHANGED <<stars, feed>>
  BY <1>5 DEF PostGig, SeedGig, FundGig, Announce, Hire
<1>6. ASSUME NEW r \in Reviews, RateCheck(r) PROVE UNCHANGED <<stars, feed>>
  BY <1>6 DEF RateCheck
<1> QED
  BY <1>1, <1>2, <1>3, <1>4, <1>5, <1>6 DEF BoardNext, boardVars

\* What FeedRank shows, when the feed has read all the live jobs.
LEMMA RankedFeed ==
  ASSUME NEW live \in SUBSET (1..Gigs), live # {}, Cardinality(live) <= Window,
         NEW w \in Seekers, IsFiniteSet(stars), \A s \in stars : s.stars \in Nat,
         NEW read, read = Newest(live, Window)
  PROVE  LET shown == First(Ranked(read, w, MaxPay(read)))
             P == PointsOf(w, MaxPay(read))
         IN  Ordered(shown, P) /\ ToSet(shown) = Best(P, FitFor(w, live))
<1> DEFINE maxPay == MaxPay(read)
           P == PointsOf(w, maxPay)
<1>1. read \in Seq(1..Gigs) /\ Descending(read) /\ ToSet(read) = live
  <2>1. Window \in Nat /\ live \in SUBSET (1..Gigs)
    BY BoardAssumption
  <2> QED
    BY <2>1, NewestIsAll
<1>2. maxPay \in Nat
  <2>1. read \in Seq(1..Gigs) /\ ToSet(read) # {}
    BY <1>1
  <2> QED
    BY <2>1, MaxPayTyped
<1> HIDE DEF maxPay
<1>3. P \in [1..Gigs -> Int]
  <2>1. \A g \in 1..Gigs : TotalPoints(g, w, maxPay) \in Int
    BY <1>2, PointsTyped
  <2> QED
    BY <2>1 DEF PointsOf
<1> DEFINE ranked == Ranked(read, w, maxPay)
<1>4. ranked \in Seq(1..Gigs) /\ Ordered(ranked, P) /\ ToSet(ranked) = FitFor(w, live)
  <2>1. ranked \in Seq(1..Gigs) /\ Ordered(ranked, P) /\ ToSet(ranked) = FitFor(w, ToSet(read))
    BY <1>1, <1>3, RankedIsOrdered
  <2> QED
    BY <1>1, <2>1
<1> HIDE DEF ranked, P
<1>5. Ordered(First(ranked), P) /\ ToSet(First(ranked)) = Best(P, ToSet(ranked))
  BY <1>3, <1>4, TopIsBest
<1> QED
  BY <1>4, <1>5 DEF ranked, P, maxPay

\* FeedIsBest, for any jobs, workers, ratings and interleaving: the feed of a worker
\* shows, best first, the jobs that fewer than Top others beat (matching.py:78).
LEMMA FeedStep ==
  ASSUME BoardInv, [BoardNext]_boardVars, NEW f \in Feeds,
         feed[f].pc = "read", feed'[f].pc = "done", Cardinality(feed[f].live) <= Window
  PROVE  LET w == Viewer[f]
             fits == {g \in feed[f].live : SkillPoints(g, w) > 0}
             points == [g \in fits |-> TotalPoints(g, w, MaxPay(feed[f].read))]
             beats(h, g) == points[h] > points[g] \/ (points[h] = points[g] /\ h > g)
         IN /\ ToSet(feed'[f].shown) =
                 {g \in fits : Cardinality({h \in fits : beats(h, g)}) < Top}
            /\ \A i, j \in DOMAIN feed'[f].shown :
                 i < j => beats(feed'[f].shown[i], feed'[f].shown[j])
<1> DEFINE w == Viewer[f]
           live == feed[f].live
           read == feed[f].read
           maxPay == MaxPay(read)
           ranked == Ranked(read, w, maxPay)
           shown == First(ranked)
           P == PointsOf(w, maxPay)
           fits == {g \in live : SkillPoints(g, w) > 0}
           points == [g \in fits |-> TotalPoints(g, w, maxPay)]
           beats(h, g) == points[h] > points[g] \/ (points[h] = points[g] /\ h > g)
<1>f. DOMAIN feed = Feeds
  BY DEF BoardInv
<1>1. FeedRank(f)
  <2>1. feed' # feed
    OBVIOUS
  <2>2. ASSUME NEW g \in 1..Gigs,
               PostGig(g) \/ SeedGig(g) \/ FundGig(g) \/ Announce(g) \/ \E v \in Seekers : Hire(g, v)
        PROVE  UNCHANGED feed
    BY <2>2 DEF PostGig, SeedGig, FundGig, Announce, Hire
  <2>3. ASSUME NEW r \in Reviews, RateCheck(r) \/ RateSave(r) PROVE UNCHANGED feed
    BY <2>3 DEF RateCheck, RateSave
  <2>4. ASSUME NEW e \in Feeds, FeedRead(e) PROVE feed'[f].pc = feed[f].pc
    <3>1. feed[e].pc = "due" /\ \E new : feed' = [feed EXCEPT ![e] = new]
      BY <2>4 DEF FeedRead
    <3>2. e # f
      BY <3>1
    <3> QED
      BY <1>f, <3>1, <3>2
  <2>5. ASSUME NEW e \in Feeds, e # f, FeedRank(e) PROVE feed'[f].pc = feed[f].pc
    <3>1. \E new : feed' = [feed EXCEPT ![e] = new]
      BY <2>5 DEF FeedRank
    <3> QED
      BY <1>f, <2>5, <3>1
  <2>6. feed'[f].pc # feed[f].pc
    OBVIOUS
  <2> QED
    BY <2>1, <2>2, <2>3, <2>4, <2>5, <2>6 DEF BoardNext, boardVars
<1>2. feed'[f].shown = shown
  <2>1. feed' = [feed EXCEPT ![f] = [feed[f] EXCEPT !.pc = "done", !.shown = shown]]
    BY <1>1 DEF FeedRank, First
  <2>2. "shown" \in DOMAIN feed[f]
    BY DEF BoardInv
  <2> HIDE DEF shown
  <2> QED
    BY <1>f, <2>1, <2>2
<1>3. w \in Seekers /\ live \in SUBSET (1..Gigs) /\ live # {} /\ read = Newest(live, Window)
      /\ Cardinality(live) <= Window /\ IsFiniteSet(stars) /\ \A s \in stars : s.stars \in Nat
  BY DEF BoardInv
<1> HIDE DEF w, live, read
<1>4. /\ Ordered(shown, P)
      /\ ToSet(shown) = {g \in fits : Cardinality({h \in fits : Beats(P, h, g)}) < Top}
  <2>1. Ordered(shown, P) /\ ToSet(shown) = Best(P, FitFor(w, live))
    BY <1>3, RankedFeed
  <2> QED
    BY <2>1 DEF Best, FitFor
<1>5. \A h, g \in fits : beats(h, g) <=> Beats(P, h, g)
  <2>1. \A g \in fits : g \in 1..Gigs
    BY <1>3
  <2>2. \A g \in fits : P[g] = points[g]
    BY <2>1 DEF PointsOf
  <2> HIDE DEF P, points, fits
  <2> QED
    BY <2>2 DEF Beats
<1> HIDE DEF P, points, fits, shown
<1>6. \A i \in DOMAIN shown : shown[i] \in fits
  BY <1>4 DEF ToSet
<1> DEFINE Better(g) == {h \in fits : beats(h, g)}
<1>7. \A g \in fits : Better(g) = {h \in fits : Beats(P, h, g)}
  BY <1>5
<1>8. {g \in fits : Cardinality(Better(g)) < Top} =
        {g \in fits : Cardinality({h \in fits : Beats(P, h, g)}) < Top}
  <2> HIDE DEF Better
  <2> QED
    BY <1>7
<1>9. \A i, j \in DOMAIN shown : i < j => beats(shown[i], shown[j])
  BY <1>4, <1>5, <1>6 DEF Ordered
<1> QED
  BY <1>2, <1>4, <1>8, <1>9 DEF fits, points, w, live, read

\* Whatever is posted, funded, taken and rated between the two queries of a feed, a worker
\* is shown, best first, the jobs that fewer than Top others beat (match_jobs_for_worker).
THEOREM FeedShowsTheBest == BoardSpec => FeedIsBest
<1>1. BoardInv /\ [BoardNext]_boardVars =>
        [\A f \in Feeds :
         feed[f].pc = "read" /\ feed'[f].pc = "done" /\ Cardinality(feed[f].live) <= Window =>
           LET w == Viewer[f]
               fits == {g \in feed[f].live : SkillPoints(g, w) > 0}
               points == [g \in fits |-> TotalPoints(g, w, MaxPay(feed[f].read))]
               beats(h, g) == points[h] > points[g] \/ (points[h] = points[g] /\ h > g)
           IN /\ ToSet(feed'[f].shown) =
                   {g \in fits : Cardinality({h \in fits : beats(h, g)}) < Top}
              /\ \A i, j \in DOMAIN feed'[f].shown :
                   i < j => beats(feed'[f].shown[i], feed'[f].shown[j])]_boardVars
  BY FeedStep
<1> QED
  BY <1>1, BoardInvInit, BoardInvStep, PTL DEF BoardSpec, FeedIsBest
=============================================================================
