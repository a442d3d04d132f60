------------------------------- MODULE Store --------------------------------
(***************************************************************************)
(* The tables jobs and events of internal/db, and the statements the API   *)
(* and the worker run on them.  Each operator below is one SQL statement   *)
(* (or one committed transaction) and therefore one atomic step; whatever  *)
(* the Go code does between two statements belongs to its callers.         *)
(*                                                                         *)
(* Only the columns that decide what happens next are kept: the status of  *)
(* a job, the status and the three counters of an event.  Output, exit     *)
(* codes, timestamps, job_checks and the instances table are data that no  *)
(* step below reads back.                                                  *)
(***************************************************************************)
EXTENDS Models

VARIABLES jobStatus,   \* jobs.status
          event        \* events.(status, total_jobs, verified_count, failed_count)

storeVars == <<jobStatus, event>>

EventRow == [status : EventStatus \cup {"NONE"},
             total : Nat, verified : Nat, failed : Nat]

StoreTypeOK ==
    /\ jobStatus \in [Jobs -> JobStatus \cup {"NONE"}]
    /\ event \in [Events -> EventRow]

StoreInit ==
    /\ jobStatus = [j \in Jobs |-> "NONE"]
    /\ event = [e \in Events |->
                  [status |-> "NONE", total |-> 0, verified |-> 0, failed |-> 0]]

CountStatus(e, s) == Cardinality({j \in JobsOf(e) : jobStatus[j] = s})

-----------------------------------------------------------------------------
(* Statements of the API.                                                  *)

\* CreateEventWithJobs: one transaction, so the event and all its jobs
\* appear together or not at all.
InsertEventWithJobs(e) ==
    /\ jobStatus' = [j \in Jobs |-> IF EventOf[j] = e THEN "QUEUED" ELSE jobStatus[j]]
    /\ event' = [event EXCEPT ![e] = [status |-> "QUEUED",
                                      total |-> Cardinality(JobsOf(e)),
                                      verified |-> 0, failed |-> 0]]

\* Mutant: everything not VERIFIED is run again.
UnverifiedJobs(e) == {j \in JobsOf(e) : jobStatus[j] \in {"FAILED", "RUNNING"}}

FailedJobs(e) == {j \in JobsOf(e) : jobStatus[j] = "FAILED"}

\* The UPDATE ... RETURNING of ResetFailedJobs.  (The function goes on with
\* UpdateEventStatus, a second statement in no transaction with this one.)
ResetFailed(e) ==
    /\ jobStatus' = [j \in Jobs |-> IF j \in FailedJobs(e) THEN "QUEUED" ELSE jobStatus[j]]
    /\ UNCHANGED event

UpdateEventStatus(e, s) ==
    /\ event' = [event EXCEPT ![e].status = s]
    /\ UNCHANGED jobStatus

-----------------------------------------------------------------------------
(* Statements of the worker.                                               *)

\* UpdateJobRunning has no condition on the status the row has now.
UpdateJobRunning(j) ==
    /\ jobStatus' = [jobStatus EXCEPT ![j] = "RUNNING"]
    /\ UNCHANGED event

\* Neither has UpdateJobResult.
UpdateJobResult(j, s) ==
    /\ jobStatus' = [jobStatus EXCEPT ![j] = s]
    /\ UNCHANGED event

\* The first SELECT of RollupEvent: three counts of one snapshot.
Tally(e) == [verified |-> CountStatus(e, "VERIFIED"),
             failed   |-> CountStatus(e, "FAILED"),
             total    |-> Cardinality(JobsOf(e))]

\* Mutant: a QUEUED job is not pending.
RunningCount(e) == CountStatus(e, "RUNNING")

\* Its second SELECT, of a later snapshot.
PendingCount(e) == Cardinality({j \in JobsOf(e) : jobStatus[j] \in PendingJob})

\* Mutants: an event without failures is COMPLETED; a job's status is written
\* to the event.
NoFailuresMeansCompleted(t, pending) ==
    IF pending # 0 THEN "RUNNING"
    ELSE IF t.failed = 0 THEN "COMPLETED"
    ELSE IF t.failed = t.total THEN "FAILED"
    ELSE "PARTIAL"
JobStatusForEvent(t, pending) ==
    IF pending # 0 THEN "RUNNING" ELSE IF t.failed = 0 THEN "VERIFIED" ELSE "FAILED"

\* The status RollupEvent derives from the two.
RollupStatus(t, pending) ==
    IF pending # 0 THEN "RUNNING"
    ELSE IF t.verified = t.total THEN "COMPLETED"
    ELSE IF t.failed = t.total THEN "FAILED"
    ELSE "PARTIAL"

\* Its final UPDATE.
WriteRollup(e, t, s) ==
    /\ event' = [event EXCEPT ![e] = [status |-> s, total |-> t.total,
                                      verified |-> t.verified, failed |-> t.failed]]
    /\ UNCHANGED jobStatus
=============================================================================
