------------------------------ MODULE Attempt -------------------------------
(***************************************************************************)
(* An attempt at a job, as far as jobs.status is concerned: the row is     *)
(* marked, the remote part ends with a verdict, the row is given the       *)
(* verdict.  Either statement may fail, with or without effect, and the    *)
(* processes of any attempts may die.  There is one attempt at a job at a  *)
(* time, and nobody writes its status beside it.  The rollup of the event  *)
(* is no part of it: a re-run may queue the job again meanwhile.           *)
(*                                                                         *)
(* Runner shows that Handle is such an attempt, Dispatch that crashes,     *)
(* retries and re-runs keep the attempts of its consumers apart.           *)
(***************************************************************************)
EXTENDS Models

VARIABLES jobStatus, at, verdict

attemptVars == <<jobStatus, at, verdict>>

Init ==
    /\ jobStatus = [j \in Jobs |-> "NONE"]
    /\ at = [j \in Jobs |-> "idle"]
    /\ verdict = [j \in Jobs |-> "NONE"]

Move(j, from, to) == at[j] = from /\ at' = [at EXCEPT ![j] = to]
Write(j, s) == jobStatus' = [jobStatus EXCEPT ![j] = s]

\* All jobs of an event are inserted, or its failed jobs are queued again.
Queue(e, s) ==
    /\ \A j \in JobsOf(e) : jobStatus[j] = s => at[j] = "idle"
    /\ jobStatus' = [j \in Jobs |-> IF EventOf[j] = e /\ jobStatus[j] = s
                                    THEN "QUEUED" ELSE jobStatus[j]]
    /\ UNCHANGED <<at, verdict>>

Begin(j) == /\ jobStatus[j] # "NONE"
            /\ Move(j, "idle", "start")
            /\ UNCHANGED <<jobStatus, verdict>>

Start(j) == Move(j, "start", "exec") /\ Write(j, "RUNNING") /\ UNCHANGED verdict

Execute(j, s) ==
    /\ Move(j, "exec", "save")
    /\ verdict' = [verdict EXCEPT ![j] = s]
    /\ UNCHANGED jobStatus

Save(j) ==
    /\ Move(j, "save", "idle")
    /\ Write(j, verdict[j])
    /\ verdict' = [verdict EXCEPT ![j] = "NONE"]

\* A statement fails: the attempt is over.  (A result that was written in spite
\* of the error is a Save.)
Fail(j) ==
    /\ \/ Move(j, "start", "idle") /\ (Write(j, "RUNNING") \/ UNCHANGED jobStatus)
       \/ Move(j, "save", "idle") /\ UNCHANGED jobStatus
    /\ verdict' = [verdict EXCEPT ![j] = "NONE"]

\* The attempts at all of J are cut off.
Crash(J) == /\ at' = [j \in Jobs |-> IF j \in J THEN "idle" ELSE at[j]]
            /\ verdict' = [j \in Jobs |-> IF j \in J THEN "NONE" ELSE verdict[j]]
            /\ UNCHANGED jobStatus

Next ==
    \/ \E e \in Events : Queue(e, "NONE") \/ Queue(e, "FAILED")
    \/ \E j \in Jobs : \/ Begin(j) \/ Start(j) \/ Save(j) \/ Fail(j)
                       \/ \E s \in TerminalJob : Execute(j, s)
    \/ \E J \in SUBSET Jobs : Crash(J)

Spec == Init /\ [][Next]_attemptVars
=============================================================================
