------------------------------ MODULE JobLife -------------------------------
(***************************************************************************)
(* What the dispatcher promises about a job, with nothing of how: the      *)
(* lifecycle of ARCHITECTURE.md section 11.  The jobs of an event appear   *)
(* together, each is run once, a VERIFIED job is left alone for good, and  *)
(* only FAILED jobs are queued again.  Every queued job is eventually run  *)
(* and every run eventually ends.                                          *)
(***************************************************************************)
EXTENDS Models

VARIABLE jobStatus

Init == jobStatus = [j \in Jobs |-> "NONE"]

Insert(e) ==
    /\ \A j \in JobsOf(e) : jobStatus[j] = "NONE"
    /\ jobStatus' = [j \in Jobs |-> IF EventOf[j] = e THEN "QUEUED" ELSE jobStatus[j]]

Start(j) ==
    /\ jobStatus[j] = "QUEUED"
    /\ jobStatus' = [jobStatus EXCEPT ![j] = "RUNNING"]

Finish(j) ==
    /\ jobStatus[j] = "RUNNING"
    /\ \E s \in TerminalJob : jobStatus' = [jobStatus EXCEPT ![j] = s]

Rerun(e) ==
    /\ \E j \in JobsOf(e) : jobStatus[j] = "FAILED"
    /\ jobStatus' = [j \in Jobs |-> IF EventOf[j] = e /\ jobStatus[j] = "FAILED"
                                    THEN "QUEUED" ELSE jobStatus[j]]

Next ==
    \/ \E e \in Events : Insert(e) \/ Rerun(e)
    \/ \E j \in Jobs : Start(j) \/ Finish(j)

Fairness == \A j \in Jobs : WF_jobStatus(Start(j)) /\ WF_jobStatus(Finish(j))

Spec == Init /\ [][Next]_jobStatus /\ Fairness
=============================================================================
