------------------------------ MODULE Timeline ------------------------------
(***************************************************************************)
(* The four steps buildJobSteps (JobTimeline.tsx) draws for a job, from    *)
(* its status and its checks.  ListChecksForJob returns the checks of all  *)
(* attempts, in the order of their insertion.                              *)
(***************************************************************************)
EXTENDS SequencesExt, Naturals

StepState == {"pending", "active", "done", "failed"}

\* find: the first check of the phase decides.
FirstResult(checks, phase) ==
    LET i == SelectInSeq(checks, LAMBDA c : c.phase = phase)
    IN  IF i = 0 THEN "none" ELSE checks[i].result

\* Mutant: the step of a job without checks stays pending.
ConnectStepUnchecked(status, pre) ==
    CASE pre = "passed" -> "done"
      [] pre = "failed" -> "failed"
      [] OTHER -> IF status = "RUNNING" THEN "active" ELSE "pending"

ConnectStep(status, pre) ==
    CASE pre = "passed" -> "done"
      [] pre = "failed" -> "failed"
      [] OTHER -> IF status = "RUNNING" THEN "active"
                  ELSE IF status = "QUEUED" THEN "pending" ELSE "done"

RunStep(status, pre, post) ==
    CASE post = "passed" -> "done"
      [] post = "failed" -> "failed"
      [] OTHER -> IF status = "RUNNING" /\ pre = "passed" THEN "active"
                  ELSE IF status \in {"VERIFIED", "FAILED"} THEN "done" ELSE "pending"

Steps(status, checks) ==
    LET pre  == FirstResult(checks, "pre")
        post == FirstResult(checks, "post")
    IN  [queued  |-> IF status = "QUEUED" THEN "active" ELSE "done",
         connect |-> ConnectStep(status, pre),
         run     |-> RunStep(status, pre, post),
         done    |-> CASE status = "VERIFIED" -> "done"
                       [] status = "FAILED" -> "failed"
                       [] OTHER -> "pending"]

\* A step only moves on: pending, then active, then one of the two ends.
Advances(from, to) == \/ from = to
                      \/ from = "pending"
                      \/ from = "active" /\ to \in {"done", "failed"}
=============================================================================
