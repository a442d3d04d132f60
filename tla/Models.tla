------------------------------- MODULE Models -------------------------------
(***************************************************************************)
(* The domain vocabulary of internal/models: jobs, the events that own     *)
(* them, and the statuses both carry.  An event is one user action; it     *)
(* owns one job per target instance.  Job and event identifiers are UUIDs  *)
(* that never change, and a job never moves to another event, so which     *)
(* jobs an event will own is a constant of the model.                      *)
(***************************************************************************)
EXTENDS Integers, FiniteSets

CONSTANTS Jobs,      \* identifiers of the jobs that may ever be inserted
          Events,    \* identifiers of the events that may ever be inserted
          EventOf    \* the event_id foreign key of each job

JobsOf(e) == {j \in Jobs : EventOf[j] = e}

\* events.Service.Create refuses an empty list of instances, so an event
\* never has zero jobs.
ASSUME JobsAssumption == /\ IsFiniteSet(Jobs)
                         /\ EventOf \in [Jobs -> Events]
                         /\ \A e \in Events : JobsOf(e) # {}

\* "NONE" is the status of a row that has not been inserted yet.
PendingJob  == {"QUEUED", "RUNNING"}
TerminalJob == {"VERIFIED", "FAILED"}
JobStatus   == PendingJob \cup TerminalJob
ActiveEvent   == {"QUEUED", "RUNNING"}
TerminalEvent == {"COMPLETED", "PARTIAL", "FAILED"}
EventStatus   == ActiveEvent \cup TerminalEvent
=============================================================================
