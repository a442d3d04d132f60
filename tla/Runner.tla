------------------------------- MODULE Runner -------------------------------
(***************************************************************************)
(* The attempts at jobs in detail: Handle (worker/internal/runner) with    *)
(* the SSH client and its host key callback, over the tables jobs,         *)
(* job_checks and instances, while users edit the instances and nodes get  *)
(* new host keys.                                                          *)
(*                                                                         *)
(* Around it is as much of the dispatcher as decides which attempts there  *)
(* are.  A handler error publishes a copy with a higher retry count before *)
(* the original is acknowledged, a dead worker leaves its message to be    *)
(* delivered again, and a re-run looks at no message: a job may have       *)
(* several, and several attempts at once.  (Lost connections are left to   *)
(* Dispatch.)  The node is the host key it presents; connections and       *)
(* scripts fail for reasons of their own.                                  *)
(***************************************************************************)
EXTENDS Instances, Timeline

CONSTANTS Copies,       \* names that tell the messages of a job apart
          MaxAttempts,  \* maxDeliveryAttempts
          Budget,       \* how often each fault and each act of a user may happen
          Total         \* how many of them may happen altogether

EventKind == {"crash",    \* a delivery is cut off: its worker process dies
              "error",    \* a statement whose error Handle returns fails
              "check",    \* a statement whose error Handle ignores fails
              "rebuild",  \* a node gets another host key
              "update",   \* a user changes the credentials of an instance
              "rerun"}    \* a user asks for "re-run failed"

ASSUME RunnerAssumption == /\ MaxAttempts \in Nat \ {0}
                           /\ Budget \in [EventKind -> Nat]
                           /\ Total \in Nat
                           /\ None \notin Nat

VARIABLES
    jobStatus,  \* jobs.status
    checks,     \* job_checks, per job
    retry,      \* the retry count in each message; None: there is no such message
    pc,         \* where Handle is with each message
    conf,       \* the row GetInstance returned
    peer,       \* the host key of its connection
    verdict,    \* the status it is going to save
    hostKey,    \* the key each node has now
    attempts,   \* history: how often a job was delivered, per retry count
    beside,     \* history: jobs an attempt at which began, or which were queued,
                \* while another attempt was under way
    spent       \* history: how much of Budget is used up

tables  == <<inst, jobStatus, checks>>
locals  == <<conf, peer, verdict>>
history == <<attempts, beside>>
world   == <<hostKey, history, spent>>
vars    == <<tables, retry, pc, locals, world>>

\* A message is a job's, and keeps its name until it is acknowledged.
Message     == Jobs \X Copies
Unused(m)   == retry[m] = None
HasName(j)  == \E m \in Message : m[1] = j /\ Unused(m)
NewName(j)  == CHOOSE m \in Message : m[1] = j /\ Unused(m)
RetryCount  == 0..(MaxAttempts - 1)

Connecting == {"connect", "auth"}            \* TestConnectivity
Reconnecting == {"reconnect", "reauth"}      \* RunScript
HandlePC == {"load", "mark", "refused", "connected", "script", "ran", "result", "rollup"}
            \cup Connecting \cup Reconnecting

Check == [phase : {"pre", "post"}, result : {"passed", "failed"}]

TypeOK ==
    /\ inst \in [Instance -> InstanceRow \cup {None, Deleted}]
    /\ jobStatus \in [Jobs -> JobStatus \cup {"NONE"}]
    /\ checks \in [Jobs -> Seq(Check)]
    /\ retry \in [Message -> RetryCount \cup {None}]
    /\ pc \in [Message -> HandlePC \cup {"idle", "retry", "ack"}]
    /\ conf \in [Message -> InstanceRow \cup {None}]
    /\ peer \in [Message -> Keys \cup {None}]
    /\ verdict \in [Message -> TerminalJob \cup {"NONE"}]
    /\ hostKey \in [Instance -> Keys]
    /\ attempts \in [Jobs -> [RetryCount -> Nat]]
    /\ beside \subseteq Jobs
    /\ spent \in [EventKind -> Nat]

Init ==
    /\ inst = [i \in Instance |-> None]
    /\ jobStatus = [j \in Jobs |-> "NONE"]
    /\ checks = [j \in Jobs |-> <<>>]
    /\ retry = [m \in Message |-> None]
    /\ pc = [m \in Message |-> "idle"]
    /\ conf = [m \in Message |-> None]
    /\ peer = [m \in Message |-> None]
    /\ verdict = [m \in Message |-> "NONE"]
    /\ hostKey \in [Instance -> Keys]
    /\ attempts = [j \in Jobs |-> [r \in RetryCount |-> 0]]
    /\ beside = {}
    /\ spent = [k \in EventKind |-> 0]

TotalSpent == FoldFunction(LAMBDA n, m : n + m, 0, spent)

Spend(k) == /\ spent[k] < Budget[k]
            /\ TotalSpent < Total
            /\ spent' = [spent EXCEPT ![k] = @ + 1]

Goto(m, from, to) == pc[m] \in from /\ pc' = [pc EXCEPT ![m] = to]

Set(f, x, y) == [f EXCEPT ![x] = y]

\* An attempt at the job is under way: between its delivery and its result.
UnderWay(m) == pc[m] \in HandlePC \ {"rollup"}
AtWork(j)   == \E m \in Message : m[1] = j /\ UnderWay(m)

-----------------------------------------------------------------------------
(* Users and nodes.                                                        *)

Referenced == {InstOf[j] : j \in {k \in Jobs : jobStatus[k] # "NONE"}}

\* The handlers of instances: Create and BulkCreate, Update, Delete.
EditInstance(i) ==
    /\ \/ \E c \in Credential : InsertInstance(i, c) /\ UNCHANGED spent
       \/ \E c \in Credential \ {"unusable"} : UpdateInstanceSSH(i, c) /\ Spend("update")
       \/ DeleteInstance(i, Referenced) /\ UNCHANGED spent
    /\ UNCHANGED <<jobStatus, checks, retry, pc, locals, hostKey, history>>

Rebuild(i) ==
    /\ Spend("rebuild")
    /\ \E k \in Keys \ {hostKey[i]} : hostKey' = [hostKey EXCEPT ![i] = k]
    /\ UNCHANGED <<tables, retry, pc, locals, history>>

\* The event's jobs with status s are QUEUED, and a message for each published.
QueueJobs(e, s) ==
    LET queued == {j \in JobsOf(e) : jobStatus[j] = s} IN
    /\ \A j \in queued : HasName(j)
    /\ jobStatus' = [j \in Jobs |-> IF j \in queued THEN "QUEUED" ELSE jobStatus[j]]
    /\ retry' = [m \in Message |-> IF m[1] \in queued /\ m = NewName(m[1]) THEN 0 ELSE retry[m]]
    /\ beside' = beside \cup {j \in queued : AtWork(j)}
    /\ UNCHANGED <<inst, checks, pc, locals, hostKey, attempts>>

\* CreateEventWithJobs: the instances were there when they were looked up, and
\* the foreign key wants them still; if one is gone, nothing is inserted.
CreateEvent(e) ==
    /\ \A j \in JobsOf(e) : jobStatus[j] = "NONE" /\ Exists(InstOf[j])
    /\ QueueJobs(e, "NONE")
    /\ UNCHANGED spent

\* ResetFailedJobs leaves job_checks alone, and looks at no message: a FAILED
\* job may have one yet, or an attempt that is on its way.
RerunFailed(e) ==
    /\ \E j \in JobsOf(e) : jobStatus[j] = "FAILED"
    /\ Spend("rerun")
    /\ QueueJobs(e, "FAILED")

-----------------------------------------------------------------------------
(* Handle.                                                                 *)

Deliver(m) ==
    /\ retry[m] # None
    /\ Goto(m, {"idle"}, "load")
    /\ attempts' = [attempts EXCEPT ![m[1]][retry[m]] = @ + 1]
    /\ beside' = IF AtWork(m[1]) THEN beside \cup {m[1]} ELSE beside
    /\ UNCHANGED <<tables, retry, locals, hostKey, spent>>

LoadInstance(m) ==
    /\ Goto(m, {"load"}, "mark")
    /\ Exists(InstOf[m[1]])
    /\ conf' = Set(conf, m, inst[InstOf[m[1]]])
    /\ UNCHANGED <<tables, retry, peer, verdict, world>>

StartJob(m) ==
    /\ Goto(m, {"mark"}, "connect")
    /\ jobStatus' = Set(jobStatus, m[1], "RUNNING")
    /\ UNCHANGED <<inst, checks, retry, locals, world>>

\* fail: a credential that is missing or cannot be decrypted.
NoCredentials(m) ==
    /\ Goto(m, {"connect"}, "result")
    /\ conf[m].cred = "unusable"
    /\ verdict' = Set(verdict, m, "FAILED")
    /\ UNCHANGED <<tables, retry, conf, peer, world>>

\* Mutant: the key is compared when it is pinned, not when it is presented.
DialUnchecked(m) ==
    /\ \/ Goto(m, {"connect"}, "auth")
       \/ Goto(m, {"reconnect"}, "reauth")
    /\ conf[m].cred # "unusable"
    /\ peer' = Set(peer, m, hostKey[InstOf[m[1]]])
    /\ UpdateHostKey(InstOf[m[1]], hostKey[InstOf[m[1]]])
    /\ UNCHANGED <<jobStatus, checks, retry, conf, verdict, world>>

\* ssh.Dial up to verifyHostKey: the key presented is the one expected, or is
\* pinned when the row that was read had none.  The pin is written before the
\* node has accepted the credentials.
Dial(m) ==
    LET i == InstOf[m[1]]
        k == hostKey[i] IN
    /\ \/ Goto(m, {"connect"}, "auth")
       \/ Goto(m, {"reconnect"}, "reauth")
    /\ conf[m].cred # "unusable"
    /\ conf[m].pin \in {None, k}
    /\ peer' = Set(peer, m, k)
    /\ IF conf[m].pin = None THEN UpdateHostKey(i, k) ELSE UNCHANGED inst
    /\ UNCHANGED <<jobStatus, checks, retry, conf, verdict, world>>

Authenticate(m) ==
    /\ \/ Goto(m, {"auth"}, "connected")
       \/ Goto(m, {"reauth"}, "script")
    /\ conf[m].cred = "right"
    /\ UNCHANGED <<tables, retry, locals, world>>

\* The node cannot be reached, presents another key, refuses the credentials,
\* or the connection breaks.  Only TestConnectivity leaves a check.
ConnectionFails(m) ==
    /\ \/ Goto(m, Connecting, "refused") /\ UNCHANGED verdict
       \/ Goto(m, Reconnecting, "result") /\ verdict' = Set(verdict, m, "FAILED")
    /\ conf[m].cred # "unusable"
    /\ UNCHANGED <<tables, retry, conf, peer, world>>

\* The script exits, with 0 or not, or its session breaks.
RunScript(m) ==
    /\ \/ Goto(m, {"script"}, "ran")
          /\ \E s \in TerminalJob : verdict' = Set(verdict, m, s)
       \/ Goto(m, {"script"}, "result") /\ verdict' = Set(verdict, m, "FAILED")
    /\ UNCHANGED <<tables, retry, conf, peer, world>>

\* AddJobCheck, whose error Handle ignores.
AddJobCheck(m, phase, result) ==
    \/ checks' = Set(checks, m[1], Append(checks[m[1]], [phase |-> phase, result |-> result]))
       /\ UNCHANGED spent
    \/ Spend("check") /\ UNCHANGED checks

RecordConnectivity(m) ==
    /\ \/ Goto(m, {"connected"}, "reconnect") /\ AddJobCheck(m, "pre", "passed")
          /\ UNCHANGED verdict
       \/ Goto(m, {"refused"}, "result") /\ AddJobCheck(m, "pre", "failed")
          /\ verdict' = Set(verdict, m, "FAILED")
    /\ UNCHANGED <<inst, jobStatus, retry, conf, peer, hostKey, history>>

\* Mutant: an insertion that leaves an earlier check of its kind alone.
RecordOnce(m) ==
    /\ Goto(m, {"ran"}, "result")
    /\ IF FirstResult(checks[m[1]], "post") = "none"
       THEN AddJobCheck(m, "post", IF verdict[m] = "VERIFIED" THEN "passed" ELSE "failed")
       ELSE UNCHANGED <<checks, spent>>
    /\ UNCHANGED <<inst, jobStatus, retry, locals, hostKey, history>>

RecordExecution(m) ==
    /\ Goto(m, {"ran"}, "result")
    /\ AddJobCheck(m, "post", IF verdict[m] = "VERIFIED" THEN "passed" ELSE "failed")
    /\ UNCHANGED <<inst, jobStatus, retry, locals, hostKey, history>>

Forget(m) == /\ conf' = Set(conf, m, None)
             /\ peer' = Set(peer, m, None)
             /\ verdict' = Set(verdict, m, "NONE")

\* Mutant: the exit code is not looked at.
SaveVerified(m) ==
    /\ Goto(m, {"result"}, "rollup")
    /\ jobStatus' = Set(jobStatus, m[1], "VERIFIED")
    /\ Forget(m)
    /\ UNCHANGED <<inst, checks, retry, world>>

SaveResult(m) ==
    /\ Goto(m, {"result"}, "rollup")
    /\ jobStatus' = Set(jobStatus, m[1], verdict[m])
    /\ Forget(m)
    /\ UNCHANGED <<inst, checks, retry, world>>

\* RollupEvent; Dispatch has what it does to the event.
Rollup(m) ==
    /\ Goto(m, {"rollup"}, "ack")
    /\ UNCHANGED <<tables, retry, locals, world>>

\* A statement fails; a write may have been applied.
HandlerError(m) ==
    /\ Spend("error")
    /\ Goto(m, {"load", "mark", "result", "rollup"}, "retry")
    /\ \/ UNCHANGED jobStatus
       \/ pc[m] = "mark" /\ jobStatus' = Set(jobStatus, m[1], "RUNNING")
       \/ pc[m] = "result" /\ jobStatus' = Set(jobStatus, m[1], verdict[m])
    /\ Forget(m)
    /\ UNCHANGED <<inst, checks, retry, hostKey, history>>

-----------------------------------------------------------------------------
(* What becomes of the message.                                            *)

\* Mutants: no message is ever rejected; the copy has the retry count of the
\* original.
RepublishAlways(m) ==
    /\ Goto(m, {"retry"}, "ack")
    /\ HasName(m[1])
    /\ retry' = Set(retry, NewName(m[1]), retry[m] + 1)
    /\ UNCHANGED <<tables, locals, world>>

RepublishSame(m) ==
    /\ Goto(m, {"retry"}, "ack")
    /\ retry[m] + 1 < MaxAttempts
    /\ HasName(m[1])
    /\ retry' = Set(retry, NewName(m[1]), retry[m])
    /\ UNCHANGED <<tables, locals, world>>

\* The copy is published first, the original acknowledged in a step of its own.
Republish(m) ==
    /\ Goto(m, {"retry"}, "ack")
    /\ retry[m] + 1 < MaxAttempts
    /\ HasName(m[1])
    /\ retry' = Set(retry, NewName(m[1]), retry[m] + 1)
    /\ UNCHANGED <<tables, locals, world>>

\* Acknowledged, or rejected into the dead-letter queue.
Settle(m) ==
    /\ Goto(m, {"ack", "retry"}, "idle")
    /\ pc[m] = "retry" => retry[m] + 1 >= MaxAttempts
    /\ retry' = Set(retry, m, None)
    /\ UNCHANGED <<tables, locals, world>>

\* The worker dies: the broker delivers the message again, its header as it
\* was, whether or not a copy has been published.
Crash(m) ==
    /\ Spend("crash")
    /\ pc[m] # "idle" /\ pc' = Set(pc, m, "idle")
    /\ Forget(m)
    /\ UNCHANGED <<tables, retry, hostKey, history>>

-----------------------------------------------------------------------------
WorkerStep(m) ==
    \/ Deliver(m) \/ LoadInstance(m) \/ StartJob(m) \/ NoCredentials(m)
    \/ Dial(m) \/ Authenticate(m) \/ ConnectionFails(m) \/ RunScript(m)
    \/ RecordConnectivity(m) \/ RecordExecution(m) \/ SaveResult(m) \/ Rollup(m)
    \/ Republish(m) \/ Settle(m)

Next ==
    \/ \E i \in Instance : EditInstance(i) \/ Rebuild(i)
    \/ \E e \in Events : CreateEvent(e) \/ RerunFailed(e)
    \/ \E m \in Message : WorkerStep(m) \/ HandlerError(m) \/ Crash(m)

Spec == Init /\ [][Next]_vars

-----------------------------------------------------------------------------
(* Properties.                                                             *)

\* Who connects finds or leaves a pinned key, and an attempt that read a pinned
\* row never talks to a node with another key, whatever jobs of the same
\* instance pin, users edit and nodes become in the meantime.  (An attempt that
\* read the row before the first pin may.)
PinnedKeyUsed ==
    \A m \in Message : pc[m] \in {"auth", "reauth", "script"} =>
        LET i == InstOf[m[1]] IN
        /\ Exists(i) /\ inst[i].pin # None
        /\ conf[m].pin # None => peer[m] = inst[i].pin

\* An instance keeps its first pin as long as it is there: jobs that read the row
\* before the pin and then meet a rebuilt node pin nothing, an edit of the
\* credentials carries no old row back, and no handler lets a new key in.
PinIsForGood ==
    [][\A i \in Instance : Exists(i) /\ inst[i].pin # None /\ Exists(i)' =>
          inst'[i].pin = inst[i].pin]_vars

Passed == [phase |-> "post", result |-> "passed"]

\* As long as no check was lost, a job shown as VERIFIED has the check that says
\* so, although attempts may run at once and job_checks and jobs are written in
\* two statements; and it is the latest one, unless attempts at the job have
\* overlapped (then one may insert its first check between the other's last
\* check and its result).
VerifiedHasCheck ==
    spent["check"] = 0 => \A j \in Jobs : jobStatus[j] = "VERIFIED" =>
        /\ \E i \in 1..Len(checks[j]) : checks[j][i] = Passed
        /\ j \notin beside => checks[j][Len(checks[j])] = Passed

\* Retries are counted in the message, where a crash does not reach them: with
\* each retry count a job is delivered once, once more for each re-run and once
\* more for each delivery that was cut off, so at most MaxAttempts times their
\* sum altogether.  That holds though a copy is published before its original
\* is acknowledged: a crash between the two leaves two messages that are both
\* retried, and a re-run adds its own to those that are there.
AttemptsBounded ==
    \A j \in Jobs, r \in RetryCount :
        attempts[j][r] <= 1 + spent["rerun"] + spent["crash"]

\* The instance of a job is there, whatever is deleted while events are
\* created: Handle always finds it.
JobsHaveInstances == \A j \in Jobs : jobStatus[j] # "NONE" => Exists(InstOf[j])

\* The job has had one attempt at most.
FirstAttempt(j) == \A r \in RetryCount : attempts[j][r] <= IF r = 0 THEN 1 ELSE 0

\* During the first attempt at a job its timeline never moves back, although
\* status and checks are separate statements and checks may be lost.
TimelineAdvances ==
    [][\A j \in Jobs : FirstAttempt(j)' /\ jobStatus'[j] \notin {"NONE", "QUEUED"} =>
          LET from == Steps(jobStatus[j], checks[j])
              to   == Steps(jobStatus'[j], checks'[j])
          IN  \A s \in {"connect", "run", "done"} : Advances(from[s], to[s])]_vars

\* Handle is an attempt as Dispatch takes it to be, whatever fails in it:
\* connections, checks and pins are inside Execute, the rollup comes after it.
\* As long as attempts at a job do not overlap, that is: Dispatch has what
\* keeps them apart (AttemptsApart), and what does not.
Seen(label) ==
    CASE label \in {"load", "mark"} -> "start"
      [] label \in {"ran", "result"} -> "save"
      [] label \in {"idle", "rollup", "retry", "ack"} -> "idle"
      [] OTHER -> "exec"

Attempting(j) == CHOOSE m \in Message : m[1] = j /\ UnderWay(m)
At      == [j \in Jobs |-> IF AtWork(j) THEN Seen(pc[Attempting(j)]) ELSE "idle"]
Verdict == [j \in Jobs |-> IF AtWork(j) THEN verdict[Attempting(j)] ELSE "NONE"]

AsDispatched == INSTANCE Attempt WITH at <- At, verdict <- Verdict

ImplementsAttempt ==
    /\ AsDispatched!Init
    /\ [][beside' = {} => UNCHANGED AsDispatched!attemptVars \/ AsDispatched!Next]_vars

-----------------------------------------------------------------------------
(* What the documentation says and the code does not keep.                 *)

\* "set on first successful connect": a pinned instance has accepted a login.
PinnedMeansAccepted ==
    \A m \in Message : pc[m] = "auth" /\ conf[m].cred = "wrong" =>
        inst[InstOf[m[1]]].pin = None \/ conf[m].pin # None

\* Each check is "displayed in the UI as pass/fail": a VERIFIED job is drawn
\* with all its steps done.
TimelineTellsResult ==
    \A j \in Jobs : jobStatus[j] = "VERIFIED" =>
        \A s \in {"connect", "run", "done"} : Steps(jobStatus[j], checks[j])[s] = "done"
=============================================================================
