---------------------------- MODULE RunnerProofs ----------------------------
(***************************************************************************)
(* Theorems about Runner, for any instances and any jobs that share them,  *)
(* any number of messages and attempts, and any number of faults and edits.*)
(***************************************************************************)
EXTENDS Runner, SequenceTheorems, FiniteSetTheorems, TLAPS

LEMMA SpendType ==
    ASSUME TypeOK, NEW k \in EventKind, Spend(k)
    PROVE  spent' \in [EventKind -> Nat]
BY DEF TypeOK, Spend

LEMMA Kinds == {"crash", "error", "check", "rebuild", "update", "rerun"} \subseteq EventKind
BY DEF EventKind

LEMMA JobOf == \A m \in Message : m[1] \in Jobs
BY DEF Message

LEMMA NewNameIs ==
    ASSUME NEW j, HasName(j)
    PROVE  NewName(j) \in Message /\ NewName(j)[1] = j /\ retry[NewName(j)] = None
BY DEF HasName, NewName, Unused

\* The statements on the table instances keep its type.
LEMMA InstType ==
    ASSUME TypeOK, NEW i \in Instance
    PROVE  /\ \A c \in Credential : InsertInstance(i, c) \/ UpdateInstanceSSH(i, c)
                  => inst' \in [Instance -> InstanceRow \cup {None, Deleted}]
           /\ \A k \in Keys : UpdateHostKey(i, k)
                  => inst' \in [Instance -> InstanceRow \cup {None, Deleted}]
           /\ DeleteInstance(i, Referenced)
                  => inst' \in [Instance -> InstanceRow \cup {None, Deleted}]
<1>1. ASSUME NEW c \in Credential, InsertInstance(i, c) \/ UpdateInstanceSSH(i, c)
      PROVE  inst' \in [Instance -> InstanceRow \cup {None, Deleted}]
  <2>1. CASE InsertInstance(i, c)
    <3>1. [cred |-> c, pin |-> None] \in InstanceRow
      BY DEF InstanceRow
    <3> QED
      BY <2>1, <3>1 DEF InsertInstance, TypeOK
  <2>2. CASE UpdateInstanceSSH(i, c)
    <3>1. inst[i] \in InstanceRow
      BY <2>2 DEF UpdateInstanceSSH, Exists, TypeOK
    <3>2. [inst[i] EXCEPT !.cred = c] \in InstanceRow
      BY <3>1 DEF InstanceRow
    <3> QED
      BY <2>2, <3>2 DEF UpdateInstanceSSH, TypeOK
  <2> QED
    BY <1>1, <2>1, <2>2
<1>2. ASSUME NEW k \in Keys, UpdateHostKey(i, k)
      PROVE  inst' \in [Instance -> InstanceRow \cup {None, Deleted}]
  BY <1>2 DEF UpdateHostKey, Exists, InstanceRow, TypeOK
<1>3. ASSUME DeleteInstance(i, Referenced)
      PROVE  inst' \in [Instance -> InstanceRow \cup {None, Deleted}]
  BY <1>3 DEF DeleteInstance, TypeOK
<1> QED
  BY <1>1, <1>2, <1>3

LEMMA CheckType ==
    ASSUME TypeOK, NEW m \in Message, NEW phase \in {"pre", "post"},
           NEW result \in {"passed", "failed"}, AddJobCheck(m, phase, result)
    PROVE  checks' \in [Jobs -> Seq(Check)] /\ spent' \in [EventKind -> Nat]
<1>1. CASE Spend("check") /\ UNCHANGED checks
  BY <1>1, SpendType, Kinds DEF TypeOK
<1>2. CASE checks' = Set(checks, m[1], Append(checks[m[1]], [phase |-> phase, result |-> result]))
           /\ UNCHANGED spent
  <2>1. [phase |-> phase, result |-> result] \in Check /\ m[1] \in Jobs
    BY JobOf DEF Check
  <2> QED
    BY <1>2, <2>1 DEF TypeOK, Set
<1> QED
  BY <1>1, <1>2 DEF AddJobCheck

\* The labels Handle goes to.
Labels == HandlePC \cup {"idle", "retry", "ack"}

LEMMA GotoType ==
    ASSUME TypeOK, NEW m \in Message, NEW from, NEW to \in Labels, Goto(m, from, to)
    PROVE  pc' \in [Message -> Labels]
BY DEF TypeOK, Goto, Labels

LEMMA LabelsThere ==
    {"idle", "retry", "ack", "load", "mark", "refused", "connected", "script", "ran", "result",
     "rollup", "connect", "auth", "reconnect", "reauth"} = Labels
BY DEF Labels, HandlePC, Connecting, Reconnecting

LEMMA ForgetType ==
    ASSUME TypeOK, NEW m \in Message, Forget(m)
    PROVE  /\ conf' \in [Message -> InstanceRow \cup {None}]
           /\ peer' \in [Message -> Keys \cup {None}]
           /\ verdict' \in [Message -> TerminalJob \cup {"NONE"}]
BY DEF TypeOK, Forget, Set

\* Whoever is in Handle has a message.
MessageHeld == \A m \in Message : pc[m] # "idle" => retry[m] # None

LEMMA RetryType ==
    ASSUME TypeOK, MessageHeld, NEW m \in Message, Republish(m)
    PROVE  /\ retry[m] + 1 \in RetryCount
           /\ retry' \in [Message -> RetryCount \cup {None}]
           /\ NewName(m[1]) \in Message /\ NewName(m[1])[1] = m[1]
           /\ retry[NewName(m[1])] = None /\ retry'[NewName(m[1])] = retry[m] + 1
           /\ \A n \in Message : n # NewName(m[1]) => retry'[n] = retry[n]
<1>1. pc[m] = "retry" /\ retry[m] + 1 < MaxAttempts
  BY DEF Republish, Goto
<1>2. retry[m] \in RetryCount
  BY <1>1 DEF TypeOK, MessageHeld
<1>3. retry[m] + 1 \in RetryCount
  BY <1>1, <1>2, RunnerAssumption DEF RetryCount
<1>4. NewName(m[1]) \in Message /\ NewName(m[1])[1] = m[1] /\ retry[NewName(m[1])] = None
  BY NewNameIs DEF Republish
<1>5. PICK n : n = NewName(m[1])
  OBVIOUS
<1>6. PICK r : r = retry[m] + 1
  OBVIOUS
<1>7. retry' = [retry EXCEPT ![n] = r]
  BY <1>5, <1>6 DEF Republish, Set
<1> QED
  BY <1>3, <1>4, <1>5, <1>6, <1>7 DEF TypeOK

LEMMA QueueType ==
    ASSUME TypeOK, NEW e \in Events, NEW s \in {"NONE", "FAILED"}, QueueJobs(e, s)
    PROVE  /\ retry' \in [Message -> RetryCount \cup {None}]
           /\ \A n \in Message : retry[n] # None => retry'[n] # None
           /\ \A n \in Message : retry'[n] # retry[n] =>
                 /\ retry'[n] = 0 /\ retry[n] = None /\ n = NewName(n[1])
                 /\ n[1] \in JobsOf(e) /\ jobStatus[n[1]] = s
<1>1. 0 \in RetryCount
  BY RunnerAssumption DEF RetryCount
<1>2. retry' = [n \in Message |->
                 IF n[1] \in {j \in JobsOf(e) : jobStatus[j] = s} /\ n = NewName(n[1]) THEN 0 ELSE retry[n]]
  BY DEF QueueJobs
<1>3. \A j \in JobsOf(e) : jobStatus[j] = s => retry[NewName(j)] = None
  BY NewNameIs DEF QueueJobs
<1> QED
  BY <1>1, <1>2, <1>3, RunnerAssumption DEF TypeOK

LEMMA TypeStep == TypeOK /\ MessageHeld /\ [Next]_vars => TypeOK'
<1> SUFFICES ASSUME TypeOK, MessageHeld, [Next]_vars PROVE TypeOK'
  OBVIOUS
<1> USE DEF tables, locals, history, world
<1>1. ASSUME NEW i \in Instance, EditInstance(i) PROVE TypeOK'
  BY <1>1, InstType, SpendType, Kinds DEF EditInstance, TypeOK
<1>2. ASSUME NEW i \in Instance, Rebuild(i) PROVE TypeOK'
  BY <1>2, SpendType, Kinds DEF Rebuild, TypeOK
<1>3. ASSUME NEW e \in Events, CreateEvent(e) \/ RerunFailed(e) PROVE TypeOK'
  <2>1. spent' \in [EventKind -> Nat]
    BY <1>3, SpendType, Kinds DEF CreateEvent, RerunFailed, TypeOK
  <2>2. PICK s \in {"NONE", "FAILED"} : QueueJobs(e, s)
    BY <1>3 DEF CreateEvent, RerunFailed
  <2>3. jobStatus' \in [Jobs -> JobStatus \cup {"NONE"}]
    BY <2>2 DEF QueueJobs, TypeOK, JobStatus, PendingJob
  <2>4. retry' \in [Message -> RetryCount \cup {None}]
    BY <2>2, QueueType
  <2>5. beside' \subseteq Jobs
    BY <2>2 DEF QueueJobs, JobsOf, TypeOK
  <2> QED
    BY <2>1, <2>2, <2>3, <2>4, <2>5 DEF QueueJobs, TypeOK
<1>4. ASSUME NEW m \in Message, WorkerStep(m) \/ HandlerError(m) \/ Crash(m) PROVE TypeOK'
  <2> USE InstanceAssumption, JobOf DEF Set
  <2>1. \E from : \E to \in Labels : Goto(m, from, to) \/ pc' = Set(pc, m, "idle")
    <3> USE LabelsThere
    <3>1. CASE Deliver(m) \/ LoadInstance(m) \/ StartJob(m) \/ NoCredentials(m) \/ Rollup(m)
               \/ SaveResult(m) \/ Republish(m) \/ Settle(m) \/ HandlerError(m) \/ Crash(m)
      BY <3>1 DEF Deliver, LoadInstance, StartJob, NoCredentials, Rollup, SaveResult, Republish,
                  Settle, HandlerError, Crash
    <3>2. CASE Dial(m) \/ Authenticate(m) \/ ConnectionFails(m) \/ RunScript(m)
               \/ RecordConnectivity(m) \/ RecordExecution(m)
      BY <3>2 DEF Dial, Authenticate, ConnectionFails, RunScript, RecordConnectivity, RecordExecution
    <3> QED
      BY <1>4, <3>1, <3>2 DEF WorkerStep
  <2>9. pc' \in [Message -> Labels]
    BY <2>1, GotoType, LabelsThere DEF TypeOK, Labels
  <2>2. CASE Authenticate(m) \/ Rollup(m)
    BY <2>9, <2>2 DEF Authenticate, Rollup, TypeOK, Labels
  <2>13. CASE Deliver(m)
    <3>1. retry[m] \in RetryCount /\ attempts[m[1]][retry[m]] + 1 \in Nat
      BY <2>13 DEF Deliver, TypeOK
    <3>2. attempts' \in [Jobs -> [RetryCount -> Nat]]
      <4>1. PICK r : r = retry[m]
        OBVIOUS
      <4>2. PICK j : j = m[1]
        OBVIOUS
      <4> QED
        BY <2>13, <3>1, <4>1, <4>2 DEF Deliver, TypeOK
    <3>3. beside' \subseteq Jobs
      BY <2>13 DEF Deliver, TypeOK
    <3> QED
      BY <2>9, <2>13, <3>2, <3>3 DEF Deliver, TypeOK, Labels
  <2>12. CASE StartJob(m) \/ NoCredentials(m)
    BY <2>9, <2>12 DEF StartJob, NoCredentials, TypeOK, JobStatus, PendingJob, TerminalJob, Labels
  <2>10. CASE LoadInstance(m)
    <3>1. inst[InstOf[m[1]]] \in InstanceRow
      BY <2>10 DEF LoadInstance, Exists, TypeOK
    <3> QED
      BY <2>9, <2>10, <3>1 DEF LoadInstance, TypeOK, Labels
  <2>11. CASE ConnectionFails(m) \/ RunScript(m)
    <3>1. verdict' \in [Message -> TerminalJob \cup {"NONE"}]
      BY <2>11 DEF ConnectionFails, RunScript, TypeOK, TerminalJob
    <3> QED
      BY <2>9, <2>11, <3>1 DEF ConnectionFails, RunScript, TypeOK, Labels
  <2>3. CASE Dial(m)
    BY <2>9, <2>3, InstType DEF Dial, TypeOK, Labels
  <2>4. CASE RecordConnectivity(m) \/ RecordExecution(m)
    BY <2>9, <2>4, CheckType DEF RecordConnectivity, RecordExecution, TypeOK, TerminalJob, Labels
  <2>5. CASE SaveResult(m)
    BY <2>9, <2>5, ForgetType DEF SaveResult, TypeOK, JobStatus, Labels
  <2>6. CASE Republish(m) \/ Settle(m)
    <3>1. retry' \in [Message -> RetryCount \cup {None}]
      BY <2>6, RetryType DEF Settle, TypeOK
    <3> QED
      BY <2>9, <2>6, <3>1 DEF Republish, Settle, TypeOK, Labels
  <2>7. CASE HandlerError(m)
    BY <2>9, <2>7, ForgetType, SpendType, Kinds DEF HandlerError, TypeOK, JobStatus, PendingJob, Labels
  <2>8. CASE Crash(m)
    BY <2>9, <2>8, ForgetType, SpendType, Kinds DEF Crash, TypeOK, Labels
  <2> QED
    BY <2>2, <2>3, <2>4, <2>5, <2>6, <2>7, <2>8, <2>10, <2>11, <2>12, <2>13, <1>4 DEF WorkerStep
<1>5. CASE UNCHANGED vars
  BY <1>5 DEF vars, TypeOK
<1> QED
  BY <1>1, <1>2, <1>3, <1>4, <1>5 DEF Next

-----------------------------------------------------------------------------
(* What a step of an attempt leaves alone.                                 *)

MessageNext(m) == WorkerStep(m) \/ HandlerError(m) \/ Crash(m)

\* Nothing of a message, or of the attempt it has started, changes.
Untouched(m) == /\ pc'[m] = pc[m]
                /\ conf'[m] = conf[m]
                /\ peer'[m] = peer[m]
                /\ verdict'[m] = verdict[m]

\* Nothing that is known of a job changes.
JobUntouched(j) == /\ jobStatus'[j] = jobStatus[j]
                   /\ checks'[j] = checks[j]
                   /\ attempts'[j] = attempts[j]

\* An attempt touches its own message and its own job only, but for the copy
\* it may publish.
LEMMA OthersUntouched ==
    ASSUME TypeOK, NEW m \in Message, MessageNext(m)
    PROVE  /\ \A n \in Message \ {m} : Untouched(n)
           /\ \A j \in Jobs \ {m[1]} : JobUntouched(j)
           /\ Republish(m) \/ \A n \in Message \ {m} : retry'[n] = retry[n]
           /\ Deliver(m) \/ UNCHANGED <<attempts, beside>>
           /\ Republish(m) \/ Settle(m) \/ retry' = retry
<1> USE DEF TypeOK, Goto, Set, Untouched, JobUntouched, tables, locals, history, world
<1>1. CASE Deliver(m)
  BY <1>1 DEF Deliver
<1>2. CASE LoadInstance(m) \/ StartJob(m) \/ NoCredentials(m) \/ Authenticate(m) \/ Rollup(m)
  BY <1>2 DEF LoadInstance, StartJob, NoCredentials, Authenticate, Rollup
<1>3. CASE Republish(m)
  BY <1>3 DEF Republish
<1>4. CASE Settle(m)
  BY <1>4 DEF Settle
<1>5. CASE Dial(m)
  BY <1>5 DEF Dial
<1>6. CASE ConnectionFails(m) \/ RunScript(m)
  BY <1>6 DEF ConnectionFails, RunScript
<1>7. CASE RecordConnectivity(m) \/ RecordExecution(m)
  BY <1>7 DEF RecordConnectivity, RecordExecution, AddJobCheck
<1>8. CASE SaveResult(m) \/ HandlerError(m) \/ Crash(m)
  BY <1>8 DEF SaveResult, HandlerError, Crash, Forget
<1> QED
  BY <1>1, <1>2, <1>3, <1>4, <1>5, <1>6, <1>7, <1>8 DEF MessageNext, WorkerStep

\* Only a delivered message is worked on, and only until it is settled.
LEMMA StepOfHeld ==
    ASSUME TypeOK, NEW m \in Message, MessageNext(m), ~ Deliver(m)
    PROVE  pc[m] # "idle" /\ (pc'[m] # "idle" \/ Settle(m) \/ Crash(m))
<1> USE DEF TypeOK, Goto
<1>1. CASE LoadInstance(m) \/ StartJob(m) \/ NoCredentials(m) \/ Rollup(m) \/ SaveResult(m)
           \/ HandlerError(m) \/ Republish(m)
  BY <1>1 DEF LoadInstance, StartJob, NoCredentials, Rollup, SaveResult, HandlerError, Republish
<1>2. CASE Dial(m) \/ Authenticate(m) \/ ConnectionFails(m) \/ RunScript(m)
           \/ RecordConnectivity(m) \/ RecordExecution(m)
  BY <1>2 DEF Dial, Authenticate, ConnectionFails, RunScript, RecordConnectivity, RecordExecution,
              Connecting, Reconnecting
<1>3. CASE Settle(m) \/ Crash(m)
  BY <1>3 DEF Settle, Crash
<1> QED
  BY <1>1, <1>2, <1>3 DEF MessageNext, WorkerStep

LEMMA HeldStep == TypeOK /\ MessageHeld /\ [Next]_vars => MessageHeld'
<1> SUFFICES ASSUME TypeOK, MessageHeld, [Next]_vars PROVE MessageHeld'
  OBVIOUS
<1> USE DEF tables, locals, history, world
<1>1. ASSUME NEW e \in Events, CreateEvent(e) \/ RerunFailed(e) PROVE MessageHeld'
  <2>1. PICK s \in {"NONE", "FAILED"} : QueueJobs(e, s)
    BY <1>1 DEF CreateEvent, RerunFailed
  <2> QED
    BY <2>1, QueueType DEF QueueJobs, MessageHeld
<1>2. ASSUME NEW m \in Message, MessageNext(m) PROVE MessageHeld'
  <2>1. \A n \in Message \ {m} : retry[n] # None => retry'[n] # None
    <3>1. CASE Republish(m)
      BY <3>1, RetryType, RunnerAssumption DEF RetryCount
    <3> QED
      BY <1>2, <3>1, OthersUntouched
  <2>2. pc'[m] # "idle" => retry'[m] # None
    <3>1. CASE Deliver(m)
      BY <3>1 DEF Deliver
    <3>2. CASE Settle(m)
      BY <3>2 DEF Settle, Goto, TypeOK
    <3>3. CASE Republish(m)
      <4>1. retry[m] # None
        BY <3>3 DEF Republish, Goto, MessageHeld
      <4> QED
        BY <3>3, <4>1, RetryType
    <3> QED
      BY <1>2, <3>1, <3>2, <3>3, StepOfHeld, OthersUntouched DEF MessageHeld
  <2> QED
    BY <1>2, <2>1, <2>2, OthersUntouched DEF MessageHeld, Untouched
<1>3. ASSUME NEW i \in Instance, EditInstance(i) \/ Rebuild(i) PROVE MessageHeld'
  BY <1>3 DEF EditInstance, Rebuild, MessageHeld
<1>4. CASE UNCHANGED vars
  BY <1>4 DEF vars, MessageHeld
<1> QED
  BY <1>1, <1>2, <1>3, <1>4 DEF Next, MessageNext

\* Types hold in every state; in particular no retry count reaches
\* MaxAttempts, and the one an attempt may raise is there.
THEOREM RunnerTypeCorrect == Spec => []TypeOK
<1>1. Init => TypeOK /\ MessageHeld
  BY RunnerAssumption DEF Init, TypeOK, MessageHeld
<1>2. TypeOK /\ MessageHeld /\ [Next]_vars => (TypeOK /\ MessageHeld)'
  BY TypeStep, HeldStep
<1> QED
  BY <1>1, <1>2, PTL DEF Spec

-----------------------------------------------------------------------------
(* What an attempt knows of its job.                                       *)

\* A job with a message has been inserted, and there is a verdict exactly
\* between the script and the statement that saves it.
Attempted(m) ==
    /\ pc[m] # "idle" => retry[m] # None
    /\ retry[m] # None => jobStatus[m[1]] # "NONE"
    /\ IF pc[m] \in {"ran", "result"} THEN verdict[m] \in TerminalJob ELSE verdict[m] = "NONE"

AttemptInv == TypeOK /\ \A m \in Message : Attempted(m)

Inserted(k) == jobStatus[k] # "NONE"

\* A job that is there stays there.
LEMMA JobStays ==
    ASSUME AttemptInv, [Next]_vars, NEW k \in Jobs, Inserted(k)
    PROVE  Inserted(k)'
<1> USE DEF AttemptInv, TypeOK, Inserted, tables
<1>1. ASSUME NEW e \in Events, CreateEvent(e) \/ RerunFailed(e) PROVE Inserted(k)'
  BY <1>1 DEF CreateEvent, RerunFailed, QueueJobs
<1>2. ASSUME NEW m \in Message, MessageNext(m), m[1] # k PROVE Inserted(k)'
  BY <1>2, OthersUntouched DEF JobUntouched
<1>3. ASSUME NEW m \in Message, MessageNext(m), m[1] = k PROVE Inserted(k)'
  <2> USE DEF Set, Goto
  <2>1. CASE StartJob(m) \/ SaveResult(m) \/ HandlerError(m)
    BY <1>3, <2>1 DEF StartJob, SaveResult, HandlerError, Attempted, TerminalJob
  <2>2. ASSUME ~ (StartJob(m) \/ SaveResult(m) \/ HandlerError(m)) PROVE jobStatus' = jobStatus
    BY <1>3, <2>2 DEF MessageNext, WorkerStep, Deliver, LoadInstance, NoCredentials, Dial, Authenticate,
       ConnectionFails, RunScript, RecordConnectivity, RecordExecution, Rollup, Republish, Settle,
       Crash
  <2> QED
    BY <2>1, <2>2
<1>4. ASSUME NEW i \in Instance, EditInstance(i) \/ Rebuild(i) PROVE Inserted(k)'
  BY <1>4 DEF EditInstance, Rebuild
<1>5. CASE UNCHANGED vars
  BY <1>5 DEF vars
<1> QED
  BY <1>1, <1>2, <1>3, <1>4, <1>5 DEF Next, MessageNext

\* The verdict of the attempt that makes the step.
LEMMA VerdictStep ==
    ASSUME AttemptInv, NEW m \in Message, MessageNext(m)
    PROVE  IF pc'[m] \in {"ran", "result"} THEN verdict'[m] \in TerminalJob ELSE verdict'[m] = "NONE"
<1> USE DEF AttemptInv, Attempted, TypeOK, Goto, Set, tables, locals, history, world
<1>1. CASE Deliver(m) \/ LoadInstance(m) \/ Authenticate(m) \/ Rollup(m)
  BY <1>1 DEF Deliver, LoadInstance, Authenticate, Rollup
<1>2. CASE Dial(m) \/ StartJob(m) \/ NoCredentials(m)
  BY <1>2 DEF Dial, StartJob, NoCredentials, TerminalJob
<1>3. CASE ConnectionFails(m)
  BY <1>3 DEF ConnectionFails, TerminalJob, Connecting, Reconnecting
<1>4. CASE RunScript(m) \/ RecordConnectivity(m) \/ RecordExecution(m)
  BY <1>4 DEF RunScript, RecordConnectivity, RecordExecution, TerminalJob
<1>5. CASE SaveResult(m) \/ HandlerError(m) \/ Crash(m)
  BY <1>5 DEF SaveResult, HandlerError, Crash, Forget, TerminalJob
<1>6. CASE Settle(m) \/ Republish(m)
  BY <1>6 DEF Settle, Republish
<1> QED
  BY <1>1, <1>2, <1>3, <1>4, <1>5, <1>6 DEF MessageNext, WorkerStep

LEMMA AttemptStep == AttemptInv /\ [Next]_vars => AttemptInv'
<1> SUFFICES ASSUME AttemptInv, [Next]_vars PROVE AttemptInv'
  OBVIOUS
<1> USE DEF tables, locals, history, world
<1>1. TypeOK' /\ MessageHeld'
  BY TypeStep, HeldStep DEF AttemptInv, Attempted, MessageHeld
<1>2. \A n \in Message : retry'[n] # None => Inserted(n[1])'
  <2>1. ASSUME NEW n \in Message, retry[n] # None PROVE Inserted(n[1])'
    BY <2>1, JobOf, JobStays DEF AttemptInv, Attempted, Inserted
  <2>2. ASSUME NEW n \in Message, retry'[n] # retry[n], retry'[n] # None PROVE Inserted(n[1])'
    <3>1. ASSUME NEW e \in Events, CreateEvent(e) \/ RerunFailed(e) PROVE Inserted(n[1])'
      <4>1. PICK s \in {"NONE", "FAILED"} : QueueJobs(e, s)
        BY <3>1 DEF CreateEvent, RerunFailed
      <4>2. n[1] \in JobsOf(e) /\ jobStatus[n[1]] = s /\ n[1] \in Jobs
        BY <2>2, <4>1, QueueType, JobOf DEF AttemptInv
      <4> QED
        BY <4>1, <4>2 DEF QueueJobs, Inserted
    <3>2. ASSUME NEW m \in Message, MessageNext(m) PROVE Inserted(n[1])'
      <4>1. CASE Republish(m)
        <5>1. n[1] = m[1] /\ pc[m] = "retry"
          BY <2>2, <4>1, RetryType DEF AttemptInv, Attempted, MessageHeld, Republish, Goto
        <5> QED
          BY <2>1, <5>1 DEF AttemptInv, Attempted
      <4>2. CASE Settle(m)
        BY <2>2, <4>2 DEF Settle, Set, AttemptInv, TypeOK
      <4> QED
        BY <2>2, <3>2, <4>1, <4>2, OthersUntouched DEF AttemptInv
    <3>3. ASSUME NEW i \in Instance, EditInstance(i) \/ Rebuild(i) PROVE retry' = retry
      BY <3>3 DEF EditInstance, Rebuild
    <3>4. CASE UNCHANGED vars
      BY <2>2, <3>4 DEF vars
    <3> QED
      BY <2>2, <3>1, <3>2, <3>3, <3>4 DEF Next, MessageNext
  <2> QED
    BY <2>1, <2>2
<1>3. ASSUME NEW n \in Message
      PROVE  IF pc'[n] \in {"ran", "result"} THEN verdict'[n] \in TerminalJob ELSE verdict'[n] = "NONE"
  <2>1. ASSUME NEW m \in Message, MessageNext(m) PROVE m = n \/ (pc'[n] = pc[n] /\ verdict'[n] = verdict[n])
    BY <2>1, OthersUntouched DEF Untouched, AttemptInv
  <2>2. ASSUME ~ (\E m \in Message : MessageNext(m)) PROVE pc'[n] = pc[n] /\ verdict'[n] = verdict[n]
    BY <2>2 DEF Next, MessageNext, EditInstance, Rebuild, CreateEvent, RerunFailed, QueueJobs, vars
  <2> QED
    BY <2>1, <2>2, VerdictStep DEF AttemptInv, Attempted
<1> QED
  BY <1>1, <1>2, <1>3 DEF AttemptInv, Attempted, MessageHeld, Inserted

LEMMA AttemptInvariant == Spec => []AttemptInv
<1>1. Init => AttemptInv
  BY RunnerAssumption, JobOf DEF Init, AttemptInv, Attempted, TypeOK
<1> QED
  BY <1>1, AttemptStep, PTL DEF Spec

-----------------------------------------------------------------------------
(* Instances and their pins.                                               *)

\* An instance is there until it is deleted, which takes that no job refers to
\* it, and its pin is for good.
LEMMA PinStays ==
    ASSUME AttemptInv, [Next]_vars, NEW i \in Instance, Exists(i)
    PROVE  /\ Exists(i)' \/ (inst'[i] = Deleted /\ i \notin Referenced)
           /\ Exists(i)' /\ inst[i].pin # None => inst'[i].pin = inst[i].pin
<1> DEFINE Gone == inst'[i] = Deleted /\ i \notin Referenced
           Stays == Exists(i)' /\ (inst[i].pin # None => inst'[i].pin = inst[i].pin)
<1> SUFFICES Gone \/ Stays
  BY DEF Exists
<1>1. inst[i] \in InstanceRow
  BY DEF AttemptInv, TypeOK, Exists
<1>2. ASSUME inst' = inst PROVE Stays
  BY <1>2 DEF Exists
<1>3. ASSUME NEW c \in Credential, NEW h \in Instance, InsertInstance(h, c) PROVE Stays
  BY <1>1, <1>3 DEF InsertInstance, Exists, AttemptInv, TypeOK
<1>4. ASSUME NEW c \in Credential, NEW h \in Instance, UpdateInstanceSSH(h, c) PROVE Stays
  <2>1. [inst[i] EXCEPT !.cred = c] \in InstanceRow /\ [inst[i] EXCEPT !.cred = c].pin = inst[i].pin
    BY <1>1 DEF InstanceRow
  <2>2. inst'[i] \in {inst[i], [inst[i] EXCEPT !.cred = c]}
    BY <1>1, <1>4 DEF UpdateInstanceSSH, AttemptInv, TypeOK
  <2> QED
    BY <1>1, <2>1, <2>2, InstanceAssumption DEF Exists
<1>5. ASSUME NEW h \in Instance, DeleteInstance(h, Referenced) PROVE Gone \/ Stays
  BY <1>1, <1>5 DEF DeleteInstance, Exists, AttemptInv, TypeOK
<1>6. ASSUME NEW h \in Instance, NEW key \in Keys, UpdateHostKey(h, key) PROVE Stays
  <2>1. [inst[i] EXCEPT !.pin = key] \in InstanceRow /\ [inst[i] EXCEPT !.pin = key].pin = key
    BY <1>1 DEF InstanceRow
  <2>2. \/ inst'[i] = inst[i]
        \/ inst[i].pin \in {None, key} /\ inst'[i] = [inst[i] EXCEPT !.pin = key]
    BY <1>1, <1>6 DEF UpdateHostKey, AttemptInv, TypeOK
  <2> QED
    BY <1>1, <2>1, <2>2, InstanceAssumption DEF Exists
<1>7. ASSUME NEW h \in Instance, EditInstance(h) \/ Rebuild(h) PROVE Gone \/ Stays
  BY <1>2, <1>3, <1>4, <1>5, <1>7 DEF EditInstance, Rebuild, tables
<1>8. ASSUME NEW m \in Message, MessageNext(m) PROVE Stays
  <2>1. CASE Dial(m)
    <3>1. InstOf[m[1]] \in Instance /\ hostKey[InstOf[m[1]]] \in Keys
      BY InstanceAssumption, JobOf DEF AttemptInv, TypeOK
    <3> QED
      BY <1>2, <1>6, <2>1, <3>1 DEF Dial
  <2>2. CASE ~ Dial(m)
    BY <1>2, <1>8, <2>2 DEF MessageNext, WorkerStep, Deliver, LoadInstance, StartJob, NoCredentials,
       Authenticate, ConnectionFails, RunScript, RecordConnectivity, RecordExecution, SaveResult,
       Rollup, HandlerError, Crash, Republish, Settle, tables
  <2> QED
    BY <2>1, <2>2
<1>9. ASSUME NEW e \in Events, CreateEvent(e) \/ RerunFailed(e) PROVE Stays
  BY <1>2, <1>9 DEF CreateEvent, RerunFailed, QueueJobs
<1>10. CASE UNCHANGED vars
  BY <1>2, <1>10 DEF vars, tables
<1> QED
  BY <1>7, <1>8, <1>9, <1>10 DEF Next, MessageNext

\* The instance of an inserted job is not deleted.
LEMMA InstanceStays ==
    ASSUME AttemptInv, [Next]_vars, NEW k \in Jobs, Inserted(k), Exists(InstOf[k])
    PROVE  /\ Exists(InstOf[k])'
           /\ inst[InstOf[k]].pin # None => inst'[InstOf[k]].pin = inst[InstOf[k]].pin
<1>1. InstOf[k] \in Instance /\ InstOf[k] \in Referenced
  BY InstanceAssumption DEF Referenced, Inserted
<1> QED
  BY <1>1, PinStays

\* The first key pinned for an instance stays its key: no concurrent first
\* connection, edit or rebuilt node replaces it.
THEOREM PinIsForGoodAlways == Spec => PinIsForGood
<1>1. AttemptInv /\ [Next]_vars =>
        [\A i \in Instance : Exists(i) /\ inst[i].pin # None /\ Exists(i)' =>
            inst'[i].pin = inst[i].pin]_vars
  BY PinStays
<1> QED
  BY <1>1, AttemptInvariant, PTL DEF Spec, PinIsForGood

LEMMA JobsHaveInstancesStep ==
    AttemptInv /\ JobsHaveInstances /\ [Next]_vars => JobsHaveInstances'
<1> SUFFICES ASSUME AttemptInv, JobsHaveInstances, [Next]_vars, NEW k \in Jobs, Inserted(k)'
             PROVE  Exists(InstOf[k])'
  BY DEF JobsHaveInstances, Inserted
<1>1. CASE Inserted(k)
  BY <1>1, InstanceStays DEF JobsHaveInstances, Inserted
<1>2. CASE ~ Inserted(k)
  <2>1. ASSUME NEW e \in Events, CreateEvent(e) PROVE Exists(InstOf[k])'
    BY <1>2, <2>1 DEF CreateEvent, QueueJobs, Inserted, Exists, AttemptInv, TypeOK, JobsOf
  <2>2. ASSUME NEW e \in Events, RerunFailed(e) PROVE FALSE
    BY <1>2, <2>2 DEF RerunFailed, QueueJobs, Inserted, AttemptInv, TypeOK
  <2>3. ASSUME NEW m \in Message, MessageNext(m), m[1] # k PROVE FALSE
    BY <1>2, <2>3, OthersUntouched DEF JobUntouched, AttemptInv, Inserted
  <2>4. ASSUME NEW m \in Message, MessageNext(m), m[1] = k PROVE FALSE
    <3>1. pc[m] = "idle" /\ retry[m] = None
      BY <1>2, <2>4 DEF AttemptInv, Attempted, Inserted
    <3>2. ~ Deliver(m)
      BY <3>1 DEF Deliver
    <3> QED
      BY <2>4, <3>1, <3>2, StepOfHeld DEF AttemptInv
  <2>5. ASSUME NEW i \in Instance, EditInstance(i) \/ Rebuild(i) PROVE FALSE
    BY <1>2, <2>5 DEF EditInstance, Rebuild, Inserted, tables
  <2>6. CASE UNCHANGED vars
    BY <1>2, <2>6 DEF vars, tables, Inserted
  <2> QED
    BY <2>1, <2>2, <2>3, <2>4, <2>5, <2>6 DEF Next, MessageNext
<1> QED
  BY <1>1, <1>2

\* The foreign keys do their work: Handle finds the instance of every job,
\* whatever is deleted while events are created.
THEOREM JobsHaveInstancesAlways == Spec => []JobsHaveInstances
<1>1. Init => JobsHaveInstances
  BY DEF Init, JobsHaveInstances
<1> QED
  BY <1>1, AttemptInvariant, JobsHaveInstancesStep, PTL DEF Spec

-----------------------------------------------------------------------------
(* The pinned key.                                                         *)

Talking == {"auth", "reauth", "script"}
Holding == {"mark", "refused", "connected", "script", "ran", "result"}
           \cup Connecting \cup Reconnecting

\* The row an attempt has read agrees with the table about the pin, if it had
\* one; if it had none, the first connection has pinned some key.
PinKnown(m) ==
    LET i == InstOf[m[1]] IN
    /\ pc[m] \in Holding => /\ conf[m] \in InstanceRow
                            /\ conf[m].pin # None => inst[i].pin = conf[m].pin
    /\ pc[m] \in Talking => /\ inst[i].pin # None
                            /\ conf[m].pin # None => peer[m] = conf[m].pin

PinInv == \A m \in Message : PinKnown(m)

\* A step of another attempt, of a user or of a node.
LEMMA PinKnownElse ==
    ASSUME AttemptInv, JobsHaveInstances, [Next]_vars, NEW k \in Message, PinKnown(k),
           pc'[k] = pc[k] /\ conf'[k] = conf[k] /\ peer'[k] = peer[k]
    PROVE  PinKnown(k)'
<1>1. CASE pc[k] \in Holding
  <2>1. Inserted(k[1])
    BY <1>1 DEF AttemptInv, Attempted, Inserted, Holding, Connecting, Reconnecting
  <2>2. inst[InstOf[k[1]]].pin # None => inst'[InstOf[k[1]]].pin = inst[InstOf[k[1]]].pin
    BY <2>1, InstanceStays, JobOf DEF JobsHaveInstances, Inserted
  <2> QED
    BY <2>2 DEF PinKnown
<1>2. CASE pc[k] \notin Holding
  BY <1>2 DEF PinKnown, Holding, Talking, Connecting, Reconnecting
<1> QED
  BY <1>1, <1>2

LEMMA PinKnownDial ==
    ASSUME AttemptInv, JobsHaveInstances, NEW k \in Message, PinKnown(k), Dial(k)
    PROVE  PinKnown(k)'
<1> DEFINE i == InstOf[k[1]]
           key == hostKey[i]
<1>1. /\ Exists(i) /\ i \in Instance /\ inst[i] \in InstanceRow /\ key \in Keys
      /\ conf[k] \in InstanceRow /\ conf'[k] = conf[k] /\ peer'[k] = key
      /\ conf[k].pin \in {None, key}
      /\ conf[k].pin # None => inst[i].pin = conf[k].pin
  <2>1. pc[k] \in {"connect", "reconnect"}
    BY DEF Dial, Goto
  <2>2. Inserted(k[1])
    BY <2>1 DEF AttemptInv, Attempted, Inserted
  <2>3. Exists(i) /\ i \in Instance /\ inst[i] \in InstanceRow /\ key \in Keys
    BY <2>2, InstanceAssumption, JobOf DEF JobsHaveInstances, Inserted, Exists, AttemptInv, TypeOK
  <2>4. conf'[k] = conf[k] /\ peer'[k] = key /\ conf[k].pin \in {None, key}
    BY DEF Dial, Set, AttemptInv, TypeOK
  <2> QED
    BY <2>1, <2>3, <2>4 DEF PinKnown, Holding, Connecting, Reconnecting
<1>2. inst'[i].pin # None /\ (conf[k].pin # None => inst'[i].pin = conf[k].pin)
  <2>1. CASE conf[k].pin # None
    BY <1>1, <2>1 DEF Dial
  <2>2. CASE conf[k].pin = None
    <3>1. UpdateHostKey(i, key)
      BY <2>2 DEF Dial
    <3>2. [inst[i] EXCEPT !.pin = key].pin = key
      BY <1>1 DEF InstanceRow
    <3>3. inst'[i].pin \in {inst[i].pin, key} /\ (inst[i].pin = None => inst'[i].pin = key)
      BY <1>1, <3>1, <3>2 DEF UpdateHostKey, AttemptInv, TypeOK
    <3> QED
      BY <1>1, <2>2, <3>3, InstanceAssumption
  <2> QED
    BY <2>1, <2>2
<1> QED
  BY <1>1, <1>2 DEF PinKnown

LEMMA PinStep == AttemptInv /\ JobsHaveInstances /\ PinInv /\ [Next]_vars => PinInv'
<1> SUFFICES ASSUME AttemptInv, JobsHaveInstances, PinInv, [Next]_vars, NEW k \in Message
             PROVE  PinKnown(k)'
  BY DEF PinInv
<1> USE DEF tables, locals, history, world
<1>1. PinKnown(k)
  BY DEF PinInv
<1>2. CASE pc' = pc /\ conf' = conf /\ peer' = peer
  BY <1>1, <1>2, PinKnownElse
<1>3. ASSUME NEW m \in Message, MessageNext(m), m # k PROVE PinKnown(k)'
  BY <1>1, <1>3, OthersUntouched, PinKnownElse DEF Untouched, AttemptInv
<1>4. CASE MessageNext(k)
  <2> USE DEF AttemptInv, TypeOK, Goto, Holding, Talking, Connecting, Reconnecting
  <2>1. CASE Dial(k)
    BY <1>1, <2>1, PinKnownDial
  <2>2. CASE LoadInstance(k)
    <3>1. inst[InstOf[k[1]]] \in InstanceRow /\ conf'[k] = inst[InstOf[k[1]]] /\ inst' = inst
          /\ pc'[k] = "mark"
      BY <2>2, InstanceAssumption, JobOf DEF LoadInstance, Exists, Set
    <3> QED
      BY <3>1 DEF PinKnown
  <2>3. CASE StartJob(k) \/ NoCredentials(k) \/ Authenticate(k)
    BY <1>1, <2>3 DEF PinKnown, StartJob, NoCredentials, Authenticate
  <2>4. CASE ConnectionFails(k) \/ RunScript(k)
    BY <1>1, <2>4 DEF PinKnown, ConnectionFails, RunScript
  <2>5. CASE RecordConnectivity(k) \/ RecordExecution(k)
    BY <1>1, <2>5 DEF PinKnown, RecordConnectivity, RecordExecution
  <2>6. CASE Deliver(k) \/ Rollup(k) \/ Republish(k) \/ Settle(k)
    BY <2>6 DEF PinKnown, Deliver, Rollup, Republish, Settle
  <2>7. CASE SaveResult(k) \/ HandlerError(k) \/ Crash(k)
    BY <2>7 DEF PinKnown, SaveResult, HandlerError, Crash, Set
  <2> QED
    BY <1>4, <2>1, <2>2, <2>3, <2>4, <2>5, <2>6, <2>7 DEF MessageNext, WorkerStep
<1>5. ASSUME NEW i \in Instance, EditInstance(i) \/ Rebuild(i) PROVE PinKnown(k)'
  BY <1>2, <1>5 DEF EditInstance, Rebuild
<1>6. ASSUME NEW e \in Events, CreateEvent(e) \/ RerunFailed(e) PROVE PinKnown(k)'
  BY <1>2, <1>6 DEF CreateEvent, RerunFailed, QueueJobs
<1>7. CASE UNCHANGED vars
  BY <1>2, <1>7 DEF vars
<1> QED
  BY <1>3, <1>4, <1>5, <1>6, <1>7 DEF Next, MessageNext

\* Trust on first use: an attempt that read a pinned row only ever talks to a
\* node with that key.  The argument is that a pin never changes while a job of
\* its instance is there, so that what was read is as good as what is stored.
THEOREM PinnedKeyUsedAlways == Spec => []PinnedKeyUsed
<1>1. Init => PinInv
  BY DEF Init, PinInv, PinKnown, Holding, Talking, Connecting, Reconnecting
<1>2. AttemptInv /\ JobsHaveInstances /\ PinInv => PinnedKeyUsed
  <2> SUFFICES ASSUME AttemptInv, JobsHaveInstances, PinInv, NEW m \in Message, pc[m] \in Talking
               PROVE  /\ Exists(InstOf[m[1]]) /\ inst[InstOf[m[1]]].pin # None
                      /\ conf[m].pin # None => peer[m] = inst[InstOf[m[1]]].pin
    BY DEF PinnedKeyUsed, Talking
  <2>1. Inserted(m[1]) /\ pc[m] \in Holding
    BY DEF AttemptInv, Attempted, Inserted, Talking, Holding, Connecting, Reconnecting
  <2> QED
    BY <2>1, JobOf DEF JobsHaveInstances, Inserted, PinInv, PinKnown
<1> QED
  BY <1>1, <1>2, AttemptInvariant, JobsHaveInstancesAlways, PinStep, PTL DEF Spec

-----------------------------------------------------------------------------
(* Histories only grow.                                                    *)

LEMMA SpentGrows ==
    ASSUME TypeOK, NEW k \in EventKind, Spend(k)
    PROVE  /\ \A l \in EventKind : spent'[l] \in Nat /\ spent[l] \in Nat /\ spent'[l] >= spent[l]
           /\ spent'[k] = spent[k] + 1
BY DEF TypeOK, Spend

LEMMA SpentOnlyGrows ==
    ASSUME TypeOK, [Next]_vars, NEW l \in EventKind
    PROVE  spent'[l] \in Nat /\ spent[l] \in Nat /\ spent'[l] >= spent[l]
<1> USE DEF tables, locals, history, world
<1>1. CASE spent' = spent
  BY <1>1 DEF TypeOK
<1>2. ASSUME NEW k \in EventKind, Spend(k) PROVE spent'[l] \in Nat /\ spent[l] \in Nat /\ spent'[l] >= spent[l]
  BY <1>2, SpentGrows
<1>3. ASSUME NEW i \in Instance, EditInstance(i) \/ Rebuild(i)
      PROVE  spent' = spent \/ \E k \in EventKind : Spend(k)
  BY <1>3, Kinds DEF EditInstance, Rebuild
<1>4. ASSUME NEW e \in Events, CreateEvent(e) \/ RerunFailed(e)
      PROVE  spent' = spent \/ \E k \in EventKind : Spend(k)
  BY <1>4, Kinds DEF CreateEvent, RerunFailed
<1>5. ASSUME NEW m \in Message, MessageNext(m)
      PROVE  spent' = spent \/ \E k \in EventKind : Spend(k)
  <2>1. CASE RecordConnectivity(m) \/ RecordExecution(m)
    BY <2>1, Kinds DEF RecordConnectivity, RecordExecution, AddJobCheck
  <2>2. CASE HandlerError(m) \/ Crash(m)
    BY <2>2, Kinds DEF HandlerError, Crash
  <2> QED
    BY <1>5, <2>1, <2>2 DEF MessageNext, WorkerStep, Deliver, LoadInstance, StartJob, NoCredentials, Dial,
       Authenticate, ConnectionFails, RunScript, SaveResult, Rollup, Republish, Settle
<1> QED
  BY <1>1, <1>2, <1>3, <1>4, <1>5 DEF Next, MessageNext, vars

LEMMA BesideGrows ==
    ASSUME TypeOK, [Next]_vars
    PROVE  beside \subseteq beside'
<1> USE DEF tables, locals, history, world
<1>1. ASSUME NEW m \in Message, MessageNext(m) PROVE beside \subseteq beside'
  BY <1>1, OthersUntouched DEF Deliver
<1>2. ASSUME ~ \E m \in Message : MessageNext(m) PROVE beside \subseteq beside'
  BY <1>2 DEF Next, MessageNext, EditInstance, Rebuild, CreateEvent, RerunFailed, QueueJobs, vars
<1> QED
  BY <1>1, <1>2

-----------------------------------------------------------------------------
(* The check behind a result.                                              *)

HasPassed(k)  == \E i \in 1..Len(checks[k]) : checks[k][i] = Passed
LastPassed(k) == checks[k] # <<>> /\ checks[k][Len(checks[k])] = Passed
Executing == {"refused", "connected", "script", "ran", "result"} \cup Connecting \cup Reconnecting

\* Attempts at the job do not overlap.
Single(k) == \A m, n \in Message : m[1] = k /\ n[1] = k /\ UnderWay(m) /\ UnderWay(n) => m = n

SingleInv == \A k \in Jobs \ beside : Single(k)

LEMMA UnderWayIs ==
    /\ \A m \in Message : pc[m] \in Executing => UnderWay(m)
    /\ \A m \in Message : UnderWay(m) <=> pc[m] \in Executing \cup {"load", "mark"}
BY DEF UnderWay, Executing, HandlePC, Connecting, Reconnecting

LEMMA UnderWayStep ==
    ASSUME TypeOK, NEW m \in Message, MessageNext(m), UnderWay(m)'
    PROVE  UnderWay(m) \/ (Deliver(m) /\ beside' = IF AtWork(m[1]) THEN beside \cup {m[1]} ELSE beside)
<1> USE DEF TypeOK, Goto, UnderWay, HandlePC, Connecting, Reconnecting
<1>1. CASE LoadInstance(m) \/ StartJob(m) \/ NoCredentials(m) \/ Rollup(m) \/ SaveResult(m)
  BY <1>1 DEF LoadInstance, StartJob, NoCredentials, Rollup, SaveResult
<1>2. CASE Dial(m) \/ Authenticate(m) \/ ConnectionFails(m) \/ RunScript(m)
  BY <1>2 DEF Dial, Authenticate, ConnectionFails, RunScript
<1>3. CASE RecordConnectivity(m) \/ RecordExecution(m)
  BY <1>3 DEF RecordConnectivity, RecordExecution
<1>4. CASE Republish(m) \/ Settle(m) \/ HandlerError(m) \/ Crash(m)
  BY <1>4 DEF Republish, Settle, HandlerError, Crash, Set
<1>5. CASE Deliver(m)
  BY <1>5 DEF Deliver
<1> QED
  BY <1>1, <1>2, <1>3, <1>4, <1>5 DEF MessageNext, WorkerStep

LEMMA SingleStep == AttemptInv /\ SingleInv /\ [Next]_vars => SingleInv'
<1> SUFFICES ASSUME AttemptInv, SingleInv, [Next]_vars, NEW k \in Jobs, k \notin beside' PROVE Single(k)'
  BY DEF SingleInv
<1>1. Single(k) /\ TypeOK
  BY BesideGrows DEF SingleInv, AttemptInv
<1>2. CASE pc' = pc
  BY <1>1, <1>2 DEF Single, UnderWay
<1>3. ASSUME NEW m \in Message, MessageNext(m) PROVE Single(k)'
  <2>1. \A n \in Message \ {m} : UnderWay(n)' <=> UnderWay(n)
    BY <1>1, <1>3, OthersUntouched DEF Untouched, UnderWay
  <2>2. UnderWay(m)' /\ m[1] = k /\ ~ UnderWay(m) => ~ AtWork(k)
    BY <1>1, <1>3, UnderWayStep
  <2> QED
    BY <1>1, <2>1, <2>2 DEF Single, AtWork
<1>4. ASSUME ~ \E m \in Message : MessageNext(m) PROVE pc' = pc
  BY <1>4 DEF Next, MessageNext, EditInstance, Rebuild, CreateEvent, RerunFailed, QueueJobs, vars
<1> QED
  BY <1>2, <1>3, <1>4

\* While checks are written the job is RUNNING, so that what they were when a
\* verdict was saved they still are while the job shows it; but attempts that
\* overlap only leave that the check is there.
Recorded(k) ==
    spent["check"] = 0 =>
        /\ jobStatus[k] = "VERIFIED" => HasPassed(k)
        /\ \A m \in Message : m[1] = k /\ pc[m] = "result" /\ verdict[m] = "VERIFIED" => HasPassed(k)

Executed(k) ==
    k \notin beside => \A m \in Message : m[1] = k /\ pc[m] \in Executing => jobStatus[k] = "RUNNING"

Latest(k) ==
    k \notin beside /\ spent["check"] = 0 =>
        /\ jobStatus[k] = "VERIFIED" => LastPassed(k)
        /\ \A m \in Message : m[1] = k /\ pc[m] = "result" /\ verdict[m] = "VERIFIED" => LastPassed(k)

Checked(k) == Recorded(k) /\ Executed(k) /\ Latest(k)

CheckInv == SingleInv /\ \A k \in Jobs : Checked(k)

\* A check is added behind those that are there.
LEMMA AddedBehind ==
    ASSUME NEW s \in Seq(Check), NEW c \in Check
    PROVE  /\ Append(s, c) \in Seq(Check) /\ Len(Append(s, c)) = Len(s) + 1
           /\ Append(s, c)[Len(s) + 1] = c /\ Append(s, c) # <<>>
           /\ \A i \in 1..Len(s) : Append(s, c)[i] = s[i]
OBVIOUS

LEMMA AddJobCheckIs ==
    ASSUME TypeOK, NEW m \in Message, NEW phase \in {"pre", "post"},
           NEW result \in {"passed", "failed"}, AddJobCheck(m, phase, result)
    PROVE  /\ HasPassed(m[1]) => HasPassed(m[1])'
           /\ spent'["check"] = 0 /\ phase = "post" /\ result = "passed" =>
                 HasPassed(m[1])' /\ LastPassed(m[1])'
<1> DEFINE c == [phase |-> phase, result |-> result]
           s == checks[m[1]]
<1>1. c \in Check /\ s \in Seq(Check) /\ m[1] \in Jobs
  BY JobOf DEF Check, TypeOK
<1>2. CASE Spend("check") /\ UNCHANGED checks
  BY <1>2, SpentGrows, Kinds DEF HasPassed
<1>3. CASE checks' = Set(checks, m[1], Append(checks[m[1]], c))
  <2>1. checks'[m[1]] = Append(s, c)
    BY <1>1, <1>3 DEF Set, TypeOK
  <2>2. /\ Len(Append(s, c)) = Len(s) + 1 /\ Append(s, c)[Len(s) + 1] = c /\ Append(s, c) # <<>>
        /\ \A i \in 1..Len(s) : Append(s, c)[i] = s[i]
        /\ Len(s) \in Nat
    BY <1>1, AddedBehind
  <2> HIDE DEF s
  <2>3. HasPassed(m[1]) => HasPassed(m[1])'
    BY <2>1, <2>2 DEF HasPassed, s
  <2>4. phase = "post" /\ result = "passed" => HasPassed(m[1])' /\ LastPassed(m[1])'
    <3>1. phase = "post" /\ result = "passed" => c = Passed
      BY DEF Passed
    <3> QED
      BY <2>1, <2>2, <3>1 DEF HasPassed, LastPassed
  <2> QED
    BY <2>3, <2>4
<1> QED
  BY <1>2, <1>3 DEF AddJobCheck

LEMMA CheckStep == AttemptInv /\ CheckInv /\ [Next]_vars => CheckInv'
<1> SUFFICES ASSUME AttemptInv, CheckInv, [Next]_vars, NEW k \in Jobs PROVE Checked(k)'
  BY SingleStep DEF CheckInv
<1> USE DEF tables, locals, history, world
<1>1. Checked(k) /\ TypeOK /\ (k \notin beside => Single(k))
  BY DEF CheckInv, AttemptInv, SingleInv
<1>2. /\ spent'["check"] = 0 => spent["check"] = 0
      /\ k \notin beside' => k \notin beside
  BY SpentOnlyGrows, BesideGrows, Kinds DEF AttemptInv
<1>3. CASE jobStatus'[k] = jobStatus[k] /\ checks'[k] = checks[k] /\ verdict' = verdict
           /\ pc' = pc
  BY <1>1, <1>2, <1>3 DEF Checked, Recorded, Executed, Latest, HasPassed, LastPassed
<1>4. ASSUME NEW e \in Events, CreateEvent(e) \/ RerunFailed(e) PROVE Checked(k)'
  <2>1. PICK s \in {"NONE", "FAILED"} : QueueJobs(e, s)
    BY <1>4 DEF CreateEvent, RerunFailed
  <2>2. CASE k \in JobsOf(e) /\ jobStatus[k] = s
    <3>1. pc' = pc /\ verdict' = verdict /\ jobStatus'[k] = "QUEUED" /\ checks' = checks
          /\ (k \notin beside' => ~ AtWork(k))
      BY <2>1, <2>2 DEF QueueJobs
    <3>2. k \notin beside' => \A m \in Message : m[1] = k => pc[m] \notin Executing /\ pc[m] # "result"
      BY <3>1, UnderWayIs DEF AtWork, Executing
    <3> QED
      BY <1>1, <1>2, <3>1, <3>2 DEF Checked, Recorded, Executed, Latest, HasPassed
  <2>3. CASE ~ (k \in JobsOf(e) /\ jobStatus[k] = s)
    BY <1>3, <2>1, <2>3 DEF QueueJobs
  <2> QED
    BY <2>2, <2>3
<1>5. ASSUME NEW m \in Message, MessageNext(m), m[1] # k PROVE Checked(k)'
  <2>1. /\ jobStatus'[k] = jobStatus[k] /\ checks'[k] = checks[k]
        /\ \A n \in Message : n[1] = k => pc'[n] = pc[n] /\ verdict'[n] = verdict[n]
    BY <1>1, <1>5, OthersUntouched DEF Untouched, JobUntouched
  <2> QED
    BY <1>1, <1>2, <2>1 DEF Checked, Recorded, Executed, Latest, HasPassed, LastPassed
<1>6. ASSUME NEW m \in Message, MessageNext(m), m[1] = k PROVE Checked(k)'
  <2> USE DEF Executing, Connecting, Reconnecting, Goto, Set, TypeOK
  <2>0. checks'[k] = checks[k] => /\ HasPassed(k)' <=> HasPassed(k)
                                  /\ LastPassed(k)' <=> LastPassed(k)
    BY DEF HasPassed, LastPassed
  <2>1. \A n \in Message \ {m} : pc'[n] = pc[n] /\ verdict'[n] = verdict[n]
    BY <1>1, <1>6, OthersUntouched DEF Untouched
  \* As long as attempts do not overlap, no other is where it matters.
  <2>2. k \notin beside' /\ UnderWay(m) =>
          \A n \in Message \ {m} : n[1] = k => pc'[n] \notin Executing
    BY <1>1, <1>2, <1>6, <2>1, UnderWayIs DEF Single
  <2>3. CASE Deliver(m) \/ LoadInstance(m) \/ Rollup(m) \/ Republish(m) \/ Settle(m) \/ Crash(m)
    <3>1. jobStatus' = jobStatus /\ checks' = checks /\ pc'[m] \notin Executing
      BY <1>1, <2>3 DEF Deliver, LoadInstance, Rollup, Republish, Settle, Crash
    <3> HIDE DEF TypeOK, Set, Goto
    <3>3. Recorded(k)'
      BY <1>1, <1>2, <2>0, <2>1, <3>1 DEF Checked, Recorded
    <3>4. Executed(k)'
      BY <1>1, <1>2, <2>0, <2>1, <3>1 DEF Checked, Executed
    <3>5. Latest(k)'
      BY <1>1, <1>2, <2>0, <2>1, <3>1 DEF Checked, Latest
    <3> QED
      BY <3>3, <3>4, <3>5 DEF Checked
  <2>4. CASE StartJob(m)
    <3>1. jobStatus'[k] = "RUNNING" /\ checks' = checks /\ pc'[m] = "connect" /\ UnderWay(m)
      BY <1>1, <1>6, <2>4, UnderWayIs DEF StartJob
    <3> HIDE DEF TypeOK, Set, Goto
    <3>3. Recorded(k)'
      BY <1>1, <1>2, <2>0, <2>1, <2>2, <3>1 DEF Checked, Recorded
    <3>4. Executed(k)'
      BY <1>1, <1>2, <2>0, <2>1, <2>2, <3>1 DEF Checked, Executed
    <3>5. Latest(k)'
      BY <1>1, <1>2, <2>0, <2>1, <2>2, <3>1 DEF Checked, Latest
    <3> QED
      BY <3>3, <3>4, <3>5 DEF Checked
  <2>5. CASE Dial(m) \/ Authenticate(m) \/ ConnectionFails(m) \/ RunScript(m) \/ NoCredentials(m)
    <3>1. /\ jobStatus' = jobStatus /\ checks' = checks /\ pc[m] \in Executing
          /\ pc'[m] = "result" => verdict'[m] = "FAILED"
      <4>1. CASE Dial(m) \/ Authenticate(m) \/ NoCredentials(m)
        BY <1>1, <4>1 DEF Dial, Authenticate, NoCredentials
      <4>2. CASE ConnectionFails(m) \/ RunScript(m)
        BY <1>1, <4>2 DEF ConnectionFails, RunScript
      <4> QED
        BY <2>5, <4>1, <4>2
    <3> HIDE DEF TypeOK, Set, Goto
    <3>3. Recorded(k)'
      BY <1>1, <1>2, <2>0, <1>6, <2>1, <3>1 DEF Checked, Recorded
    <3>4. Executed(k)'
      BY <1>1, <1>2, <2>0, <1>6, <2>1, <3>1 DEF Checked, Executed
    <3>5. Latest(k)'
      BY <1>1, <1>2, <2>0, <1>6, <2>1, <3>1 DEF Checked, Latest
    <3> QED
      BY <3>3, <3>4, <3>5 DEF Checked
  <2>6. CASE RecordConnectivity(m) \/ RecordExecution(m)
    <3>1. /\ jobStatus' = jobStatus /\ pc[m] \in Executing
          /\ HasPassed(k) => HasPassed(k)'
          /\ spent'["check"] = 0 /\ pc'[m] = "result" /\ verdict'[m] = "VERIFIED" =>
                HasPassed(k)' /\ LastPassed(k)'
      <4>1. CASE RecordConnectivity(m)
        <5>1. PICK r \in {"passed", "failed"} : AddJobCheck(m, "pre", r)
          BY <1>1, <4>1 DEF RecordConnectivity
        <5>2. jobStatus' = jobStatus /\ pc[m] \in Executing
              /\ (pc'[m] = "result" => verdict'[m] = "FAILED")
          BY <1>1, <4>1 DEF RecordConnectivity
        <5> QED
          BY <1>1, <1>6, <5>1, <5>2, AddJobCheckIs
      <4>2. CASE RecordExecution(m)
        <5>1. PICK r \in {"passed", "failed"} :
                AddJobCheck(m, "post", r) /\ (verdict[m] = "VERIFIED" => r = "passed")
          BY <1>1, <4>2 DEF RecordExecution
        <5>2. jobStatus' = jobStatus /\ pc[m] \in Executing /\ verdict' = verdict
          BY <1>1, <4>2 DEF RecordExecution
        <5> QED
          BY <1>1, <1>6, <5>1, <5>2, AddJobCheckIs
      <4> QED
        BY <2>6, <4>1, <4>2
    <3>2. k \notin beside' => jobStatus[k] = "RUNNING" /\ UnderWay(m)
      BY <1>1, <1>2, <1>6, <3>1, UnderWayIs DEF Checked, Executed
    <3> HIDE DEF TypeOK, Set, Goto
    <3>3. Recorded(k)'
      BY <1>1, <1>2, <2>0, <1>6, <2>1, <2>2, <3>1, <3>2 DEF Checked, Recorded
    <3>4. Executed(k)'
      BY <1>1, <1>2, <2>0, <1>6, <2>1, <2>2, <3>1, <3>2 DEF Checked, Executed
    <3>5. Latest(k)'
      BY <1>1, <1>2, <2>0, <1>6, <2>1, <2>2, <3>1, <3>2 DEF Checked, Latest
    <3> QED
      BY <3>3, <3>4, <3>5 DEF Checked
  <2>7. CASE SaveResult(m) \/ HandlerError(m)
    <3>1. /\ checks' = checks /\ pc'[m] \notin Executing
          /\ \/ jobStatus'[k] = jobStatus[k]
             \/ pc[m] = "mark" /\ jobStatus'[k] = "RUNNING" /\ UnderWay(m)
             \/ pc[m] = "result" /\ jobStatus'[k] = verdict[m] /\ UnderWay(m)
      <4>1. CASE SaveResult(m)
        BY <1>1, <1>6, <4>1, UnderWayIs DEF SaveResult
      <4>2. CASE HandlerError(m)
        BY <1>1, <1>6, <4>2, UnderWayIs DEF HandlerError
      <4> QED
        BY <2>7, <4>1, <4>2
    <3> HIDE DEF TypeOK, Set, Goto
    <3>3. Recorded(k)'
      BY <1>1, <1>2, <2>0, <1>6, <2>1, <2>2, <3>1 DEF Checked, Recorded
    <3>4. Executed(k)'
      BY <1>1, <1>2, <2>0, <1>6, <2>1, <2>2, <3>1 DEF Checked, Executed
    <3>5. Latest(k)'
      BY <1>1, <1>2, <2>0, <1>6, <2>1, <2>2, <3>1 DEF Checked, Latest
    <3> QED
      BY <3>3, <3>4, <3>5 DEF Checked
  <2> QED
    BY <1>6, <2>3, <2>4, <2>5, <2>6, <2>7 DEF MessageNext, WorkerStep
<1>7. ASSUME NEW i \in Instance, EditInstance(i) \/ Rebuild(i) PROVE Checked(k)'
  BY <1>3, <1>7 DEF EditInstance, Rebuild
<1>8. CASE UNCHANGED vars
  BY <1>3, <1>8 DEF vars
<1> QED
  BY <1>4, <1>5, <1>6, <1>7, <1>8 DEF Next, MessageNext

LEMMA CheckInvariant == Spec => []CheckInv
<1>1. Init => CheckInv
  BY DEF Init, CheckInv, Checked, Recorded, Executed, Latest, SingleInv, Single, UnderWay, HandlePC, Executing, Connecting, Reconnecting
<1> QED
  BY <1>1, AttemptInvariant, CheckStep, PTL DEF Spec

\* If no check was lost, a VERIFIED job has the check that says so; and if no
\* attempts at it have overlapped, there is no later one that says otherwise.
THEOREM VerifiedHasCheckAlways == Spec => []VerifiedHasCheck
<1>1. CheckInv => VerifiedHasCheck
  BY DEF CheckInv, Checked, Recorded, Latest, HasPassed, LastPassed, VerifiedHasCheck
<1> QED
  BY <1>1, CheckInvariant, PTL

-----------------------------------------------------------------------------
(* The refinement of Attempt, as long as attempts do not overlap.          *)

Abstract == AsDispatched!attemptVars

LEMMA SeenIs ==
    /\ Seen("load") = "start" /\ Seen("mark") = "start"
    /\ Seen("ran") = "save" /\ Seen("result") = "save"
    /\ Seen("idle") = "idle" /\ Seen("rollup") = "idle" /\ Seen("retry") = "idle" /\ Seen("ack") = "idle"
    /\ \A l \in Connecting \cup Reconnecting \cup {"refused", "connected", "script"} : Seen(l) = "exec"
BY DEF Seen, Connecting, Reconnecting

\* What the dispatcher sees of a job is its one attempt, if there is one.
AtIs(k) ==
    /\ \A m \in Message : m[1] = k /\ UnderWay(m) => At[k] = Seen(pc[m]) /\ Verdict[k] = verdict[m]
    /\ ~ AtWork(k) => At[k] = "idle" /\ Verdict[k] = "NONE"

LEMMA AttemptingIs ==
    ASSUME NEW k \in Jobs, Single(k)
    PROVE  AtIs(k)
<1>1. ASSUME NEW m \in Message, m[1] = k, UnderWay(m) PROVE Attempting(k) = m /\ AtWork(k)
  BY <1>1 DEF Single, Attempting, AtWork
<1> QED
  BY <1>1 DEF AtIs, At, Verdict

LEMMA AttemptingWillBe ==
    ASSUME NEW k \in Jobs, Single(k)'
    PROVE  AtIs(k)'
<1>1. ASSUME NEW m \in Message, m[1] = k, UnderWay(m)' PROVE Attempting(k)' = m /\ AtWork(k)'
  BY <1>1 DEF Single, Attempting, AtWork
<1> QED
  BY <1>1 DEF AtIs, At, Verdict

LEMMA AtIsFunction ==
    /\ At = [j \in Jobs |-> At[j]] /\ Verdict = [j \in Jobs |-> Verdict[j]]
    /\ At' = [j \in Jobs |-> At'[j]] /\ Verdict' = [j \in Jobs |-> Verdict'[j]]
BY DEF At, Verdict

\* Attempts are apart now and after the step.
Apart == \A k \in Jobs : Single(k) /\ Single(k)'

\* What is not under way is as the dispatcher sees it idle.
LEMMA NotUnderWay ==
    ASSUME AttemptInv, NEW m \in Message, ~ UnderWay(m)
    PROVE  Seen(pc[m]) = "idle" /\ verdict[m] = "NONE"
<1>1. pc[m] \in {"idle", "rollup", "retry", "ack"}
  BY DEF AttemptInv, TypeOK, UnderWay
<1> QED
  BY <1>1, SeenIs DEF AttemptInv, Attempted

\* Nothing changes for the dispatcher with a job whose attempt makes no step.
LEMMA SameAt ==
    ASSUME NEW k \in Jobs, Apart,
           \A n \in Message : n[1] = k =>
               /\ UnderWay(n)' <=> UnderWay(n)
               /\ UnderWay(n) => Seen(pc'[n]) = Seen(pc[n]) /\ verdict'[n] = verdict[n]
    PROVE  At'[k] = At[k] /\ Verdict'[k] = Verdict[k]
<1>1. AtIs(k) /\ AtIs(k)'
  BY AttemptingIs, AttemptingWillBe DEF Apart
<1>2. CASE AtWork(k)
  <2>1. PICK n \in Message : n[1] = k /\ UnderWay(n)
    BY <1>2 DEF AtWork
  <2> QED
    BY <1>1, <2>1 DEF AtIs
<1>3. CASE ~ AtWork(k)
  <2>1. ~ AtWork(k)'
    BY <1>3 DEF AtWork
  <2> QED
    BY <1>1, <1>3, <2>1 DEF AtIs
<1> QED
  BY <1>2, <1>3

\* The attempt at a job makes a step the dispatcher sees.
LEMMA Moves ==
    ASSUME AttemptInv, AttemptInv', Apart, NEW m \in Message, MessageNext(m),
           UnderWay(m) \/ ~ AtWork(m[1])
    PROVE  /\ AsDispatched!Move(m[1], Seen(pc[m]), Seen(pc'[m]))
           /\ Verdict[m[1]] = verdict[m]
           /\ Verdict' = [Verdict EXCEPT ![m[1]] = verdict'[m]]
<1> DEFINE j == m[1]
<1>1. j \in Jobs /\ AtIs(j) /\ AtIs(j)' /\ TypeOK
  BY JobOf, AttemptingIs, AttemptingWillBe DEF Apart, AttemptInv
<1>2. \A n \in Message \ {m} : pc'[n] = pc[n] /\ verdict'[n] = verdict[n]
  BY <1>1, OthersUntouched DEF Untouched
<1>4. At[j] = Seen(pc[m]) /\ Verdict[j] = verdict[m]
  <2>1. CASE UnderWay(m)
    BY <1>1, <2>1 DEF AtIs
  <2>2. CASE ~ UnderWay(m)
    BY <1>1, <2>2, NotUnderWay DEF AtIs
  <2> QED
    BY <2>1, <2>2
<1>5. At'[j] = Seen(pc'[m]) /\ Verdict'[j] = verdict'[m]
  <2>1. CASE UnderWay(m)'
    BY <1>1, <2>1 DEF AtIs
  <2>2. CASE ~ UnderWay(m)'
    <3>1. Seen(pc'[m]) = "idle" /\ verdict'[m] = "NONE"
      <4>1. pc'[m] \in {"idle", "rollup", "retry", "ack"}
        BY <2>2 DEF AttemptInv, TypeOK, UnderWay
      <4> QED
        BY <4>1, SeenIs DEF AttemptInv, Attempted
    <3>2. ~ AtWork(j)'
      <4>1. \A n \in Message \ {m} : n[1] = j => ~ UnderWay(n)
        BY <1>1 DEF Apart, Single, AtWork
      <4> QED
        BY <1>2, <2>2, <4>1 DEF AtWork, UnderWay
    <3> QED
      BY <1>1, <3>1, <3>2 DEF AtIs
  <2> QED
    BY <2>1, <2>2
<1>6. \A k \in Jobs \ {j} : At'[k] = At[k] /\ Verdict'[k] = Verdict[k]
  <2> SUFFICES ASSUME NEW k \in Jobs \ {j} PROVE At'[k] = At[k] /\ Verdict'[k] = Verdict[k]
    OBVIOUS
  <2>1. \A n \in Message : n[1] = k => /\ UnderWay(n)' <=> UnderWay(n)
                                       /\ pc'[n] = pc[n] /\ verdict'[n] = verdict[n]
    BY <1>2 DEF UnderWay
  <2> QED
    BY <2>1, SameAt
<1>7. /\ At' = [At EXCEPT ![j] = Seen(pc'[m])]
      /\ Verdict' = [Verdict EXCEPT ![j] = verdict'[m]]
  BY <1>1, <1>5, <1>6, AtIsFunction
<1> QED
  BY <1>4, <1>7 DEF AsDispatched!Move

\* What the dispatcher does not see.
LEMMA Hidden ==
    ASSUME AttemptInv, Apart, NEW m \in Message, MessageNext(m),
           UnderWay(m)' <=> UnderWay(m),
           UnderWay(m) => Seen(pc'[m]) = Seen(pc[m]) /\ verdict'[m] = verdict[m],
           jobStatus' = jobStatus
    PROVE  UNCHANGED Abstract
<1>1. \A n \in Message \ {m} : pc'[n] = pc[n] /\ verdict'[n] = verdict[n]
  BY OthersUntouched DEF Untouched, AttemptInv
<1>2. \A n \in Message : /\ UnderWay(n)' <=> UnderWay(n)
                         /\ UnderWay(n) => Seen(pc'[n]) = Seen(pc[n]) /\ verdict'[n] = verdict[n]
  BY <1>1 DEF UnderWay
<1>3. \A k \in Jobs : At'[k] = At[k] /\ Verdict'[k] = Verdict[k]
  BY <1>2, SameAt
<1>4. At' = At /\ Verdict' = Verdict
  BY <1>3, AtIsFunction
<1> QED
  BY <1>4 DEF Abstract, AsDispatched!attemptVars

LEMMA QueueMaps ==
    ASSUME AttemptInv, Apart, NEW e \in Events, NEW s \in {"NONE", "FAILED"}, QueueJobs(e, s),
           beside' = {}
    PROVE  AsDispatched!Queue(e, s)
<1>1. \A j \in JobsOf(e) : jobStatus[j] = s => At[j] = "idle"
  <2> SUFFICES ASSUME NEW j \in JobsOf(e), jobStatus[j] = s PROVE At[j] = "idle"
    OBVIOUS
  <2>1. ~ AtWork(j) /\ j \in Jobs
    BY DEF QueueJobs, JobsOf
  <2> QED
    BY <2>1, AttemptingIs DEF Apart, AtIs
<1>2. pc' = pc /\ verdict' = verdict
  BY DEF QueueJobs, locals
<1>3. \A k \in Jobs : At'[k] = At[k] /\ Verdict'[k] = Verdict[k]
  BY <1>2, SameAt DEF UnderWay
<1>4. At' = At /\ Verdict' = Verdict
  BY <1>3, AtIsFunction
<1> QED
  BY <1>1, <1>4 DEF QueueJobs, AsDispatched!Queue, AsDispatched!JobsOf, JobsOf

LEMMA ExecuteMaps ==
    ASSUME AttemptInv, AttemptInv', Apart, NEW m \in Message, MessageNext(m),
           NEW s \in TerminalJob, NEW from, NEW to,
           Goto(m, from, to), UnderWay(m), Seen(pc[m]) = "exec", Seen(to) = "save",
           verdict' = Set(verdict, m, s), jobStatus' = jobStatus
    PROVE  AsDispatched!Next
<1>1. verdict'[m] = s /\ pc'[m] = to
  BY DEF AttemptInv, TypeOK, Set, Goto
<1>2. AsDispatched!Execute(m[1], s)
  BY <1>1, Moves DEF AsDispatched!Execute
<1> QED
  BY <1>2, JobOf DEF AsDispatched!Next, AsDispatched!TerminalJob, TerminalJob

\* Every step of an attempt is one the dispatcher knows, or hidden from it.
LEMMA JobMaps ==
    ASSUME AttemptInv, AttemptInv', Apart, NEW m \in Message, MessageNext(m), beside' = {}
    PROVE  UNCHANGED Abstract \/ AsDispatched!Next
<1> DEFINE j == m[1]
<1> USE DEF tables, locals, history, world
<1>0. j \in Jobs /\ TypeOK /\ Attempted(m) /\ pc \in [Message -> Labels]
      /\ pc'[m] \in Labels
  BY JobOf DEF AttemptInv, TypeOK, Labels
<1>1. CASE Deliver(m)
  <2>1. ~ AtWork(j) /\ pc[m] = "idle" /\ pc'[m] = "load"
        /\ jobStatus' = jobStatus /\ verdict' = verdict /\ jobStatus[j] # "NONE"
    BY <1>0, <1>1 DEF Deliver, Goto, Attempted, TypeOK
  <2>2. /\ AsDispatched!Move(j, "idle", "start")
        /\ Verdict[j] = verdict[m] /\ Verdict' = [Verdict EXCEPT ![j] = verdict'[m]]
    BY <2>1, Moves, SeenIs
  <2>3. Verdict' = Verdict
    BY <1>0, <2>1, <2>2, AtIsFunction
  <2> QED
    BY <1>0, <2>1, <2>2, <2>3 DEF AsDispatched!Begin, AsDispatched!Next
<1>2. CASE LoadInstance(m) \/ Dial(m) \/ Authenticate(m) \/ RecordExecution(m)
  <2>1. /\ jobStatus' = jobStatus /\ verdict' = verdict
        /\ Seen(pc'[m]) = Seen(pc[m])
        /\ pc[m] \in Executing \cup {"load", "mark"} /\ pc'[m] \in Executing \cup {"load", "mark"}
    <3> USE <1>0, SeenIs DEF Goto, Executing, Connecting, Reconnecting
    <3>1. CASE LoadInstance(m) \/ RecordExecution(m)
      BY <3>1 DEF LoadInstance, RecordExecution
    <3>2. CASE Dial(m) \/ Authenticate(m)
      BY <3>2 DEF Dial, Authenticate
    <3> QED
      BY <1>2, <3>1, <3>2
  <2>2. UnderWay(m) /\ UnderWay(m)'
    BY <2>1 DEF UnderWay, Executing, HandlePC, Connecting, Reconnecting
  <2> QED
    BY <2>1, <2>2, Hidden
<1>3. CASE StartJob(m)
  <2>1. pc[m] = "mark" /\ pc'[m] = "connect" /\ UnderWay(m)
        /\ verdict' = verdict
    BY <1>0, <1>3, UnderWayIs DEF StartJob, Goto, TypeOK
  <2>2. /\ AsDispatched!Move(j, "start", "exec")
        /\ Verdict[j] = verdict[m] /\ Verdict' = [Verdict EXCEPT ![j] = verdict'[m]]
    BY <2>1, Moves, SeenIs DEF Connecting
  <2>3. Verdict' = Verdict
    BY <1>0, <2>1, <2>2, AtIsFunction
  <2> QED
    BY <1>0, <1>3, <2>2, <2>3 DEF StartJob, Set, AsDispatched!Write, AsDispatched!Start, AsDispatched!Next
<1>4. CASE NoCredentials(m)
  <2>1. pc[m] = "connect" /\ UnderWay(m) /\ Seen(pc[m]) = "exec" /\ jobStatus' = jobStatus
    BY <1>4, UnderWayIs, SeenIs DEF NoCredentials, Goto, Executing, Connecting
  <2> QED
    BY <1>4, <2>1, ExecuteMaps, SeenIs DEF NoCredentials, TerminalJob
<1>5. CASE ConnectionFails(m)
  <2>1. pc[m] \in Connecting \cup Reconnecting /\ UnderWay(m) /\ Seen(pc[m]) = "exec"
        /\ jobStatus' = jobStatus
    BY <1>5, UnderWayIs, SeenIs DEF ConnectionFails, Goto, Executing
  <2>2. CASE Goto(m, Connecting, "refused") /\ UNCHANGED verdict
    <3>1. pc'[m] = "refused" /\ UnderWay(m)'
      BY <1>0, <2>2 DEF Goto, UnderWay, HandlePC
    <3> QED
      BY <2>1, <2>2, <3>1, Hidden, SeenIs
  <2>3. CASE Goto(m, Reconnecting, "result") /\ verdict' = Set(verdict, m, "FAILED")
    BY <2>1, <2>3, ExecuteMaps, SeenIs DEF TerminalJob
  <2> QED
    BY <1>5, <2>2, <2>3 DEF ConnectionFails
<1>6. CASE RunScript(m)
  <2>1. PICK s \in TerminalJob, to \in {"ran", "result"} :
           Goto(m, {"script"}, to) /\ verdict' = Set(verdict, m, s)
    BY <1>6 DEF RunScript, TerminalJob
  <2>2. UnderWay(m) /\ Seen(pc[m]) = "exec" /\ Seen(to) = "save" /\ jobStatus' = jobStatus
    BY <1>6, <2>1, UnderWayIs, SeenIs DEF RunScript, Goto, Executing
  <2> QED
    BY <2>1, <2>2, ExecuteMaps
<1>7. CASE RecordConnectivity(m)
  <2>1. pc[m] \in {"connected", "refused"} /\ UnderWay(m) /\ Seen(pc[m]) = "exec"
        /\ jobStatus' = jobStatus
    BY <1>7, UnderWayIs, SeenIs DEF RecordConnectivity, Goto, Executing
  <2>2. CASE Goto(m, {"connected"}, "reconnect") /\ UNCHANGED verdict
    <3>1. pc'[m] = "reconnect" /\ UnderWay(m)'
      BY <1>0, <2>2 DEF Goto, UnderWay, HandlePC, Reconnecting
    <3> QED
      BY <2>1, <2>2, <3>1, Hidden, SeenIs DEF Reconnecting
  <2>3. CASE Goto(m, {"refused"}, "result") /\ verdict' = Set(verdict, m, "FAILED")
    BY <2>1, <2>3, ExecuteMaps, SeenIs DEF TerminalJob
  <2> QED
    BY <1>7, <2>2, <2>3 DEF RecordConnectivity
<1>8. CASE SaveResult(m)
  <2>1. pc[m] = "result" /\ pc'[m] = "rollup" /\ UnderWay(m)
        /\ verdict'[m] = "NONE" /\ jobStatus' = [jobStatus EXCEPT ![j] = verdict[m]]
    BY <1>0, <1>8, UnderWayIs DEF SaveResult, Goto, Forget, Set, TypeOK, Executing
  <2>2. /\ AsDispatched!Move(j, "save", "idle")
        /\ Verdict[j] = verdict[m] /\ Verdict' = [Verdict EXCEPT ![j] = "NONE"]
    BY <2>1, Moves, SeenIs
  <2> QED
    BY <1>0, <2>1, <2>2 DEF AsDispatched!Write, AsDispatched!Save, AsDispatched!Next
<1>9. CASE Rollup(m) \/ Republish(m) \/ Settle(m)
  <2>1. jobStatus' = jobStatus /\ pc[m] \in {"rollup", "retry", "ack"} /\ pc'[m] \in {"ack", "idle"}
    BY <1>0, <1>9 DEF Rollup, Republish, Settle, Goto
  <2>2. ~ UnderWay(m) /\ ~ UnderWay(m)'
    BY <2>1 DEF UnderWay, HandlePC, Connecting, Reconnecting
  <2> QED
    BY <2>1, <2>2, Hidden
<1>10. CASE HandlerError(m)
  <2>1. /\ pc[m] \in {"load", "mark", "result", "rollup"} /\ pc'[m] = "retry"
        /\ verdict'[m] = "NONE"
        /\ \/ UNCHANGED jobStatus
           \/ pc[m] = "mark" /\ jobStatus' = [jobStatus EXCEPT ![j] = "RUNNING"]
           \/ pc[m] = "result" /\ jobStatus' = [jobStatus EXCEPT ![j] = verdict[m]]
    BY <1>0, <1>10 DEF HandlerError, Goto, Forget, Set, TypeOK
  <2>2. CASE pc[m] = "rollup"
    <3>1. jobStatus' = jobStatus /\ pc'[m] = "retry"
      BY <1>0, <2>1, <2>2
    <3>2. ~ UnderWay(m) /\ ~ UnderWay(m)'
      BY <2>2, <3>1 DEF UnderWay, HandlePC, Connecting, Reconnecting
    <3> QED
      BY <3>1, <3>2, Hidden
  <2>3. CASE pc[m] # "rollup"
    <3>1. UnderWay(m)
      BY <2>1, <2>3, UnderWayIs DEF Executing
    <3>2. /\ AsDispatched!Move(j, Seen(pc[m]), "idle")
          /\ Verdict[j] = verdict[m] /\ Verdict' = [Verdict EXCEPT ![j] = "NONE"]
      BY <2>1, <3>1, Moves, SeenIs
    <3>3. CASE pc[m] \in {"load", "mark"}
      BY <1>0, <2>1, <3>2, <3>3, SeenIs DEF AsDispatched!Write, AsDispatched!Fail, AsDispatched!Next
    <3>4. CASE pc[m] = "result"
      BY <1>0, <2>1, <3>2, <3>4, SeenIs DEF AsDispatched!Write, AsDispatched!Fail,
         AsDispatched!Save, AsDispatched!Next
    <3> QED
      BY <2>1, <2>3, <3>3, <3>4
  <2> QED
    BY <2>2, <2>3
<1>11. CASE Crash(m)
  <2>1. pc'[m] = "idle" /\ verdict'[m] = "NONE" /\ jobStatus' = jobStatus
    BY <1>0, <1>11 DEF Crash, Forget, Set, TypeOK
  <2>2. CASE UnderWay(m)
    <3>1. /\ AsDispatched!Move(j, Seen(pc[m]), "idle")
          /\ Verdict' = [Verdict EXCEPT ![j] = "NONE"]
      BY <2>1, <2>2, Moves, SeenIs
    <3>2. /\ At' = [k \in Jobs |-> IF k \in {j} THEN "idle" ELSE At[k]]
          /\ Verdict' = [k \in Jobs |-> IF k \in {j} THEN "NONE" ELSE Verdict[k]]
      BY <3>1, AtIsFunction DEF AsDispatched!Move
    <3>3. AsDispatched!Crash({j})
      BY <2>1, <3>2 DEF AsDispatched!Crash
    <3> QED
      BY <1>0, <3>3 DEF AsDispatched!Next
  <2>3. CASE ~ UnderWay(m)
    <3>1. ~ UnderWay(m)'
      BY <2>1 DEF UnderWay, HandlePC, Connecting, Reconnecting
    <3> QED
      BY <2>1, <2>3, <3>1, Hidden
  <2> QED
    BY <2>2, <2>3
<1> QED
  BY <1>1, <1>2, <1>3, <1>4, <1>5, <1>6, <1>7, <1>8, <1>9, <1>10, <1>11 DEF MessageNext, WorkerStep

LEMMA StepMaps ==
    ASSUME AttemptInv, CheckInv, [Next]_vars, beside' = {}
    PROVE  UNCHANGED Abstract \/ AsDispatched!Next
<1>1. AttemptInv' /\ CheckInv' /\ beside = {}
  BY AttemptStep, CheckStep, BesideGrows DEF AttemptInv
<1>2. Apart
  BY <1>1 DEF Apart, CheckInv, SingleInv
<1>3. ASSUME NEW m \in Message, MessageNext(m) PROVE UNCHANGED Abstract \/ AsDispatched!Next
  BY <1>1, <1>2, <1>3, JobMaps
<1>4. ASSUME NEW e \in Events, CreateEvent(e) PROVE AsDispatched!Next
  BY <1>2, <1>4, QueueMaps DEF CreateEvent, AsDispatched!Next
<1>5. ASSUME NEW e \in Events, RerunFailed(e) PROVE AsDispatched!Next
  BY <1>2, <1>5, QueueMaps DEF RerunFailed, AsDispatched!Next
<1>6. ASSUME pc' = pc, verdict' = verdict, jobStatus' = jobStatus PROVE UNCHANGED Abstract
  <2>1. \A k \in Jobs : At'[k] = At[k] /\ Verdict'[k] = Verdict[k]
    BY <1>2, <1>6, SameAt DEF UnderWay
  <2>2. At' = At /\ Verdict' = Verdict
    BY <2>1, AtIsFunction
  <2> QED
    BY <1>6, <2>2 DEF Abstract, AsDispatched!attemptVars
<1>7. ASSUME NEW i \in Instance, EditInstance(i) \/ Rebuild(i) PROVE UNCHANGED Abstract
  BY <1>6, <1>7 DEF EditInstance, Rebuild, tables, locals
<1>8. CASE UNCHANGED vars
  BY <1>6, <1>8 DEF vars, tables, locals
<1> QED
  BY <1>3, <1>4, <1>5, <1>7, <1>8 DEF Next, MessageNext

\* Handle, with its connections, checks and pins, does to jobs.status what the
\* dispatcher takes an attempt to do, whatever fails in it, as long as no
\* attempts at a job overlap.
THEOREM RunnerImplementsAttempt == Spec => ImplementsAttempt
<1>1. Init => AsDispatched!Init
  <2> SUFFICES ASSUME Init PROVE AsDispatched!Init
    OBVIOUS
  <2>1. \A j \in Jobs : ~ AtWork(j)
    BY DEF Init, AtWork, UnderWay, HandlePC, Connecting, Reconnecting
  <2> QED
    BY <2>1 DEF Init, AsDispatched!Init, At, Verdict
<1>2. AttemptInv /\ CheckInv /\ [Next]_vars =>
        [beside' = {} => UNCHANGED AsDispatched!attemptVars \/ AsDispatched!Next]_vars
  BY StepMaps DEF Abstract
<1> QED
  BY <1>1, <1>2, AttemptInvariant, CheckInvariant, PTL DEF Spec, ImplementsAttempt

-----------------------------------------------------------------------------
(* How often a job is delivered.                                           *)

\* The messages of a job that may yet be delivered with retry count r: those
\* that wait with r or less, and those whose copies may come to it.
ToCome(j, r) == {m \in Message : /\ m[1] = j /\ retry[m] # None
                                 /\ IF pc[m] = "idle" THEN retry[m] <= r
                                    ELSE pc[m] # "ack" /\ retry[m] < r}

\* What has been delivered and what may come, together.
Deliverable(j) == IF jobStatus[j] = "NONE" THEN 0 ELSE 1 + spent["rerun"] + spent["crash"]
Counted(j, r) == /\ IsFiniteSet(ToCome(j, r))
                 /\ attempts[j][r] + Cardinality(ToCome(j, r)) <= Deliverable(j)

CountInv == \A j \in Jobs, r \in RetryCount : Counted(j, r)

LEMMA OneMore ==
    ASSUME NEW S, IsFiniteSet(S), NEW n
    PROVE  /\ IsFiniteSet(S \cup {n})
           /\ Cardinality(S \cup {n}) \in Nat
           /\ Cardinality(S \cup {n}) <= Cardinality(S) + 1
<1>1. IsFiniteSet(S \cup {n}) /\ Cardinality(S \cup {n}) \in {Cardinality(S), Cardinality(S) + 1}
  BY FS_AddElement
<1>2. Cardinality(S) \in Nat
  BY FS_CardinalityType
<1> QED
  BY <1>1, <1>2

LEMMA Counting ==
    ASSUME NEW S, IsFiniteSet(S), NEW T, NEW m, NEW n
    PROVE  /\ Cardinality(S) \in Nat
           /\ T \subseteq S => IsFiniteSet(T) /\ Cardinality(T) <= Cardinality(S)
           /\ T \subseteq S \cup {n} => IsFiniteSet(T) /\ Cardinality(T) <= Cardinality(S) + 1
           /\ m \in S /\ T \subseteq S \ {m} => IsFiniteSet(T) /\ Cardinality(T) + 1 <= Cardinality(S)
           /\ m \in S /\ T \subseteq (S \ {m}) \cup {n} =>
                 IsFiniteSet(T) /\ Cardinality(T) <= Cardinality(S)
           /\ IsFiniteSet(T) => Cardinality(T) \in Nat
<1>1. Cardinality(S) \in Nat /\ (IsFiniteSet(T) => Cardinality(T) \in Nat)
  BY FS_CardinalityType
<1>2. ASSUME T \subseteq S PROVE IsFiniteSet(T) /\ Cardinality(T) <= Cardinality(S)
  BY <1>2, FS_Subset
<1>3. ASSUME T \subseteq S \cup {n} PROVE IsFiniteSet(T) /\ Cardinality(T) <= Cardinality(S) + 1
  <2>1. IsFiniteSet(S \cup {n}) /\ Cardinality(S \cup {n}) <= Cardinality(S) + 1
        /\ Cardinality(S \cup {n}) \in Nat
    BY OneMore
  <2>2. IsFiniteSet(T) /\ Cardinality(T) <= Cardinality(S \cup {n}) /\ Cardinality(T) \in Nat
    BY <1>3, <2>1, FS_Subset, FS_CardinalityType
  <2> QED
    BY <1>1, <2>1, <2>2
<1>4. ASSUME m \in S
      PROVE  /\ IsFiniteSet(S \ {m}) /\ Cardinality(S \ {m}) + 1 = Cardinality(S)
             /\ Cardinality(S \ {m}) \in Nat
  <2>1. IsFiniteSet(S \ {m}) /\ Cardinality(S \ {m}) = Cardinality(S) - 1
    BY <1>4, FS_RemoveElement
  <2>2. Cardinality(S \ {m}) \in Nat
    BY <2>1, FS_CardinalityType
  <2> QED
    BY <1>1, <2>1, <2>2
<1>5. ASSUME m \in S, T \subseteq S \ {m} PROVE IsFiniteSet(T) /\ Cardinality(T) + 1 <= Cardinality(S)
  <2>1. IsFiniteSet(T) /\ Cardinality(T) <= Cardinality(S \ {m}) /\ Cardinality(T) \in Nat
    BY <1>4, <1>5, FS_Subset, FS_CardinalityType
  <2> QED
    BY <1>1, <1>4, <1>5, <2>1
<1>6. ASSUME m \in S, T \subseteq (S \ {m}) \cup {n}
      PROVE  IsFiniteSet(T) /\ Cardinality(T) <= Cardinality(S)
  <2>1. PICK U : U = S \ {m}
    OBVIOUS
  <2>2. IsFiniteSet(U \cup {n}) /\ Cardinality(U \cup {n}) <= Cardinality(U) + 1
        /\ Cardinality(U \cup {n}) \in Nat
    BY <1>4, <1>6, <2>1, OneMore
  <2>3. IsFiniteSet(T) /\ Cardinality(T) <= Cardinality(U \cup {n}) /\ Cardinality(T) \in Nat
    BY <1>6, <2>1, <2>2, FS_Subset, FS_CardinalityType
  <2> QED
    BY <1>1, <1>4, <1>6, <2>1, <2>2, <2>3
<1> QED
  BY <1>1, <1>2, <1>3, <1>5, <1>6

LEMMA DeliverableGrows ==
    ASSUME AttemptInv, [Next]_vars, NEW j \in Jobs
    PROVE  /\ Deliverable(j) \in Nat /\ Deliverable(j)' \in Nat
           /\ Deliverable(j) <= Deliverable(j)'
<1>1. /\ spent["rerun"] \in Nat /\ spent'["rerun"] \in Nat /\ spent["rerun"] <= spent'["rerun"]
      /\ spent["crash"] \in Nat /\ spent'["crash"] \in Nat /\ spent["crash"] <= spent'["crash"]
  BY SpentOnlyGrows, Kinds DEF AttemptInv
<1>2. jobStatus[j] # "NONE" => jobStatus'[j] # "NONE"
  BY JobStays DEF Inserted
<1> QED
  BY <1>1, <1>2 DEF Deliverable

\* No delivery, and no more to come than the budget has grown by.
LEMMA CountedElse ==
    ASSUME AttemptInv, AttemptInv', NEW j \in Jobs, NEW r \in RetryCount, [Next]_vars,
           Counted(j, r), attempts'[j][r] = attempts[j][r],
           \/ ToCome(j, r)' \subseteq ToCome(j, r)
           \/ \E m, n : m \in ToCome(j, r) /\ ToCome(j, r)' \subseteq (ToCome(j, r) \ {m}) \cup {n}
           \/ /\ \E n : ToCome(j, r)' \subseteq ToCome(j, r) \cup {n}
              /\ Deliverable(j)' >= Deliverable(j) + 1
    PROVE  Counted(j, r)'
<1>1. PICK S, T : S = ToCome(j, r) /\ T = ToCome(j, r)'
  OBVIOUS
<1>2. PICK a : a = attempts[j][r]
  OBVIOUS
<1>3. /\ IsFiniteSet(S) /\ a + Cardinality(S) <= Deliverable(j) /\ a \in Nat
      /\ Cardinality(S) \in Nat
      /\ Deliverable(j) \in Nat /\ Deliverable(j)' \in Nat /\ Deliverable(j) <= Deliverable(j)'
  <2>1. IsFiniteSet(S) /\ a + Cardinality(S) <= Deliverable(j) /\ a \in Nat
    BY <1>1, <1>2 DEF Counted, AttemptInv, TypeOK
  <2> QED
    BY <2>1, DeliverableGrows, Counting
<1>4. IsFiniteSet(T) /\ Cardinality(T) \in Nat /\ a + Cardinality(T) <= Deliverable(j)'
  <2>1. CASE T \subseteq S
    <3>1. IsFiniteSet(T) /\ Cardinality(T) <= Cardinality(S)
      BY <1>3, <2>1, Counting
    <3> QED
      BY <1>3, <3>1, Counting
  <2>2. CASE \E m, n : m \in S /\ T \subseteq (S \ {m}) \cup {n}
    <3>1. IsFiniteSet(T) /\ Cardinality(T) <= Cardinality(S)
      BY <1>3, <2>2, Counting
    <3> QED
      BY <1>3, <3>1, Counting
  <2>3. CASE (\E n : T \subseteq S \cup {n}) /\ Deliverable(j)' >= Deliverable(j) + 1
    <3>1. IsFiniteSet(T) /\ Cardinality(T) <= Cardinality(S) + 1
      BY <1>3, <2>3, Counting
    <3> QED
      BY <1>3, <2>3, <3>1, Counting
  <2> QED
    BY <1>1, <2>1, <2>2, <2>3
<1> QED
  BY <1>1, <1>2, <1>4 DEF Counted

LEMMA CountStep == AttemptInv /\ CountInv /\ [Next]_vars => CountInv'
<1> SUFFICES ASSUME AttemptInv, CountInv, [Next]_vars, NEW j \in Jobs, NEW r \in RetryCount
             PROVE  Counted(j, r)'
  BY DEF CountInv, RetryCount
<1>1. AttemptInv' /\ Counted(j, r) /\ TypeOK
  BY AttemptStep DEF CountInv, AttemptInv
<1>2. r \in Nat /\ \A m \in Message : retry[m] # None => retry[m] \in Nat
  BY <1>1, RunnerAssumption DEF TypeOK, RetryCount
<1> USE DEF tables, locals, history, world
<1>3. CASE retry' = retry /\ pc' = pc /\ attempts' = attempts
  <2>1. ToCome(j, r)' = ToCome(j, r)
    BY <1>3 DEF ToCome
  <2> QED
    BY <1>1, <1>3, <2>1, CountedElse
<1>4. ASSUME NEW e \in Events, CreateEvent(e) \/ RerunFailed(e) PROVE Counted(j, r)'
  <2>1. PICK s \in {"NONE", "FAILED"} : QueueJobs(e, s) /\ (s = "FAILED" => RerunFailed(e))
    BY <1>4 DEF CreateEvent, RerunFailed
  <2>2. ToCome(j, r)' \subseteq ToCome(j, r) \cup {NewName(j)}
    BY <1>1, <2>1, QueueType DEF ToCome, QueueJobs
  <2>3. CASE j \in JobsOf(e) /\ jobStatus[j] = s
    <3>1. Deliverable(j)' >= Deliverable(j) + 1
      <4>1. spent["rerun"] \in Nat /\ spent["crash"] \in Nat /\ jobStatus'[j] = "QUEUED"
        BY <1>1, <2>1, <2>3, Kinds DEF TypeOK, QueueJobs
      <4>2. CASE s = "NONE"
        <5>1. /\ spent'["rerun"] \in Nat /\ spent'["crash"] \in Nat
          BY SpentOnlyGrows, <1>1, Kinds
        <5> QED
          BY <2>3, <4>1, <4>2, <5>1 DEF Deliverable
      <4>3. CASE s = "FAILED"
        <5>1. spent'["rerun"] = spent["rerun"] + 1 /\ spent'["crash"] = spent["crash"]
          BY <1>1, <2>1, <4>3, Kinds DEF RerunFailed, Spend, TypeOK
        <5> QED
          BY <2>3, <4>1, <4>3, <5>1 DEF Deliverable
      <4> QED
        BY <4>2, <4>3
    <3>2. attempts' = attempts
      BY <2>1 DEF QueueJobs
    <3> QED
      BY <1>1, <2>2, <3>1, <3>2, CountedElse
  <2>4. CASE ~ (j \in JobsOf(e) /\ jobStatus[j] = s)
    <3>1. ToCome(j, r)' \subseteq ToCome(j, r) /\ attempts' = attempts
      BY <1>1, <2>1, <2>4, QueueType DEF ToCome, QueueJobs
    <3> QED
      BY <1>1, <3>1, CountedElse
  <2> QED
    BY <2>3, <2>4
<1>5. ASSUME NEW m \in Message, MessageNext(m), m[1] # j PROVE Counted(j, r)'
  <2>1. attempts'[j] = attempts[j]
    BY <1>1, <1>5, OthersUntouched DEF JobUntouched
  <2>2. \A n \in Message : n[1] = j => pc'[n] = pc[n] /\ retry'[n] = retry[n]
    <3>1. \A n \in Message : n[1] = j => pc'[n] = pc[n]
      BY <1>1, <1>5, OthersUntouched DEF Untouched
    <3>2. CASE Republish(m)
      BY <1>1, <1>5, <3>1, <3>2, RetryType DEF AttemptInv, Attempted, MessageHeld
    <3> QED
      BY <1>1, <1>5, <3>1, <3>2, OthersUntouched
  <2>3. ToCome(j, r)' \subseteq ToCome(j, r)
    BY <2>2 DEF ToCome
  <2> QED
    BY <1>1, <2>1, <2>3, CountedElse
<1>6. ASSUME NEW m \in Message, MessageNext(m), m[1] = j PROVE Counted(j, r)'
  <2>1. \A n \in Message \ {m} : pc'[n] = pc[n]
    BY <1>1, <1>6, OthersUntouched DEF Untouched
  <2>2. CASE Deliver(m)
    <3>1. retry' = retry /\ pc'[m] = "load" /\ pc[m] = "idle" /\ retry[m] # None /\ retry[m] \in RetryCount
      BY <1>1, <2>2 DEF Deliver, Goto, TypeOK
    <3>2. CASE retry[m] = r
      <4>1. m \in ToCome(j, r) /\ ToCome(j, r)' \subseteq ToCome(j, r) \ {m}
        BY <1>2, <1>6, <2>1, <3>1, <3>2 DEF ToCome
      <4>2. attempts'[j][r] = attempts[j][r] + 1 /\ attempts[j][r] \in Nat
        BY <1>1, <1>6, <2>2, <3>2 DEF Deliver, TypeOK
      <4>3. IsFiniteSet(ToCome(j, r)')
            /\ Cardinality(ToCome(j, r)') + 1 <= Cardinality(ToCome(j, r))
            /\ Cardinality(ToCome(j, r)') \in Nat /\ Cardinality(ToCome(j, r)) \in Nat
        <5>1. PICK S, T : S = ToCome(j, r) /\ T = ToCome(j, r)'
          OBVIOUS
        <5>2. IsFiniteSet(S) /\ m \in S /\ T \subseteq S \ {m}
          BY <1>1, <4>1, <5>1 DEF Counted
        <5>3. IsFiniteSet(T) /\ Cardinality(T) + 1 <= Cardinality(S)
          BY <5>2, Counting
        <5> QED
          BY <5>1, <5>2, <5>3, Counting
      <4>4. /\ Deliverable(j) \in Nat /\ Deliverable(j)' \in Nat
            /\ Deliverable(j) <= Deliverable(j)'
        BY DeliverableGrows
      <4> QED
        BY <1>1, <4>2, <4>3, <4>4 DEF Counted
    <3>3. CASE retry[m] # r
      <4>1. ToCome(j, r)' \subseteq ToCome(j, r)
        BY <1>2, <1>6, <2>1, <3>1, <3>3 DEF ToCome
      <4>2. attempts'[j][r] = attempts[j][r]
        BY <1>1, <1>6, <2>2, <3>3 DEF Deliver, TypeOK
      <4> QED
        BY <1>1, <4>1, <4>2, CountedElse
    <3> QED
      BY <3>2, <3>3
  <2>3. CASE Crash(m)
    <3>1. retry' = retry /\ attempts' = attempts
      BY <2>3 DEF Crash
    <3>2. ToCome(j, r)' \subseteq ToCome(j, r) \cup {m}
      BY <2>1, <3>1 DEF ToCome
    <3>3. Deliverable(j)' >= Deliverable(j) + 1
      <4>1. pc[m] # "idle" /\ jobStatus' = jobStatus
        BY <2>3 DEF Crash
      <4>2. jobStatus[j] # "NONE" /\ jobStatus'[j] # "NONE"
        BY <1>6, <4>1 DEF AttemptInv, Attempted
      <4>3. spent'["crash"] = spent["crash"] + 1 /\ spent'["rerun"] = spent["rerun"]
            /\ spent["crash"] \in Nat /\ spent["rerun"] \in Nat
        BY <1>1, <2>3, Kinds DEF Crash, Spend, TypeOK
      <4> QED
        BY <4>2, <4>3 DEF Deliverable
    <3> QED
      BY <1>1, <3>1, <3>2, <3>3, CountedElse
  <2>4. CASE Republish(m)
    <3>1. PICK n \in Message :
             /\ n[1] = j /\ retry[n] = None /\ retry'[n] = retry[m] + 1
             /\ \A o \in Message : o # n => retry'[o] = retry[o]
      BY <1>1, <1>6, <2>4, RetryType DEF AttemptInv, Attempted, MessageHeld
    <3>2. /\ pc[m] = "retry" /\ pc'[m] = "ack" /\ retry[m] # None /\ attempts' = attempts
      BY <1>1, <2>4 DEF Republish, Goto, TypeOK, AttemptInv, Attempted
    <3>3. pc[n] = "idle" /\ n # m /\ pc'[n] = "idle"
      BY <2>1, <3>1, <3>2 DEF AttemptInv, Attempted
    <3>4. CASE retry[m] < r
      <4>1. m \in ToCome(j, r) /\ ToCome(j, r)' \subseteq (ToCome(j, r) \ {m}) \cup {n}
        BY <1>2, <1>6, <2>1, <3>1, <3>2, <3>4 DEF ToCome
      <4> QED
        BY <1>1, <3>2, <4>1, CountedElse
    <3>5. CASE ~ (retry[m] < r)
      <4>1. ~ (retry'[n] <= r) /\ retry[m] \in Nat
        BY <1>2, <3>1, <3>2, <3>5
      <4>2. ToCome(j, r)' \subseteq ToCome(j, r)
        BY <1>2, <1>6, <2>1, <3>1, <3>2, <3>3, <3>5, <4>1 DEF ToCome
      <4> QED
        BY <1>1, <3>2, <4>2, CountedElse
    <3> QED
      BY <3>4, <3>5
  <2>5. CASE Settle(m)
    <3>1. retry'[m] = None /\ attempts' = attempts /\ \A n \in Message \ {m} : retry'[n] = retry[n]
      BY <1>1, <2>5 DEF Settle, Set, TypeOK
    <3>2. ToCome(j, r)' \subseteq ToCome(j, r)
      BY <2>1, <3>1 DEF ToCome
    <3> QED
      BY <1>1, <3>1, <3>2, CountedElse
  <2>6. CASE ~ (Deliver(m) \/ Crash(m) \/ Republish(m) \/ Settle(m))
    <3>1. retry' = retry /\ attempts' = attempts
      BY <1>1, <1>6, <2>6, OthersUntouched
    <3>2. pc[m] # "idle" /\ pc'[m] # "idle"
      BY <1>1, <1>6, <2>6, StepOfHeld
    <3>3. pc[m] # "ack"
      BY <1>6, <2>6 DEF MessageNext, WorkerStep, LoadInstance, StartJob, NoCredentials, Dial, Authenticate,
         ConnectionFails, RunScript, RecordConnectivity, RecordExecution, SaveResult, Rollup,
         HandlerError, Goto, Connecting, Reconnecting
    <3>4. ToCome(j, r)' \subseteq ToCome(j, r)
      BY <2>1, <3>1, <3>2, <3>3 DEF ToCome
    <3> QED
      BY <1>1, <3>1, <3>4, CountedElse
  <2> QED
    BY <2>2, <2>3, <2>4, <2>5, <2>6
<1>7. ASSUME NEW i \in Instance, EditInstance(i) \/ Rebuild(i) PROVE Counted(j, r)'
  BY <1>3, <1>7 DEF EditInstance, Rebuild
<1>8. CASE UNCHANGED vars
  BY <1>3, <1>8 DEF vars
<1> QED
  BY <1>4, <1>5, <1>6, <1>7, <1>8 DEF Next, MessageNext

\* With each retry count a job is delivered once, and once more per re-run and
\* per delivery that was cut off, wherever that was: between the publication of
\* a copy and the acknowledgement of its original, too.  The argument is that
\* what has been delivered and what may yet come are bounded together.
THEOREM AttemptsBoundedAlways == Spec => []AttemptsBounded
<1>1. Init => CountInv
  <2> SUFFICES ASSUME Init, NEW j \in Jobs, NEW r \in RetryCount PROVE Counted(j, r)
    BY DEF CountInv
  <2>1. ToCome(j, r) = {} /\ attempts[j][r] = 0 /\ Deliverable(j) = 0
    BY DEF Init, ToCome, Deliverable
  <2> QED
    BY <2>1, FS_EmptySet DEF Counted
<1>2. AttemptInv /\ CountInv => AttemptsBounded
  <2> SUFFICES ASSUME AttemptInv, CountInv, NEW j \in Jobs, NEW r \in RetryCount
               PROVE  attempts[j][r] <= 1 + spent["rerun"] + spent["crash"]
    BY DEF AttemptsBounded
  <2>1. /\ attempts[j][r] + Cardinality(ToCome(j, r)) <= Deliverable(j)
        /\ IsFiniteSet(ToCome(j, r))
    BY DEF CountInv, Counted
  <2>2. attempts[j][r] \in Nat /\ spent["rerun"] \in Nat /\ spent["crash"] \in Nat
    BY Kinds DEF AttemptInv, TypeOK
  <2>3. Cardinality(ToCome(j, r)) \in Nat
    BY <2>1, Counting
  <2> QED
    BY <2>1, <2>2, <2>3 DEF Deliverable
<1> QED
  BY <1>1, <1>2, AttemptInvariant, CountStep, PTL DEF Spec

-----------------------------------------------------------------------------
(* The timeline.                                                           *)

PrePassed == [phase |-> "pre", result |-> "passed"]
Post(r)   == [phase |-> "post", result |-> r]
Pre(r)    == [phase |-> "pre", result |-> r]

\* What find returns for the checks a first attempt can leave.
LEMMA FirstOfNone == ASSUME NEW phase PROVE FirstResult(<<>>, phase) = "none"
BY DEF FirstResult, SelectInSeq

LEMMA FirstOfOne ==
    ASSUME NEW c, NEW phase
    PROVE  FirstResult(<<c>>, phase) = IF c.phase = phase THEN c.result ELSE "none"
BY DEF FirstResult, SelectInSeq, Min

\* The check of the phase is at one place only.
LEMMA FirstAt ==
    ASSUME NEW s, NEW phase, NEW n \in Nat,
           {i \in 1..Len(s) : s[i].phase = phase} = {n}, n # 0
    PROVE  FirstResult(s, phase) = s[n].result
<1>1. Min({n}) = n
  BY DEF Min
<1> QED
  BY <1>1 DEF FirstResult, SelectInSeq

LEMMA FirstOfTwo ==
    ASSUME NEW s, Len(s) = 2, s[1].phase # s[2].phase
    PROVE  /\ FirstResult(s, s[1].phase) = s[1].result
           /\ FirstResult(s, s[2].phase) = s[2].result
<1>1. 1..2 = {1, 2}
  OBVIOUS
<1>2. {i \in 1..Len(s) : s[i].phase = s[1].phase} = {1}
  BY <1>1
<1>3. {i \in 1..Len(s) : s[i].phase = s[2].phase} = {2}
  BY <1>1
<1> QED
  BY <1>2, <1>3, FirstAt

\* What AddJobCheck makes of the checks of a first attempt.
LEMMA AppendToNone == ASSUME NEW d PROVE Append(<<>>, d) = <<d>>
<1>1. <<>> \in Seq({d}) /\ <<d>> \in Seq({d})
  OBVIOUS
<1> QED
  BY <1>1

LEMMA AppendToOne ==
    ASSUME NEW c, NEW d
    PROVE  /\ Len(Append(<<c>>, d)) = 2
           /\ Append(<<c>>, d)[1] = c
           /\ Append(<<c>>, d)[2] = d
<1>1. d \in {c, d} /\ <<c>> \in Seq({c, d}) /\ Len(<<c>>) = 1 /\ <<c>>[1] = c
  OBVIOUS
<1>2. /\ Len(Append(<<c>>, d)) = Len(<<c>>) + 1
      /\ \A i \in 1..Len(<<c>>) : Append(<<c>>, d)[i] = <<c>>[i]
      /\ Append(<<c>>, d)[Len(<<c>>) + 1] = d
  BY ONLY <1>1, AppendProperties
<1> QED
  BY <1>1, <1>2

\* No step of the timeline moves back between two rows of a job.
Forward(s, c, s2, c2) ==
    \A x \in {"connect", "run", "done"} : Advances(Steps(s, c)[x], Steps(s2, c2)[x])

LEMMA ForwardStays == ASSUME NEW s, NEW c PROVE Forward(s, c, s, c)
BY DEF Forward, Advances

LEMMA ForwardStart == Forward("QUEUED", <<>>, "RUNNING", <<>>)
BY FirstOfNone DEF Forward, Steps, ConnectStep, RunStep, Advances

LEMMA ForwardSave ==
    ASSUME NEW c, NEW s \in TerminalJob
    PROVE  Forward("RUNNING", c, s, c)
BY DEF Forward, Steps, ConnectStep, RunStep, Advances, TerminalJob

LEMMA ForwardConnected ==
    ASSUME NEW r \in {"passed", "failed"}
    PROVE  Forward("RUNNING", <<>>, "RUNNING", <<Pre(r)>>)
<1>1. /\ FirstResult(<<Pre(r)>>, "pre") = r
      /\ FirstResult(<<Pre(r)>>, "post") = "none"
  BY FirstOfOne DEF Pre
<1> QED
  BY <1>1, FirstOfNone DEF Forward, Steps, ConnectStep, RunStep, Advances

LEMMA ForwardExecuted ==
    ASSUME NEW r \in {"passed", "failed"}
    PROVE  /\ Forward("RUNNING", <<>>, "RUNNING", <<Post(r)>>)
           /\ Forward("RUNNING", <<PrePassed>>, "RUNNING", Append(<<PrePassed>>, Post(r)))
<1>1. /\ FirstResult(<<Post(r)>>, "pre") = "none"
      /\ FirstResult(<<Post(r)>>, "post") = r
      /\ FirstResult(<<PrePassed>>, "pre") = "passed"
      /\ FirstResult(<<PrePassed>>, "post") = "none"
  BY FirstOfOne DEF Post, PrePassed
<1>2. /\ FirstResult(Append(<<PrePassed>>, Post(r)), "pre") = "passed"
      /\ FirstResult(Append(<<PrePassed>>, Post(r)), "post") = r
  <2>1. PrePassed.phase = "pre" /\ PrePassed.result = "passed"
        /\ Post(r).phase = "post" /\ Post(r).result = r
    BY DEF Post, PrePassed
  <2>2. PICK s : s = Append(<<PrePassed>>, Post(r))
    OBVIOUS
  <2>3. Len(s) = 2 /\ s[1] = PrePassed /\ s[2] = Post(r)
    BY <2>2, AppendToOne
  <2>4. FirstResult(s, "pre") = "passed" /\ FirstResult(s, "post") = r
    BY <2>1, <2>3, FirstOfTwo
  <2> QED
    BY <2>2, <2>4
<1> QED
  BY <1>1, <1>2, FirstOfNone DEF Forward, Steps, ConnectStep, RunStep, Advances

\* Before anything is delivered, and during the first attempt, which has the
\* job to itself: what it has left of checks, and of the status, when it is
\* somewhere.
Undelivered(k) == \A r \in RetryCount : attempts[k][r] = 0

FirstTime(k) ==
    /\ Undelivered(k) =>
          /\ checks[k] = <<>> /\ jobStatus[k] \in {"NONE", "QUEUED"}
          /\ \A m \in Message : m[1] = k => pc[m] = "idle"
    /\ FirstAttempt(k) => \A m \in Message : m[1] = k /\ pc[m] # "idle" =>
          /\ \A n \in Message : n[1] = k /\ pc[n] # "idle" => n = m
          /\ pc[m] \in {"load", "mark"} => checks[k] = <<>> /\ jobStatus[k] = "QUEUED"
          /\ pc[m] \in Connecting \cup {"connected", "refused"} => checks[k] = <<>>
          /\ pc[m] \in Reconnecting \cup {"script", "ran"} => checks[k] \in {<<>>, <<PrePassed>>}
          /\ pc[m] \in Executing => jobStatus[k] = "RUNNING"

FirstInv == \A k \in Jobs : FirstTime(k)

\* A delivery that is the first one of its job.
LEMMA FirstDelivery ==
    ASSUME TypeOK, NEW m \in Message, Deliver(m), FirstAttempt(m[1])'
    PROVE  Undelivered(m[1])
<1> DEFINE j == m[1]
           s == retry[m]
<1>1. j \in Jobs /\ s \in RetryCount /\ 0 \in RetryCount /\ \A r \in RetryCount : attempts[j][r] \in Nat
  BY JobOf, RunnerAssumption DEF TypeOK, Deliver, RetryCount
<1>2. attempts'[j][s] = attempts[j][s] + 1 /\ \A r \in RetryCount : r # s => attempts'[j][r] = attempts[j][r]
  BY <1>1 DEF Deliver, TypeOK
<1>3. \A r \in RetryCount : attempts'[j][r] <= IF r = 0 THEN 1 ELSE 0
  BY DEF FirstAttempt
<1>4. s = 0
  BY <1>1, <1>2, <1>3
<1> QED
  BY <1>1, <1>2, <1>3, <1>4 DEF Undelivered

LEMMA FirstStays ==
    ASSUME TypeOK, [Next]_vars, NEW k \in Jobs
    PROVE  /\ FirstAttempt(k)' => FirstAttempt(k)
           /\ Undelivered(k)' => Undelivered(k)
<1> USE DEF tables, locals, history, world
<1>1. CASE attempts'[k] = attempts[k]
  BY <1>1 DEF FirstAttempt, Undelivered
<1>2. ASSUME NEW m \in Message, MessageNext(m)
      PROVE  attempts'[k] = attempts[k] \/ (Deliver(m) /\ m[1] = k)
  BY <1>2, OthersUntouched DEF JobUntouched
<1>3. ASSUME NEW m \in Message, Deliver(m), m[1] = k
      PROVE  /\ FirstAttempt(k)' => FirstAttempt(k)
             /\ Undelivered(k)' => Undelivered(k)
  <2>1. FirstAttempt(k)' => Undelivered(k)
    BY <1>3, FirstDelivery
  <2>2. Undelivered(k) => FirstAttempt(k)
    BY DEF Undelivered, FirstAttempt
  <2>3. Undelivered(k)' => FirstAttempt(k)'
    BY DEF Undelivered, FirstAttempt
  <2> QED
    BY <2>1, <2>2, <2>3
<1>4. ASSUME ~ \E m \in Message : MessageNext(m) PROVE attempts'[k] = attempts[k]
  BY <1>4 DEF Next, MessageNext, EditInstance, Rebuild, CreateEvent, RerunFailed, QueueJobs, vars
<1> QED
  BY <1>1, <1>2, <1>3, <1>4

LEMMA FirstStep == AttemptInv /\ FirstInv /\ [Next]_vars => FirstInv'
<1> SUFFICES ASSUME AttemptInv, FirstInv, [Next]_vars, NEW k \in Jobs PROVE FirstTime(k)'
  BY DEF FirstInv
<1> USE DEF tables, locals, history, world
<1>1. FirstTime(k) /\ TypeOK
  BY DEF FirstInv, AttemptInv
<1>2. /\ FirstAttempt(k)' => FirstAttempt(k)
      /\ Undelivered(k)' => Undelivered(k)
      /\ Undelivered(k)' => FirstAttempt(k)'
      /\ FirstAttempt(k)' \/ FirstTime(k)'
  BY <1>1, FirstStays DEF FirstTime, Undelivered, FirstAttempt
<1>3. CASE jobStatus'[k] = jobStatus[k] /\ checks'[k] = checks[k]
           /\ \A m \in Message : m[1] = k => pc'[m] = pc[m]
  BY <1>1, <1>2, <1>3 DEF FirstTime
<1>4. ASSUME NEW e \in Events, CreateEvent(e) \/ RerunFailed(e) PROVE FirstTime(k)'
  <2>1. PICK s \in {"NONE", "FAILED"} : QueueJobs(e, s)
    BY <1>4 DEF CreateEvent, RerunFailed
  <2>2. CASE k \in JobsOf(e) /\ jobStatus[k] = s
    <3>1. pc' = pc /\ jobStatus'[k] = "QUEUED" /\ checks' = checks
      BY <2>1, <2>2 DEF QueueJobs
    \* Neither a job that is not there nor a FAILED one is at work.
    <3>2. FirstAttempt(k)' => \A m \in Message : m[1] = k => pc[m] \notin Executing \cup {"load", "mark"}
      <4>1. ASSUME s = "NONE", NEW m \in Message, m[1] = k PROVE pc[m] = "idle"
        BY <2>2, <4>1 DEF AttemptInv, Attempted
      <4>2. ASSUME s = "FAILED", FirstAttempt(k), NEW m \in Message, m[1] = k
            PROVE  pc[m] \notin Executing \cup {"load", "mark"}
        BY <1>1, <2>2, <4>2 DEF FirstTime, Executing, Connecting, Reconnecting
      <4> QED
        BY <1>2, <4>1, <4>2 DEF Executing, Connecting, Reconnecting
    <3> QED
      BY <1>1, <1>2, <3>1, <3>2 DEF FirstTime, Executing
  <2>3. CASE ~ (k \in JobsOf(e) /\ jobStatus[k] = s)
    BY <1>3, <2>1, <2>3 DEF QueueJobs
  <2> QED
    BY <2>2, <2>3
<1>5. ASSUME NEW m \in Message, MessageNext(m), m[1] # k PROVE FirstTime(k)'
  BY <1>1, <1>3, <1>5, OthersUntouched DEF Untouched, JobUntouched
<1>6. ASSUME NEW m \in Message, MessageNext(m), m[1] = k, FirstAttempt(k)' PROVE FirstTime(k)'
  <2> USE DEF Executing, Connecting, Reconnecting, Goto, Set
  <2>1. \A n \in Message \ {m} : pc'[n] = pc[n]
    BY <1>1, <1>6, OthersUntouched DEF Untouched
  <2>2. ASSUME pc[m] # "idle", ~ Undelivered(k)',
               /\ pc'[m] \in {"load", "mark"} => checks'[k] = <<>> /\ jobStatus'[k] = "QUEUED"
               /\ pc'[m] \in Connecting \cup {"connected", "refused"} => checks'[k] = <<>>
               /\ pc'[m] \in Reconnecting \cup {"script", "ran"} => checks'[k] \in {<<>>, <<PrePassed>>}
               /\ pc'[m] \in Executing => jobStatus'[k] = "RUNNING"
        PROVE  FirstTime(k)'
    <3>1. \A n \in Message : n[1] = k /\ pc'[n] # "idle" => n = m
      BY <1>1, <1>2, <1>6, <2>1, <2>2 DEF FirstTime
    <3> QED
      BY <2>2, <3>1 DEF FirstTime
  <2>3. CASE Deliver(m)
    <3>1. /\ Undelivered(k) /\ pc'[m] = "load" /\ jobStatus' = jobStatus /\ checks' = checks
          /\ jobStatus[k] # "NONE"
      BY <1>1, <1>6, <2>3, FirstDelivery DEF Deliver, TypeOK, AttemptInv, Attempted
    <3>2. ~ Undelivered(k)'
      <4>1. retry[m] \in RetryCount /\ attempts'[k][retry[m]] = attempts[k][retry[m]] + 1
            /\ attempts[k][retry[m]] \in Nat
        BY <1>1, <1>6, <2>3 DEF Deliver, TypeOK
      <4> QED
        BY <4>1 DEF Undelivered
    <3>3. checks[k] = <<>> /\ jobStatus[k] = "QUEUED" /\ \A n \in Message : n[1] = k => pc[n] = "idle"
      BY <1>1, <3>1 DEF FirstTime
    <3> QED
      BY <1>6, <2>1, <3>1, <3>2, <3>3 DEF FirstTime
  <2>4. ASSUME ~ Deliver(m)
        PROVE  pc[m] # "idle" /\ ~ Undelivered(k)' /\ attempts' = attempts
    <3>1. pc[m] # "idle" /\ attempts' = attempts
      BY <1>1, <1>6, <2>4, StepOfHeld, OthersUntouched
    <3> QED
      BY <1>1, <1>2, <1>6, <3>1 DEF FirstTime
  \* Where the attempt is, as it is the only one.
  <2>5. pc[m] # "idle" =>
          /\ pc[m] \in {"load", "mark"} => checks[k] = <<>> /\ jobStatus[k] = "QUEUED"
          /\ pc[m] \in Connecting \cup {"connected", "refused"} => checks[k] = <<>>
          /\ pc[m] \in Reconnecting \cup {"script", "ran"} => checks[k] \in {<<>>, <<PrePassed>>}
          /\ pc[m] \in Executing => jobStatus[k] = "RUNNING"
    BY <1>1, <1>2, <1>6 DEF FirstTime
  <2>6. CASE LoadInstance(m) \/ NoCredentials(m) \/ Dial(m)
    <3>1. ~ Deliver(m) /\ jobStatus' = jobStatus /\ checks' = checks
          /\ \/ pc[m] = "load" /\ pc'[m] = "mark"
             \/ pc[m] = "connect" /\ pc'[m] \in {"result", "auth"}
             \/ pc[m] = "reconnect" /\ pc'[m] = "reauth"
      BY <1>1, <2>6 DEF LoadInstance, NoCredentials, Dial, Deliver, TypeOK
    <3> QED
      BY <2>2, <2>4, <2>5, <3>1
  <2>7. CASE Authenticate(m) \/ ConnectionFails(m) \/ RunScript(m)
    <3>1. ~ Deliver(m) /\ jobStatus' = jobStatus /\ checks' = checks
          /\ \/ pc[m] \in Connecting /\ pc'[m] \in {"connected", "refused"}
             \/ pc[m] \in Reconnecting /\ pc'[m] \in {"script", "result"}
             \/ pc[m] = "script" /\ pc'[m] \in {"ran", "result"}
      <4>1. CASE Authenticate(m)
        BY <1>1, <4>1 DEF Authenticate, Deliver, TypeOK
      <4>2. CASE ConnectionFails(m)
        BY <1>1, <4>2 DEF ConnectionFails, Deliver, TypeOK
      <4>3. CASE RunScript(m)
        BY <1>1, <4>3 DEF RunScript, Deliver, TypeOK
      <4> QED
        BY <2>7, <4>1, <4>2, <4>3
    <3> QED
      BY <2>2, <2>4, <2>5, <3>1
  <2>8. CASE StartJob(m)
    <3>1. ~ Deliver(m) /\ jobStatus'[k] = "RUNNING" /\ checks' = checks
          /\ pc[m] = "mark" /\ pc'[m] = "connect"
      BY <1>1, <1>6, <2>8 DEF StartJob, Deliver, TypeOK
    <3> QED
      BY <2>2, <2>4, <2>5, <3>1
  <2>9. CASE RecordConnectivity(m) \/ RecordExecution(m)
    <3>1. ~ Deliver(m) /\ jobStatus' = jobStatus
          /\ \/ pc[m] = "connected" /\ pc'[m] = "reconnect" /\ AddJobCheck(m, "pre", "passed")
             \/ pc[m] \in {"refused", "ran"} /\ pc'[m] = "result"
      <4>1. CASE RecordConnectivity(m)
        BY <1>1, <4>1 DEF RecordConnectivity, Deliver, TypeOK
      <4>2. CASE RecordExecution(m)
        BY <1>1, <4>2 DEF RecordExecution, Deliver, TypeOK
      <4> QED
        BY <2>9, <4>1, <4>2
    <3>2. ASSUME checks[k] = <<>>, AddJobCheck(m, "pre", "passed")
          PROVE  checks'[k] \in {<<>>, <<PrePassed>>}
      BY <1>1, <1>6, <3>2 DEF AddJobCheck, PrePassed, TypeOK
    <3> QED
      BY <2>2, <2>4, <2>5, <3>1, <3>2
  <2>10. CASE SaveResult(m) \/ Rollup(m) \/ HandlerError(m) \/ Republish(m) \/ Settle(m) \/ Crash(m)
    <3>1. ~ Deliver(m) /\ pc'[m] \in {"rollup", "ack", "retry", "idle"}
      BY <1>1, <2>10 DEF SaveResult, Rollup, HandlerError, Republish, Settle, Crash, Deliver, TypeOK
    <3> QED
      BY <2>2, <2>4, <3>1
  <2> QED
    BY <1>6, <2>3, <2>6, <2>7, <2>8, <2>9, <2>10 DEF MessageNext, WorkerStep
<1>7. ASSUME NEW i \in Instance, EditInstance(i) \/ Rebuild(i) PROVE FirstTime(k)'
  BY <1>3, <1>7 DEF EditInstance, Rebuild
<1>8. CASE UNCHANGED vars
  BY <1>3, <1>8 DEF vars
<1> QED
  BY <1>2, <1>4, <1>5, <1>6, <1>7, <1>8 DEF Next, MessageNext

LEMMA StepForward ==
    ASSUME AttemptInv, FirstInv, [Next]_vars, NEW k \in Jobs,
           FirstAttempt(k)', jobStatus'[k] \notin {"NONE", "QUEUED"}
    PROVE  Forward(jobStatus[k], checks[k], jobStatus'[k], checks'[k])
<1> USE DEF tables, locals, history, world
<1>1. FirstTime(k) /\ FirstAttempt(k) /\ TypeOK
  BY FirstStays DEF FirstInv, AttemptInv
<1>2. CASE jobStatus'[k] = jobStatus[k] /\ checks'[k] = checks[k]
  BY <1>2, ForwardStays
<1>3. ASSUME NEW e \in Events, CreateEvent(e) \/ RerunFailed(e)
      PROVE  jobStatus'[k] = jobStatus[k] /\ checks'[k] = checks[k]
  BY <1>3 DEF CreateEvent, RerunFailed, QueueJobs
<1>4. ASSUME NEW m \in Message, MessageNext(m), m[1] # k
      PROVE  jobStatus'[k] = jobStatus[k] /\ checks'[k] = checks[k]
  BY <1>1, <1>4, OthersUntouched DEF JobUntouched
<1>5. ASSUME NEW m \in Message, MessageNext(m), m[1] = k
      PROVE  Forward(jobStatus[k], checks[k], jobStatus'[k], checks'[k])
  <2> USE DEF Goto, Set
  \* The three statements that write the row or the checks.
  <2>2. ASSUME pc[m] = "mark", checks' = checks, jobStatus' = Set(jobStatus, k, "RUNNING")
        PROVE  Forward(jobStatus[k], checks[k], jobStatus'[k], checks'[k])
    <3>1. jobStatus[k] = "QUEUED" /\ checks[k] = <<>> /\ checks'[k] = <<>> /\ jobStatus'[k] = "RUNNING"
      BY <1>1, <1>5, <2>2 DEF FirstTime, TypeOK
    <3> QED
      BY <3>1, ForwardStart
  <2>3. ASSUME pc[m] = "result", checks' = checks, jobStatus' = Set(jobStatus, k, verdict[m])
        PROVE  Forward(jobStatus[k], checks[k], jobStatus'[k], checks'[k])
    <3>1. jobStatus[k] = "RUNNING" /\ verdict[m] \in TerminalJob /\ jobStatus'[k] = verdict[m]
      BY <1>1, <1>5, <2>3 DEF FirstTime, AttemptInv, Attempted, Executing, TypeOK
    <3> QED
      BY <2>3, <3>1, ForwardSave
  <2>4. CASE RecordConnectivity(m)
    <3>1. PICK r \in {"passed", "failed"} : AddJobCheck(m, "pre", r)
      BY <2>4 DEF RecordConnectivity
    <3>2. jobStatus[k] = "RUNNING" /\ jobStatus'[k] = "RUNNING" /\ checks[k] = <<>>
      BY <1>1, <1>5, <2>4 DEF RecordConnectivity, Executing, FirstTime
    <3>3. checks'[k] \in {<<>>, <<Pre(r)>>}
      BY <1>1, <1>5, <3>1, <3>2 DEF AddJobCheck, Pre, TypeOK
    <3> QED
      BY <3>2, <3>3, ForwardStays, ForwardConnected
  <2>5. CASE RecordExecution(m)
    <3>1. PICK r \in {"passed", "failed"} : AddJobCheck(m, "post", r)
      BY <2>5 DEF RecordExecution
    <3>2. jobStatus[k] = "RUNNING" /\ jobStatus'[k] = "RUNNING"
          /\ checks[k] \in {<<>>, <<PrePassed>>}
      BY <1>1, <1>5, <2>5 DEF RecordExecution, Executing, FirstTime
    <3>3. CASE checks'[k] = checks[k]
      BY <3>2, <3>3, ForwardStays
    <3>4. CASE checks'[k] = Append(checks[k], Post(r))
      <4>1. Append(<<>>, Post(r)) = <<Post(r)>>
        BY AppendToNone
      <4> QED
        BY <3>2, <3>4, <4>1, ForwardExecuted
    <3> QED
      BY <1>1, <1>5, <3>1, <3>3, <3>4 DEF AddJobCheck, Post, TypeOK
  <2>6. CASE StartJob(m)
    BY <1>5, <2>2, <2>6 DEF StartJob
  <2>7. CASE SaveResult(m)
    BY <1>5, <2>3, <2>7 DEF SaveResult
  <2>8. CASE HandlerError(m)
    BY <1>2, <1>5, <2>2, <2>3, <2>8 DEF HandlerError
  <2>9. CASE ~ (RecordConnectivity(m) \/ RecordExecution(m) \/ StartJob(m) \/ SaveResult(m)
                \/ HandlerError(m))
    BY <1>2, <1>5, <2>9 DEF MessageNext, WorkerStep, Deliver, LoadInstance, NoCredentials, Dial,
       Authenticate, ConnectionFails, RunScript, Rollup, Republish, Settle, Crash
  <2> QED
    BY <2>4, <2>5, <2>6, <2>7, <2>8, <2>9
<1>6. ASSUME NEW i \in Instance, EditInstance(i) \/ Rebuild(i)
      PROVE  jobStatus'[k] = jobStatus[k] /\ checks'[k] = checks[k]
  BY <1>6 DEF EditInstance, Rebuild
<1>7. CASE UNCHANGED vars
  BY <1>2, <1>7 DEF vars
<1> QED
  BY <1>2, <1>3, <1>4, <1>5, <1>6, <1>7 DEF Next, MessageNext

\* A first attempt never takes back what the timeline of its job has shown,
\* whichever of its checks are lost and wherever it is cut off.
THEOREM TimelineAdvancesAlways == Spec => TimelineAdvances
<1>1. Init => FirstInv
  BY DEF Init, FirstInv, FirstTime, Executing, Connecting, Reconnecting
<1>2. AttemptInv /\ FirstInv /\ [Next]_vars =>
        [\A j \in Jobs : FirstAttempt(j)' /\ jobStatus'[j] \notin {"NONE", "QUEUED"} =>
           LET from == Steps(jobStatus[j], checks[j])
               to   == Steps(jobStatus'[j], checks'[j])
           IN  \A s \in {"connect", "run", "done"} : Advances(from[s], to[s])]_vars
  BY StepForward DEF Forward
<1> QED
  BY <1>1, <1>2, AttemptInvariant, FirstStep, PTL DEF Spec, TimelineAdvances
=============================================================================
