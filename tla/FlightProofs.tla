---------------------------- MODULE FlightProofs ----------------------------
(***************************************************************************)
(* That no two consumers are on a job, and what follows from it, for every *)
(* number of jobs, consumers, workers and requests, however many messages  *)
(* get lost and API processes die: first in orderly times, when no worker  *)
(* crashes, stops or loses its connection and no statement fails, but      *)
(* re-runs may be asked for; then, without re-runs, with faults of one     *)
(* kind.                                                                   *)
(***************************************************************************)
EXTENDS AckProofs

USE DEF TerminalJob, PendingJob, JobStatus, ActiveEvent, TerminalEvent, EventStatus

Orderly == \A k \in {"crash", "stop", "conn", "error"} : spent[k] = 0

\* Nobody has gone away, and nobody has anything to try again.
Awake ==
    /\ \A w \in Workers : proc[w] = "up" /\ conn[w]
    /\ \A c \in Consumers : pc[c] \notin {"off", "retry"}

\* Where the next run of a job is: with a request, in the queue, or with a
\* consumer that has not saved its result (Handled).
Queues(j)    == \E r \in Requests : j \in todo[r]
Waits(j)     == \E m \in Message : m.job = j /\ ready[m] > 0

\* It is in one place at most,
OnePlace(j) ==
    /\ \A r, s \in Requests : j \in todo[r] /\ j \in todo[s] => r = s
    /\ \A m, n \in Message : m.job = j /\ ready[m] > 0 /\ n.job = j /\ ready[n] > 0
                                => m = n /\ ready[m] = 1
    /\ \A c, d \in Consumers : InHand(c, j) /\ InHand(d, j) => c = d
    /\ ~ (Queues(j) /\ Waits(j)) /\ ~ (Queues(j) /\ Handled(j)) /\ ~ (Waits(j) /\ Handled(j))

\* and the status of the job says how far it is.
StatusTells(j) ==
    /\ Queues(j) \/ Waits(j) => jobStatus[j] = "QUEUED"
    /\ \A c \in Consumers : InHand(c, j) =>
          jobStatus[j] = IF pc[c] = "load" THEN "QUEUED" ELSE "RUNNING"

OneFlight == RowsTogether /\ \A j \in Jobs : OnePlace(j) /\ StatusTells(j)

FlightInv == Inv /\ IdleRequests /\ (Orderly => Awake /\ OneFlight)

LEMMA OrderlyBefore ==
    ASSUME TypeOK, [Next]_vars, Orderly'
    PROVE  /\ Orderly
           /\ spent'["rerun"] = 0 => spent["rerun"] = 0
           /\ \A k \in {"crash", "stop", "conn", "error"} : ~ Spend(k)
BY SpentBefore DEF Orderly, FaultKind

-----------------------------------------------------------------------------
(* What can happen in an orderly state: nobody fails, stops or goes away.  *)

OrderlyRequest(r) ==
    \/ \E e \in Events : CreateEvent(r, e) \/ RerunFailed(r, e)
    \/ \E j \in Jobs : PublishJob(r, j) \/ PublishLost(r, j)
    \/ MarkRequest(r) \/ Respond(r)

OrderlyConsumer(c) ==
    \/ \E m \in Message : Deliver(c, m)
    \/ HandlerStep(c) \/ Ack(c)

LEMMA OrderlySteps ==
    ASSUME FlightInv, [Next]_vars, Orderly'
    PROVE  \/ \E r \in Requests : OrderlyRequest(r)
           \/ \E c \in Consumers : OrderlyConsumer(c)
           \/ APICrash
           \/ UNCHANGED vars
<1>1. TypeOK /\ Awake
  BY OrderlyBefore DEF FlightInv, Inv
<1>2. \A k \in {"crash", "stop", "conn", "error"} : ~ Spend(k)
  BY <1>1, OrderlyBefore
<1>3. ASSUME NEW r \in Requests, RequestNext(r) PROVE OrderlyRequest(r)
  BY <1>2, <1>3 DEF RequestNext, RequestStep, AbandonRequest, OrderlyRequest
<1>4. ASSUME NEW c \in Consumers, ConsumerNext(c) PROVE OrderlyConsumer(c)
  <2>1. pc[c] \notin {"off", "retry"} /\ ChannelOpen(c) /\ ~ Stopping(c)
    BY <1>1, DispatchAssumption DEF Awake, ChannelOpen, Stopping
  <2>2. ~ HandlerError(c)
    BY <1>2, <2>1 DEF HandlerError, HandlerFails
  <2>3. ~ Republish(c) /\ ~ DeadLetter(c) /\ ~ AnswerClosed(c) /\ ~ Exit(c) /\ ~ BrokerRequeue(c)
    BY <2>1 DEF Republish, DeadLetter, AnswerClosed, Exit, BrokerRequeue
  <2> QED BY <1>4, <2>2, <2>3 DEF ConsumerNext, ConsumeStep, OrderlyConsumer
<1>5. ASSUME NEW w \in Workers, WorkerNext(w) PROVE FALSE
  BY <1>1, <1>2, <1>5 DEF WorkerNext, Shutdown, ProcessExit, Crash, ConnLost, Restart, Awake
<1> QED BY <1>3, <1>4, <1>5 DEF Next

LEMMA StepKeepsAwake ==
    ASSUME FlightInv, [Next]_vars, Orderly' PROVE Awake'
<1>1. TypeOK /\ Awake /\ pc \in [Consumers -> ConsumerPC]
  BY OrderlyBefore DEF FlightInv, Inv, TypeOK, ConsumerTypeOK
<1>2. UNCHANGED <<proc, conn>>
  BY OrderlySteps DEF OrderlyRequest, CreateEvent, RerunFailed, PublishJob, PublishLost, MarkRequest,
     Respond, OrderlyConsumer, HandlerStep, StartJob, MarkEventRunning, Execute, SaveResult,
     CountJobs, CountPending, SaveRollup, Deliver, Ack, APICrash, vars, workerVars
<1>3. pc' = pc \/ \E c \in Consumers : \E l \in ConsumerPC \ {"off", "retry"} : pc' = [pc EXCEPT ![c] = l]
  BY OrderlySteps DEF OrderlyRequest, CreateEvent, RerunFailed, PublishJob, PublishLost, MarkRequest,
     Respond, OrderlyConsumer, HandlerStep, StartJob, MarkEventRunning, Execute, SaveResult,
     CountJobs, CountPending, SaveRollup, Deliver, Ack, APICrash, vars, Goto, ConsumerPC
<1> QED BY <1>1, <1>2, <1>3 DEF Awake
-----------------------------------------------------------------------------
(* The next run of a job stays in one place.                               *)

\* A job that no step gets hold of.
LEMMA FlightKept ==
    ASSUME NEW k \in Jobs, OnePlace(k), StatusTells(k), jobStatus'[k] = jobStatus[k],
           \A m \in Message : m.job = k => ready'[m] = ready[m],
           \A c \in Consumers : InHand(c, k)' => InHand(c, k) /\ (pc'[c] = "load" <=> pc[c] = "load"),
           \A r \in Requests : k \in todo'[r] => k \in todo[r]
    PROVE  OnePlace(k)' /\ StatusTells(k)'
<1>1. /\ Queues(k)' => Queues(k)
      /\ Waits(k)' => Waits(k)
      /\ Handled(k)' => Handled(k)
  BY DEF Queues, Waits, Handled
<1>2. OnePlace(k)'
  BY <1>1 DEF OnePlace
<1>3. StatusTells(k)'
  BY <1>1 DEF StatusTells
<1> QED BY <1>2, <1>3

\* A job that a request, the queue or a consumer alone has got hold of.
LEMMA OnlyQueues ==
    ASSUME NEW k \in Jobs, NEW r \in Requests, jobStatus'[k] = "QUEUED",
           ~ Waits(k)', ~ Handled(k)', \A s \in Requests \ {r} : k \notin todo'[s]
    PROVE  OnePlace(k)' /\ StatusTells(k)'
BY DEF OnePlace, StatusTells, Waits, Handled

LEMMA OnlyWaits ==
    ASSUME NEW k \in Jobs, NEW n \in Message, jobStatus'[k] = "QUEUED",
           ~ Queues(k)', ~ Handled(k)',
           \A m \in Message : m.job = k => ready'[m] = IF m = n THEN 1 ELSE 0
    PROVE  OnePlace(k)' /\ StatusTells(k)'
<1>1. OnePlace(k)'
  BY DEF OnePlace, Queues, Waits, Handled
<1>2. StatusTells(k)'
  BY DEF StatusTells, Queues, Handled
<1> QED BY <1>1, <1>2

LEMMA OnlyFlies ==
    ASSUME NEW k \in Jobs, NEW c \in Consumers, ~ Queues(k)', ~ Waits(k)',
           \A d \in Consumers \ {c} : ~ InHand(d, k)',
           InHand(c, k)' => jobStatus'[k] = IF pc'[c] = "load" THEN "QUEUED" ELSE "RUNNING"
    PROVE  OnePlace(k)' /\ StatusTells(k)'
<1>1. OnePlace(k)'
  BY DEF OnePlace, Queues, Waits
<1>2. StatusTells(k)'
  BY DEF StatusTells
<1> QED BY <1>1, <1>2

\* A job that is neither QUEUED nor RUNNING is nowhere.
LEMMA NowhereWhenDone ==
    ASSUME NEW k \in Jobs, StatusTells(k), jobStatus[k] \notin PendingJob
    PROVE  ~ Queues(k) /\ ~ Waits(k) /\ ~ Handled(k)
BY DEF StatusTells, Queues, Waits, Handled

LEMMA RequestKeepsFlight ==
    ASSUME FlightInv, OneFlight, NEW r \in Requests, OrderlyRequest(r)
    PROVE  OneFlight'
<1>0. /\ jobStatus \in [Jobs -> JobStatus \cup {"NONE"}]
      /\ event \in [Events -> EventRow]
      /\ ready \in [Message -> Nat]
      /\ todo \in [Requests -> SUBSET Jobs]
      /\ EventOf \in [Jobs -> Events]
      /\ rpc[r] = "idle" => todo[r] = {}
  BY JobsAssumption DEF FlightInv, Inv, TypeOK, StoreTypeOK, RequestTypeOK, BrokerTypeOK, IdleRequests
<1>1. ASSUME NEW S \in SUBSET Jobs, \A j \in S : jobStatus[j] \notin PendingJob,
             todo[r] = {}, todo' = [todo EXCEPT ![r] = S],
             jobStatus' = [j \in Jobs |-> IF j \in S THEN "QUEUED" ELSE jobStatus[j]],
             UNCHANGED <<brokerVars, pc, localVars>>, NEW k \in Jobs
      PROVE  OnePlace(k)' /\ StatusTells(k)'
  <2>1. UNCHANGED <<ready, pc, cur>>
    BY <1>1 DEF brokerVars, localVars
  <2>2. CASE k \in S
    <3>1. ~ Queues(k) /\ ~ Waits(k) /\ ~ Handled(k)
      BY <1>1, <2>2, NowhereWhenDone DEF OneFlight
    <3>2. ~ Waits(k)' /\ ~ Handled(k)' /\ \A s \in Requests \ {r} : k \notin todo'[s]
      BY <1>0, <1>1, <2>1, <3>1 DEF Waits, Handled, InHand, Queues
    <3> QED BY <1>1, <2>2, <3>2, OnlyQueues
  <2>3. CASE k \notin S
    BY <1>0, <1>1, <2>1, <2>3, FlightKept DEF OneFlight, InHand
  <2> QED BY <2>2, <2>3
<1>2. ASSUME NEW e \in Events, CreateEvent(r, e) PROVE OneFlight'
  <2>1. /\ JobsOf(e) \in SUBSET Jobs /\ todo[r] = {} /\ todo' = [todo EXCEPT ![r] = JobsOf(e)]
        /\ jobStatus' = [j \in Jobs |-> IF j \in JobsOf(e) THEN "QUEUED" ELSE jobStatus[j]]
        /\ \A j \in JobsOf(e) : jobStatus[j] = "NONE"
    BY <1>0, <1>2 DEF CreateEvent, InsertEventWithJobs, JobsOf, OneFlight, RowsTogether
  <2>2. RowsTogether'
    BY <1>0, <1>2, <2>1 DEF CreateEvent, InsertEventWithJobs, OneFlight, RowsTogether, JobsOf
  <2>3. \A k \in Jobs : OnePlace(k)' /\ StatusTells(k)'
    BY <1>1, <1>2, <2>1 DEF CreateEvent
  <2> QED BY <2>2, <2>3 DEF OneFlight
<1>3. ASSUME NEW e \in Events, RerunFailed(r, e) PROVE OneFlight'
  <2>1. /\ FailedJobs(e) \in SUBSET Jobs /\ todo[r] = {} /\ todo' = [todo EXCEPT ![r] = FailedJobs(e)]
        /\ jobStatus' = [j \in Jobs |-> IF j \in FailedJobs(e) THEN "QUEUED" ELSE jobStatus[j]]
        /\ \A j \in FailedJobs(e) : jobStatus[j] \notin PendingJob /\ jobStatus[j] # "NONE"
        /\ event' = event
    BY <1>0, <1>3 DEF RerunFailed, ResetFailed, FailedJobs, JobsOf
  <2>2. RowsTogether'
    BY <1>0, <2>1 DEF OneFlight, RowsTogether, JobsOf
  <2>3. \A k \in Jobs : OnePlace(k)' /\ StatusTells(k)'
    BY <1>1, <1>3, <2>1 DEF RerunFailed
  <2> QED BY <2>2, <2>3 DEF OneFlight
<1>4. CASE MarkRequest(r) \/ Respond(r) \/ \E j \in Jobs : PublishLost(r, j)
  <2>1. UNCHANGED <<jobStatus, ready, pc, cur>> /\ \A s \in Requests : todo'[s] \subseteq todo[s]
    BY <1>0, <1>4 DEF MarkRequest, Respond, PublishLost, EndRequest, UpdateEventStatus, storeVars,
                      brokerVars, localVars
  <2>2. event' = event \/ \E f : UpdateEventStatus(f, "RUNNING")
    BY <1>4 DEF MarkRequest, Respond, PublishLost, storeVars
  <2>3. \A e \in Events : event'[e].status = "NONE" => event[e].status = "NONE"
    BY <1>0, <2>2 DEF UpdateEventStatus, EventRow
  <2>4. \A k \in Jobs : OnePlace(k)' /\ StatusTells(k)'
    BY <2>1, FlightKept DEF OneFlight, InHand
  <2> QED BY <2>1, <2>3, <2>4 DEF OneFlight, RowsTogether, JobsOf
<1>5. ASSUME NEW j \in Jobs, PublishJob(r, j) PROVE OneFlight'
  <2>1. NewMessage(j) \in Message /\ NewMessage(j).job = j
    BY BrokerAssumption DEF NewMessage, Message
  <2>2. /\ UNCHANGED <<jobStatus, event, pc, cur>> /\ j \in todo[r]
        /\ todo' = [todo EXCEPT ![r] = todo[r] \ {j}]
        /\ ready' = [ready EXCEPT ![NewMessage(j)] = ready[NewMessage(j)] + 1]
    BY <1>5 DEF PublishJob, Publish, storeVars, localVars
  <2>3. ASSUME NEW k \in Jobs PROVE OnePlace(k)' /\ StatusTells(k)'
    <3>1. CASE k = j
      <4>1. Queues(j) /\ ~ Waits(j) /\ ~ Handled(j) /\ jobStatus[j] = "QUEUED"
        BY <2>2 DEF OneFlight, OnePlace, StatusTells, Queues
      <4>2. ~ Queues(j)' /\ ~ Handled(j)'
        BY <1>0, <2>2, <4>1 DEF OneFlight, OnePlace, Queues, Handled, InHand
      <4>3. \A m \in Message : m.job = j => ready'[m] = IF m = NewMessage(j) THEN 1 ELSE 0
        BY <1>0, <2>1, <2>2, <4>1 DEF Waits
      <4> QED BY <2>1, <2>2, <3>1, <4>1, <4>2, <4>3, OnlyWaits
    <3>2. CASE k # j
      <4>1. \A m \in Message : m.job = k => ready'[m] = ready[m]
        BY <1>0, <2>1, <2>2, <3>2
      <4>2. \A s \in Requests : k \in todo'[s] => k \in todo[s]
        BY <1>0, <2>2
      <4> QED BY <2>2, <4>1, <4>2, FlightKept DEF OneFlight, InHand
    <3> QED BY <3>1, <3>2
  <2> QED BY <2>2, <2>3 DEF OneFlight, RowsTogether
<1> QED BY <1>2, <1>3, <1>4, <1>5 DEF OrderlyRequest

LEMMA ConsumerKeepsFlight ==
    ASSUME FlightInv, OneFlight, NEW c \in Consumers, OrderlyConsumer(c)
    PROVE  OneFlight'
<1>0. /\ jobStatus \in [Jobs -> JobStatus \cup {"NONE"}]
      /\ event \in [Events -> EventRow]
      /\ ready \in [Message -> Nat]
      /\ pc \in [Consumers -> ConsumerPC]
      /\ cur \in [Consumers -> Message \cup {None}]
      /\ EventOf \in [Jobs -> Events]
  BY JobsAssumption DEF FlightInv, Inv, TypeOK, StoreTypeOK, ConsumerTypeOK, BrokerTypeOK
<1>b. ASSUME pc[c] \in Holding PROVE cur[c] \in Message /\ cur[c].job \in Jobs
  <2>1. cur[c] # None
    BY <1>b DEF Holding, FlightInv, Inv, BusyHolds
  <2> QED BY <1>0, <2>1 DEF Message
<1>c. UNCHANGED todo
  BY DEF OrderlyConsumer, HandlerStep, StartJob, MarkEventRunning, Execute, SaveResult, CountJobs,
         CountPending, SaveRollup, Deliver, Ack, requestVars
<1> USE DEF Holding, ConsumerPC
\* The row of an event stays where it is.
<1>d. ASSUME UNCHANGED jobStatus PROVE RowsTogether'
  <2>1. \/ event' = event
        \/ \E f : UpdateEventStatus(f, "RUNNING")
        \/ pc[c] = "write" /\ \E f : WriteRollup(f, tally[c], status[c])
    BY DEF OrderlyConsumer, HandlerStep, StartJob, UpdateJobRunning, MarkEventRunning, Execute,
       SaveResult, UpdateJobResult, CountJobs, CountPending, SaveRollup, Deliver, Ack, storeVars
  <2>2. pc[c] = "write" => status[c] # "NONE"
    BY DEF FlightInv, Inv, StatusFits
  <2>3. \A e \in Events : event'[e].status = "NONE" => event[e].status = "NONE"
    BY <1>0, <2>1, <2>2 DEF UpdateEventStatus, WriteRollup, EventRow
  <2> QED BY <1>d, <2>3 DEF OneFlight, RowsTogether, JobsOf
\* Steps that take no message.
<1>1. ASSUME pc[c] \in Holding, UNCHANGED <<ready, cur>>, NEW l, pc' = [pc EXCEPT ![c] = l],
             \/ jobStatus' = jobStatus /\ RowsTogether'
             \/ \E s \in JobStatus : event' = event /\ jobStatus' = [jobStatus EXCEPT ![cur[c].job] = s],
             LET j == cur[c].job IN
               InHand(c, j)' => InHand(c, j) /\ jobStatus'[j] = "RUNNING" /\ l # "load",
             InHand(c, cur[c].job) \/ jobStatus' = jobStatus
      PROVE  OneFlight'
  <2>1. PICK j \in Jobs : j = cur[c].job
    BY <1>1, <1>b
  <2>2. ASSUME NEW k \in Jobs \ {j} PROVE OnePlace(k)' /\ StatusTells(k)'
    <3>1. jobStatus'[k] = jobStatus[k]
      BY <1>0, <1>1, <2>1
    <3>2. \A d \in Consumers : InHand(d, k)' => InHand(d, k) /\ (pc'[d] = "load" <=> pc[d] = "load")
      BY <1>0, <1>1, <2>1 DEF InHand
    <3> QED BY <1>1, <1>c, <3>1, <3>2, FlightKept DEF OneFlight
  <2>3. ASSUME InHand(c, j) PROVE OnePlace(j)' /\ StatusTells(j)'
    <3>1. ~ Queues(j)' /\ ~ Waits(j)'
      BY <1>1, <1>c, <2>1, <2>3 DEF OneFlight, OnePlace, Handled, Queues, Waits
    <3>2. \A d \in Consumers \ {c} : ~ InHand(d, j)'
      BY <1>0, <1>1, <2>1, <2>3 DEF OneFlight, OnePlace, InHand
    <3>3. InHand(c, j)' => jobStatus'[j] = IF pc'[c] = "load" THEN "QUEUED" ELSE "RUNNING"
      BY <1>0, <1>1, <2>1
    <3> QED BY <2>1, <3>1, <3>2, <3>3, OnlyFlies
  <2>4. ASSUME ~ InHand(c, j) PROVE OnePlace(j)' /\ StatusTells(j)'
    <3>1. \A d \in Consumers : InHand(d, j)' => InHand(d, j) /\ (pc'[d] = "load" <=> pc[d] = "load")
      BY <1>0, <1>1, <2>4 DEF InHand
    <3> QED BY <1>1, <1>c, <2>1, <2>4, <3>1, FlightKept DEF OneFlight
  <2>5. RowsTogether'
    <3>1. ASSUME NEW s \in JobStatus, event' = event, jobStatus' = [jobStatus EXCEPT ![j] = s],
                 InHand(c, j)
          PROVE  RowsTogether'
      <4>1. jobStatus[j] # "NONE"
        BY <2>1, <3>1 DEF OneFlight, StatusTells
      <4>2. \A k \in Jobs : jobStatus[k] = "NONE" => jobStatus'[k] = "NONE"
        BY <1>0, <3>1, <4>1
      <4>3. \A e \in Events : event[e].status = "NONE" => \A k \in JobsOf(e) : jobStatus'[k] = "NONE"
        BY <4>2 DEF OneFlight, RowsTogether, JobsOf
      <4> QED BY <3>1, <4>3 DEF RowsTogether, JobsOf
    <3> QED BY <1>1, <1>d, <2>1, <3>1
  <2>6. \A k \in Jobs : OnePlace(k)' /\ StatusTells(k)'
    BY <2>2, <2>3, <2>4
  <2> QED BY <2>5, <2>6 DEF OneFlight
<1>2. CASE StartJob(c)
  <2>1. /\ pc[c] = "load" /\ UNCHANGED <<ready, cur>> /\ pc' = [pc EXCEPT ![c] = "mark"]
        /\ jobStatus' = [jobStatus EXCEPT ![cur[c].job] = "RUNNING"] /\ event' = event
    BY <1>2 DEF StartJob, UpdateJobRunning, Goto, brokerVars, localVars
  <2>2. jobStatus'[cur[c].job] = "RUNNING" /\ InHand(c, cur[c].job)
    BY <1>0, <1>b, <2>1 DEF InHand
  <2> QED BY <1>1, <2>1, <2>2
<1>3. CASE MarkEventRunning(c) \/ \E s \in TerminalJob : Execute(c, s)
  <2>1. PICK l \in {"exec", "result"} :
           /\ pc[c] \in {"mark", "exec"} /\ UNCHANGED <<ready, cur, jobStatus>>
           /\ pc' = [pc EXCEPT ![c] = l]
    BY <1>3 DEF MarkEventRunning, Execute, Goto, brokerVars, localVars, storeVars, UpdateEventStatus
  <2>2. InHand(c, cur[c].job) /\ jobStatus[cur[c].job] = "RUNNING"
    BY <1>b, <2>1 DEF InHand, OneFlight, StatusTells
  <2> QED BY <1>1, <1>d, <2>1, <2>2
<1>4. CASE SaveResult(c)
  <2>1. PICK s \in TerminalJob :
           /\ pc[c] = "result" /\ UNCHANGED <<ready, cur>> /\ pc' = [pc EXCEPT ![c] = "count"]
           /\ jobStatus' = [jobStatus EXCEPT ![cur[c].job] = s] /\ event' = event
    BY <1>4 DEF SaveResult, UpdateJobResult, Goto, brokerVars, FlightInv, Inv, StatusFits
  <2>2. InHand(c, cur[c].job) /\ ~ InHand(c, cur[c].job)'
    BY <1>0, <2>1 DEF InHand
  <2> QED BY <1>1, <2>1, <2>2
<1>5. CASE CountJobs(c) \/ CountPending(c) \/ SaveRollup(c)
  <2>1. PICK l \in {"pending", "write", "ack"} :
           /\ pc[c] \in {"count", "pending", "write"} /\ UNCHANGED <<ready, cur, jobStatus>>
           /\ pc' = [pc EXCEPT ![c] = l]
    BY <1>5 DEF CountJobs, CountPending, SaveRollup, WriteRollup, Goto, brokerVars, storeVars
  <2>2. ~ InHand(c, cur[c].job)'
    BY <1>0, <2>1 DEF InHand
  <2> QED BY <1>1, <1>d, <2>1, <2>2
<1>6. CASE Ack(c)
  <2>1. /\ pc[c] = "ack" /\ UNCHANGED <<ready, jobStatus>>
        /\ cur' = [cur EXCEPT ![c] = None] /\ pc' = [pc EXCEPT ![c] = "idle"]
    BY <1>6 DEF Ack, AckBy, Goto, storeVars
  <2>2. \A k, d : d \in Consumers => (InHand(d, k)' => InHand(d, k) /\ pc'[d] = pc[d])
    BY <1>0, <2>1 DEF InHand
  <2>3. \A k \in Jobs : OnePlace(k)' /\ StatusTells(k)'
    BY <1>c, <2>1, <2>2, FlightKept DEF OneFlight
  <2> QED BY <1>d, <2>1, <2>3 DEF OneFlight
<1>7. ASSUME NEW m \in Message, Deliver(c, m) PROVE OneFlight'
  <2> DEFINE j == m.job
  <2>1. /\ pc[c] = "idle" /\ ready[m] > 0 /\ UNCHANGED jobStatus
        /\ ready' = [ready EXCEPT ![m] = ready[m] - 1]
        /\ cur' = [cur EXCEPT ![c] = m] /\ pc' = [pc EXCEPT ![c] = "load"]
    BY <1>7 DEF Deliver, DeliverTo, Goto, storeVars
  <2>2. j \in Jobs
    BY DEF Message
  <2>3. ASSUME NEW k \in Jobs \ {j} PROVE OnePlace(k)' /\ StatusTells(k)'
    <3>1. \A n \in Message : n.job = k => ready'[n] = ready[n]
      BY <1>0, <2>1
    <3>2. \A d \in Consumers : InHand(d, k)' => InHand(d, k) /\ pc'[d] = pc[d]
      BY <1>0, <2>1 DEF InHand
    <3> QED BY <1>c, <2>1, <3>1, <3>2, FlightKept DEF OneFlight
  <2>4. OnePlace(j)' /\ StatusTells(j)'
    <3>1. Waits(j) /\ ~ Queues(j) /\ ~ Handled(j) /\ jobStatus[j] = "QUEUED"
      BY <2>1, <2>2 DEF OneFlight, OnePlace, StatusTells, Waits
    <3>2. ~ Waits(j)'
      BY <1>0, <2>1, <2>2 DEF OneFlight, OnePlace, Waits
    <3>3. ~ Queues(j)'
      BY <1>c, <3>1 DEF Queues
    <3>4. (\A d \in Consumers \ {c} : ~ InHand(d, j)') /\ pc'[c] = "load"
      BY <1>0, <2>1, <3>1 DEF Handled, InHand
    <3> QED BY <2>1, <2>2, <3>1, <3>2, <3>3, <3>4, OnlyFlies
  <2>5. \A k \in Jobs : OnePlace(k)' /\ StatusTells(k)'
    BY <2>3, <2>4
  <2> QED BY <1>d, <2>1, <2>5 DEF OneFlight
<1> QED BY <1>2, <1>3, <1>4, <1>5, <1>6, <1>7 DEF OrderlyConsumer, HandlerStep

LEMMA StepKeepsFlight ==
    ASSUME FlightInv, [Next]_vars, Orderly' PROVE OneFlight'
<1>1. TypeOK /\ OneFlight
  BY OrderlyBefore DEF FlightInv, Inv
<1>2. ASSUME UNCHANGED <<jobStatus, event, ready, pc, cur>>,
             \A r \in Requests : todo'[r] \subseteq todo[r]
      PROVE  OneFlight'
  <2>1. \A k \in Jobs : OnePlace(k)' /\ StatusTells(k)'
    BY <1>1, <1>2, FlightKept DEF OneFlight, InHand
  <2> QED BY <1>1, <1>2, <2>1 DEF OneFlight, RowsTogether
<1>3. CASE APICrash \/ UNCHANGED vars
  BY <1>2, <1>3 DEF APICrash, vars, storeVars, brokerVars, localVars, requestVars
<1> QED BY <1>1, <1>3, OrderlySteps, RequestKeepsFlight, ConsumerKeepsFlight

LEMMA InitFlight == Init => Awake /\ OneFlight
<1> SUFFICES ASSUME Init PROVE Awake /\ OneFlight
  OBVIOUS
<1>1. Awake /\ RowsTogether
  BY DEF Init, StoreInit, Awake, RowsTogether, JobsOf
<1>2. \A j \in Jobs : OnePlace(j) /\ StatusTells(j)
  BY DEF Init, BrokerInit, OnePlace, StatusTells, Queues, Waits, Handled, InHand
<1> QED BY <1>1, <1>2 DEF OneFlight

LEMMA StepKeepsFlightInv == FlightInv /\ [Next]_vars => FlightInv'
BY StepKeepsInv, StepKeepsIdleRequests, StepKeepsAwake, StepKeepsFlight DEF FlightInv

LEMMA FlightInvariant == Spec => []FlightInv
<1>1. Init => FlightInv
  BY InitLossInv, InitFlight DEF LossInv, FlightInv
<1> QED BY <1>1, StepKeepsFlightInv, PTL DEF Spec

-----------------------------------------------------------------------------
(* One copy of a message, with faults of one kind.                         *)

\* Nothing has made Consume publish a copy yet,
NoCopies == spent["error"] = 0 /\ spent["stop"] = 0

\* or no worker has died with a message that the broker would take back.
OneKind == spent["conn"] = 0 /\ spent["rerun"] = 0 /\ (spent["crash"] = 0 \/ NoCopies)

NeverRetries ==
    NoCopies => /\ \A w \in Workers : proc[w] # "stopping"
                /\ \A c \in Consumers : pc[c] # "retry"

\* A consumer has a message of the job that is still of use: one that is about
\* to be acknowledged may have been copied already.
Holds(c, j) == unacked[c] # None /\ unacked[c].job = j /\ (pc[c] # "ack" \/ NoCopies)
Held(j)     == \E c \in Consumers : Holds(c, j)

OneCopy(j) ==
    /\ \A m, n \in Message : m.job = j /\ ready[m] > 0 /\ n.job = j /\ ready[n] > 0
                                => m = n /\ ready[m] = 1
    /\ \A c, d \in Consumers : Holds(c, j) /\ Holds(d, j) => c = d
    /\ ~ (Waits(j) /\ Held(j))

CopyInv == AckInv /\ NeverRetries /\ (OneKind => \A j \in Jobs : OneCopy(j))

LEMMA OneKindBefore ==
    ASSUME TypeOK, [Next]_vars
    PROVE  /\ OneKind' => OneKind /\ Quiet'
           /\ NoCopies' => NoCopies
           /\ NoCopies' => ~ Spend("error") /\ ~ Spend("stop")
           /\ spent'["crash"] = 0 => ~ Spend("crash")
BY SpentBefore DEF OneKind, NoCopies, Quiet, FaultKind

LEMMA StepKeepsNeverRetries ==
    ASSUME AckInv, NeverRetries, [Next]_vars PROVE NeverRetries'
<1> SUFFICES ASSUME NoCopies'
             PROVE  /\ \A w \in Workers : proc'[w] # "stopping"
                    /\ \A c \in Consumers : pc'[c] # "retry"
  BY DEF NeverRetries
<1> USE DEF workerVars
<1>0. /\ proc \in [Workers -> {"up", "stopping", "down"}]
      /\ pc \in [Consumers -> ConsumerPC]
      /\ \A w \in Workers : proc[w] # "stopping"
      /\ \A c \in Consumers : pc[c] # "retry"
      /\ ~ Spend("error") /\ ~ Spend("stop")
  BY OneKindBefore DEF AckInv, Inv, TypeOK, WorkerTypeOK, ConsumerTypeOK, NeverRetries
<1>1. ASSUME NEW r \in Requests, RequestNext(r) PROVE UNCHANGED <<proc, pc>>
  BY <1>1 DEF RequestNext, RequestStep, CreateEvent, RerunFailed, PublishJob, PublishLost,
              MarkRequest, Respond, AbandonRequest
<1>2. ASSUME NEW c \in Consumers, ConsumerNext(c)
      PROVE  UNCHANGED proc /\ \A d \in Consumers : pc'[d] # "retry"
  <2>1. ~ HandlerError(c)
    BY <1>0, DispatchAssumption DEF HandlerError, HandlerFails, Stopping
  <2> QED
    BY <1>0, <1>2, <2>1 DEF ConsumerNext, HandlerStep, ConsumeStep, StartJob, MarkEventRunning,
       Execute, SaveResult, CountJobs, CountPending, SaveRollup, Deliver, Republish, DeadLetter, Ack,
       AnswerClosed, Exit, BrokerRequeue, Goto, ConsumerPC
<1>3. ASSUME NEW w \in Workers, WorkerNext(w)
      PROVE  /\ \A x \in Workers : proc'[x] # "stopping"
             /\ \A d \in Consumers : pc'[d] # "retry"
  BY <1>0, <1>3 DEF WorkerNext, Shutdown, ProcessExit, Crash, ConnLost, Restart
<1>4. CASE APICrash \/ UNCHANGED vars
  BY <1>0, <1>4 DEF APICrash, vars
<1> QED BY <1>0, <1>1, <1>2, <1>3, <1>4 DEF Next

\* A job that no message or holder joins.
LEMMA CopyKept ==
    ASSUME NEW k \in Jobs, OneCopy(k),
           \A m \in Message : m.job = k => ready'[m] = ready[m],
           \A c \in Consumers : Holds(c, k)' => Holds(c, k)
    PROVE  OneCopy(k)'
<1>1. (Waits(k)' => Waits(k)) /\ (Held(k)' => Held(k))
  BY DEF Waits, Held
<1> QED BY <1>1 DEF OneCopy

\* A job whose only message waits, or is held.
LEMMA OnlyReady ==
    ASSUME NEW k \in Jobs, NEW n \in Message, ~ Held(k)',
           \A m \in Message : m.job = k => ready'[m] = IF m = n THEN 1 ELSE 0
    PROVE  OneCopy(k)'
BY DEF OneCopy, Held

LEMMA OnlyHeld ==
    ASSUME NEW k \in Jobs, NEW c \in Consumers, ~ Waits(k)',
           \A d \in Consumers \ {c} : ~ Holds(d, k)'
    PROVE  OneCopy(k)'
BY DEF OneCopy, Waits

LEMMA RequestKeepsCopies ==
    ASSUME CopyInv, OneKind, NoCopies' => NoCopies, NEW r \in Requests, RequestNext(r)
    PROVE  \A k \in Jobs : OneCopy(k)'
<1> SUFFICES ASSUME NEW k \in Jobs PROVE OneCopy(k)'
  OBVIOUS
<1>0. ready \in [Message -> Nat] /\ OneCopy(k)
  BY DEF CopyInv, AckInv, Inv, TypeOK, BrokerTypeOK
<1>1. UNCHANGED <<unacked, pc>>
  BY DEF RequestNext, RequestStep, CreateEvent, RerunFailed, PublishJob, Publish, PublishLost,
         MarkRequest, Respond, AbandonRequest, brokerVars
<1>2. \A c \in Consumers : Holds(c, k)' => Holds(c, k)
  BY <1>1 DEF Holds
<1>3. ASSUME NEW j \in Jobs, PublishJob(r, j) PROVE OneCopy(k)'
  <2>1. NewMessage(j) \in Message /\ NewMessage(j).job = j
    BY BrokerAssumption DEF NewMessage, Message
  <2>2. j \in todo[r] /\ ready' = [ready EXCEPT ![NewMessage(j)] = ready[NewMessage(j)] + 1]
    BY <1>3 DEF PublishJob, Publish
  <2>3. CASE k = j
    <3>1. ~ Outstanding(j)
      BY <2>2 DEF CopyInv, AckInv, OnceInv, OneKind, Quiet, PublishedOnce
    <3>2. \A m \in Message : m.job = k => ready'[m] = IF m = NewMessage(j) THEN 1 ELSE 0
      BY <1>0, <2>1, <2>2, <2>3, <3>1 DEF Outstanding
    <3>3. ~ Held(k)'
      BY <1>2, <2>3, <3>1 DEF Held, Holds, Outstanding
    <3> QED BY <2>1, <3>2, <3>3, OnlyReady
  <2>4. CASE k # j
    <3>1. \A m \in Message : m.job = k => ready'[m] = ready[m]
      BY <1>0, <2>1, <2>2, <2>4
    <3> QED BY <1>0, <1>2, <3>1, CopyKept
  <2> QED BY <2>3, <2>4
<1>4. CASE ready' = ready
  BY <1>0, <1>2, <1>4, CopyKept
<1> QED
  BY <1>3, <1>4 DEF RequestNext, RequestStep, CreateEvent, RerunFailed, PublishLost, MarkRequest,
     Respond, AbandonRequest, brokerVars

LEMMA ConsumerKeepsCopies ==
    ASSUME CopyInv, OneKind, NoCopies' => NoCopies, NEW c \in Consumers, ConsumerNext(c)
    PROVE  \A k \in Jobs : OneCopy(k)'
<1> SUFFICES ASSUME NEW k \in Jobs PROVE OneCopy(k)'
  OBVIOUS
<1>0. /\ ready \in [Message -> Nat] /\ OneCopy(k)
      /\ unacked \in [Consumers -> Message \cup {None}]
      /\ pc \in [Consumers -> ConsumerPC]
  BY DEF CopyInv, AckInv, Inv, TypeOK, BrokerTypeOK, ConsumerTypeOK
<1>b. pc[c] \in Holding => /\ ChannelOpen(c) /\ unacked[c] = cur[c] /\ cur[c] \in Message
                           /\ cur[c] # None
  BY <1>0 DEF CopyInv, AckInv, Inv, Attached, BusyHolds, Connected, OneKind, ChannelOpen, Holding
<1> USE DEF Holding, ConsumerPC
<1>1. ASSUME UNCHANGED <<ready, unacked>>, pc[c] # "ack", UNCHANGED pc \/ \E l : pc' = [pc EXCEPT ![c] = l]
      PROVE  OneCopy(k)'
  <2>1. \A d \in Consumers : Holds(d, k)' => Holds(d, k)
    BY <1>0, <1>1 DEF Holds
  <2> QED BY <1>0, <1>1, <2>1, CopyKept
<1>2. CASE HandlerStep(c) \/ HandlerError(c) \/ AnswerClosed(c) \/ Exit(c)
  <2>1. pc[c] # "ack"
    BY <1>b, <1>2 DEF HandlerStep, StartJob, MarkEventRunning, Execute, SaveResult, CountJobs,
       CountPending, SaveRollup, HandlerError, HandlerFails, AnswerClosed, Exit
  <2>2. UNCHANGED <<ready, unacked>> /\ \E l : pc' = [pc EXCEPT ![c] = l]
    BY <1>2 DEF HandlerStep, StartJob, MarkEventRunning, Execute, SaveResult, CountJobs,
       CountPending, SaveRollup, HandlerError, HandlerFails, AnswerClosed, Exit, Goto, brokerVars
  <2> QED BY <1>1, <2>1, <2>2
<1>3. ASSUME NEW m \in Message, Deliver(c, m) PROVE OneCopy(k)'
  <2>1. /\ ready[m] > 0 /\ unacked[c] = None /\ pc' = [pc EXCEPT ![c] = "load"]
        /\ ready' = [ready EXCEPT ![m] = ready[m] - 1] /\ unacked' = [unacked EXCEPT ![c] = m]
    BY <1>3 DEF Deliver, DeliverTo, Goto
  <2>2. \A d \in Consumers \ {c} : Holds(d, k)' => Holds(d, k)
    BY <1>0, <2>1 DEF Holds
  <2>3. CASE k = m.job
    <3>1. Waits(k) /\ ~ Held(k)
      BY <1>0, <2>1, <2>3 DEF OneCopy, Waits
    <3>2. ~ Waits(k)'
      BY <1>0, <2>1, <2>3 DEF OneCopy, Waits
    <3> QED BY <2>2, <3>1, <3>2, OnlyHeld DEF Held
  <2>4. CASE k # m.job
    <3>1. \A n \in Message : n.job = k => ready'[n] = ready[n]
      BY <1>0, <2>1, <2>4
    <3>2. ~ Holds(c, k)'
      BY <1>0, <2>1, <2>4 DEF Holds
    <3> QED BY <1>0, <2>2, <3>1, <3>2, CopyKept
  <2> QED BY <2>3, <2>4
\* The original is of no use any more.
<1>4. CASE Republish(c)
  <2> DEFINE again == [cur[c] EXCEPT !.retry = @ + 1]
  <2>0. pc[c] = "retry" /\ cur[c] \in Message /\ unacked[c] = cur[c] /\ cur[c] # None
    BY <1>4, <1>b DEF Republish
  <2>1. again \in Message /\ again.job = cur[c].job
    BY <1>4, <2>0, BrokerAssumption DEF Republish, Message
  <2>2. /\ unacked' = unacked /\ pc' = [pc EXCEPT ![c] = "ack"]
        /\ ready' = [ready EXCEPT ![again] = ready[again] + 1]
    BY <1>4 DEF Republish, Publish, Goto
  <2> HIDE DEF again
  <2>3. ~ NoCopies'
    BY <2>0 DEF CopyInv, NeverRetries
  <2>4. ~ Holds(c, k)' /\ \A d \in Consumers \ {c} : Holds(d, k)' => Holds(d, k)
    BY <1>0, <2>2, <2>3 DEF Holds
  <2>5. CASE k = cur[c].job
    <3>1. Holds(c, k)
      BY <2>0, <2>5 DEF Holds
    <3>2. ~ Held(k)' /\ ~ Waits(k)
      BY <1>0, <2>4, <3>1 DEF OneCopy, Held
    <3>3. \A m \in Message : m.job = k => ready'[m] = IF m = again THEN 1 ELSE 0
      BY <1>0, <2>1, <2>2, <2>5, <3>2 DEF Waits
    <3> QED BY <2>1, <3>2, <3>3, OnlyReady
  <2>6. CASE k # cur[c].job
    <3>1. \A m \in Message : m.job = k => ready'[m] = ready[m]
      BY <1>0, <2>1, <2>2, <2>6
    <3> QED BY <1>0, <2>4, <3>1, CopyKept
  <2> QED BY <2>5, <2>6
<1>5. CASE Ack(c) \/ DeadLetter(c)
  <2>1. /\ ready' = ready /\ unacked' = [unacked EXCEPT ![c] = None]
        /\ pc' = [pc EXCEPT ![c] = "idle"]
    BY <1>5 DEF Ack, AckBy, DeadLetter, NackBy, Goto
  <2>2. \A d \in Consumers : Holds(d, k)' => Holds(d, k)
    BY <1>0, <2>1 DEF Holds
  <2> QED BY <1>0, <2>1, <2>2, CopyKept
\* Only the message of a dead process comes back.
<1>6. CASE BrokerRequeue(c)
  <2> DEFINE back == unacked[c]
  <2>1. back \in Message /\ back # None /\ pc[c] \notin Holding
    BY <1>0, <1>b, <1>6 DEF BrokerRequeue, RequeueFrom
  <2>2. /\ pc' = pc /\ unacked' = [unacked EXCEPT ![c] = None]
        /\ ready' = [ready EXCEPT ![back] = ready[back] + 1]
    BY <1>6 DEF BrokerRequeue, RequeueFrom
  <2>3. ~ Holds(c, k)' /\ \A d \in Consumers \ {c} : Holds(d, k)' => Holds(d, k)
    BY <1>0, <2>2 DEF Holds
  <2>4. k = back.job => Holds(c, k)
    BY <2>1 DEF Holds
  <2> HIDE DEF back
  <2>5. CASE k = back.job
    <3>1. ~ Held(k)' /\ ~ Waits(k)
      BY <1>0, <2>3, <2>4, <2>5 DEF OneCopy, Held
    <3>2. \A m \in Message : m.job = k => ready'[m] = IF m = back THEN 1 ELSE 0
      BY <1>0, <2>1, <2>2, <2>5, <3>1 DEF Waits
    <3> QED BY <2>1, <3>1, <3>2, OnlyReady
  <2>6. CASE k # back.job
    <3>1. \A m \in Message : m.job = k => ready'[m] = ready[m]
      BY <1>0, <2>1, <2>2, <2>6
    <3> QED BY <1>0, <2>3, <3>1, CopyKept
  <2> QED BY <2>5, <2>6
<1> QED BY <1>2, <1>3, <1>4, <1>5, <1>6 DEF ConsumerNext, ConsumeStep

LEMMA WorkerKeepsCopies ==
    ASSUME CopyInv, OneKind, OneKind', NoCopies' => NoCopies,
           spent'["crash"] = 0 => ~ Spend("crash"), NEW w \in Workers, WorkerNext(w)
    PROVE  \A k \in Jobs : OneCopy(k)'
<1> SUFFICES ASSUME NEW k \in Jobs PROVE OneCopy(k)'
  OBVIOUS
<1>0. OneCopy(k) /\ UNCHANGED <<ready, unacked>>
  BY DEF CopyInv, WorkerNext, Shutdown, ProcessExit, Crash, ConnLost, Restart, brokerVars
<1>1. ASSUME NEW c \in Consumers, Holds(c, k)' PROVE Holds(c, k)
  <2>1. CASE Crash(w)
    BY <1>0, <1>1, <2>1 DEF Crash, OneKind, Holds
  <2>2. CASE ~ Crash(w)
    <3>1. pc'[c] = pc[c] \/ pc'[c] = "idle"
      BY <2>2 DEF WorkerNext, Shutdown, ProcessExit, ConnLost, Restart
    <3>2. CASE pc'[c] = pc[c]
      BY <1>0, <1>1, <3>2 DEF Holds
    <3>3. CASE pc'[c] # pc[c]
      BY <1>0, <1>1, <2>2, <3>3 DEF WorkerNext, Shutdown, ProcessExit, ConnLost, Restart, ConsumersOf, Holds
    <3> QED BY <3>2, <3>3
  <2> QED BY <2>1, <2>2
<1> QED BY <1>0, <1>1, CopyKept

LEMMA StepKeepsCopyInv == CopyInv /\ [Next]_vars => CopyInv'
<1> SUFFICES ASSUME CopyInv, [Next]_vars PROVE CopyInv'
  OBVIOUS
<1>1. AckInv' /\ NeverRetries' /\ TypeOK
  BY StepKeepsInv, StepKeepsIdleRequests, StepKeepsConnected, StepKeepsOnce, StepKeepsNeverRetries
     DEF CopyInv, AckInv, Inv
<1>2. ASSUME OneKind' PROVE \A j \in Jobs : OneCopy(j)'
  <2>1. OneKind /\ (NoCopies' => NoCopies) /\ (spent'["crash"] = 0 => ~ Spend("crash"))
    BY <1>1, <1>2, OneKindBefore
  <2>2. ASSUME UNCHANGED <<brokerVars, pc>>, NEW j \in Jobs PROVE OneCopy(j)'
    <3>1. \A c \in Consumers : Holds(c, j)' => Holds(c, j)
      BY <2>1, <2>2 DEF Holds, brokerVars
    <3> QED BY <2>1, <2>2, <3>1, CopyKept DEF CopyInv, brokerVars
  <2>3. CASE APICrash \/ UNCHANGED vars
    BY <2>2, <2>3 DEF APICrash, vars
  <2> QED
    BY <1>2, <2>1, <2>3, RequestKeepsCopies, ConsumerKeepsCopies, WorkerKeepsCopies DEF Next
<1> QED BY <1>1, <1>2 DEF CopyInv

LEMMA CopyInvariant == Spec => []CopyInv
<1>1. Init => CopyInv
  <2> SUFFICES ASSUME Init PROVE CopyInv
    OBVIOUS
  <2>1. AckInv
    BY InitAckInv
  <2>2. NeverRetries /\ \A j \in Jobs : OneCopy(j)
    BY DEF Init, BrokerInit, NeverRetries, OneCopy, Waits, Held, Holds
  <2> QED BY <2>1, <2>2 DEF CopyInv
<1> QED BY <1>1, StepKeepsCopyInv, PTL DEF Spec

-----------------------------------------------------------------------------
(* The attempts at a job follow each other.                                *)

Apart(j) == \A c, d \in Consumers : InHand(c, j) /\ InHand(d, j) => c = d

\* There is one at a time, of a job that is there, and none of a job that a
\* request is about to queue.
OneAtATime ==
    /\ RowsTogether
    /\ \A j \in Jobs : /\ Apart(j)
                       /\ Waits(j) => ~ Handled(j) /\ jobStatus[j] # "NONE"
                       /\ jobStatus[j] = "NONE" => ~ Handled(j)
                       /\ Orderly /\ jobStatus[j] = "FAILED" => ~ Handled(j)

LEMMA KindOfCause == OneCause => Orderly \/ OneKind
BY DEF OneCause, Orderly, OneKind, NoCopies

LEMMA AttemptsOneAtATime == CopyInv /\ FlightInv => (OneCause => OneAtATime)
<1> SUFFICES ASSUME CopyInv, FlightInv, OneCause PROVE OneAtATime
  OBVIOUS
\* Only re-runs: the next run of a job is in one place.
<1>1. CASE Orderly
  <2>1. RowsTogether /\ \A j \in Jobs : OnePlace(j) /\ StatusTells(j)
    BY <1>1 DEF FlightInv, OneFlight
  <2>2. ASSUME NEW j \in Jobs PROVE Apart(j) /\ (Waits(j) => ~ Handled(j))
    BY <2>1 DEF OnePlace, Apart
  <2>3. ASSUME NEW j \in Jobs
        PROVE  /\ Waits(j) => jobStatus[j] # "NONE"
               /\ jobStatus[j] \in {"NONE", "FAILED"} => ~ Handled(j)
    BY <2>1 DEF StatusTells, Handled
  <2> QED BY <2>1, <2>2, <2>3 DEF OneAtATime
\* Only crashes, or only errors and signals: there is one copy of its message.
<1>2. CASE OneKind /\ ~ Orderly
  <2>1. /\ RowsTogether
        /\ \A j \in Jobs : OneCopy(j) /\ (jobStatus[j] = "NONE" => ~ Outstanding(j))
    BY <1>2 DEF CopyInv, AckInv, OnceInv, OneKind, Quiet, PublishedOnce
  <2>2. ASSUME NEW j \in Jobs, NEW c \in Consumers, InHand(c, j) PROVE Holds(c, j)
    <3>1. unacked[c] = cur[c] /\ cur[c] # None
      BY <1>2, <2>2 DEF InHand, CopyInv, AckInv, Inv, Attached, BusyHolds, Connected, OneKind,
                        ChannelOpen
    <3> QED BY <2>2, <3>1 DEF InHand, Holds
  <2>3. ASSUME NEW j \in Jobs
        PROVE  /\ Apart(j)
               /\ Waits(j) => ~ Handled(j) /\ jobStatus[j] # "NONE"
               /\ jobStatus[j] = "NONE" => ~ Handled(j)
    <3>1. Handled(j) => Held(j) /\ Outstanding(j)
      BY <2>2 DEF Handled, Held, Holds, Outstanding
    <3>2. Waits(j) => Outstanding(j)
      BY DEF Waits, Outstanding
    <3> QED BY <2>1, <2>2, <3>1, <3>2 DEF OneCopy, Apart
  <2> QED BY <1>2, <2>1, <2>3 DEF OneAtATime
<1> QED BY <1>1, <1>2, KindOfCause

\* As long as only one thing has multiplied messages - crashes of workers, or
\* failing statements and signals, or re-runs - no two consumers are between
\* UpdateJobRunning and UpdateJobResult of one job, for every number of
\* consumers, workers and jobs and however often it has happened.
THEOREM SingleFlightHolds == Spec => []SingleFlight
<1>1. CopyInv /\ FlightInv => SingleFlight
  <2> SUFFICES ASSUME FlightInv, OneAtATime, NEW c1 \in Consumers, NEW c2 \in Consumers,
                      cur[c1].job = cur[c2].job,
                      pc[c1] \in {"mark", "exec", "result"},
                      pc[c2] \in {"mark", "exec", "result"}
               PROVE  c1 = c2
    BY AttemptsOneAtATime DEF SingleFlight
  <2>1. cur[c1] \in Message
    BY DEF FlightInv, Inv, TypeOK, ConsumerTypeOK, BusyHolds
  <2>2. PICK j \in Jobs : cur[c1].job = j
    BY <2>1 DEF Message
  <2>3. InHand(c1, j) /\ InHand(c2, j)
    BY <2>2 DEF InHand
  <2> QED BY <2>3 DEF OneAtATime, Apart
<1> QED BY <1>1, CopyInvariant, FlightInvariant, PTL

\* Where the attempt at a job is, before and after a step.
LEMMA AtTells ==
    ASSUME NEW j \in Jobs, NEW c \in Consumers
    PROVE  /\ Apart(j) /\ InHand(c, j) =>
                 /\ At[j] = Point(pc[c])
                 /\ Verdict[j] = IF pc[c] = "result" THEN status[c] ELSE "NONE"
           /\ (Apart(j) /\ InHand(c, j) =>
                 /\ At[j] = Point(pc[c])
                 /\ Verdict[j] = IF pc[c] = "result" THEN status[c] ELSE "NONE")'
<1>1. ASSUME Apart(j), InHand(c, j)
      PROVE  At[j] = Point(pc[c]) /\ Verdict[j] = IF pc[c] = "result" THEN status[c] ELSE "NONE"
  <2>1. Handled(j) /\ Handler(j) = c
    BY <1>1 DEF Apart, Handled, Handler
  <2> QED BY <1>1, <2>1 DEF At, Verdict, Point, InHand
<1>2. ASSUME Apart(j)', InHand(c, j)'
      PROVE  /\ At'[j] = Point(pc'[c])
             /\ Verdict'[j] = IF pc'[c] = "result" THEN status'[c] ELSE "NONE"
  <2>1. Handled(j)' /\ Handler(j)' = c
    BY <1>2 DEF Apart, Handled, Handler
  <2> QED BY <1>2, <2>1 DEF At, Verdict, Point, InHand
<1> QED BY <1>1, <1>2

LEMMA AtIdle ==
    ASSUME NEW j \in Jobs
    PROVE  /\ ~ Handled(j) => At[j] = "idle" /\ Verdict[j] = "NONE"
           /\ ~ Handled(j)' => At'[j] = "idle" /\ Verdict'[j] = "NONE"
BY DEF At, Verdict

\* A job whose attempt, if there is one, no step moves.
SameAttempt(k) ==
    \A d \in Consumers : /\ InHand(d, k)' <=> InHand(d, k)
                         /\ InHand(d, k) => pc'[d] = pc[d] /\ status'[d] = status[d]

LEMMA AttemptKept ==
    ASSUME NEW k \in Jobs, Apart(k), Apart(k)', SameAttempt(k)
    PROVE  At'[k] = At[k] /\ Verdict'[k] = Verdict[k]
<1>1. CASE Handled(k)
  <2>1. PICK c \in Consumers : InHand(c, k)
    BY <1>1 DEF Handled
  <2> QED BY <2>1, AtTells DEF SameAttempt
<1>2. CASE ~ Handled(k)
  <2>1. ~ Handled(k)'
    BY <1>2 DEF Handled, SameAttempt
  <2> QED BY <1>2, <2>1, AtIdle
<1> QED BY <1>1, <1>2

LEMMA AttemptMoves ==
    ASSUME NEW j \in Jobs, NEW to, NEW v, At'[j] = to, Verdict'[j] = v,
           \A k \in Jobs \ {j} : At'[k] = At[k] /\ Verdict'[k] = Verdict[k]
    PROVE  At' = [At EXCEPT ![j] = to] /\ Verdict' = [Verdict EXCEPT ![j] = v]
<1>1. At = [k \in Jobs |-> At[k]] /\ At' = [k \in Jobs |-> At'[k]]
  BY DEF At
<1>2. Verdict = [k \in Jobs |-> Verdict[k]] /\ Verdict' = [k \in Jobs |-> Verdict'[k]]
  BY DEF Verdict
<1>3. At' = [At EXCEPT ![j] = to]
  BY <1>1
<1>4. Verdict' = [Verdict EXCEPT ![j] = v]
  BY <1>2
<1> QED BY <1>3, <1>4

LEMMA AttemptsKept ==
    ASSUME \A k \in Jobs : At'[k] = At[k] /\ Verdict'[k] = Verdict[k]
    PROVE  UNCHANGED <<At, Verdict>>
BY DEF At, Verdict

\* Nobody in between: a step that moves no consumer and no status.
LEMMA NothingMoves ==
    ASSUME UNCHANGED <<jobStatus, pc, cur, status>>
    PROVE  UNCHANGED InAttempts!attemptVars
BY DEF InAttempts!attemptVars, At, Verdict, Handled, Handler, InHand

LEMMA RequestAttempts ==
    ASSUME CopyInv, OneAtATime, OneCause', NEW r \in Requests, RequestNext(r)
    PROVE  InAttempts!Next \/ UNCHANGED InAttempts!attemptVars
<1>1. UNCHANGED <<pc, cur, status>>
  BY DEF RequestNext, RequestStep, CreateEvent, RerunFailed, PublishJob, PublishLost, MarkRequest,
         Respond, AbandonRequest, localVars
<1>2. UNCHANGED <<At, Verdict>>
  BY <1>1 DEF At, Verdict, Handled, Handler, InHand
<1>3. ASSUME NEW e \in Events, NEW s \in {"NONE", "FAILED"},
             \A j \in Jobs : EventOf[j] = e /\ jobStatus[j] = s => ~ Handled(j),
             jobStatus' = [j \in Jobs |-> IF EventOf[j] = e /\ jobStatus[j] = s
                                          THEN "QUEUED" ELSE jobStatus[j]]
      PROVE  InAttempts!Next
  <2>1. InAttempts!Queue(e, s)
    BY <1>2, <1>3, AtIdle DEF InAttempts!Queue, InAttempts!JobsOf
  <2> QED BY <1>3, <2>1 DEF InAttempts!Next
<1>4. ASSUME NEW e \in Events, CreateEvent(r, e) PROVE InAttempts!Next
  <2>1. \A j \in Jobs : EventOf[j] = e => jobStatus[j] = "NONE"
    BY <1>4 DEF CreateEvent, OneAtATime, RowsTogether, JobsOf
  <2>2. jobStatus' = [j \in Jobs |-> IF EventOf[j] = e /\ jobStatus[j] = "NONE"
                                     THEN "QUEUED" ELSE jobStatus[j]]
    BY <1>4, <2>1 DEF CreateEvent, InsertEventWithJobs
  <2> QED BY <1>3, <2>2 DEF OneAtATime
<1>5. ASSUME NEW e \in Events, RerunFailed(r, e)
      PROVE  InAttempts!Next \/ UNCHANGED InAttempts!attemptVars
  <2>1. spent["rerun"] \in Nat /\ spent' = [spent EXCEPT !["rerun"] = spent["rerun"] + 1]
        /\ spent \in [FaultKind -> Nat]
    BY <1>5 DEF RerunFailed, Spend, CopyInv, AckInv, Inv, TypeOK, FaultKind
  <2>2. spent'["rerun"] # 0 /\ \A k \in FaultKind \ {"rerun"} : spent'[k] = spent[k]
    BY <2>1 DEF FaultKind
  <2>3. Orderly
    BY <2>2 DEF OneCause, Orderly, FaultKind
  <2>4. jobStatus' = [j \in Jobs |-> IF EventOf[j] = e /\ jobStatus[j] = "FAILED"
                                     THEN "QUEUED" ELSE jobStatus[j]]
    BY <1>5 DEF RerunFailed, ResetFailed, FailedJobs, JobsOf
  <2> QED BY <1>3, <2>3, <2>4 DEF OneAtATime
<1>6. CASE UNCHANGED jobStatus
  BY <1>1, <1>6, NothingMoves
<1> QED
  BY <1>4, <1>5, <1>6 DEF RequestNext, RequestStep, PublishJob, PublishLost, MarkRequest, Respond,
     AbandonRequest, UpdateEventStatus, storeVars

\* A consumer moves on within the attempt at its job, or out of it.
Attending == {"load", "mark", "exec", "result"}

MovesOn(c, to, s) ==
    \E j \in Jobs :
       /\ j = cur[c].job /\ At[j] = Point(pc[c])
       /\ Verdict[j] = IF pc[c] = "result" THEN status[c] ELSE "NONE"
       /\ At' = [At EXCEPT ![j] = IF to \in Attending THEN Point(to) ELSE "idle"]
       /\ Verdict' = [Verdict EXCEPT ![j] = IF to = "result" THEN s ELSE "NONE"]

LEMMA ConsumerMovesOn ==
    ASSUME TypeOK, BusyHolds, NEW c \in Consumers, pc[c] \in Attending,
           \A k \in Jobs : Apart(k) /\ Apart(k)',
           NEW to \in Holding, pc' = [pc EXCEPT ![c] = to], cur' = cur,
           NEW s \in LocalStatus, status' = [status EXCEPT ![c] = s]
    PROVE  MovesOn(c, to, s)
<1>0. /\ pc \in [Consumers -> ConsumerPC]
      /\ cur \in [Consumers -> Message \cup {None}]
      /\ status \in [Consumers -> LocalStatus]
  BY DEF TypeOK, ConsumerTypeOK
<1> USE DEF Attending, Holding, ConsumerPC
<1>1. PICK j \in Jobs : j = cur[c].job
  <2>1. cur[c] \in Message
    BY <1>0 DEF BusyHolds
  <2> QED BY <2>1 DEF Message
<1>2. InHand(c, j) /\ pc'[c] = to /\ status'[c] = s /\ cur'[c] = cur[c]
  BY <1>0, <1>1 DEF InHand
<1>3. \A k \in Jobs \ {j} : SameAttempt(k)
  BY <1>0, <1>1 DEF SameAttempt, InHand
<1>4. \A k \in Jobs \ {j} : At'[k] = At[k] /\ Verdict'[k] = Verdict[k]
  BY <1>3, AttemptKept
<1>5. At[j] = Point(pc[c]) /\ Verdict[j] = IF pc[c] = "result" THEN status[c] ELSE "NONE"
  BY <1>2, AtTells
<1>6. /\ At'[j] = IF to \in Attending THEN Point(to) ELSE "idle"
      /\ Verdict'[j] = IF to = "result" THEN s ELSE "NONE"
  <2>1. CASE to \in Attending
    <3>1. InHand(c, j)'
      BY <1>1, <1>2, <2>1 DEF InHand
    <3> QED BY <1>2, <2>1, <3>1, AtTells
  <2>2. CASE to \notin Attending
    <3>1. ~ Handled(j)'
      BY <1>0, <1>2, <2>2 DEF Handled, InHand, Apart
    <3> QED BY <2>2, <3>1, AtIdle
  <2> QED BY <2>1, <2>2
<1>7. /\ At' = [At EXCEPT ![j] = IF to \in Attending THEN Point(to) ELSE "idle"]
      /\ Verdict' = [Verdict EXCEPT ![j] = IF to = "result" THEN s ELSE "NONE"]
  BY <1>4, <1>6, AttemptMoves
<1> QED BY <1>1, <1>5, <1>7 DEF MovesOn

LEMMA ConsumerAttempts ==
    ASSUME CopyInv, OneAtATime, OneAtATime', NEW c \in Consumers, ConsumerNext(c)
    PROVE  InAttempts!Next \/ UNCHANGED InAttempts!attemptVars
<1>0. /\ pc \in [Consumers -> ConsumerPC]
      /\ cur \in [Consumers -> Message \cup {None}]
      /\ status \in [Consumers -> LocalStatus]
      /\ \A k \in Jobs : Apart(k) /\ Apart(k)'
  BY DEF CopyInv, AckInv, Inv, TypeOK, ConsumerTypeOK, OneAtATime
<1> USE DEF Holding, ConsumerPC
<1>p. /\ Point("load") = "start" /\ Point("mark") = "exec" /\ Point("exec") = "exec"
      /\ Point("result") = "save"
  BY DEF Point
<1>1. ASSUME pc[c] \in Attending, NEW to \in Holding, pc' = [pc EXCEPT ![c] = to], cur' = cur,
             NEW s \in LocalStatus, status' = [status EXCEPT ![c] = s]
      PROVE  MovesOn(c, to, s)
  BY <1>0, <1>1, ConsumerMovesOn DEF CopyInv, AckInv, Inv
<1>2. CASE StartJob(c)
  <2>1. pc[c] = "load" /\ MovesOn(c, "mark", status[c])
    BY <1>0, <1>1, <1>2 DEF StartJob, Goto, localVars, Attending
  <2>2. PICK j \in Jobs :
           /\ j = cur[c].job /\ At[j] = "start" /\ Verdict[j] = "NONE"
           /\ At' = [At EXCEPT ![j] = "exec"] /\ Verdict' = [Verdict EXCEPT ![j] = "NONE"]
    BY <1>p, <2>1 DEF MovesOn, Attending
  <2>3. Verdict' = Verdict
    BY <2>2 DEF Verdict
  <2> QED
    BY <1>2, <2>2, <2>3 DEF StartJob, UpdateJobRunning, InAttempts!Next, InAttempts!Start,
       InAttempts!Move, InAttempts!Write
<1>3. CASE MarkEventRunning(c)
  <2>1. UNCHANGED <<jobStatus, cur, status>> /\ pc' = [pc EXCEPT ![c] = "exec"] /\ pc[c] = "mark"
    BY <1>3 DEF MarkEventRunning, UpdateEventStatus, Goto, localVars, storeVars
  <2>2. MovesOn(c, "exec", status[c])
    BY <1>0, <1>1, <2>1 DEF Attending
  <2>3. PICK j \in Jobs :
           /\ At[j] = "exec" /\ Verdict[j] = "NONE"
           /\ At' = [At EXCEPT ![j] = "exec"] /\ Verdict' = [Verdict EXCEPT ![j] = "NONE"]
    BY <1>p, <2>1, <2>2 DEF MovesOn, Attending
  <2>4. UNCHANGED <<At, Verdict>>
    BY <2>3, AttemptsKept DEF At, Verdict
  <2> QED BY <2>1, <2>4 DEF InAttempts!attemptVars
<1>4. ASSUME NEW s \in TerminalJob, Execute(c, s) PROVE InAttempts!Next
  <2>1. pc[c] = "exec" /\ MovesOn(c, "result", s)
    BY <1>1, <1>4 DEF Execute, Goto, LocalStatus, Attending
  <2>2. PICK j \in Jobs :
           /\ At[j] = "exec"
           /\ At' = [At EXCEPT ![j] = "save"] /\ Verdict' = [Verdict EXCEPT ![j] = s]
    BY <1>p, <2>1 DEF MovesOn, Attending
  <2> QED
    BY <1>4, <2>2 DEF Execute, storeVars, InAttempts!Next, InAttempts!Execute, InAttempts!Move,
       InAttempts!TerminalJob
\* The last statement of an attempt, or the first that fails.
<1>5. ASSUME pc[c] \in {"load", "result"}, NEW to \in {"count", "retry"},
             Goto(c, to), Forget(c), cur' = cur
      PROVE  \E j \in Jobs :
                /\ j = cur[c].job /\ InAttempts!Move(j, Point(pc[c]), "idle")
                /\ pc[c] = "result" => Verdict[j] = status[c]
                /\ Verdict' = [Verdict EXCEPT ![j] = "NONE"]
  <2>1. MovesOn(c, to, "NONE")
    BY <1>1, <1>5 DEF Goto, Forget, LocalStatus, Attending
  <2> QED BY <1>5, <2>1 DEF MovesOn, Attending, InAttempts!Move
<1>6. CASE SaveResult(c)
  <2>1. PICK j \in Jobs : /\ j = cur[c].job /\ InAttempts!Move(j, "save", "idle")
                          /\ Verdict[j] = status[c]
                          /\ Verdict' = [Verdict EXCEPT ![j] = "NONE"]
    BY <1>5, <1>6, <1>p DEF SaveResult
  <2> QED
    BY <1>6, <2>1 DEF SaveResult, UpdateJobResult, InAttempts!Next, InAttempts!Save, InAttempts!Write
\* Nobody is at a job before or after the step.
<1>7. ASSUME UNCHANGED jobStatus, pc[c] \notin {"load", "mark", "exec", "result"},
             pc'[c] \notin {"load", "mark", "exec", "result"},
             \A d \in Consumers \ {c} : pc'[d] = pc[d] /\ cur'[d] = cur[d] /\ status'[d] = status[d]
      PROVE  UNCHANGED InAttempts!attemptVars
  <2>1. \A k \in Jobs : SameAttempt(k)
    BY <1>7 DEF SameAttempt, InHand
  <2>2. UNCHANGED <<At, Verdict>>
    BY <1>0, <2>1, AttemptKept, AttemptsKept
  <2> QED BY <1>7, <2>2 DEF InAttempts!attemptVars
<1>8. CASE HandlerError(c)
  <2>1. CASE pc[c] \in {"load", "result"}
    <3>1. PICK j \in Jobs : /\ j = cur[c].job /\ InAttempts!Move(j, Point(pc[c]), "idle")
                            /\ pc[c] = "result" => Verdict[j] = status[c]
                            /\ Verdict' = [Verdict EXCEPT ![j] = "NONE"]
      BY <1>5, <1>8, <2>1 DEF HandlerError, HandlerFails
    <3>2. \/ UNCHANGED jobStatus
          \/ pc[c] = "load" /\ InAttempts!Write(j, "RUNNING")
          \/ pc[c] = "result" /\ InAttempts!Write(j, Verdict[j])
      BY <1>8, <2>1, <3>1 DEF HandlerError, HandlerFails, UpdateJobRunning, UpdateJobResult, storeVars,
                              InAttempts!Write
    <3>3. InAttempts!Fail(j) \/ InAttempts!Save(j)
      BY <2>1, <3>1, <3>2 DEF Point, InAttempts!Fail, InAttempts!Save
    <3> QED BY <3>3 DEF InAttempts!Next
  <2>2. CASE pc[c] \notin {"load", "result"}
    BY <1>0, <1>7, <1>8, <2>2 DEF HandlerError, HandlerFails, Forget, Goto, WriteRollup, storeVars
  <2> QED BY <2>1, <2>2
<1>9. ASSUME NEW m \in Message, Deliver(c, m) PROVE InAttempts!Next
  <2>1. /\ pc[c] = "idle" /\ ready[m] > 0 /\ UNCHANGED <<jobStatus, status>>
        /\ cur' = [cur EXCEPT ![c] = m] /\ pc' = [pc EXCEPT ![c] = "load"]
    BY <1>9 DEF Deliver, DeliverTo, Goto, storeVars
  <2>2. PICK j \in Jobs : j = m.job
    BY DEF Message
  <2>3. ~ Handled(j) /\ jobStatus[j] # "NONE"
    BY <2>1, <2>2 DEF OneAtATime, Waits
  <2>4. InHand(c, j)' /\ pc'[c] = "load"
    BY <1>0, <2>1, <2>2 DEF InHand
  <2>5. \A k \in Jobs \ {j} : SameAttempt(k)
    BY <1>0, <2>1, <2>2 DEF SameAttempt, InHand
  <2>6. \A k \in Jobs \ {j} : At'[k] = At[k] /\ Verdict'[k] = Verdict[k]
    BY <1>0, <2>5, AttemptKept
  <2>7. At[j] = "idle" /\ Verdict[j] = "NONE" /\ At'[j] = "start" /\ Verdict'[j] = "NONE"
    BY <1>0, <2>3, <2>4, AtIdle, AtTells DEF Point
  <2>8. At' = [At EXCEPT ![j] = "start"]
    BY <2>6, <2>7, AttemptMoves
  <2>9. Verdict' = Verdict
    BY <2>6, <2>7 DEF Verdict
  <2> QED
    BY <2>1, <2>3, <2>7, <2>8, <2>9 DEF InAttempts!Next, InAttempts!Begin, InAttempts!Move
<1>10. CASE CountJobs(c) \/ CountPending(c) \/ SaveRollup(c)
  BY <1>0, <1>7, <1>10 DEF CountJobs, CountPending, SaveRollup, WriteRollup, Forget, Goto, storeVars
<1>11. CASE Republish(c) \/ DeadLetter(c) \/ Ack(c) \/ AnswerClosed(c) \/ Exit(c)
  BY <1>0, <1>7, <1>11 DEF Republish, DeadLetter, Ack, AnswerClosed, Exit, Goto, storeVars, localVars
<1>12. CASE BrokerRequeue(c)
  BY <1>12, NothingMoves DEF BrokerRequeue, storeVars, localVars
<1> QED
  BY <1>2, <1>3, <1>4, <1>6, <1>8, <1>9, <1>10, <1>11, <1>12 DEF ConsumerNext, HandlerStep,
     ConsumeStep, InAttempts!Next

LEMMA WorkerAttempts ==
    ASSUME CopyInv, OneAtATime, OneAtATime', NEW w \in Workers, WorkerNext(w)
    PROVE  InAttempts!Next \/ UNCHANGED InAttempts!attemptVars
<1>0. /\ UNCHANGED jobStatus
      /\ \A k \in Jobs : Apart(k) /\ Apart(k)'
      /\ \A c \in Consumers : proc[WorkerOf[c]] = "down" => pc[c] = "off"
  BY DEF WorkerNext, Shutdown, ProcessExit, Crash, ConnLost, Restart, storeVars, OneAtATime, CopyInv,
         AckInv, Inv, Attached
\* The attempts of all its consumers are cut off.
<1>1. CASE Crash(w)
  <2> DEFINE J == {j \in Jobs : \E c \in Consumers : InHand(c, j) /\ WorkerOf[c] = w}
  <2>1. ASSUME NEW k \in Jobs
        PROVE  /\ At'[k] = IF k \in J THEN "idle" ELSE At[k]
               /\ Verdict'[k] = IF k \in J THEN "NONE" ELSE Verdict[k]
    <3>1. CASE k \in J
      <4>1. ~ Handled(k)'
        BY <1>0, <1>1, <3>1 DEF Crash, Handled, InHand, Apart
      <4> QED BY <3>1, <4>1, AtIdle
    <3>2. CASE k \notin J
      <4>1. SameAttempt(k)
        BY <1>1, <3>2 DEF Crash, SameAttempt, InHand
      <4> QED BY <1>0, <3>2, <4>1, AttemptKept
    <3> QED BY <3>1, <3>2
  <2> HIDE DEF J
  <2>2. At' = [k \in Jobs |-> At'[k]] /\ Verdict' = [k \in Jobs |-> Verdict'[k]]
    BY DEF At, Verdict
  <2>3. At' = [k \in Jobs |-> IF k \in J THEN "idle" ELSE At[k]]
    BY <2>1, <2>2
  <2>4. Verdict' = [k \in Jobs |-> IF k \in J THEN "NONE" ELSE Verdict[k]]
    BY <2>1, <2>2
  <2>5. InAttempts!Crash(J) /\ J \in SUBSET Jobs
    BY <1>0, <2>3, <2>4 DEF InAttempts!Crash, J
  <2> QED BY <2>5 DEF InAttempts!Next
<1>2. CASE Restart(w)
  <2>1. \A k \in Jobs : SameAttempt(k)
    BY <1>0, <1>2 DEF Restart, SameAttempt, InHand, localVars
  <2>2. UNCHANGED <<At, Verdict>>
    BY <1>0, <2>1, AttemptKept, AttemptsKept
  <2> QED BY <1>0, <2>2 DEF InAttempts!attemptVars
<1>3. CASE Shutdown(w) \/ ProcessExit(w) \/ ConnLost(w)
  BY <1>0, <1>3, NothingMoves DEF Shutdown, ProcessExit, ConnLost, localVars
<1> QED BY <1>1, <1>2, <1>3 DEF WorkerNext

LEMMA CauseBefore ==
    ASSUME TypeOK, [Next]_vars, OneCause' PROVE OneCause
BY SpentBefore DEF OneCause, FaultKind

\* As long as only one thing has multiplied messages, every step of the
\* dispatcher is one of Attempt: whichever consumer gets a job, its attempts do
\* not overlap, and its status is what the one under way has written.
THEOREM DispatchImplementsAttempt == Spec => AttemptsApart
<1>1. Init => InAttempts!Init
  BY DEF Init, StoreInit, InAttempts!Init, At, Verdict, Handled, InHand
<1>2. ASSUME CopyInv, FlightInv, [Next]_vars, OneCause'
      PROVE  InAttempts!Next \/ UNCHANGED InAttempts!attemptVars
  <2>1. OneCause /\ OneAtATime
    BY <1>2, CauseBefore, AttemptsOneAtATime DEF FlightInv, Inv
  <2>2. CopyInv' /\ FlightInv'
    BY <1>2, StepKeepsCopyInv, StepKeepsFlightInv
  <2>3. OneAtATime'
    BY <1>2, <2>2, AttemptsOneAtATime, PTL
  <2>4. CASE APICrash \/ UNCHANGED vars
    BY <2>4, NothingMoves DEF APICrash, vars, storeVars, localVars
  <2> QED
    BY <1>2, <2>1, <2>3, <2>4, RequestAttempts, ConsumerAttempts, WorkerAttempts DEF Next
<1>3. CopyInv /\ FlightInv /\ [Next]_vars =>
        [OneCause' => InAttempts!Next \/ UNCHANGED InAttempts!attemptVars]_vars
  BY <1>2
<1> QED BY <1>1, <1>3, CopyInvariant, FlightInvariant, PTL DEF Spec, AttemptsApart

-----------------------------------------------------------------------------
(* Every step is one of the lifecycle.                                     *)

LEMMA LifeSteps ==
    ASSUME FlightInv, [Next]_vars, Orderly'
    PROVE  \/ UNCHANGED jobStatus
           \/ \E e \in Events : Life!Insert(e)
           \/ \E e \in Events : Life!Rerun(e) /\ spent'["rerun"] # 0
           \/ \E j \in Jobs : Life!Start(j) \/ Life!Finish(j)
<1>0. TypeOK /\ OneFlight /\ jobStatus \in [Jobs -> JobStatus \cup {"NONE"}]
  BY OrderlyBefore DEF FlightInv, Inv, TypeOK, StoreTypeOK
<1>1. ASSUME NEW r \in Requests, NEW e \in Events, CreateEvent(r, e) PROVE Life!Insert(e)
  BY <1>0, <1>1 DEF CreateEvent, InsertEventWithJobs, OneFlight, RowsTogether, Life!Insert,
                    Life!JobsOf, JobsOf
<1>2. ASSUME NEW r \in Requests, NEW e \in Events, RerunFailed(r, e)
      PROVE  UNCHANGED jobStatus \/ (Life!Rerun(e) /\ spent'["rerun"] # 0)
  <2>1. spent'["rerun"] # 0
    <3>1. spent \in [FaultKind -> Nat] /\ "rerun" \in FaultKind
      BY <1>0 DEF TypeOK, FaultKind
    <3> QED BY <1>2, <3>1 DEF RerunFailed, Spend
  <2>2. CASE FailedJobs(e) = {}
    BY <1>0, <1>2, <2>2 DEF RerunFailed, ResetFailed
  <2>3. CASE FailedJobs(e) # {}
    BY <1>2, <2>1, <2>3 DEF RerunFailed, ResetFailed, FailedJobs, JobsOf, Life!Rerun, Life!JobsOf
  <2> QED BY <2>2, <2>3
<1>3. ASSUME NEW r \in Requests, OrderlyRequest(r),
             \A e \in Events : ~ CreateEvent(r, e) /\ ~ RerunFailed(r, e)
      PROVE  UNCHANGED jobStatus
  BY <1>3 DEF OrderlyRequest, PublishJob, PublishLost, MarkRequest, Respond, UpdateEventStatus, storeVars
<1>4. ASSUME NEW c \in Consumers, OrderlyConsumer(c)
      PROVE  UNCHANGED jobStatus \/ \E j \in Jobs : Life!Start(j) \/ Life!Finish(j)
  <2>1. CASE StartJob(c) \/ SaveResult(c)
    <3>1. cur[c] \in Message
      BY <2>1 DEF FlightInv, Inv, TypeOK, ConsumerTypeOK, BusyHolds, StartJob, SaveResult
    <3>2. PICK j \in Jobs : cur[c].job = j
      BY <3>1 DEF Message
    <3>3. InHand(c, j)
      BY <2>1, <3>2 DEF InHand, StartJob, SaveResult
    <3>4. CASE StartJob(c)
      BY <1>0, <3>2, <3>3, <3>4 DEF StartJob, UpdateJobRunning, OneFlight, StatusTells, Life!Start
    <3>5. CASE SaveResult(c)
      BY <1>0, <3>2, <3>3, <3>5 DEF SaveResult, UpdateJobResult, OneFlight, StatusTells, Life!Finish,
         Life!TerminalJob, FlightInv, Inv, StatusFits
    <3> QED BY <2>1, <3>4, <3>5
  <2>2. CASE ~ (StartJob(c) \/ SaveResult(c))
    BY <1>4, <2>2 DEF OrderlyConsumer, HandlerStep, MarkEventRunning, Execute, CountJobs, CountPending,
       SaveRollup, WriteRollup, UpdateEventStatus, Deliver, Ack, storeVars
  <2> QED BY <2>1, <2>2
<1>5. CASE APICrash \/ UNCHANGED vars
  BY <1>5 DEF APICrash, vars, storeVars
<1> QED BY <1>1, <1>2, <1>3, <1>4, <1>5, OrderlySteps

\* As long as no worker crashes, stops or loses its connection and no
\* statement fails, the status of every job goes through the lifecycle of
\* JobLife step by step: no redelivery or second request takes a result back.
THEOREM OrderlyLife == Spec => Life!Init /\ [][Orderly' => [Life!Next]_jobStatus]_vars
<1>1. Init => Life!Init
  BY DEF Init, StoreInit, Life!Init
<1>2. FlightInv /\ [Next]_vars => [Orderly' => [Life!Next]_jobStatus]_vars
  BY LifeSteps DEF Life!Next
<1> QED BY <1>1, <1>2, FlightInvariant, PTL DEF Spec

-----------------------------------------------------------------------------
(* What RollupEvent has counted stays true while it goes on to write it.   *)

AllVerified(e) == \A j \in JobsOf(e) : jobStatus[j] = "VERIFIED"
AllOver(e)     == \A j \in JobsOf(e) : jobStatus[j] \in TerminalJob

\* The jobs of an event are inserted together, before anybody works on one.
JobsTogether ==
    /\ \A j, k \in Jobs : EventOf[j] = EventOf[k] /\ jobStatus[j] = "NONE" => jobStatus[k] = "NONE"
    /\ \A c \in Consumers : pc[c] \in Holding => jobStatus[cur[c].job] # "NONE"

AllVerifiedWhenCounted ==
    /\ \A c \in Consumers :
          /\ pc[c] = "pending" /\ tally[c].verified = tally[c].total => AllVerified(EventOf[cur[c].job])
          /\ pc[c] = "write" /\ status[c] = "COMPLETED" => AllVerified(EventOf[cur[c].job])
    /\ \A e \in Events : event[e].status = "COMPLETED" => AllVerified(e)

AllOverWhenCounted ==
    /\ \A c \in Consumers :
          pc[c] = "write" /\ status[c] \in TerminalEvent => AllOver(EventOf[cur[c].job])
    /\ \A e \in Events : event[e].status \in TerminalEvent => AllOver(e)

CountInv ==
    /\ FlightInv
    /\ Orderly => /\ JobsTogether
                  /\ AllVerifiedWhenCounted
                  /\ spent["rerun"] = 0 => AllOverWhenCounted

\* What the counts of RollupEvent say.
LEMMA CountsTell ==
    ASSUME NEW e
    PROVE  /\ Tally(e).verified = Tally(e).total => AllVerified(e)
           /\ PendingCount(e) = 0 => \A j \in JobsOf(e) : jobStatus[j] \notin PendingJob
<1>1. IsFiniteSet(JobsOf(e))
  BY JobsAssumption, FS_Subset DEF JobsOf
<1>2. ASSUME Tally(e).verified = Tally(e).total PROVE AllVerified(e)
  <2> DEFINE V == {j \in JobsOf(e) : jobStatus[j] = "VERIFIED"}
  <2>1. V \subseteq JobsOf(e) /\ Cardinality(V) = Cardinality(JobsOf(e))
    BY <1>2 DEF Tally, CountStatus
  <2>2. V = JobsOf(e)
    BY <1>1, <2>1, FS_Subset
  <2> QED BY <2>2 DEF AllVerified
<1>3. ASSUME PendingCount(e) = 0 PROVE \A j \in JobsOf(e) : jobStatus[j] \notin PendingJob
  <2> DEFINE P == {j \in JobsOf(e) : jobStatus[j] \in PendingJob}
  <2>1. IsFiniteSet(P) /\ Cardinality(P) = 0
    BY <1>1, <1>3, FS_Subset DEF PendingCount
  <2>2. P = {}
    BY <2>1, FS_EmptySet
  <2> QED BY <2>2
<1> QED BY <1>2, <1>3

\* What a step takes back of what is known about the jobs: nothing, but for
\* the FAILED ones of a re-run.
LEMMA ResultsStay ==
    ASSUME FlightInv, [Next]_vars, Orderly'
    PROVE  /\ \A e : AllVerified(e) => AllVerified(e)'
           /\ spent'["rerun"] = 0 => \A e : AllOver(e) => AllOver(e)'
           /\ \A j \in Jobs : jobStatus[j] # "NONE" => jobStatus'[j] # "NONE"
           /\ \A j, k \in Jobs : EventOf[j] = EventOf[k] /\ jobStatus[k] = "NONE" =>
                                    (jobStatus'[j] = "NONE" => jobStatus'[k] = "NONE")
<1>0. jobStatus \in [Jobs -> JobStatus \cup {"NONE"}]
  BY DEF FlightInv, Inv, TypeOK, StoreTypeOK
<1> DEFINE Verified(j) == jobStatus[j] = "VERIFIED" => jobStatus'[j] = "VERIFIED"
           Over(j)     == jobStatus[j] \in TerminalJob => jobStatus'[j] \in TerminalJob
           Inserted(j) == jobStatus[j] # "NONE" => jobStatus'[j] # "NONE"
           Alike(j, k) == EventOf[j] = EventOf[k] /\ jobStatus[k] = "NONE" =>
                             (jobStatus'[j] = "NONE" => jobStatus'[k] = "NONE")
           Facts == /\ \A j \in Jobs : Verified(j) /\ Inserted(j)
                    /\ spent'["rerun"] = 0 => \A j \in Jobs : Over(j)
                    /\ \A j, k \in Jobs : Alike(j, k)
<1>1. ASSUME UNCHANGED jobStatus PROVE Facts
  BY <1>1
<1>2. ASSUME NEW e \in Events, Life!Insert(e) PROVE Facts
  <2>1. \A j \in Jobs : /\ EventOf[j] = e => jobStatus[j] = "NONE"
                        /\ jobStatus'[j] = IF EventOf[j] = e THEN "QUEUED" ELSE jobStatus[j]
    BY <1>2 DEF Life!Insert, Life!JobsOf
  <2> QED BY <2>1
<1>3. ASSUME NEW e \in Events, Life!Rerun(e), spent'["rerun"] # 0 PROVE Facts
  <2>1. \A j \in Jobs : jobStatus'[j] = IF EventOf[j] = e /\ jobStatus[j] = "FAILED"
                                        THEN "QUEUED" ELSE jobStatus[j]
    BY <1>3 DEF Life!Rerun
  <2> QED BY <1>3, <2>1
<1>4. ASSUME NEW i \in Jobs, Life!Start(i) \/ Life!Finish(i) PROVE Facts
  <2>1. PICK s \in {"RUNNING"} \cup TerminalJob :
           jobStatus[i] \in PendingJob /\ jobStatus' = [jobStatus EXCEPT ![i] = s]
    BY <1>4 DEF Life!Start, Life!Finish, Life!TerminalJob
  <2>2. \A j \in Jobs : jobStatus'[j] = IF j = i THEN s ELSE jobStatus[j]
    BY <1>0, <2>1
  <2> QED BY <2>1, <2>2
<1>5. Facts
  BY <1>1, <1>2, <1>3, <1>4, LifeSteps
<1> QED BY <1>5 DEF AllVerified, AllOver, JobsOf

\* Who has counted, and who has written what.
LEMMA CountsComeFrom ==
    ASSUME FlightInv, [Next]_vars, Orderly'
    PROVE  /\ \A c \in Consumers : pc'[c] = "pending" =>
                 CountJobs(c) \/ (pc[c] = "pending" /\ tally'[c] = tally[c] /\ cur'[c] = cur[c])
           /\ \A c \in Consumers : pc'[c] = "write" =>
                 CountPending(c) \/ (pc[c] = "write" /\ status'[c] = status[c] /\ cur'[c] = cur[c])
           /\ \A c \in Consumers : pc'[c] \in Holding =>
                 Waits(cur'[c].job) \/ (pc[c] \in Holding /\ cur'[c] = cur[c])
           /\ \A e \in Events : event'[e].status \in TerminalEvent =>
                 \/ event'[e].status = event[e].status
                 \/ \E c \in Consumers : /\ pc[c] = "write"
                                         /\ e = EventOf[cur[c].job]
                                         /\ event'[e].status = status[c]
<1>0. /\ event \in [Events -> EventRow]
      /\ pc \in [Consumers -> ConsumerPC]
      /\ cur \in [Consumers -> Message \cup {None}]
      /\ status \in [Consumers -> LocalStatus]
      /\ tally \in [Consumers -> TallyRow]
  BY DEF FlightInv, Inv, TypeOK, StoreTypeOK, ConsumerTypeOK
<1> DEFINE Shown(e) == event'[e].status \in TerminalEvent => event'[e].status = event[e].status
<1>1. ASSUME NEW r \in Requests, OrderlyRequest(r)
      PROVE  UNCHANGED <<pc, localVars>> /\ \A e \in Events : Shown(e)
  <2>1. CASE MarkRequest(r)
    BY <1>0, <2>1 DEF MarkRequest, UpdateEventStatus, EventRow
  <2>2. ASSUME NEW f \in Events, CreateEvent(r, f)
        PROVE  UNCHANGED <<pc, localVars>> /\ \A e \in Events : Shown(e)
    BY <1>0, <2>2 DEF CreateEvent, InsertEventWithJobs, EventRow
  <2>3. CASE \/ \E f \in Events : RerunFailed(r, f)
             \/ \E j \in Jobs : PublishJob(r, j) \/ PublishLost(r, j)
             \/ Respond(r)
    BY <2>3 DEF RerunFailed, ResetFailed, PublishJob, PublishLost, Respond, storeVars
  <2> QED BY <1>1, <2>1, <2>2, <2>3 DEF OrderlyRequest
<1>2. CASE APICrash \/ UNCHANGED vars
  BY <1>2 DEF APICrash, vars, storeVars, localVars
<1>3. CASE UNCHANGED <<pc, localVars>> /\ \A e \in Events : Shown(e)
  BY <1>3 DEF localVars
<1>4. ASSUME NEW c \in Consumers, OrderlyConsumer(c)
      PROVE  /\ \A d \in Consumers \ {c} : /\ pc'[d] = pc[d] /\ cur'[d] = cur[d]
                                           /\ status'[d] = status[d] /\ tally'[d] = tally[d]
             /\ pc'[c] = "pending" => CountJobs(c)
             /\ pc'[c] = "write" => CountPending(c)
             /\ pc'[c] \in Holding =>
                   Waits(cur'[c].job) \/ (pc[c] \in Holding /\ cur'[c] = cur[c])
             /\ \A e \in Events : \/ Shown(e)
                                  \/ /\ pc[c] = "write" /\ e = EventOf[cur[c].job]
                                     /\ event'[e].status = status[c]
  <2> USE DEF Goto, Forget, Holding, ConsumerPC
  <2>1. ASSUME NEW m \in Message, Deliver(c, m)
        PROVE  /\ pc' = [pc EXCEPT ![c] = "load"] /\ cur' = [cur EXCEPT ![c] = m]
               /\ Waits(m.job) /\ UNCHANGED <<event, status, tally>>
    BY <2>1 DEF Deliver, DeliverTo, Waits, storeVars
  <2>2. CASE StartJob(c) \/ MarkEventRunning(c) \/ \E s \in TerminalJob : Execute(c, s)
    <3>1. /\ \E l \in {"mark", "exec", "result"} : pc' = [pc EXCEPT ![c] = l]
          /\ pc[c] \in Holding /\ UNCHANGED <<cur, tally>>
          /\ status' = status \/ \E s : status' = [status EXCEPT ![c] = s]
      BY <2>2 DEF StartJob, MarkEventRunning, Execute, localVars
    <3>2. event' = event \/ \E f : UpdateEventStatus(f, "RUNNING")
      BY <2>2 DEF StartJob, UpdateJobRunning, MarkEventRunning, Execute, storeVars
    <3>3. \A e \in Events : Shown(e)
      BY <1>0, <3>2 DEF UpdateEventStatus, EventRow
    <3> QED BY <1>0, <3>1, <3>3
  <2>3. CASE SaveResult(c)
    BY <1>0, <2>3 DEF SaveResult, UpdateJobResult
  <2>4. CASE CountJobs(c)
    BY <1>0, <2>4 DEF CountJobs, storeVars
  <2>5. CASE CountPending(c)
    BY <1>0, <2>5 DEF CountPending, storeVars
  <2>6. CASE SaveRollup(c)
    BY <1>0, <2>6 DEF SaveRollup, WriteRollup, EventRow
  <2>7. CASE Ack(c)
    BY <1>0, <2>7 DEF Ack, storeVars
  <2>8. CASE \E m \in Message : Deliver(c, m)
    BY <1>0, <2>1, <2>8
  <2> QED BY <1>4, <2>2, <2>3, <2>4, <2>5, <2>6, <2>7, <2>8 DEF OrderlyConsumer, HandlerStep
<1>5. CASE \E c \in Consumers : OrderlyConsumer(c)
  BY <1>4, <1>5
<1> QED BY <1>1, <1>2, <1>3, <1>5, OrderlySteps

LEMMA StepKeepsTogether ==
    ASSUME FlightInv, JobsTogether, [Next]_vars, Orderly' PROVE JobsTogether'
<1>0. /\ OneFlight /\ cur' \in [Consumers -> Message \cup {None}]
      /\ \A c \in Consumers : pc'[c] \in Holding => cur'[c] # None
  <2>1. Inv' /\ OneFlight
    BY StepKeepsInv, OrderlyBefore DEF FlightInv, Inv
  <2> QED BY <2>1 DEF Inv, TypeOK, ConsumerTypeOK, BusyHolds, Holding
<1>1. \A j, k \in Jobs : EventOf[j] = EventOf[k] /\ jobStatus'[j] = "NONE" => jobStatus'[k] = "NONE"
  BY ResultsStay DEF JobsTogether
<1>2. ASSUME NEW c \in Consumers, pc'[c] \in Holding PROVE jobStatus'[cur'[c].job] # "NONE"
  <2>1. cur'[c].job \in Jobs
    BY <1>0, <1>2 DEF Message
  <2>2. jobStatus[cur'[c].job] # "NONE"
    BY <1>0, <1>2, <2>1, CountsComeFrom DEF OneFlight, StatusTells, JobsTogether
  <2> QED BY <2>1, <2>2, ResultsStay
<1> QED BY <1>1, <1>2 DEF JobsTogether

LEMMA StepKeepsAllVerified ==
    ASSUME FlightInv, AllVerifiedWhenCounted, [Next]_vars, Orderly'
    PROVE  AllVerifiedWhenCounted'
<1>0. tally \in [Consumers -> TallyRow] /\ status \in [Consumers -> LocalStatus]
  BY DEF FlightInv, Inv, TypeOK, ConsumerTypeOK
<1>1. ASSUME NEW c \in Consumers, pc'[c] = "pending", tally'[c].verified = tally'[c].total
      PROVE  AllVerified(EventOf[cur[c].job]) /\ cur'[c] = cur[c]
  <2>1. CASE CountJobs(c)
    <3>1. tally'[c] = Tally(EventOf[cur[c].job]) /\ cur' = cur
      BY <1>0, <2>1 DEF CountJobs
    <3> QED BY <1>1, <3>1, CountsTell
  <2>2. CASE pc[c] = "pending" /\ tally'[c] = tally[c] /\ cur'[c] = cur[c]
    BY <1>1, <2>2 DEF AllVerifiedWhenCounted
  <2> QED BY <1>1, <2>1, <2>2, CountsComeFrom
<1>2. ASSUME NEW c \in Consumers, pc'[c] = "write", status'[c] = "COMPLETED"
      PROVE  AllVerified(EventOf[cur[c].job]) /\ cur'[c] = cur[c]
  <2>1. CASE CountPending(c)
    <3>1. pc[c] = "pending" /\ tally[c].verified = tally[c].total /\ cur' = cur
      BY <1>0, <1>2, <2>1 DEF CountPending, RollupStatus
    <3> QED BY <3>1 DEF AllVerifiedWhenCounted
  <2>2. CASE pc[c] = "write" /\ status'[c] = status[c] /\ cur'[c] = cur[c]
    BY <1>2, <2>2 DEF AllVerifiedWhenCounted
  <2> QED BY <1>2, <2>1, <2>2, CountsComeFrom
<1>3. ASSUME NEW e \in Events, event'[e].status = "COMPLETED" PROVE AllVerified(e)
  BY <1>3, CountsComeFrom DEF AllVerifiedWhenCounted
<1>4. \A e : AllVerified(e) => AllVerified(e)'
  BY ResultsStay
<1>5. \A c \in Consumers :
         /\ pc'[c] = "pending" /\ tally'[c].verified = tally'[c].total => AllVerified(EventOf[cur[c].job])'
         /\ pc'[c] = "write" /\ status'[c] = "COMPLETED" => AllVerified(EventOf[cur[c].job])'
  BY <1>1, <1>2, <1>4 DEF AllVerified
<1> QED BY <1>3, <1>4, <1>5 DEF AllVerifiedWhenCounted, AllVerified

LEMMA StepKeepsAllOver ==
    ASSUME FlightInv, JobsTogether, AllOverWhenCounted, [Next]_vars, Orderly', spent'["rerun"] = 0
    PROVE  AllOverWhenCounted'
<1>0. status \in [Consumers -> LocalStatus] /\ jobStatus \in [Jobs -> JobStatus \cup {"NONE"}]
  BY DEF FlightInv, Inv, TypeOK, ConsumerTypeOK, StoreTypeOK
<1>1. ASSUME NEW c \in Consumers, pc'[c] = "write", status'[c] \in TerminalEvent
      PROVE  AllOver(EventOf[cur[c].job]) /\ cur'[c] = cur[c]
  <2>1. CASE CountPending(c)
    <3>1. /\ pc[c] = "pending" /\ cur' = cur
          /\ PendingCount(EventOf[cur[c].job]) = 0
      BY <1>0, <1>1, <2>1 DEF CountPending, RollupStatus
    <3>2. cur[c] \in Message
      BY <3>1 DEF FlightInv, Inv, TypeOK, ConsumerTypeOK, BusyHolds
    <3>3. PICK j \in Jobs : j = cur[c].job
      BY <3>2 DEF Message
    <3>4. jobStatus[j] # "NONE"
      BY <3>1, <3>3 DEF JobsTogether, Holding, ConsumerPC
    <3>5. \A k \in JobsOf(EventOf[j]) : jobStatus[k] # "NONE" /\ jobStatus[k] \notin PendingJob
      BY <3>1, <3>3, <3>4, CountsTell DEF JobsTogether, JobsOf
    <3>6. AllOver(EventOf[j])
      BY <1>0, <3>5 DEF AllOver, JobsOf
    <3> QED BY <3>1, <3>3, <3>6
  <2>2. CASE pc[c] = "write" /\ status'[c] = status[c] /\ cur'[c] = cur[c]
    BY <1>1, <2>2 DEF AllOverWhenCounted
  <2> QED BY <1>1, <2>1, <2>2, CountsComeFrom
<1>2. ASSUME NEW e \in Events, event'[e].status \in TerminalEvent PROVE AllOver(e)
  BY <1>2, CountsComeFrom DEF AllOverWhenCounted
<1>3. \A e : AllOver(e) => AllOver(e)'
  BY ResultsStay
<1>4. \A c \in Consumers :
         pc'[c] = "write" /\ status'[c] \in TerminalEvent => AllOver(EventOf[cur[c].job])'
  BY <1>1, <1>3 DEF AllOver
<1> QED BY <1>2, <1>3, <1>4 DEF AllOverWhenCounted, AllOver

LEMMA CountInvariant == Spec => []CountInv
<1>1. Init => CountInv
  <2> SUFFICES ASSUME Init PROVE CountInv
    OBVIOUS
  <2>1. FlightInv
    BY InitLossInv, InitFlight DEF LossInv, FlightInv
  <2>2. JobsTogether /\ AllVerifiedWhenCounted /\ AllOverWhenCounted
    BY DEF Init, StoreInit, JobsTogether, AllVerifiedWhenCounted, AllOverWhenCounted, Holding
  <2> QED BY <2>1, <2>2 DEF CountInv
<1>2. CountInv /\ [Next]_vars => CountInv'
  <2> SUFFICES ASSUME CountInv, [Next]_vars PROVE CountInv'
    OBVIOUS
  <2>1. FlightInv'
    BY StepKeepsFlightInv DEF CountInv
  <2>2. ASSUME Orderly'
        PROVE  /\ JobsTogether' /\ AllVerifiedWhenCounted'
               /\ spent'["rerun"] = 0 => AllOverWhenCounted'
    <3>1. Orderly /\ (spent'["rerun"] = 0 => spent["rerun"] = 0)
      BY <2>2, OrderlyBefore DEF CountInv, FlightInv, Inv
    <3> QED BY <2>2, <3>1, StepKeepsTogether, StepKeepsAllVerified, StepKeepsAllOver DEF CountInv
  <2> QED BY <2>1, <2>2 DEF CountInv
<1> QED BY <1>1, <1>2, PTL DEF Spec

\* Under the same premise an event that is shown as COMPLETED has only VERIFIED
\* jobs, however many consumers roll it up at once and however the statements
\* of RollupEvent interleave with re-runs.
THEOREM CompletedMeansVerifiedHolds == Spec => [](Orderly => CompletedMeansVerified)
<1>1. CountInv => (Orderly => CompletedMeansVerified)
  BY DEF CountInv, AllVerifiedWhenCounted, CompletedMeansVerified, AllVerified
<1> QED BY <1>1, CountInvariant, PTL

\* And a terminal status means that no job is left to run, until a user asks
\* for a re-run: the last job of an event is counted as pending until its result
\* is there, and no result is taken back.
THEOREM TerminalMeansNothingPendingHolds == Spec => [](Orderly => TerminalMeansNothingPending)
<1>1. CountInv => (Orderly => TerminalMeansNothingPending)
  BY DEF CountInv, AllOverWhenCounted, TerminalMeansNothingPending, AllOver
<1> QED BY <1>1, CountInvariant, PTL
=============================================================================
