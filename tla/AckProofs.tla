----------------------------- MODULE AckProofs ------------------------------
(***************************************************************************)
(* Dispatch implements JobLife at the acknowledgement: FinalWhen-          *)
(* Acknowledged, for every set of jobs, consumers and workers and every    *)
(* budget of faults.                                                       *)
(***************************************************************************)
EXTENDS DispatchProofs

USE DEF TerminalJob, PendingJob, JobStatus, ActiveEvent, TerminalEvent, EventStatus

Quiet == spent["conn"] = 0 /\ spent["rerun"] = 0

\* Without re-runs a job is published once: while it is waiting for that it is
\* QUEUED and nobody knows of it; and nobody knows of a job that has not been
\* inserted.
PublishedOnce(j) ==
    /\ jobStatus[j] = "NONE" => ~ Outstanding(j)
    /\ \A r \in Requests : j \in todo[r] => jobStatus[j] = "QUEUED" /\ ~ Outstanding(j)
    /\ \A r, s \in Requests : j \in todo[r] /\ j \in todo[s] => r = s

\* The row of an event is there as soon as those of its jobs are.
RowsTogether ==
    \A e \in Events : event[e].status = "NONE" => \A j \in JobsOf(e) : jobStatus[j] = "NONE"

OnceInv == Quiet => RowsTogether /\ \A j \in Jobs : PublishedOnce(j)

AckInv == Inv /\ IdleRequests /\ Connected /\ OnceInv

LEMMA QuietBefore ==
    ASSUME TypeOK, [Next]_vars, Quiet'
    PROVE  Quiet
BY SpentBefore DEF Quiet, FaultKind

-----------------------------------------------------------------------------
(* What a step of a consumer does to the jobs and their messages.          *)

Same(k) == Outstanding(k)' <=> Outstanding(k)

\* Nothing anybody outside the worker can see.
NoEffect == jobStatus' = jobStatus /\ \A k \in Jobs : Same(k)

\* It writes a status to a job whose message it has.
Writes(j, s) == /\ Outstanding(j)
                /\ jobStatus' = [jobStatus EXCEPT ![j] = s]
                /\ \A k \in Jobs : Same(k)

\* It gives up a message.
Settles(j) == /\ jobStatus' = jobStatus
              /\ Outstanding(j)
              /\ \A k \in Jobs \ {j} : Same(k)

Effect == \/ NoEffect
          \/ \E j \in Jobs : Settles(j) \/ \E s \in {"RUNNING"} \cup TerminalJob : Writes(j, s)

LEMMA SameWhenUnchanged ==
    ASSUME UNCHANGED brokerVars PROVE \A k \in Jobs : Same(k)
BY DEF brokerVars, Outstanding, Same

LEMMA ConsumerEffect ==
    ASSUME Inv, NEW c \in Consumers, ConsumerNext(c),
           \A d \in Consumers : pc[d] # "off" => conn[WorkerOf[d]]
    PROVE  Effect
<1>0. /\ jobStatus \in [Jobs -> JobStatus \cup {"NONE"}]
      /\ ready \in [Message -> Nat]
      /\ unacked \in [Consumers -> Message \cup {None}]
      /\ pc \in [Consumers -> ConsumerPC]
  BY DEF Inv, TypeOK, StoreTypeOK, BrokerTypeOK, ConsumerTypeOK
<1>b. pc[c] \in Holding => /\ unacked[c] = cur[c] /\ cur[c] \in Message /\ cur[c] # None
                           /\ cur[c].job \in Jobs /\ Outstanding(cur[c].job)
  <2> SUFFICES ASSUME pc[c] \in Holding
               PROVE  /\ unacked[c] = cur[c] /\ cur[c] \in Message /\ cur[c] # None
                      /\ cur[c].job \in Jobs /\ Outstanding(cur[c].job)
    OBVIOUS
  <2>1. unacked[c] = cur[c] /\ cur[c] # None
    BY DEF Inv, Attached, BusyHolds, ChannelOpen, Holding
  <2> QED BY <1>0, <2>1 DEF Outstanding, Message
<1> USE DEF Holding, ConsumerPC
<1>1. ASSUME UNCHANGED <<storeVars, brokerVars>> PROVE Effect
  BY <1>1, SameWhenUnchanged DEF Effect, NoEffect, storeVars
<1>2. CASE MarkEventRunning(c) \/ SaveRollup(c)
  BY <1>2, SameWhenUnchanged DEF MarkEventRunning, SaveRollup, WriteRollup, UpdateEventStatus,
     storeVars, Effect, NoEffect
<1>3. CASE StartJob(c)
  BY <1>b, <1>3, SameWhenUnchanged DEF StartJob, UpdateJobRunning, Effect, Writes
<1>4. CASE SaveResult(c)
  BY <1>b, <1>4, SameWhenUnchanged DEF SaveResult, UpdateJobResult, Effect, Writes, Inv, StatusFits
<1>5. CASE HandlerError(c)
  <2>1. pc[c] \in Holding /\ UNCHANGED brokerVars
    BY <1>5 DEF HandlerError, HandlerFails
  <2>2. \/ jobStatus' = jobStatus
        \/ \E s \in {"RUNNING"} \cup TerminalJob : jobStatus' = [jobStatus EXCEPT ![cur[c].job] = s]
    BY <1>5 DEF HandlerError, HandlerFails, UpdateJobRunning, UpdateJobResult, WriteRollup,
                storeVars, Inv, StatusFits
  <2> QED BY <1>b, <2>1, <2>2, SameWhenUnchanged DEF Effect, NoEffect, Writes
<1>6. ASSUME NEW m \in Message, Deliver(c, m) PROVE Effect
  <2>1. /\ jobStatus' = jobStatus /\ ready[m] > 0 /\ unacked[c] = None
        /\ ready' = [ready EXCEPT ![m] = ready[m] - 1] /\ unacked' = [unacked EXCEPT ![c] = m]
    BY <1>6 DEF Deliver, DeliverTo, storeVars
  <2>2. \A k \in Jobs \ {m.job} : Same(k)
    BY <1>0, <2>1 DEF Outstanding, Same
  <2>3. Outstanding(m.job) /\ Outstanding(m.job)'
    BY <1>0, <2>1, NoneAssumption DEF Outstanding
  <2> QED BY <2>1, <2>2, <2>3 DEF Effect, NoEffect, Same
<1>7. CASE Republish(c)
  <2> DEFINE again == [cur[c] EXCEPT !.retry = @ + 1]
  <2>0. pc[c] \in Holding
    BY <1>7 DEF Republish
  <2>1. again \in Message /\ again.job = cur[c].job
    BY <1>7, <1>b, <2>0, BrokerAssumption DEF Republish, Message
  <2> HIDE DEF again
  <2>2. /\ jobStatus' = jobStatus /\ unacked' = unacked
        /\ ready' = [ready EXCEPT ![again] = ready[again] + 1]
    BY <1>7 DEF Republish, Publish, storeVars, again
  <2>5. PICK j \in Jobs : j = cur[c].job /\ Outstanding(j)
    BY <1>b, <2>0
  <2>3. \A k \in Jobs \ {j} : Same(k)
    BY <1>0, <2>1, <2>2, <2>5 DEF Outstanding, Same
  <2>4. Outstanding(j)'
    BY <1>0, <1>b, <2>0, <2>2, <2>5 DEF Outstanding
  <2> QED BY <2>2, <2>3, <2>4, <2>5 DEF Effect, NoEffect, Same
<1>8. CASE Ack(c) \/ DeadLetter(c)
  <2>1. /\ pc[c] \in Holding /\ jobStatus' = jobStatus /\ ready' = ready
        /\ unacked' = [unacked EXCEPT ![c] = None]
    BY <1>8 DEF Ack, AckBy, DeadLetter, NackBy, storeVars
  <2>2. \A k \in Jobs \ {cur[c].job} : Same(k)
    BY <1>0, <1>b, <2>1 DEF Outstanding, Same
  <2> QED BY <1>b, <2>1, <2>2 DEF Effect, Settles
<1>9. CASE BrokerRequeue(c)
  <2>1. /\ jobStatus' = jobStatus /\ unacked[c] # None
        /\ ready' = [ready EXCEPT ![unacked[c]] = ready[unacked[c]] + 1]
        /\ unacked' = [unacked EXCEPT ![c] = None]
    BY <1>9 DEF BrokerRequeue, RequeueFrom, storeVars
  <2>2. unacked[c] \in Message
    BY <1>0, <2>1
  <2>5. PICK j \in Jobs : j = unacked[c].job
    BY <2>2 DEF Message
  <2>3. \A k \in Jobs \ {j} : Same(k)
    BY <1>0, <2>1, <2>2, <2>5 DEF Outstanding, Same
  <2>4. Outstanding(j) /\ Outstanding(j)'
    BY <1>0, <2>1, <2>2, <2>5 DEF Outstanding
  <2> QED BY <2>1, <2>3, <2>4 DEF Effect, NoEffect, Same
<1> QED BY <1>1, <1>2, <1>3, <1>4, <1>5, <1>6, <1>7, <1>8, <1>9 DEF ConsumerNext, HandlerStep,
           ConsumeStep, Execute, CountJobs, CountPending, AnswerClosed, Exit

\* No step of a consumer takes the row of an event away.
LEMMA ConsumerKeepsRows ==
    ASSUME Inv, NEW c \in Consumers, ConsumerNext(c), NEW e \in Events, event'[e].status = "NONE"
    PROVE  event[e].status = "NONE"
<1>0. event \in [Events -> EventRow]
  BY DEF Inv, TypeOK, StoreTypeOK
<1>1. CASE event' = event
  BY <1>1
<1>2. ASSUME NEW f, UpdateEventStatus(f, "RUNNING") PROVE event[e].status = "NONE"
  BY <1>0, <1>2 DEF UpdateEventStatus, EventRow
<1>3. ASSUME NEW f, pc[c] = "write", WriteRollup(f, tally[c], status[c])
      PROVE  event[e].status = "NONE"
  <2>1. status[c] # "NONE"
    BY <1>3 DEF Inv, StatusFits
  <2> QED BY <1>0, <1>3, <2>1 DEF WriteRollup
<1>4. CASE HandlerError(c)
  BY <1>1, <1>3, <1>4 DEF HandlerError, HandlerFails, storeVars, UpdateJobRunning, UpdateJobResult
<1>5. CASE MarkEventRunning(c) \/ SaveRollup(c)
  BY <1>1, <1>2, <1>3, <1>5 DEF MarkEventRunning, SaveRollup, storeVars
<1> QED BY <1>1, <1>4, <1>5 DEF ConsumerNext, HandlerStep, ConsumeStep, StartJob, UpdateJobRunning,
           Execute, SaveResult, UpdateJobResult, CountJobs, CountPending, Deliver, Republish,
           DeadLetter, Ack, AnswerClosed, Exit, BrokerRequeue, storeVars

-----------------------------------------------------------------------------
(* The invariant.                                                          *)

Once == RowsTogether /\ \A j \in Jobs : PublishedOnce(j)

LEMMA RequestKeepsOnce ==
    ASSUME TypeOK, IdleRequests, Once, NEW r \in Requests, RequestNext(r),
           \A e \in Events : ~ RerunFailed(r, e)
    PROVE  Once'
<1>0. /\ jobStatus \in [Jobs -> JobStatus \cup {"NONE"}]
      /\ event \in [Events -> EventRow]
      /\ ready \in [Message -> Nat]
      /\ todo \in [Requests -> SUBSET Jobs]
      /\ EventOf \in [Jobs -> Events]
  BY JobsAssumption DEF TypeOK, StoreTypeOK, RequestTypeOK, BrokerTypeOK
<1>1. ASSUME NEW e \in Events, CreateEvent(r, e) PROVE Once'
  <2>1. /\ jobStatus' = [j \in Jobs |-> IF EventOf[j] = e THEN "QUEUED" ELSE jobStatus[j]]
        /\ todo[r] = {} /\ todo' = [todo EXCEPT ![r] = JobsOf(e)]
        /\ UNCHANGED brokerVars
        /\ \A j \in JobsOf(e) : jobStatus[j] = "NONE"
    BY <1>1 DEF CreateEvent, InsertEventWithJobs, IdleRequests, Once, RowsTogether
  <2>2. RowsTogether'
    BY <1>0, <1>1, <2>1 DEF CreateEvent, InsertEventWithJobs, Once, RowsTogether, JobsOf
  <2>3. ASSUME NEW j \in Jobs PROVE PublishedOnce(j)'
    <3>1. Outstanding(j)' <=> Outstanding(j)
      BY <2>1, SameWhenUnchanged DEF Same
    <3>2. CASE EventOf[j] = e
      <4>1. jobStatus[j] = "NONE" /\ ~ Outstanding(j) /\ \A s \in Requests : j \notin todo[s]
        BY <2>1, <3>2 DEF JobsOf, Once, PublishedOnce
      <4> QED BY <1>0, <2>1, <3>1, <3>2, <4>1 DEF PublishedOnce
    <3>3. CASE EventOf[j] # e
      <4>1. jobStatus'[j] = jobStatus[j] /\ \A s \in Requests : j \in todo'[s] => j \in todo[s]
        BY <1>0, <2>1, <3>3 DEF JobsOf
      <4> QED BY <3>1, <4>1 DEF Once, PublishedOnce
    <3> QED BY <3>2, <3>3
  <2> QED BY <2>2, <2>3 DEF Once
<1>2. ASSUME UNCHANGED <<jobStatus, brokerVars>>,
             \A s \in Requests : todo'[s] \subseteq todo[s],
             \A e \in Events : event'[e].status = "NONE" => event[e].status = "NONE"
      PROVE  Once'
  BY <1>2, SameWhenUnchanged DEF Same, Once, RowsTogether, PublishedOnce
<1>3. CASE MarkRequest(r) \/ AbandonRequest(r) \/ Respond(r)
  <2>1. UNCHANGED <<jobStatus, brokerVars>> /\ \A s \in Requests : todo'[s] \subseteq todo[s]
    BY <1>0, <1>3 DEF MarkRequest, AbandonRequest, Respond, EndRequest, UpdateEventStatus, storeVars
  <2>2. event' = event \/ \E f : UpdateEventStatus(f, "RUNNING")
    BY <1>3 DEF MarkRequest, AbandonRequest, Respond, storeVars
  <2>3. \A e \in Events : event'[e].status = "NONE" => event[e].status = "NONE"
    BY <1>0, <2>2 DEF UpdateEventStatus, EventRow
  <2> QED BY <1>2, <2>1, <2>3
<1>4. ASSUME NEW j \in Jobs, PublishLost(r, j) PROVE Once'
  <2>1. UNCHANGED <<jobStatus, event, brokerVars>> /\ \A s \in Requests : todo'[s] \subseteq todo[s]
    BY <1>0, <1>4 DEF PublishLost, storeVars
  <2> QED BY <1>2, <2>1
<1>5. ASSUME NEW j \in Jobs, PublishJob(r, j) PROVE Once'
  <2>1. NewMessage(j) \in Message /\ NewMessage(j).job = j
    BY BrokerAssumption DEF NewMessage, Message
  <2>2. /\ UNCHANGED <<jobStatus, event, unacked>> /\ j \in todo[r]
        /\ todo' = [todo EXCEPT ![r] = todo[r] \ {j}]
        /\ ready' = [ready EXCEPT ![NewMessage(j)] = ready[NewMessage(j)] + 1]
    BY <1>5 DEF PublishJob, Publish, storeVars
  <2>3. \A k \in Jobs \ {j} : Same(k)
    BY <1>0, <2>1, <2>2 DEF Outstanding, Same
  <2>4. jobStatus[j] = "QUEUED" /\ \A s \in Requests : j \notin todo'[s]
    BY <1>0, <2>2 DEF Once, PublishedOnce
  <2>5. RowsTogether'
    BY <2>2 DEF Once, RowsTogether
  <2>6. ASSUME NEW k \in Jobs PROVE PublishedOnce(k)'
    <3>1. CASE k = j
      BY <2>2, <2>4, <3>1 DEF PublishedOnce
    <3>2. CASE k # j
      <4>1. \A s \in Requests : k \in todo'[s] => k \in todo[s]
        BY <1>0, <2>2
      <4> QED BY <2>2, <2>3, <3>2, <4>1 DEF Same, Once, PublishedOnce
    <3> QED BY <3>1, <3>2
  <2> QED BY <2>5, <2>6 DEF Once
<1> QED BY <1>1, <1>3, <1>4, <1>5 DEF RequestNext, RequestStep

LEMMA ConsumerKeepsOnce ==
    ASSUME Inv, Once, NEW c \in Consumers, ConsumerNext(c), Effect
    PROVE  Once'
<1>0. jobStatus \in [Jobs -> JobStatus \cup {"NONE"}] /\ EventOf \in [Jobs -> Events]
  BY JobsAssumption DEF Inv, TypeOK, StoreTypeOK
<1>1. todo' = todo
  BY DEF ConsumerNext, HandlerStep, ConsumeStep, StartJob, MarkEventRunning,
         Execute, SaveResult, CountJobs, CountPending, SaveRollup, HandlerError,
         HandlerFails, Deliver, Republish, DeadLetter, Ack, AnswerClosed, Exit, BrokerRequeue, requestVars
<1>2. \A k \in Jobs : Outstanding(k)' => Outstanding(k)
  BY DEF Effect, NoEffect, Settles, Writes, Same
<1>3. \A k \in Jobs : \/ jobStatus'[k] = jobStatus[k]
                      \/ Outstanding(k) /\ jobStatus'[k] # "NONE"
  BY <1>0 DEF Effect, NoEffect, Settles, Writes
<1>4. RowsTogether'
  <2> SUFFICES ASSUME NEW e \in Events, event'[e].status = "NONE", NEW j \in JobsOf(e)
               PROVE  jobStatus'[j] = "NONE"
    BY DEF RowsTogether
  <2>1. jobStatus[j] = "NONE" /\ ~ Outstanding(j) /\ j \in Jobs
    BY ConsumerKeepsRows DEF Once, RowsTogether, PublishedOnce, JobsOf
  <2> QED BY <1>3, <2>1
<1>5. ASSUME NEW j \in Jobs PROVE PublishedOnce(j)'
  BY <1>1, <1>2, <1>3 DEF Once, PublishedOnce
<1> QED BY <1>4, <1>5 DEF Once

LEMMA StepKeepsOnce ==
    ASSUME AckInv, [Next]_vars PROVE OnceInv'
<1> SUFFICES ASSUME Quiet' PROVE Once'
  BY DEF OnceInv, Once
<1>1. Quiet /\ Once /\ Inv /\ TypeOK
  BY QuietBefore DEF AckInv, OnceInv, Once, Inv
<1>2. ASSUME NEW r \in Requests, RequestNext(r) PROVE Once'
  <2>1. \A e \in Events : ~ RerunFailed(r, e)
    <3>1. spent \in [FaultKind -> Nat] /\ "rerun" \in FaultKind
      BY <1>1 DEF TypeOK, FaultKind
    <3> QED BY <1>1, <3>1 DEF RerunFailed, Spend, Quiet
  <2> QED BY <1>1, <1>2, <2>1, RequestKeepsOnce DEF AckInv
<1>3. ASSUME NEW c \in Consumers, ConsumerNext(c) PROVE Once'
  BY <1>1, <1>3, ConsumerEffect, ConsumerKeepsOnce DEF AckInv, Connected, Quiet
<1>4. ASSUME UNCHANGED <<jobStatus, event, brokerVars>>, \A s \in Requests : todo'[s] \subseteq todo[s]
      PROVE  Once'
  BY <1>1, <1>4, SameWhenUnchanged DEF Same, Once, RowsTogether, PublishedOnce
<1>5. ASSUME NEW w \in Workers, WorkerNext(w) PROVE Once'
  BY <1>4, <1>5 DEF WorkerNext, Shutdown, ProcessExit, Crash, ConnLost, Restart, storeVars, requestVars
<1>6. CASE APICrash
  BY <1>4, <1>6 DEF APICrash, storeVars
<1>7. CASE UNCHANGED vars
  BY <1>4, <1>7 DEF vars, storeVars, requestVars
<1> QED BY <1>2, <1>3, <1>5, <1>6, <1>7 DEF Next

LEMMA InitAckInv == Init => AckInv
<1> SUFFICES ASSUME Init PROVE AckInv
  OBVIOUS
<1>1. Inv /\ IdleRequests /\ Connected
  BY InitLossInv DEF LossInv
<1>2. OnceInv
  BY DEF Init, StoreInit, BrokerInit, OnceInv, RowsTogether, PublishedOnce, Outstanding, JobsOf
<1> QED BY <1>1, <1>2 DEF AckInv

LEMMA AckInvariant == Spec => []AckInv
<1>1. AckInv /\ [Next]_vars => AckInv'
  BY StepKeepsInv, StepKeepsIdleRequests, StepKeepsConnected, StepKeepsOnce DEF AckInv
<1> QED BY <1>1, InitAckInv, PTL DEF Spec

-----------------------------------------------------------------------------
(* Steps of the lifecycle.                                                 *)

\* Where neither status nor messages of a job change, it looks the same.
LEMMA LooksSame ==
    ASSUME NEW k \in Jobs, jobStatus'[k] = jobStatus[k],
           Same(k) \/ jobStatus[k] \notin TerminalJob
    PROVE  Acknowledged'[k] = Acknowledged[k]
BY DEF Acknowledged, Same

LEMMA ConsumerMaps ==
    ASSUME TypeOK, Once, Effect
    PROVE  AtAck!Next \/ UNCHANGED Acknowledged
<1>0. jobStatus \in [Jobs -> JobStatus \cup {"NONE"}]
  BY DEF TypeOK, StoreTypeOK
<1>1. CASE NoEffect
  <2>1. \A k \in Jobs : Acknowledged'[k] = Acknowledged[k]
    BY <1>1, LooksSame DEF NoEffect
  <2> QED BY <2>1 DEF Acknowledged
<1>2. ASSUME NEW j \in Jobs, NEW s \in {"RUNNING"} \cup TerminalJob, Writes(j, s)
      PROVE  AtAck!Next \/ UNCHANGED Acknowledged
  <2>1. \A k \in Jobs \ {j} : Acknowledged'[k] = Acknowledged[k]
    BY <1>0, <1>2, LooksSame DEF Writes
  <2>2. Acknowledged'[j] = "RUNNING" /\ Acknowledged[j] \in {"QUEUED", "RUNNING"}
    BY <1>0, <1>2 DEF Writes, Same, Acknowledged, Once, PublishedOnce
  <2>3. Acknowledged' = [Acknowledged EXCEPT ![j] = "RUNNING"]
    BY <2>1, <2>2 DEF Acknowledged
  <2>4. CASE Acknowledged[j] = "QUEUED"
    BY <2>3, <2>4 DEF AtAck!Next, AtAck!Start
  <2>5. CASE Acknowledged[j] = "RUNNING"
    BY <2>3, <2>5 DEF Acknowledged
  <2> QED BY <2>2, <2>4, <2>5
<1>3. ASSUME NEW j \in Jobs, Settles(j)
      PROVE  AtAck!Next \/ UNCHANGED Acknowledged
  <2>1. \A k \in Jobs \ {j} : Acknowledged'[k] = Acknowledged[k]
    BY <1>3, LooksSame DEF Settles
  <2>2. \/ Acknowledged'[j] = Acknowledged[j]
        \/ Acknowledged[j] = "RUNNING" /\ Acknowledged'[j] \in TerminalJob
    BY <1>3 DEF Settles, Acknowledged
  <2>3. Acknowledged' = [Acknowledged EXCEPT ![j] = Acknowledged'[j]]
    BY <2>1 DEF Acknowledged
  <2>4. CASE Acknowledged'[j] = Acknowledged[j]
    BY <2>1, <2>4 DEF Acknowledged
  <2>5. CASE Acknowledged[j] = "RUNNING" /\ Acknowledged'[j] \in TerminalJob
    BY <2>3, <2>5 DEF AtAck!Next, AtAck!Finish, AtAck!TerminalJob
  <2> QED BY <2>2, <2>4, <2>5
<1> QED BY <1>1, <1>2, <1>3 DEF Effect

LEMMA CreateMaps ==
    ASSUME TypeOK, Once, NEW r \in Requests, NEW e \in Events, CreateEvent(r, e)
    PROVE  AtAck!Insert(e)
<1>1. \A j \in Jobs : EventOf[j] = e => jobStatus[j] = "NONE"
  BY DEF CreateEvent, Once, RowsTogether, JobsOf
<1>2. \A k \in Jobs : Same(k)
  BY SameWhenUnchanged DEF CreateEvent
<1>3. \A j \in Jobs : jobStatus'[j] = IF EventOf[j] = e THEN "QUEUED" ELSE jobStatus[j]
  BY DEF CreateEvent, InsertEventWithJobs
<1>4. \A j \in Jobs : EventOf[j] = e => Acknowledged[j] = "NONE"
  BY <1>1 DEF Acknowledged
<1>5. ASSUME NEW j \in Jobs
      PROVE  Acknowledged'[j] = IF EventOf[j] = e THEN "QUEUED" ELSE Acknowledged[j]
  BY <1>2, <1>3, LooksSame DEF Acknowledged
<1> QED BY <1>4, <1>5 DEF AtAck!Insert, AtAck!JobsOf, Acknowledged

LEMMA StepMaps ==
    ASSUME AckInv, [Next]_vars, Quiet'
    PROVE  AtAck!Next \/ UNCHANGED Acknowledged
<1>1. Quiet /\ Once /\ Inv /\ TypeOK
  BY QuietBefore DEF AckInv, OnceInv, Once, Inv
<1>2. ASSUME UNCHANGED <<jobStatus, brokerVars>> PROVE UNCHANGED Acknowledged
  <2>1. \A k \in Jobs : Acknowledged'[k] = Acknowledged[k]
    BY <1>2, LooksSame, SameWhenUnchanged
  <2> QED BY <2>1 DEF Acknowledged
<1>3. ASSUME NEW r \in Requests, RequestNext(r) PROVE AtAck!Next \/ UNCHANGED Acknowledged
  <2>1. ASSUME NEW e \in Events, CreateEvent(r, e) PROVE AtAck!Next
    BY <1>1, <2>1, CreateMaps DEF AtAck!Next
  <2>2. ASSUME NEW e \in Events, RerunFailed(r, e) PROVE FALSE
    <3>1. spent \in [FaultKind -> Nat] /\ "rerun" \in FaultKind
      BY <1>1 DEF TypeOK, FaultKind
    <3> QED BY <1>1, <2>2, <3>1 DEF RerunFailed, Spend, Quiet
  <2>3. ASSUME NEW j \in Jobs, PublishJob(r, j) PROVE UNCHANGED Acknowledged
    <3>1. jobStatus' = jobStatus /\ jobStatus[j] \notin TerminalJob
      BY <1>1, <2>3 DEF PublishJob, storeVars, Once, PublishedOnce
    <3>2. \A k \in Jobs \ {j} : Same(k)
      <4>1. NewMessage(j) \in Message /\ NewMessage(j).job = j
        BY BrokerAssumption DEF NewMessage, Message
      <4>2. ready \in [Message -> Nat]
        BY <1>1 DEF TypeOK, BrokerTypeOK
      <4> QED BY <2>3, <4>1, <4>2 DEF PublishJob, Publish, Outstanding, Same
    <3>3. \A k \in Jobs : Acknowledged'[k] = Acknowledged[k]
      BY <3>1, <3>2, LooksSame
    <3> QED BY <3>3 DEF Acknowledged
  <2>4. CASE MarkRequest(r) \/ Respond(r) \/ AbandonRequest(r) \/ \E j \in Jobs : PublishLost(r, j)
    BY <1>2, <2>4 DEF MarkRequest, Respond, AbandonRequest, PublishLost, UpdateEventStatus, storeVars
  <2> QED BY <1>3, <2>1, <2>2, <2>3, <2>4 DEF RequestNext, RequestStep
<1>4. ASSUME NEW c \in Consumers, ConsumerNext(c) PROVE AtAck!Next \/ UNCHANGED Acknowledged
  BY <1>1, <1>4, ConsumerEffect, ConsumerMaps DEF AckInv, Connected, Quiet
<1>5. ASSUME NEW w \in Workers, WorkerNext(w) PROVE UNCHANGED Acknowledged
  BY <1>2, <1>5 DEF WorkerNext, Shutdown, ProcessExit, Crash, ConnLost, Restart, storeVars
<1>6. CASE APICrash \/ UNCHANGED vars
  BY <1>2, <1>6 DEF APICrash, vars, storeVars
<1> QED BY <1>3, <1>4, <1>5, <1>6 DEF Next

\* Seen at the acknowledgement, jobs go through the lifecycle of JobLife
\* whatever crashes, stops, fails or is delivered twice, as long as no worker
\* loses its connection and no user asks for a re-run.
THEOREM FinalWhenAcknowledgedHolds == Spec => FinalWhenAcknowledged
<1>1. Init => AtAck!Init
  BY DEF Init, StoreInit, AtAck!Init, Acknowledged
<1>2. AckInv /\ [Next]_vars => (Quiet' => AtAck!Next \/ UNCHANGED Acknowledged)
  BY StepMaps
<1>3. AckInv /\ [Next]_vars =>
        [spent'["conn"] = 0 /\ spent'["rerun"] = 0 =>
             AtAck!Next \/ UNCHANGED Acknowledged]_vars
  BY <1>2 DEF Quiet
<1> QED BY <1>1, <1>3, AckInvariant, PTL DEF Spec, FinalWhenAcknowledged
=============================================================================
