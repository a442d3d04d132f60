---------------------------- MODULE RollupProofs ----------------------------
(***************************************************************************)
(* What the one consumer of a worker with WORKER_CONCURRENCY = 1 makes of  *)
(* the row of an event: StatusDerived, for every number of jobs, events    *)
(* and requests and every budget of faults, as long as nothing is re-run.  *)
(* (The run rollup_race shows why one consumer.)                           *)
(***************************************************************************)
EXTENDS AckProofs

USE DEF history, GivenUp, TerminalJob, PendingJob, JobStatus, ActiveEvent, TerminalEvent, EventStatus

OneConsumer == \A c, d \in Consumers : c = d

NoRerun == spent["rerun"] = 0

\* Nobody has a message for job j.
Free(j) ==
    /\ \A m \in Message : m.job = j => ready[m] = 0
    /\ \A c \in Consumers : \A m \in {unacked[c], cur[c]} \ {None} : m.job # j

\* Nobody has one before the request that inserted the job publishes it.
FreshJobs ==
    /\ \A j \in Jobs : jobStatus[j] = "NONE" => Free(j)
    /\ \A r \in Requests : \A j \in todo[r] : jobStatus[j] = "QUEUED" /\ Free(j)
    /\ \A r, s \in Requests : \A j \in Jobs : j \in todo[r] /\ j \in todo[s] => r = s

\* And that is only after it has marked the event.
MarkedFirst == \A r \in Requests :
    rpc[r] = "mark" => revent[r] \in Events /\ todo[r] = JobsOf(revent[r])

\* The delivery a consumer is busy with is unacknowledged or back in the queue,
\* whatever became of its channel.
Kept == \A c \in Consumers : cur[c] # None =>
    \/ unacked[c] = cur[c]
    \/ unacked[c] = None /\ ready[cur[c]] > 0

\* With no other consumer what RollupEvent has counted is still so when it
\* writes.
CountsCurrent == \A c \in Consumers :
    LET e == EventOf[cur[c].job] IN
    /\ pc[c] \in {"pending", "write"} => tally[c] = Tally(e)
    /\ pc[c] = "write" => status[c] = RollupStatus(tally[c], PendingCount(e))

\* The jobs of e are over and so is all work on them, up to acknowledgements.
Calm(e) ==
    /\ \A j \in JobsOf(e) : jobStatus[j] \in TerminalJob /\ j \notin GivenUp
    /\ \A m \in Message : EventOf[m.job] = e => ready[m] = 0
    /\ \A c \in Consumers :
          pc[c] = "ack" \/ \A m \in {unacked[c], cur[c]} \ {None} : EventOf[m.job] # e

CalmDerived == \A e \in Events : Calm(e) => event[e] = DerivedRow(e)

DerivedInv == FreshJobs /\ RowsTogether /\ MarkedFirst /\ Kept /\ CountsCurrent /\ CalmDerived

\* What RollupEvent writes when all jobs of the event are over.
LEMMA RollupWritesDerived ==
    ASSUME NEW e \in Events, \A j \in JobsOf(e) : jobStatus[j] \in TerminalJob
    PROVE  [status |-> RollupStatus(Tally(e), PendingCount(e)), total |-> Tally(e).total,
            verified |-> Tally(e).verified, failed |-> Tally(e).failed] = DerivedRow(e)
<1>1. IsFiniteSet(JobsOf(e))
  BY JobsAssumption, FS_Subset DEF JobsOf
<1>2. PendingCount(e) = 0
  <2>1. {j \in JobsOf(e) : jobStatus[j] \in PendingJob} = {}
    OBVIOUS
  <2> QED BY <2>1, FS_EmptySet DEF PendingCount
<1>3. ASSUME NEW s
      PROVE  CountStatus(e, s) = Cardinality(JobsOf(e)) <=> \A j \in JobsOf(e) : jobStatus[j] = s
  <2> DEFINE S == {j \in JobsOf(e) : jobStatus[j] = s}
  <2>1. S \subseteq JobsOf(e) /\ CountStatus(e, s) = Cardinality(S)
    BY DEF CountStatus
  <2>2. Cardinality(S) = Cardinality(JobsOf(e)) <=> S = JobsOf(e)
    BY <1>1, <2>1, FS_Subset
  <2>3. S = JobsOf(e) <=> \A j \in JobsOf(e) : jobStatus[j] = s
    OBVIOUS
  <2> HIDE DEF S
  <2> QED BY <2>1, <2>2, <2>3
<1>4. /\ Tally(e).verified = Tally(e).total <=> \A j \in JobsOf(e) : jobStatus[j] = "VERIFIED"
      /\ Tally(e).failed = Tally(e).total <=> \A j \in JobsOf(e) : jobStatus[j] = "FAILED"
  BY <1>3 DEF Tally
<1>5. RollupStatus(Tally(e), PendingCount(e)) = DerivedRow(e).status
  BY <1>2, <1>4 DEF RollupStatus, DerivedRow
<1> QED BY <1>5 DEF DerivedRow, Tally

\* What is counted of jobs that did not change.
LEMMA CountsSame ==
    ASSUME NEW e, \A j \in JobsOf(e) : jobStatus'[j] = jobStatus[j]
    PROVE  /\ Tally(e)' = Tally(e)
           /\ PendingCount(e)' = PendingCount(e)
           /\ DerivedRow(e)' = DerivedRow(e)
<1>0. JobsOf(e)' = JobsOf(e)
  BY DEF JobsOf
<1>1. \A s : CountStatus(e, s)' = CountStatus(e, s)
  <2>1. \A s : {j \in JobsOf(e) : jobStatus'[j] = s} = {j \in JobsOf(e) : jobStatus[j] = s}
    OBVIOUS
  <2> QED BY <1>0, <2>1 DEF CountStatus
<1>2. PendingCount(e)' = PendingCount(e)
  <2>1. {j \in JobsOf(e) : jobStatus'[j] \in PendingJob} = {j \in JobsOf(e) : jobStatus[j] \in PendingJob}
    OBVIOUS
  <2> QED BY <1>0, <2>1 DEF PendingCount
<1> QED BY <1>0, <1>1, <1>2 DEF Tally, DerivedRow

\* An event that a step leaves alone.
LEMMA DerivedKept ==
    ASSUME NEW e \in Events, CalmDerived, event'[e] = event[e],
           \A j \in JobsOf(e) : jobStatus'[j] = jobStatus[j],
           Calm(e)' => Calm(e), Calm(e)'
    PROVE  event'[e] = DerivedRow(e)'
BY CountsSame DEF CalmDerived

-----------------------------------------------------------------------------
(* Requests.                                                               *)

LEMMA RequestKeepsDerived ==
    ASSUME Inv, IdleRequests, DerivedInv, NEW r \in Requests, RequestNext(r),
           \A e \in Events : ~ RerunFailed(r, e)
    PROVE  DerivedInv'
<1>0. /\ jobStatus \in [Jobs -> JobStatus \cup {"NONE"}]
      /\ event \in [Events -> EventRow]
      /\ ready \in [Message -> Nat]
      /\ todo \in [Requests -> SUBSET Jobs]
      /\ rpc \in [Requests -> RequestPC]
      /\ revent \in [Requests -> Events \cup {None}]
      /\ cur \in [Consumers -> Message \cup {None}]
      /\ GivenUp \subseteq Jobs
      /\ EventOf \in [Jobs -> Events]
      /\ rpc[r] = "idle" => todo[r] = {}
  BY JobsAssumption DEF Inv, TypeOK, StoreTypeOK, RequestTypeOK, ConsumerTypeOK, BrokerTypeOK,
                        IdleRequests
<1>a. UNCHANGED <<pc, cur, status, tally, unacked>>
  BY DEF RequestNext, RequestStep, CreateEvent, PublishJob, PublishLost, MarkRequest, Respond,
         AbandonRequest, Publish, brokerVars, localVars
<1>b. ASSUME NEW c \in Consumers, pc[c] \in Holding
      PROVE  /\ cur[c].job \in Jobs /\ EventOf[cur[c].job] \in Events
             /\ jobStatus[cur[c].job] # "NONE"
  <2>1. cur[c] \in Message /\ cur[c] # None
    BY <1>0, <1>b DEF Inv, BusyHolds, Holding
  <2>2. cur[c].job \in Jobs
    BY <2>1 DEF Message
  <2> QED BY <1>0, <2>1, <2>2 DEF DerivedInv, FreshJobs, Free
\* No request changes what a consumer has counted.
<1>c. ASSUME \A j, k \in Jobs : EventOf[j] = EventOf[k] /\ jobStatus[j] # "NONE" =>
                                   jobStatus'[k] = jobStatus[k]
      PROVE  CountsCurrent'
  <2> SUFFICES ASSUME NEW c \in Consumers, pc[c] \in {"pending", "write"}
               PROVE  \E e \in Events : /\ e = EventOf[cur[c].job]
                                        /\ Tally(e)' = Tally(e)
                                        /\ PendingCount(e)' = PendingCount(e)
    BY <1>a DEF DerivedInv, CountsCurrent
  <2>1. pc[c] \in Holding
    BY DEF Holding, ConsumerPC
  <2>2. PICK e \in Events : e = EventOf[cur[c].job]
    BY <1>b, <2>1
  <2>3. \A k \in JobsOf(e) : jobStatus'[k] = jobStatus[k]
    BY <1>b, <1>c, <2>1, <2>2 DEF JobsOf
  <2> QED BY <2>2, <2>3, CountsSame
\* Steps that leave jobs and messages alone.
<1>1. ASSUME UNCHANGED <<jobStatus, ready>>, \A s \in Requests : todo'[s] \subseteq todo[s],
             \A s \in Requests : rpc'[s] = "mark" => rpc[s] = "mark" /\ UNCHANGED <<revent[s], todo[s]>>,
             GivenUp \subseteq GivenUp',
             \A e \in Events : \/ event'[e] = event[e]
                               \/ event'[e].status # "NONE" /\ ~ Calm(e)'
      PROVE  DerivedInv'
  <2>1. \A j : Free(j)' <=> Free(j)
    BY <1>1, <1>a DEF Free
  <2>2. FreshJobs'
    BY <1>1, <2>1 DEF DerivedInv, FreshJobs
  <2>3. RowsTogether'
    BY <1>1 DEF DerivedInv, RowsTogether, JobsOf
  <2>4. MarkedFirst'
    BY <1>1 DEF DerivedInv, MarkedFirst, JobsOf
  <2>5. Kept'
    BY <1>1, <1>a DEF DerivedInv, Kept
  <2>6. CountsCurrent'
    BY <1>1, <1>c
  <2>7. CalmDerived'
    <3> SUFFICES ASSUME NEW e \in Events, Calm(e)' PROVE event'[e] = DerivedRow(e)'
      BY DEF CalmDerived
    <3>1. Calm(e)' => Calm(e)
      BY <1>1, <1>a DEF Calm, JobsOf
    <3> QED BY <1>1, <3>1, DerivedKept DEF DerivedInv
  <2> QED BY <2>2, <2>3, <2>4, <2>5, <2>6, <2>7 DEF DerivedInv
<1>2. ASSUME NEW f \in Events, CreateEvent(r, f) PROVE DerivedInv'
  <2>1. /\ \A j \in JobsOf(f) : jobStatus[j] = "NONE"
        /\ \A j \in Jobs : jobStatus'[j] = IF EventOf[j] = f THEN "QUEUED" ELSE jobStatus[j]
        /\ todo' = [todo EXCEPT ![r] = JobsOf(f)] /\ todo[r] = {}
        /\ rpc' = [rpc EXCEPT ![r] = "mark"] /\ revent' = [revent EXCEPT ![r] = f]
        /\ UNCHANGED <<ready, GivenUp>>
        /\ event'[f].status # "NONE" /\ \A e \in Events \ {f} : event'[e] = event[e]
    BY <1>0, <1>2 DEF CreateEvent, InsertEventWithJobs, brokerVars, DerivedInv, RowsTogether
  <2>2. \A j : Free(j)' <=> Free(j)
    BY <1>a, <2>1 DEF Free
  <2>3. FreshJobs'
    <3>1. \A j \in JobsOf(f) : Free(j) /\ \A s \in Requests : j \notin todo[s]
      BY <2>1 DEF DerivedInv, FreshJobs, JobsOf
    <3>2. \A s \in Requests : todo'[s] = IF s = r THEN JobsOf(f) ELSE todo[s]
      BY <1>0, <2>1
    <3>3. \A s \in Requests : \A j \in todo'[s] : jobStatus'[j] = "QUEUED" /\ Free(j)
      BY <1>0, <2>1, <3>1, <3>2 DEF DerivedInv, FreshJobs, JobsOf
    <3>4. \A s, t \in Requests : \A j \in Jobs : j \in todo'[s] /\ j \in todo'[t] => s = t
      BY <3>1, <3>2 DEF DerivedInv, FreshJobs
    <3>5. \A j \in Jobs : jobStatus'[j] = "NONE" => Free(j)
      BY <2>1 DEF DerivedInv, FreshJobs
    <3> QED BY <2>2, <3>3, <3>4, <3>5 DEF FreshJobs
  <2>4. RowsTogether'
    BY <1>0, <2>1 DEF DerivedInv, RowsTogether, JobsOf
  <2>5. MarkedFirst'
    BY <1>0, <2>1 DEF DerivedInv, MarkedFirst, JobsOf
  <2>6. Kept'
    BY <1>a, <2>1 DEF DerivedInv, Kept
  <2>7. CountsCurrent'
    BY <1>c, <2>1 DEF JobsOf
  <2>8. CalmDerived'
    <3> SUFFICES ASSUME NEW e \in Events, Calm(e)' PROVE event'[e] = DerivedRow(e)'
      BY DEF CalmDerived
    <3>1. e # f
      <4>1. PICK j \in JobsOf(f) : TRUE
        BY JobsAssumption
      <4> QED BY <2>1, <4>1 DEF Calm, JobsOf
    <3>2. \A j \in JobsOf(e) : jobStatus'[j] = jobStatus[j]
      BY <2>1, <3>1 DEF JobsOf
    <3>3. Calm(e)' => Calm(e)
      BY <1>a, <2>1, <3>2 DEF Calm, JobsOf
    <3> QED BY <2>1, <3>1, <3>2, <3>3, DerivedKept DEF DerivedInv
  <2> QED BY <2>3, <2>4, <2>5, <2>6, <2>7, <2>8 DEF DerivedInv
\* The event a request marks has all its jobs yet to be published.
<1>3. ASSUME rpc[r] = "mark"
      PROVE  revent[r] \in Events /\ \A j \in JobsOf(revent[r]) : jobStatus[j] = "QUEUED"
  BY <1>3 DEF DerivedInv, MarkedFirst, FreshJobs
<1>4. ASSUME UpdateEventStatus(revent[r], "RUNNING"), rpc[r] = "mark"
      PROVE  \A e \in Events : \/ event'[e] = event[e]
                               \/ event'[e].status # "NONE" /\ ~ Calm(e)'
  <2>1. PICK f \in Events : f = revent[r]
    BY <1>3, <1>4
  <2>2. /\ \A e \in Events \ {f} : event'[e] = event[e]
        /\ event'[f].status # "NONE"
        /\ jobStatus' = jobStatus
    BY <1>0, <1>4, <2>1 DEF UpdateEventStatus, EventRow
  <2>3. PICK j \in JobsOf(f) : jobStatus'[j] = "QUEUED"
    BY <1>3, <1>4, <2>1, <2>2, JobsAssumption
  <2>4. ~ Calm(f)'
    BY <2>3 DEF Calm, JobsOf
  <2> QED BY <2>2, <2>4
<1>5. CASE MarkRequest(r)
  BY <1>0, <1>1, <1>4, <1>5 DEF MarkRequest, UpdateEventStatus, brokerVars
<1>6. CASE Respond(r)
  BY <1>0, <1>1, <1>6 DEF Respond, EndRequest, storeVars, brokerVars
<1>7. CASE AbandonRequest(r)
  <2>1. UNCHANGED event \/ (rpc[r] = "mark" /\ UpdateEventStatus(revent[r], "RUNNING"))
    BY <1>7 DEF AbandonRequest, storeVars
  <2>2. UNCHANGED <<jobStatus, ready>> /\ GivenUp \subseteq GivenUp'
    BY <1>7 DEF AbandonRequest, storeVars, brokerVars, UpdateEventStatus
  <2>3. \A s \in Requests : /\ todo'[s] \subseteq todo[s]
                            /\ rpc'[s] = "mark" => rpc[s] = "mark" /\ UNCHANGED <<revent[s], todo[s]>>
    BY <1>0, <1>7 DEF AbandonRequest, EndRequest
  <2> QED BY <1>1, <1>4, <2>1, <2>2, <2>3
<1>8. ASSUME NEW j \in Jobs, PublishLost(r, j) PROVE DerivedInv'
  BY <1>0, <1>1, <1>8 DEF PublishLost, storeVars, brokerVars
<1>9. ASSUME NEW j \in Jobs, PublishJob(r, j) PROVE DerivedInv'
  <2> DEFINE n == NewMessage(j)
  <2>1. n \in Message /\ n.job = j
    BY BrokerAssumption DEF NewMessage, Message
  <2> HIDE DEF n
  <2>2. /\ UNCHANGED <<jobStatus, event, rpc, revent>> /\ rpc[r] = "publish" /\ j \in todo[r]
        /\ todo' = [todo EXCEPT ![r] = todo[r] \ {j}] /\ GivenUp' = GivenUp \ {j}
        /\ ready' = [ready EXCEPT ![n] = ready[n] + 1]
    BY <1>9 DEF PublishJob, Publish, storeVars, n
  <2>3. ready'[n] > 0 /\ \A m \in Message \ {n} : ready'[m] = ready[m]
    BY <1>0, <2>1, <2>2
  <2>4. \A k \in Jobs \ {j} : Free(k)' <=> Free(k)
    BY <1>a, <2>1, <2>3 DEF Free
  <2>5. \A s \in Requests : todo'[s] \subseteq todo[s] \ {j}
    BY <1>0, <2>2 DEF DerivedInv, FreshJobs
  <2>6. FreshJobs'
    <3>1. jobStatus[j] = "QUEUED"
      BY <2>2 DEF DerivedInv, FreshJobs
    <3> QED BY <1>0, <2>2, <2>4, <2>5, <3>1 DEF DerivedInv, FreshJobs
  <2>7. RowsTogether'
    BY <2>2 DEF DerivedInv, RowsTogether, JobsOf
  <2>8. MarkedFirst'
    BY <1>0, <2>2 DEF DerivedInv, MarkedFirst, JobsOf
  <2>9. Kept'
    BY <1>0, <1>a, <2>1, <2>2, <2>3 DEF DerivedInv, Kept
  <2>10. CountsCurrent'
    BY <1>c, <2>2
  <2>11. CalmDerived'
    <3> SUFFICES ASSUME NEW e \in Events, Calm(e)' PROVE event'[e] = DerivedRow(e)'
      BY DEF CalmDerived
    <3>1. e # EventOf[j]
      BY <2>1, <2>3 DEF Calm
    <3>2. Calm(e)' => Calm(e)
      BY <1>a, <2>1, <2>2, <2>3, <3>1 DEF Calm, JobsOf
    <3> QED BY <2>2, <3>2, DerivedKept DEF DerivedInv
  <2> QED BY <2>6, <2>7, <2>8, <2>9, <2>10, <2>11 DEF DerivedInv
<1> QED BY <1>2, <1>5, <1>6, <1>7, <1>8, <1>9 DEF RequestNext, RequestStep

-----------------------------------------------------------------------------
(* The consumer.                                                           *)

\* What a step of the consumer cannot do: touch a job that nobody has a
\* message for, or give anybody one.
LEMMA ConsumerKeepsFresh ==
    ASSUME Inv, DerivedInv, NEW c \in Consumers, ConsumerNext(c)
    PROVE  FreshJobs' /\ RowsTogether' /\ MarkedFirst'
<1>0. /\ jobStatus \in [Jobs -> JobStatus \cup {"NONE"}]
      /\ ready \in [Message -> Nat]
      /\ unacked \in [Consumers -> Message \cup {None}]
      /\ cur \in [Consumers -> Message \cup {None}]
      /\ todo \in [Requests -> SUBSET Jobs]
  BY DEF Inv, TypeOK, StoreTypeOK, ConsumerTypeOK, BrokerTypeOK, RequestTypeOK
<1>1. UNCHANGED <<rpc, revent, todo>>
  BY DEF ConsumerNext, HandlerStep, ConsumeStep, StartJob, MarkEventRunning,
         Execute, SaveResult, CountJobs, CountPending, SaveRollup, HandlerError,
         HandlerFails, Deliver, Republish, DeadLetter, Ack, AnswerClosed, Exit, BrokerRequeue, requestVars
<1>b. ASSUME pc[c] \in Holding PROVE cur[c] \in Message /\ cur[c] # None /\ ~ Free(cur[c].job)
  <2>1. cur[c] \in Message /\ cur[c] # None
    BY <1>0, <1>b DEF Inv, BusyHolds, Holding
  <2> QED BY <2>1 DEF Free
<1> USE DEF Holding, ConsumerPC
<1>2. \A j \in Jobs : Free(j) => Free(j)'
  <2> SUFFICES ASSUME NEW j \in Jobs, Free(j) PROVE Free(j)'
    OBVIOUS
  <2>1. CASE UNCHANGED <<cur, ready, unacked>>
    BY <2>1 DEF Free
  <2>2. ASSUME NEW m \in Message, Deliver(c, m) PROVE Free(j)'
    <3>1. /\ ready' = [ready EXCEPT ![m] = ready[m] - 1] /\ ready[m] > 0
          /\ unacked' = [unacked EXCEPT ![c] = m] /\ cur' = [cur EXCEPT ![c] = m]
      BY <2>2 DEF Deliver, DeliverTo
    <3>2. m.job # j
      BY <3>1 DEF Free
    <3> QED BY <1>0, <3>1, <3>2 DEF Free
  <2>3. CASE Republish(c)
    <3> DEFINE again == [cur[c] EXCEPT !.retry = @ + 1]
    <3>1. again \in Message /\ again.job = cur[c].job
      BY <2>3, <1>b, BrokerAssumption DEF Republish, Message
    <3> HIDE DEF again
    <3>2. UNCHANGED <<cur, unacked>> /\ ready' = [ready EXCEPT ![again] = ready[again] + 1]
      BY <2>3 DEF Republish, Publish, localVars, again
    <3>3. again.job # j
      BY <2>3, <1>b, <3>1 DEF Republish
    <3> QED BY <1>0, <3>1, <3>2, <3>3 DEF Free
  <2>4. CASE Ack(c) \/ DeadLetter(c) \/ AnswerClosed(c)
    <3>1. /\ ready' = ready /\ cur' = [cur EXCEPT ![c] = None]
          /\ unacked' = unacked \/ unacked' = [unacked EXCEPT ![c] = None]
      BY <2>4 DEF Ack, AckBy, DeadLetter, NackBy, AnswerClosed, brokerVars
    <3> QED BY <1>0, <3>1 DEF Free
  <2>5. CASE BrokerRequeue(c)
    <3>1. /\ unacked[c] # None /\ cur' = cur /\ unacked' = [unacked EXCEPT ![c] = None]
          /\ ready' = [ready EXCEPT ![unacked[c]] = ready[unacked[c]] + 1]
      BY <2>5 DEF BrokerRequeue, RequeueFrom, localVars
    <3>2. unacked[c] \in Message /\ unacked[c].job # j
      BY <1>0, <3>1 DEF Free
    <3> QED BY <1>0, <3>1, <3>2 DEF Free
  <2>6. CASE HandlerStep(c) \/ HandlerError(c) \/ Exit(c)
    BY <2>1, <2>6 DEF HandlerStep, StartJob, MarkEventRunning, Execute, SaveResult, CountJobs,
       CountPending, SaveRollup, HandlerError, HandlerFails, Exit, brokerVars, localVars
  <2> QED BY <2>2, <2>3, <2>4, <2>5, <2>6 DEF ConsumerNext, ConsumeStep
<1>3. \A j \in Jobs : jobStatus'[j] = jobStatus[j] \/ (~ Free(j) /\ jobStatus'[j] # "NONE")
  <2> DEFINE Written == /\ pc[c] \in Holding
                        /\ \E s \in {"RUNNING"} \cup TerminalJob :
                              jobStatus' = [jobStatus EXCEPT ![cur[c].job] = s]
  <2>1. CASE StartJob(c) \/ SaveResult(c)
    <3>1. Written
      BY <2>1 DEF StartJob, UpdateJobRunning, SaveResult, UpdateJobResult, Inv, StatusFits
    <3> QED BY <1>0, <1>b, <3>1
  <2>2. CASE HandlerError(c)
    <3>1. jobStatus' = jobStatus \/ Written
      BY <2>2 DEF HandlerError, HandlerFails, UpdateJobRunning, UpdateJobResult, WriteRollup,
                  storeVars, Inv, StatusFits
    <3> QED BY <1>0, <1>b, <3>1
  <2>3. CASE ~ (StartJob(c) \/ SaveResult(c) \/ HandlerError(c))
    BY <2>3 DEF ConsumerNext, HandlerStep, ConsumeStep, MarkEventRunning, UpdateEventStatus,
       Execute, CountJobs, CountPending, SaveRollup, WriteRollup, Deliver, Republish, DeadLetter,
       Ack, AnswerClosed, Exit, BrokerRequeue, storeVars
  <2> QED BY <2>1, <2>2, <2>3
<1>4. FreshJobs'
  BY <1>0, <1>1, <1>2, <1>3 DEF DerivedInv, FreshJobs
<1>5. RowsTogether'
  <2> SUFFICES ASSUME NEW e \in Events, event'[e].status = "NONE", NEW j \in JobsOf(e)
               PROVE  jobStatus'[j] = "NONE"
    BY DEF RowsTogether
  <2>1. jobStatus[j] = "NONE" /\ Free(j) /\ j \in Jobs
    BY ConsumerKeepsRows DEF DerivedInv, RowsTogether, FreshJobs, JobsOf
  <2> QED BY <1>3, <2>1
<1>6. MarkedFirst'
  BY <1>1 DEF DerivedInv, MarkedFirst, JobsOf
<1> QED BY <1>4, <1>5, <1>6

LEMMA ConsumerKeepsDerived ==
    ASSUME Inv, DerivedInv, OneConsumer, NEW c \in Consumers, ConsumerNext(c)
    PROVE  Kept' /\ CountsCurrent' /\ CalmDerived'
<1>0. /\ jobStatus \in [Jobs -> JobStatus \cup {"NONE"}]
      /\ event \in [Events -> EventRow]
      /\ ready \in [Message -> Nat]
      /\ unacked \in [Consumers -> Message \cup {None}]
      /\ pc \in [Consumers -> ConsumerPC]
      /\ cur \in [Consumers -> Message \cup {None}]
      /\ status \in [Consumers -> LocalStatus]
      /\ tally \in [Consumers -> TallyRow]
      /\ EventOf \in [Jobs -> Events]
  BY JobsAssumption DEF Inv, TypeOK, StoreTypeOK, ConsumerTypeOK, BrokerTypeOK
<1>1. \A d \in Consumers : d = c
  BY DEF OneConsumer
\* c alone makes the three parts.
<1>2. ASSUME cur'[c] # None => unacked'[c] = cur'[c] \/ (unacked'[c] = None /\ ready'[cur'[c]] > 0)
      PROVE  Kept'
  BY <1>1, <1>2 DEF Kept
<1>3. ASSUME pc'[c] \notin {"pending", "write"}
      PROVE  CountsCurrent'
  BY <1>1, <1>3 DEF CountsCurrent
<1>4. ASSUME \A e \in Events : Calm(e)' => /\ Calm(e)
                                           /\ event'[e] = event[e]
                                           /\ \A j \in JobsOf(e) : jobStatus'[j] = jobStatus[j]
      PROVE  CalmDerived'
  BY <1>4, DerivedKept DEF CalmDerived, DerivedInv
<1> USE DEF Holding, ConsumerPC
\* The delivery of a busy consumer.
<1>5. ASSUME pc[c] \in Holding
      PROVE  \E m \in Message : /\ m = cur[c] /\ m # None
                                /\ \/ unacked[c] = m
                                   \/ unacked[c] = None /\ ready[m] > 0
  BY <1>0, <1>5 DEF Inv, BusyHolds, DerivedInv, Kept
<1>6. ASSUME pc[c] \notin Holding PROVE cur[c] = None
  BY <1>0, <1>6 DEF Inv, BusyHolds
\* Steps of Handle that leave the message alone.
<1>7. ASSUME pc[c] \in Holding, UNCHANGED <<cur, ready, unacked, GivenUp>>,
             pc'[c] \notin {"ack", "idle", "off"},
             \A j \in Jobs : j # cur[c].job => jobStatus'[j] = jobStatus[j],
             \A e \in Events : e # EventOf[cur[c].job] => event'[e] = event[e]
      PROVE  Kept' /\ CalmDerived'
  <2>1. PICK m \in Message : m = cur[c] /\ m # None
    BY <1>5, <1>7
  <2>2. Kept'
    BY <1>2, <1>5, <1>7
  <2>3. ASSUME NEW e \in Events, Calm(e)'
        PROVE  /\ Calm(e) /\ event'[e] = event[e]
               /\ \A j \in JobsOf(e) : jobStatus'[j] = jobStatus[j]
    <3>1. e # EventOf[m.job]
      BY <1>7, <2>1, <2>3 DEF Calm
    <3>2. event'[e] = event[e] /\ \A j \in JobsOf(e) : jobStatus'[j] = jobStatus[j]
      BY <1>7, <2>1, <3>1 DEF JobsOf
    <3>3. Calm(e)
      BY <1>1, <1>7, <2>3, <3>2 DEF Calm, JobsOf
    <3> QED BY <3>2, <3>3
  <2> QED BY <1>4, <2>2, <2>3
<1>8. CASE StartJob(c) \/ MarkEventRunning(c) \/ SaveResult(c) \/ \E s \in TerminalJob : Execute(c, s)
  <2>1. /\ pc[c] \in Holding /\ UNCHANGED <<cur, ready, unacked, GivenUp>>
        /\ pc'[c] \notin {"ack", "idle", "off", "pending", "write"}
    BY <1>0, <1>8 DEF StartJob, MarkEventRunning, SaveResult, Execute, Goto, brokerVars, localVars
  <2>2. /\ \A j \in Jobs : j # cur[c].job => jobStatus'[j] = jobStatus[j]
        /\ \A e \in Events : e # EventOf[cur[c].job] => event'[e] = event[e]
    BY <1>0, <1>8 DEF StartJob, MarkEventRunning, SaveResult, Execute, UpdateJobRunning,
       UpdateEventStatus, UpdateJobResult, storeVars
  <2> QED BY <1>3, <1>7, <2>1, <2>2
<1>9. CASE HandlerError(c)
  <2>1. /\ pc[c] \in Holding /\ UNCHANGED <<cur, ready, unacked, GivenUp>>
        /\ pc'[c] \notin {"ack", "idle", "off", "pending", "write"}
    BY <1>0, <1>9 DEF HandlerError, HandlerFails, Goto, brokerVars
  <2>2. /\ \A j \in Jobs : j # cur[c].job => jobStatus'[j] = jobStatus[j]
        /\ \A e \in Events : e # EventOf[cur[c].job] => event'[e] = event[e]
    BY <1>0, <1>9 DEF HandlerError, HandlerFails, UpdateJobRunning, UpdateJobResult, WriteRollup,
                      storeVars
  <2> QED BY <1>3, <1>7, <2>1, <2>2
\* RollupEvent.
<1>10. CASE CountJobs(c) \/ CountPending(c)
  <2>1. /\ pc[c] \in Holding /\ UNCHANGED <<cur, ready, unacked, GivenUp, jobStatus, event>>
        /\ pc'[c] \notin {"ack", "idle", "off"}
    BY <1>0, <1>10 DEF CountJobs, CountPending, Goto, brokerVars, storeVars
  <2>2. CountsCurrent'
    <3>1. PICK e : e = EventOf[cur[c].job]
      OBVIOUS
    <3>2. Tally(e)' = Tally(e) /\ PendingCount(e)' = PendingCount(e)
      BY <2>1, CountsSame
    <3>3. CASE CountJobs(c)
      <4>1. pc'[c] = "pending" /\ tally'[c] = Tally(e)
        BY <1>0, <3>1, <3>3 DEF CountJobs, Goto
      <4> QED BY <1>1, <2>1, <3>1, <3>2, <4>1 DEF CountsCurrent
    <3>4. CASE CountPending(c)
      <4>1. /\ pc[c] = "pending" /\ pc'[c] = "write" /\ tally'[c] = tally[c]
            /\ status'[c] = RollupStatus(tally[c], PendingCount(e))
        BY <1>0, <3>1, <3>4 DEF CountPending, Goto
      <4>2. tally[c] = Tally(e)
        BY <3>1, <4>1 DEF DerivedInv, CountsCurrent
      <4> QED BY <1>1, <2>1, <3>1, <3>2, <4>1, <4>2 DEF CountsCurrent
    <3> QED BY <1>10, <3>3, <3>4
  <2> QED BY <1>7, <2>1, <2>2
<1>11. CASE SaveRollup(c)
  <2>1. PICK m \in Message : m = cur[c] /\ m # None
    BY <1>5, <1>11 DEF SaveRollup
  <2>2. PICK f \in Events : f = EventOf[m.job]
    BY <1>0 DEF Message
  <2>3. /\ pc[c] = "write" /\ UNCHANGED <<cur, ready, unacked, GivenUp, jobStatus>> /\ pc'[c] = "ack"
        /\ \A e \in Events : e # f => event'[e] = event[e]
        /\ event'[f] = [status |-> status[c], total |-> tally[c].total,
                        verified |-> tally[c].verified, failed |-> tally[c].failed]
    BY <1>0, <1>11, <2>1, <2>2 DEF SaveRollup, WriteRollup, Goto, brokerVars
  <2>4. Kept' /\ CountsCurrent'
    BY <1>2, <1>3, <1>5, <2>3
  <2>5. ASSUME NEW e \in Events, Calm(e)' PROVE event'[e] = DerivedRow(e)'
    <3>1. CASE e = f
      <4>1. tally[c] = Tally(f) /\ status[c] = RollupStatus(Tally(f), PendingCount(f))
        BY <2>1, <2>2, <2>3 DEF DerivedInv, CountsCurrent
      <4>2. \A j \in JobsOf(f) : jobStatus[j] \in TerminalJob
        BY <2>3, <2>5, <3>1 DEF Calm, JobsOf
      <4>3. event'[f] = DerivedRow(f)
        BY <2>3, <4>1, <4>2, RollupWritesDerived
      <4>4. DerivedRow(f)' = DerivedRow(f)
        BY <2>3, CountsSame
      <4> QED BY <3>1, <4>3, <4>4
    <3>2. CASE e # f
      <4>1. unacked[c] \in {m, None}
        BY <1>5, <2>1, <2>3
      <4>2. Calm(e)' => Calm(e)
        BY <1>1, <2>1, <2>2, <2>3, <3>2, <4>1 DEF Calm, JobsOf
      <4> QED BY <2>3, <2>5, <3>2, <4>2, DerivedKept DEF DerivedInv
    <3> QED BY <3>1, <3>2
  <2> QED BY <2>4, <2>5 DEF CalmDerived
\* Consume: each of its steps leaves every event and job as it is.
<1>12. ASSUME UNCHANGED <<jobStatus, event>>, \A e \in Events : Calm(e)' => Calm(e)
       PROVE  CalmDerived'
  BY <1>4, <1>12
<1>13. ASSUME NEW m \in Message, Deliver(c, m) PROVE Kept' /\ CountsCurrent' /\ CalmDerived'
  <2>1. /\ pc[c] = "idle" /\ ready[m] > 0 /\ unacked[c] = None
        /\ ready' = [ready EXCEPT ![m] = ready[m] - 1]
        /\ unacked'[c] = m /\ cur'[c] = m /\ pc'[c] = "load"
        /\ UNCHANGED <<jobStatus, event, GivenUp>>
    BY <1>0, <1>13 DEF Deliver, DeliverTo, Goto, storeVars
  <2>2. ASSUME NEW e \in Events, Calm(e)' PROVE Calm(e)
    <3>1. e # EventOf[m.job]
      BY <2>1, <2>2, NoneAssumption DEF Calm
    <3>2. \A n \in Message : EventOf[n.job] = e => ready[n] = ready'[n]
      BY <1>0, <2>1, <3>1
    <3> QED BY <1>1, <1>6, <2>1, <2>2, <3>2 DEF Calm, JobsOf
  <2> QED BY <1>2, <1>3, <1>12, <2>1, <2>2
<1>14. CASE Republish(c)
  <2> DEFINE again == [cur[c] EXCEPT !.retry = @ + 1]
  <2>1. PICK m \in Message : /\ m = cur[c] /\ m # None
                             /\ unacked[c] = m \/ (unacked[c] = None /\ ready[m] > 0)
    BY <1>5, <1>14 DEF Republish
  <2>2. again \in Message /\ again.job = m.job
    BY <1>14, <2>1, BrokerAssumption DEF Republish, Message
  <2> HIDE DEF again
  <2>3. /\ ready' = [ready EXCEPT ![again] = ready[again] + 1] /\ pc'[c] = "ack"
        /\ UNCHANGED <<unacked, cur, GivenUp, jobStatus, event>>
    BY <1>0, <1>14 DEF Republish, Publish, Goto, storeVars, localVars, again
  <2>4. \A n \in Message : ready'[n] >= ready[n]
    BY <1>0, <2>3
  <2>5. ASSUME NEW e \in Events, Calm(e)' PROVE Calm(e)
    <3>1. e # EventOf[m.job]
      BY <1>0, <2>2, <2>3, <2>5 DEF Calm
    <3>2. \A n \in Message : EventOf[n.job] = e => ready[n] = 0
      BY <1>0, <2>4, <2>5 DEF Calm
    <3> QED BY <1>1, <2>1, <2>3, <2>5, <3>1, <3>2 DEF Calm, JobsOf
  <2>6. Kept'
    BY <1>0, <1>2, <2>1, <2>3, <2>4
  <2> QED BY <1>3, <1>12, <2>3, <2>5, <2>6
<1>15. CASE DeadLetter(c) \/ Ack(c)
  <2>1. PICK m \in Message : m = cur[c] /\ m # None /\ unacked[c] = m
    BY <1>0, <1>15 DEF DeadLetter, Ack, Inv, BusyHolds, Attached
  <2>2. /\ unacked'[c] = None /\ cur'[c] = None /\ pc'[c] = "idle"
        /\ UNCHANGED <<ready, jobStatus, event>> /\ GivenUp \subseteq GivenUp'
        /\ pc[c] = "ack" \/ m.job \in GivenUp'
    BY <1>0, <1>15, <2>1 DEF DeadLetter, NackBy, Ack, AckBy, Goto, storeVars
  <2>3. ASSUME NEW e \in Events, Calm(e)' PROVE Calm(e)
    <3>1. pc[c] = "ack" \/ e # EventOf[m.job]
      BY <2>2, <2>3 DEF Calm, JobsOf, Message
    <3> QED BY <1>1, <2>1, <2>2, <2>3, <3>1 DEF Calm, JobsOf
  <2> QED BY <1>2, <1>3, <1>12, <2>2, <2>3
<1>16. CASE AnswerClosed(c)
  <2>1. PICK m \in Message : /\ m = cur[c] /\ m # None
                             /\ unacked[c] = m \/ (unacked[c] = None /\ ready[m] > 0)
    BY <1>5, <1>16 DEF AnswerClosed
  <2>2. /\ UNCHANGED <<ready, unacked, GivenUp, jobStatus, event>> /\ cur'[c] = None /\ pc'[c] = "idle"
    BY <1>0, <1>16 DEF AnswerClosed, Goto, storeVars, brokerVars
  <2>3. ASSUME NEW e \in Events, Calm(e)' PROVE Calm(e)
    <3>1. e # EventOf[m.job]
      BY <1>0, <2>1, <2>2, <2>3 DEF Calm
    <3> QED BY <1>1, <2>1, <2>2, <2>3, <3>1 DEF Calm, JobsOf
  <2> QED BY <1>2, <1>3, <1>12, <2>2, <2>3
<1>17. CASE Exit(c)
  <2>1. /\ pc[c] = "idle" /\ pc'[c] = "off"
        /\ UNCHANGED <<ready, unacked, cur, GivenUp, jobStatus, event>>
    BY <1>0, <1>17 DEF Exit, Goto, storeVars, brokerVars, localVars
  <2>2. ASSUME NEW e \in Events, Calm(e)' PROVE Calm(e)
    BY <1>1, <2>1, <2>2 DEF Calm, JobsOf
  <2> QED BY <1>2, <1>3, <1>6, <1>12, <2>1, <2>2
<1>18. CASE BrokerRequeue(c)
  <2>1. PICK m \in Message : m = unacked[c] /\ m # None
    BY <1>0, <1>18 DEF BrokerRequeue, RequeueFrom
  <2>2. /\ ready' = [ready EXCEPT ![m] = ready[m] + 1] /\ unacked'[c] = None
        /\ UNCHANGED <<pc, cur, tally, status, GivenUp, jobStatus, event>>
    BY <1>0, <1>18, <2>1 DEF BrokerRequeue, RequeueFrom, storeVars, localVars
  <2>3. ready'[m] > 0 /\ \A n \in Message \ {m} : ready'[n] = ready[n]
    BY <1>0, <2>2
  <2>4. ASSUME NEW e \in Events, Calm(e)' PROVE Calm(e)
    <3>1. e # EventOf[m.job]
      BY <2>3, <2>4 DEF Calm
    <3>2. \A n \in Message : EventOf[n.job] = e => ready[n] = 0
      BY <2>3, <2>4, <3>1 DEF Calm
    <3> QED BY <1>1, <2>1, <2>2, <2>4, <3>1, <3>2 DEF Calm, JobsOf
  <2>5. Kept'
    BY <1>0, <1>2, <2>1, <2>2, <2>3 DEF DerivedInv, Kept
  <2>6. CountsCurrent'
    <3>1. \A e : Tally(e)' = Tally(e) /\ PendingCount(e)' = PendingCount(e)
      BY <2>2, CountsSame
    <3> QED BY <2>2, <3>1 DEF DerivedInv, CountsCurrent
  <2> QED BY <1>12, <2>2, <2>4, <2>5, <2>6
<1> QED BY <1>8, <1>9, <1>10, <1>11, <1>13, <1>14, <1>15, <1>16, <1>17, <1>18
        DEF ConsumerNext, HandlerStep, ConsumeStep

-----------------------------------------------------------------------------
(* The worker.                                                             *)

LEMMA WorkerKeepsDerived ==
    ASSUME Inv, DerivedInv, OneConsumer, NEW w \in Workers, WorkerNext(w)
    PROVE  DerivedInv'
<1>0. /\ ready \in [Message -> Nat]
      /\ unacked \in [Consumers -> Message \cup {None}]
      /\ pc \in [Consumers -> ConsumerPC]
      /\ cur \in [Consumers -> Message \cup {None}]
  BY DEF Inv, TypeOK, ConsumerTypeOK, BrokerTypeOK
<1>1. /\ UNCHANGED <<jobStatus, event, ready, unacked, rpc, revent, todo, GivenUp>>
      /\ \A c \in Consumers :
            \/ pc'[c] = pc[c] /\ cur'[c] = cur[c] /\ status'[c] = status[c] /\ tally'[c] = tally[c]
            \/ pc'[c] \in {"idle", "off"} /\ cur'[c] = None
  <2>1. CASE Shutdown(w) \/ ProcessExit(w) \/ ConnLost(w)
    BY <2>1 DEF Shutdown, ProcessExit, ConnLost, storeVars, brokerVars, localVars, requestVars
  <2>2. CASE Crash(w)
    BY <1>0, <2>2 DEF Crash, storeVars, brokerVars, requestVars
  <2>3. CASE Restart(w)
    BY <1>0, <2>3 DEF Restart, storeVars, brokerVars, localVars, requestVars, Inv, Attached, BusyHolds
  <2> QED BY <2>1, <2>2, <2>3 DEF WorkerNext
<1>2. \A j : Free(j) => Free(j)'
  BY <1>1 DEF Free
<1>3. FreshJobs' /\ RowsTogether' /\ MarkedFirst'
  BY <1>1, <1>2 DEF DerivedInv, FreshJobs, RowsTogether, MarkedFirst, JobsOf
<1>4. Kept'
  BY <1>1 DEF DerivedInv, Kept
<1>5. CountsCurrent'
  <2>1. \A e : Tally(e)' = Tally(e) /\ PendingCount(e)' = PendingCount(e)
    BY <1>1, CountsSame
  <2> QED BY <1>1, <2>1 DEF DerivedInv, CountsCurrent
<1>6. CalmDerived'
  <2> SUFFICES ASSUME NEW e \in Events, Calm(e)' PROVE event'[e] = DerivedRow(e)'
    BY DEF CalmDerived
  <2>1. ASSUME NEW c \in Consumers, pc'[c] \in {"idle", "off"}, cur'[c] = None, cur[c] # None,
               EventOf[cur[c].job] = e
        PROVE  FALSE
    BY <1>0, <1>1, <2>1 DEF DerivedInv, Kept, Calm
  <2>2. Calm(e)' => Calm(e)
    BY <1>1, <2>1 DEF Calm, JobsOf
  <2> QED BY <1>1, <2>2, DerivedKept DEF DerivedInv
<1> QED BY <1>3, <1>4, <1>5, <1>6 DEF DerivedInv

-----------------------------------------------------------------------------

RowInv == Inv /\ IdleRequests /\ (NoRerun => DerivedInv)

LEMMA StepKeepsRowInv ==
    ASSUME OneConsumer, RowInv, [Next]_vars PROVE RowInv'
<1>1. Inv' /\ IdleRequests'
  BY StepKeepsInv, StepKeepsIdleRequests DEF RowInv
<1> SUFFICES ASSUME NoRerun' PROVE DerivedInv'
  BY <1>1 DEF RowInv
<1>2. Inv /\ IdleRequests /\ DerivedInv /\ ~ Spend("rerun")
  BY SpentBefore DEF RowInv, NoRerun, FaultKind, Inv
<1>3. ASSUME NEW r \in Requests, RequestNext(r) PROVE DerivedInv'
  <2>1. \A e \in Events : ~ RerunFailed(r, e)
    BY <1>2 DEF RerunFailed
  <2> QED BY <1>2, <1>3, <2>1, RequestKeepsDerived
<1>4. ASSUME NEW c \in Consumers, ConsumerNext(c) PROVE DerivedInv'
  BY <1>2, <1>4, ConsumerKeepsFresh, ConsumerKeepsDerived DEF DerivedInv
<1>5. ASSUME NEW w \in Workers, WorkerNext(w) PROVE DerivedInv'
  BY <1>2, <1>5, WorkerKeepsDerived
\* The API process dies, or nothing happens.
<1>6. ASSUME UNCHANGED <<jobStatus, event, ready, unacked, pc, cur, status, tally>>,
             GivenUp \subseteq GivenUp', \A r \in Requests : todo'[r] \subseteq todo[r],
             \A r \in Requests : rpc'[r] = "mark" => UNCHANGED <<rpc[r], revent[r], todo[r]>>
      PROVE  DerivedInv'
  <2>1. FreshJobs'
    BY <1>2, <1>6 DEF DerivedInv, FreshJobs, Free
  <2>2. RowsTogether' /\ MarkedFirst' /\ Kept'
    BY <1>2, <1>6 DEF DerivedInv, RowsTogether, MarkedFirst, Kept, JobsOf
  <2>3. \A e : Tally(e)' = Tally(e) /\ PendingCount(e)' = PendingCount(e)
    BY <1>6, CountsSame
  <2>4. CountsCurrent'
    BY <1>2, <1>6, <2>3 DEF DerivedInv, CountsCurrent
  <2>5. \A e \in Events : Calm(e)' => Calm(e)
    BY <1>6 DEF Calm, JobsOf
  <2>6. CalmDerived'
    BY <1>2, <1>6, <2>5, DerivedKept DEF DerivedInv, CalmDerived
  <2> QED BY <2>1, <2>2, <2>4, <2>6 DEF DerivedInv
<1>7. CASE APICrash
  BY <1>6, <1>7 DEF APICrash, storeVars, brokerVars, localVars
<1>8. CASE UNCHANGED vars
  BY <1>6, <1>8 DEF vars, storeVars, brokerVars, localVars, requestVars
<1> QED BY <1>3, <1>4, <1>5, <1>7, <1>8 DEF Next

\* With one consumer, and until something is re-run, the row of an event that
\* has settled is what RollupEvent derives from its jobs, whatever crashes,
\* stops, fails, gets lost or is delivered again on the way.
THEOREM StatusDerivedHolds ==
    ASSUME OneConsumer PROVE Spec => [](NoRerun => StatusDerived)
<1>1. Init => RowInv
  <2> SUFFICES ASSUME Init PROVE RowInv
    OBVIOUS
  <2>1. Inv /\ IdleRequests
    BY InitLossInv DEF LossInv
  <2>2. FreshJobs /\ RowsTogether /\ MarkedFirst /\ Kept /\ CountsCurrent
    BY DEF Init, StoreInit, BrokerInit, FreshJobs, RowsTogether, MarkedFirst, Kept, CountsCurrent,
           Free, JobsOf
  <2>3. CalmDerived
    BY JobsAssumption DEF Init, StoreInit, CalmDerived, Calm, JobsOf
  <2> QED BY <2>1, <2>2, <2>3 DEF RowInv, DerivedInv
<1>2. RowInv /\ [Next]_vars => RowInv'
  BY StepKeepsRowInv
<1>3. RowInv => (NoRerun => StatusDerived)
  BY DEF RowInv, DerivedInv, CalmDerived, StatusDerived, Settled, Calm
<1> QED BY <1>1, <1>2, <1>3, PTL DEF Spec
=============================================================================
