--------------------------- MODULE DispatchProofs ---------------------------
(***************************************************************************)
(* Theorems about Dispatch, for every set of jobs, events, consumers,      *)
(* workers and requests and every budget of faults.                        *)
(***************************************************************************)
EXTENDS Dispatch, FiniteSetTheorems, TLAPS

Holding == ConsumerPC \ {"off", "idle"}

\* A consumer holds a delivery exactly while it is busy.
BusyHolds == \A c \in Consumers : (cur[c] = None) <=> (pc[c] \in {"off", "idle"})

\* While its channel is open, that is the message the broker waits for an
\* answer to; and no goroutine outlives its process.
Attached == \A c \in Consumers :
    /\ ChannelOpen(c) => unacked[c] = cur[c]
    /\ proc[WorkerOf[c]] = "down" => pc[c] = "off"

\* What the local variable status is about to be written to.
StatusFits == \A c \in Consumers :
    /\ pc[c] = "result" => status[c] \in TerminalJob
    /\ pc[c] = "write" => status[c] \in EventStatus

Inv == TypeOK /\ BusyHolds /\ Attached /\ StatusFits

USE DEF history, TerminalJob, PendingJob, JobStatus, ActiveEvent, TerminalEvent, EventStatus

\* What RollupEvent counts is a number: there are finitely many jobs.
LEMMA CountType ==
    ASSUME NEW e
    PROVE  /\ Tally(e) \in TallyRow
           /\ PendingCount(e) \in Nat
           /\ Cardinality(JobsOf(e)) \in Nat
<1>1. \A S \in SUBSET Jobs : Cardinality(S) \in Nat
  BY JobsAssumption, FS_Subset, FS_CardinalityType
<1>2. /\ JobsOf(e) \subseteq Jobs
      /\ \A s : {j \in JobsOf(e) : jobStatus[j] = s} \subseteq Jobs
      /\ {j \in JobsOf(e) : jobStatus[j] \in PendingJob} \subseteq Jobs
  BY DEF JobsOf
<1>3. \A s : CountStatus(e, s) \in Nat
  BY <1>1, <1>2 DEF CountStatus
<1>4. Cardinality(JobsOf(e)) \in Nat /\ PendingCount(e) \in Nat
  BY <1>1, <1>2 DEF PendingCount
<1> QED BY <1>3, <1>4 DEF Tally, TallyRow

LEMMA RollupType ==
    ASSUME NEW t, NEW p PROVE RollupStatus(t, p) \in EventStatus
BY DEF RollupStatus

LEMMA InitInv == Init => Inv
<1> SUFFICES ASSUME Init PROVE Inv
  OBVIOUS
<1> USE DEF Init, StoreInit, BrokerInit
<1>1. TypeOK
  BY DEF TypeOK, StoreTypeOK, BrokerTypeOK, WorkerTypeOK, ConsumerTypeOK, RequestTypeOK, EventRow, ConsumerPC, RequestPC,
         LocalStatus, TallyRow, NoTally, FaultKind
<1>2. BusyHolds /\ Attached /\ StatusFits
  BY DispatchAssumption DEF BusyHolds, Attached, StatusFits
<1> QED BY <1>1, <1>2 DEF Inv

-----------------------------------------------------------------------------
(* The statements and the broker operations keep the types of their own    *)
(* variables.                                                              *)

LEMMA StatementTypes ==
    ASSUME StoreTypeOK
    PROVE  /\ UNCHANGED storeVars => StoreTypeOK'
           /\ \A e \in Events : InsertEventWithJobs(e) => StoreTypeOK'
           /\ \A e \in Events : ResetFailed(e) => StoreTypeOK'
           /\ \A e : \A s \in EventStatus : UpdateEventStatus(e, s) => StoreTypeOK'
           /\ \A j : UpdateJobRunning(j) => StoreTypeOK'
           /\ \A j : \A s \in TerminalJob : UpdateJobResult(j, s) => StoreTypeOK'
           /\ \A e : \A t \in TallyRow : \A s \in EventStatus :
                 WriteRollup(e, t, s) => StoreTypeOK'
<1> USE DEF StoreTypeOK, EventRow
<1>1. UNCHANGED storeVars => StoreTypeOK'
  BY DEF storeVars
<1>2. ASSUME NEW e \in Events, InsertEventWithJobs(e) PROVE StoreTypeOK'
  <2>1. Cardinality(JobsOf(e)) \in Nat
    BY CountType
  <2> QED BY <1>2, <2>1 DEF InsertEventWithJobs
<1>3. ASSUME NEW e \in Events, ResetFailed(e) PROVE StoreTypeOK'
  BY <1>3 DEF ResetFailed
<1>4. ASSUME NEW e, NEW s \in EventStatus, UpdateEventStatus(e, s) PROVE StoreTypeOK'
  BY <1>4 DEF UpdateEventStatus
<1>5. ASSUME NEW j, UpdateJobRunning(j) PROVE StoreTypeOK'
  BY <1>5 DEF UpdateJobRunning
<1>6. ASSUME NEW j, NEW s \in TerminalJob, UpdateJobResult(j, s) PROVE StoreTypeOK'
  BY <1>6 DEF UpdateJobResult
<1>7. ASSUME NEW e, NEW t \in TallyRow, NEW s \in EventStatus, WriteRollup(e, t, s)
      PROVE  StoreTypeOK'
  BY <1>7 DEF WriteRollup, TallyRow
<1> QED BY <1>1, <1>2, <1>3, <1>4, <1>5, <1>6, <1>7

LEMMA BrokerTypes ==
    ASSUME BrokerTypeOK
    PROVE  /\ UNCHANGED brokerVars => BrokerTypeOK'
           /\ \A m \in Message : Publish(m) => BrokerTypeOK'
           /\ \A c : \A m \in Message : DeliverTo(c, m) => BrokerTypeOK'
           /\ \A c : AckBy(c) => BrokerTypeOK'
           /\ \A c \in Consumers : unacked[c] # None /\ NackBy(c) => BrokerTypeOK'
           /\ \A c \in Consumers : RequeueFrom(c) => BrokerTypeOK'
<1> USE DEF BrokerTypeOK
<1>1. UNCHANGED brokerVars => BrokerTypeOK'
  BY DEF brokerVars
<1>2. ASSUME NEW m \in Message, Publish(m) PROVE BrokerTypeOK'
  <2>1. ready[m] + 1 \in Nat
    OBVIOUS
  <2> QED BY <1>2, <2>1 DEF Publish
<1>3. ASSUME NEW c, NEW m \in Message, DeliverTo(c, m) PROVE BrokerTypeOK'
  <2>1. ready[m] - 1 \in Nat
    BY <1>3 DEF DeliverTo
  <2> QED BY <1>3, <2>1 DEF DeliverTo
<1>4. ASSUME NEW c, AckBy(c) PROVE BrokerTypeOK'
  BY <1>4 DEF AckBy
<1>5. ASSUME NEW c \in Consumers, unacked[c] # None, NackBy(c) PROVE BrokerTypeOK'
  BY <1>5 DEF NackBy
<1>6. ASSUME NEW c \in Consumers, RequeueFrom(c) PROVE BrokerTypeOK'
  BY <1>6 DEF RequeueFrom
<1> QED BY <1>1, <1>2, <1>3, <1>4, <1>5, <1>6

LEMMA SpendType ==
    ASSUME TypeOK, NEW k, Spend(k) \/ UNCHANGED spent
    PROVE  spent' \in [FaultKind -> Nat]
<1>1. CASE Spend(k)
  <2>1. spent \in [FaultKind -> Nat] /\ spent' = [spent EXCEPT ![k] = spent[k] + 1]
    BY <1>1 DEF Spend, TypeOK
  <2>2. k \in FaultKind => spent[k] + 1 \in Nat
    BY <2>1
  <2> QED BY <2>1, <2>2
<1>2. CASE UNCHANGED spent
  BY <1>2 DEF TypeOK
<1> QED BY <1>1, <1>2

\* What no request touches.
LEMMA ConsumerSideUnchanged ==
    ASSUME Inv, UNCHANGED <<workerVars, pc, localVars, unacked>>
    PROVE  WorkerTypeOK' /\ ConsumerTypeOK' /\ BusyHolds' /\ Attached' /\ StatusFits'
<1>1. UNCHANGED <<proc, conn, pc, cur, status, tally, unacked>>
  BY DEF workerVars, localVars
<1>2. WorkerTypeOK' /\ ConsumerTypeOK'
  BY <1>1 DEF Inv, TypeOK, WorkerTypeOK, ConsumerTypeOK
<1>3. BusyHolds' /\ StatusFits'
  BY <1>1 DEF Inv, BusyHolds, StatusFits
<1>4. Attached'
  BY <1>1 DEF Inv, Attached, ChannelOpen
<1> QED BY <1>2, <1>3, <1>4

LEMMA RequestKeepsInv ==
    ASSUME Inv, NEW r \in Requests, RequestNext(r)
    PROVE  Inv'
<1>0. TypeOK /\ StoreTypeOK /\ BrokerTypeOK /\ RequestTypeOK /\ parked \subseteq Jobs /\ lost \subseteq Jobs
  BY DEF Inv, TypeOK
<1> DEFINE Rest == RequestTypeOK' /\ parked' \subseteq Jobs /\ lost' \subseteq Jobs /\ spent' \in [FaultKind -> Nat]
<1>a. ASSUME StoreTypeOK', BrokerTypeOK', Rest, UNCHANGED <<workerVars, pc, localVars, unacked>>
      PROVE  Inv'
  BY <1>a, ConsumerSideUnchanged DEF Inv, TypeOK
<1> USE DEF requestVars, RequestTypeOK, RequestPC
<1>1. ASSUME NEW e \in Events, CreateEvent(r, e) PROVE Inv'
  <2>1. StoreTypeOK' /\ BrokerTypeOK'
    BY <1>0, <1>1, StatementTypes, BrokerTypes DEF CreateEvent
  <2>2. Rest
    BY <1>0, <1>1 DEF CreateEvent, JobsOf, TypeOK
  <2> QED BY <1>a, <1>1, <2>1, <2>2 DEF CreateEvent, brokerVars
<1>2. ASSUME NEW e \in Events, RerunFailed(r, e) PROVE Inv'
  <2>1. StoreTypeOK' /\ BrokerTypeOK'
    BY <1>0, <1>2, StatementTypes, BrokerTypes DEF RerunFailed
  <2>2. Rest
    BY <1>0, <1>2, SpendType DEF RerunFailed, FailedJobs, JobsOf
  <2> QED BY <1>a, <1>2, <2>1, <2>2 DEF RerunFailed, brokerVars
<1>3. CASE MarkRequest(r)
  <2>1. StoreTypeOK' /\ BrokerTypeOK'
    BY <1>0, <1>3, StatementTypes, BrokerTypes DEF MarkRequest
  <2>2. Rest
    BY <1>0, <1>3 DEF MarkRequest, TypeOK
  <2> QED BY <1>a, <1>3, <2>1, <2>2 DEF MarkRequest, brokerVars
<1>4. ASSUME NEW j \in Jobs, PublishJob(r, j) PROVE Inv'
  <2>1. NewMessage(j) \in Message
    BY BrokerAssumption DEF NewMessage, Message
  <2>2. StoreTypeOK' /\ BrokerTypeOK'
    BY <1>0, <1>4, <2>1, StatementTypes, BrokerTypes DEF PublishJob
  <2>3. Rest
    BY <1>0, <1>4 DEF PublishJob, TypeOK
  <2> QED BY <1>a, <1>4, <2>2, <2>3 DEF PublishJob, Publish
<1>5. ASSUME NEW j \in Jobs, PublishLost(r, j) PROVE Inv'
  <2>1. StoreTypeOK' /\ BrokerTypeOK'
    BY <1>0, <1>5, StatementTypes, BrokerTypes DEF PublishLost
  <2>2. Rest
    BY <1>0, <1>5, SpendType DEF PublishLost
  <2> QED BY <1>a, <1>5, <2>1, <2>2 DEF PublishLost, brokerVars
<1>6. CASE Respond(r)
  <2>1. StoreTypeOK' /\ BrokerTypeOK'
    BY <1>0, <1>6, StatementTypes, BrokerTypes DEF Respond
  <2>2. Rest
    BY <1>0, <1>6 DEF Respond, EndRequest, TypeOK
  <2> QED BY <1>a, <1>6, <2>1, <2>2 DEF Respond, brokerVars
<1>7. CASE AbandonRequest(r)
  <2>1. StoreTypeOK' /\ BrokerTypeOK'
    BY <1>0, <1>7, StatementTypes, BrokerTypes DEF AbandonRequest
  <2>2. Rest
    BY <1>0, <1>7, SpendType DEF AbandonRequest, EndRequest
  <2> QED BY <1>a, <1>7, <2>1, <2>2 DEF AbandonRequest, brokerVars
<1> QED BY <1>1, <1>2, <1>3, <1>4, <1>5, <1>6, <1>7 DEF RequestNext, RequestStep

LEMMA CrashOfAPIKeepsInv ==
    ASSUME Inv, APICrash PROVE Inv'
<1> USE DEF APICrash
<1>1. TypeOK /\ StoreTypeOK /\ BrokerTypeOK /\ RequestTypeOK /\ parked \subseteq Jobs /\ lost \subseteq Jobs
  BY DEF Inv, TypeOK
<1>2. StoreTypeOK' /\ BrokerTypeOK'
  BY <1>1, StatementTypes, BrokerTypes
<1>3. RequestTypeOK' /\ parked' \subseteq Jobs /\ lost' \subseteq Jobs /\ spent' \in [FaultKind -> Nat]
  BY <1>1, SpendType DEF RequestTypeOK, RequestPC
<1> QED BY <1>2, <1>3, ConsumerSideUnchanged DEF Inv, TypeOK, brokerVars

LEMMA RequestSideUnchanged ==
    ASSUME TypeOK, UNCHANGED <<requestVars, history>>
    PROVE  RequestTypeOK' /\ parked' \subseteq Jobs /\ lost' \subseteq Jobs
BY DEF TypeOK, RequestTypeOK, requestVars

\* A busy consumer that stays busy with the same delivery.
LEMMA BusyMoves ==
    ASSUME Inv, NEW c \in Consumers, NEW label \in Holding,
           pc[c] \in Holding, Goto(c, label),
           UNCHANGED <<workerVars, cur, unacked>>
    PROVE  /\ pc' \in [Consumers -> ConsumerPC]
           /\ cur' \in [Consumers -> Message \cup {None}]
           /\ WorkerTypeOK' /\ BusyHolds' /\ Attached'
<1>1. UNCHANGED <<proc, conn, cur, unacked>> /\ pc' = [pc EXCEPT ![c] = label]
  BY DEF workerVars, Goto
<1>2. /\ pc \in [Consumers -> ConsumerPC]
      /\ cur \in [Consumers -> Message \cup {None}]
      /\ WorkerTypeOK /\ BusyHolds /\ Attached
  BY DEF Inv, TypeOK, ConsumerTypeOK
<1>3. pc' \in [Consumers -> ConsumerPC] /\ cur' \in [Consumers -> Message \cup {None}]
  BY <1>1, <1>2 DEF Holding
<1>4. WorkerTypeOK'
  BY <1>1, <1>2 DEF WorkerTypeOK
<1>5. BusyHolds'
  BY <1>1, <1>2 DEF BusyHolds, Holding
<1>6. Attached'
  BY <1>1, <1>2 DEF Attached, ChannelOpen, Holding
<1> QED BY <1>3, <1>4, <1>5, <1>6

LEMMA ForgetType ==
    ASSUME ConsumerTypeOK, NEW c, Forget(c)
    PROVE  status' \in [Consumers -> LocalStatus] /\ tally' \in [Consumers -> TallyRow]
BY DEF ConsumerTypeOK, Forget, NoTally, TallyRow, LocalStatus

LEMMA HandlerKeepsInv ==
    ASSUME Inv, NEW c \in Consumers, HandlerStep(c) \/ HandlerError(c)
    PROVE  Inv'
<1>0. TypeOK /\ StoreTypeOK /\ BrokerTypeOK /\ ConsumerTypeOK /\ StatusFits
  BY DEF Inv, TypeOK
<1> DEFINE j == cur[c].job
           e == EventOf[j]
           StatusPart == /\ status' \in [Consumers -> LocalStatus]
                         /\ tally' \in [Consumers -> TallyRow]
                         /\ StatusFits'
<1>a. ASSUME NEW label \in Holding, pc[c] \in Holding, Goto(c, label),
             UNCHANGED <<workerVars, cur, brokerVars, requestVars, history>>,
             StoreTypeOK', spent' \in [FaultKind -> Nat], StatusPart
      PROVE  Inv'
  <2>1. BrokerTypeOK' /\ RequestTypeOK' /\ parked' \subseteq Jobs /\ lost' \subseteq Jobs
    BY <1>0, <1>a, BrokerTypes, RequestSideUnchanged
  <2>2. UNCHANGED unacked
    BY <1>a DEF brokerVars
  <2>3. ConsumerTypeOK' /\ WorkerTypeOK' /\ BusyHolds' /\ Attached'
    BY <1>a, <2>2, BusyMoves DEF ConsumerTypeOK
  <2> QED BY <1>a, <2>1, <2>3 DEF Inv, TypeOK
<1> USE DEF Holding, ConsumerPC
<1>1. CASE StartJob(c)
  <2>1. StoreTypeOK'
    BY <1>0, <1>1, StatementTypes DEF StartJob
  <2>2. StatusPart
    BY <1>0, <1>1 DEF StartJob, Goto, localVars, ConsumerTypeOK, StatusFits
  <2> QED BY <1>0, <1>a, <1>1, <2>1, <2>2 DEF StartJob, localVars, TypeOK
<1>2. CASE MarkEventRunning(c)
  <2>1. StoreTypeOK'
    BY <1>0, <1>2, StatementTypes DEF MarkEventRunning
  <2>2. StatusPart
    BY <1>0, <1>2 DEF MarkEventRunning, Goto, localVars, ConsumerTypeOK, StatusFits
  <2>3. spent' \in [FaultKind -> Nat]
    BY <1>0, <1>2, SpendType DEF MarkEventRunning
  <2> QED BY <1>a, <1>2, <2>1, <2>2, <2>3 DEF MarkEventRunning, localVars
<1>3. ASSUME NEW s \in TerminalJob, Execute(c, s) PROVE Inv'
  <2>1. StoreTypeOK'
    BY <1>0, <1>3, StatementTypes DEF Execute
  <2>2. StatusPart
    BY <1>0, <1>3 DEF Execute, Goto, ConsumerTypeOK, StatusFits, LocalStatus
  <2> QED BY <1>0, <1>a, <1>3, <2>1, <2>2 DEF Execute, TypeOK
<1>4. CASE SaveResult(c)
  <2>1. StoreTypeOK'
    BY <1>0, <1>4, StatementTypes DEF SaveResult, StatusFits
  <2>2. StatusPart
    BY <1>0, <1>4, ForgetType DEF SaveResult, Goto, Forget, ConsumerTypeOK, StatusFits
  <2> QED BY <1>0, <1>a, <1>4, <2>1, <2>2 DEF SaveResult, TypeOK
<1>5. CASE CountJobs(c)
  <2>1. StoreTypeOK'
    BY <1>0, <1>5, StatementTypes DEF CountJobs
  <2>2. Tally(e) \in TallyRow
    BY CountType
  <2>3. StatusPart
    BY <1>0, <1>5, <2>2 DEF CountJobs, Goto, ConsumerTypeOK, StatusFits
  <2> QED BY <1>0, <1>a, <1>5, <2>1, <2>3 DEF CountJobs, TypeOK
<1>6. CASE CountPending(c)
  <2>1. StoreTypeOK'
    BY <1>0, <1>6, StatementTypes DEF CountPending
  <2>2. RollupStatus(tally[c], PendingCount(e)) \in EventStatus
    BY RollupType
  <2>3. StatusPart
    BY <1>0, <1>6, <2>2 DEF CountPending, Goto, ConsumerTypeOK, StatusFits, LocalStatus
  <2> QED BY <1>0, <1>a, <1>6, <2>1, <2>3 DEF CountPending, TypeOK
<1>7. CASE SaveRollup(c)
  <2>1. StoreTypeOK'
    BY <1>0, <1>7, StatementTypes DEF SaveRollup, StatusFits, ConsumerTypeOK
  <2>2. StatusPart
    BY <1>0, <1>7, ForgetType DEF SaveRollup, Goto, Forget, ConsumerTypeOK, StatusFits
  <2> QED BY <1>0, <1>a, <1>7, <2>1, <2>2 DEF SaveRollup, TypeOK
<1>8. CASE HandlerError(c)
  <2> USE DEF HandlerError, HandlerFails
  <2>1. StoreTypeOK'
    BY <1>0, <1>8, StatementTypes DEF StatusFits, ConsumerTypeOK
  <2>2. StatusPart
    BY <1>0, <1>8, ForgetType DEF Goto, Forget, ConsumerTypeOK, StatusFits
  <2>3. spent' \in [FaultKind -> Nat]
    BY <1>0, <1>8, SpendType
  <2>4. pc[c] \in Holding
    BY <1>8
  <2> QED BY <1>a, <1>8, <2>1, <2>2, <2>3, <2>4
<1> QED BY <1>1, <1>2, <1>3, <1>4, <1>5, <1>6, <1>7, <1>8 DEF HandlerStep

\* The steps of Consume itself, and the broker's.
LEMMA ConsumeKeepsInv ==
    ASSUME Inv, NEW c \in Consumers, ConsumeStep(c) \/ BrokerRequeue(c)
    PROVE  Inv'
<1>0. /\ TypeOK /\ StoreTypeOK /\ BrokerTypeOK /\ WorkerTypeOK /\ ConsumerTypeOK
      /\ BusyHolds /\ Attached /\ StatusFits
  BY DEF Inv, TypeOK
<1> DEFINE Links == BusyHolds' /\ Attached' /\ StatusFits'
<1>a. ASSUME BrokerTypeOK', ConsumerTypeOK', Links, parked' \subseteq Jobs, lost' \subseteq Jobs,
             UNCHANGED <<storeVars, workerVars, requestVars, spent>>
      PROVE  Inv'
  <2>1. StoreTypeOK'
    BY <1>0, <1>a, StatementTypes
  <2>2. WorkerTypeOK' /\ RequestTypeOK' /\ spent' \in [FaultKind -> Nat]
    BY <1>0, <1>a DEF TypeOK, WorkerTypeOK, RequestTypeOK, workerVars, requestVars
  <2> QED BY <1>a, <2>1, <2>2 DEF Inv, TypeOK
<1>b. parked \subseteq Jobs /\ lost \subseteq Jobs
  BY DEF Inv, TypeOK
<1> USE DEF ConsumerPC, ConsumerTypeOK, Goto, ChannelOpen, workerVars
<1>1. ASSUME NEW m \in Message, Deliver(c, m) PROVE Inv'
  <2>1. BrokerTypeOK'
    BY <1>0, <1>1, BrokerTypes DEF Deliver
  <2>2. ConsumerTypeOK'
    BY <1>0, <1>1 DEF Deliver
  <2>3. BusyHolds' /\ StatusFits'
    BY <1>0, <1>1, NoneAssumption DEF Deliver, BusyHolds, StatusFits
  <2>4. Attached'
    BY <1>0, <1>1 DEF Deliver, DeliverTo, BrokerTypeOK, Attached
  <2> QED BY <1>a, <1>b, <1>1, <2>1, <2>2, <2>3, <2>4 DEF Deliver
<1>2. CASE Republish(c)
  <2>1. cur[c] \in Message
    BY <1>0, <1>2 DEF Republish, BusyHolds
  <2>2. [cur[c] EXCEPT !.retry = @ + 1] \in Message
    BY <1>2, <2>1, BrokerAssumption DEF Republish, Message
  <2>3. BrokerTypeOK'
    BY <1>0, <1>2, <2>2, BrokerTypes DEF Republish
  <2>4. ConsumerTypeOK' /\ BusyHolds' /\ StatusFits'
    BY <1>0, <1>2 DEF Republish, localVars, BusyHolds, StatusFits
  <2>5. Attached'
    BY <1>0, <1>2 DEF Republish, Publish, localVars, Attached
  <2> QED BY <1>a, <1>b, <1>2, <2>3, <2>4, <2>5 DEF Republish
<1>3. CASE DeadLetter(c)
  <2>1. cur[c] \in Message /\ unacked[c] = cur[c]
    BY <1>0, <1>3 DEF DeadLetter, BusyHolds, Attached
  <2>2. BrokerTypeOK'
    BY <1>0, <1>3, <2>1, NoneAssumption, BrokerTypes DEF DeadLetter
  <2>3. parked' \subseteq Jobs /\ lost' \subseteq Jobs
    BY <1>b, <1>3, <2>1 DEF DeadLetter, Message
  <2>4. ConsumerTypeOK' /\ BusyHolds' /\ StatusFits'
    BY <1>0, <1>3 DEF DeadLetter, BusyHolds, StatusFits
  <2>5. Attached'
    BY <1>0, <1>3 DEF DeadLetter, NackBy, BrokerTypeOK, Attached
  <2> QED BY <1>a, <1>3, <2>2, <2>3, <2>4, <2>5 DEF DeadLetter
<1>4. CASE Ack(c)
  <2>1. BrokerTypeOK'
    BY <1>0, <1>4, BrokerTypes DEF Ack
  <2>2. ConsumerTypeOK' /\ BusyHolds' /\ StatusFits'
    BY <1>0, <1>4 DEF Ack, BusyHolds, StatusFits
  <2>3. Attached'
    BY <1>0, <1>4 DEF Ack, AckBy, BrokerTypeOK, Attached
  <2> QED BY <1>a, <1>b, <1>4, <2>1, <2>2, <2>3 DEF Ack
<1>5. CASE AnswerClosed(c)
  <2>1. BrokerTypeOK'
    BY <1>0, <1>5, BrokerTypes DEF AnswerClosed
  <2>2. ConsumerTypeOK' /\ BusyHolds' /\ StatusFits'
    BY <1>0, <1>5 DEF AnswerClosed, BusyHolds, StatusFits
  <2>3. Attached'
    BY <1>0, <1>5 DEF AnswerClosed, brokerVars, Attached
  <2> QED BY <1>a, <1>b, <1>5, <2>1, <2>2, <2>3 DEF AnswerClosed
<1>6. CASE Exit(c)
  <2>1. BrokerTypeOK'
    BY <1>0, <1>6, BrokerTypes DEF Exit
  <2>2. ConsumerTypeOK' /\ BusyHolds' /\ StatusFits'
    BY <1>0, <1>6 DEF Exit, localVars, BusyHolds, StatusFits
  <2>3. Attached'
    BY <1>0, <1>6 DEF Exit, brokerVars, localVars, Attached
  <2> QED BY <1>a, <1>b, <1>6, <2>1, <2>2, <2>3 DEF Exit
<1>7. CASE BrokerRequeue(c)
  <2>1. BrokerTypeOK'
    BY <1>0, <1>7, BrokerTypes DEF BrokerRequeue
  <2>2. ConsumerTypeOK' /\ BusyHolds' /\ StatusFits'
    BY <1>0, <1>7 DEF BrokerRequeue, localVars, BusyHolds, StatusFits
  <2>3. Attached'
    BY <1>0, <1>7 DEF BrokerRequeue, RequeueFrom, localVars, Attached, BrokerTypeOK
  <2> QED BY <1>a, <1>b, <1>7, <2>1, <2>2, <2>3 DEF BrokerRequeue
<1> QED BY <1>1, <1>2, <1>3, <1>4, <1>5, <1>6, <1>7 DEF ConsumeStep

LEMMA WorkerKeepsInv ==
    ASSUME Inv, NEW w \in Workers, WorkerNext(w)
    PROVE  Inv'
<1>0. /\ TypeOK /\ StoreTypeOK /\ BrokerTypeOK /\ WorkerTypeOK /\ ConsumerTypeOK
      /\ BusyHolds /\ Attached /\ StatusFits
  BY DEF Inv, TypeOK
<1> DEFINE Links == BusyHolds' /\ Attached' /\ StatusFits'
<1>a. ASSUME WorkerTypeOK', ConsumerTypeOK', Links, spent' \in [FaultKind -> Nat],
             UNCHANGED <<storeVars, brokerVars, requestVars, history>>
      PROVE  Inv'
  BY <1>0, <1>a, StatementTypes, BrokerTypes, RequestSideUnchanged DEF Inv, TypeOK
<1> USE DEF WorkerTypeOK, ConsumerTypeOK, ChannelOpen
<1>1. CASE Shutdown(w)
  BY <1>0, <1>a, <1>1, SpendType
     DEF Shutdown, localVars, brokerVars, BusyHolds, Attached, StatusFits
<1>2. CASE ProcessExit(w)
  <2>1. Attached'
    BY <1>0, <1>2 DEF ProcessExit, ConsumersOf, localVars, brokerVars, Attached
  <2> QED BY <1>0, <1>a, <1>2, <2>1, SpendType
          DEF ProcessExit, localVars, BusyHolds, StatusFits
<1>3. CASE Crash(w)
  <2>1. ConsumerTypeOK' /\ WorkerTypeOK'
    BY <1>0, <1>3 DEF Crash, ConsumerPC, LocalStatus, TallyRow, NoTally
  <2>2. BusyHolds' /\ StatusFits'
    BY <1>0, <1>3 DEF Crash, BusyHolds, StatusFits
  <2>3. Attached'
    BY <1>0, <1>3 DEF Crash, brokerVars, Attached
  <2> QED BY <1>0, <1>a, <1>3, <2>1, <2>2, <2>3, SpendType DEF Crash
<1>4. CASE ConnLost(w)
  <2>1. Attached'
    BY <1>0, <1>4 DEF ConnLost, localVars, brokerVars, Attached
  <2> QED BY <1>0, <1>a, <1>4, <2>1, SpendType DEF ConnLost, localVars, BusyHolds, StatusFits
<1>5. CASE Restart(w)
  <2>1. ConsumerTypeOK' /\ WorkerTypeOK'
    BY <1>0, <1>5 DEF Restart, localVars, ConsumerPC
  <2>2. \A c \in Consumers : WorkerOf[c] = w => pc[c] = "off"
    BY <1>0, <1>5 DEF Restart, Attached
  <2>3. BusyHolds' /\ StatusFits'
    BY <1>0, <1>5, <2>2 DEF Restart, localVars, BusyHolds, StatusFits
  <2>4. Attached'
    BY <1>0, <1>5, <2>2 DEF Restart, ConsumersOf, localVars, brokerVars, Attached, BusyHolds
  <2> QED BY <1>0, <1>a, <1>5, <2>1, <2>3, <2>4, SpendType DEF Restart
<1> QED BY <1>1, <1>2, <1>3, <1>4, <1>5 DEF WorkerNext

LEMMA StutterKeepsInv == Inv /\ UNCHANGED vars => Inv'
<1> SUFFICES ASSUME Inv, UNCHANGED vars PROVE Inv'
  OBVIOUS
<1>1. UNCHANGED <<storeVars, brokerVars, workerVars, pc, localVars, requestVars, history, spent>>
  BY DEF vars
<1>2. StoreTypeOK' /\ BrokerTypeOK' /\ RequestTypeOK' /\ parked' \subseteq Jobs /\ lost' \subseteq Jobs
  BY <1>1, StatementTypes, BrokerTypes, RequestSideUnchanged DEF Inv, TypeOK
<1>3. spent' \in [FaultKind -> Nat]
  BY <1>1 DEF Inv, TypeOK
<1> QED BY <1>1, <1>2, <1>3, ConsumerSideUnchanged DEF Inv, TypeOK, brokerVars

LEMMA StepKeepsInv == Inv /\ [Next]_vars => Inv'
<1> SUFFICES ASSUME Inv, [Next]_vars PROVE Inv'
  OBVIOUS
<1>1. ASSUME NEW r \in Requests, RequestNext(r) PROVE Inv'
  BY <1>1, RequestKeepsInv
<1>2. ASSUME NEW c \in Consumers, ConsumerNext(c) PROVE Inv'
  BY <1>2, HandlerKeepsInv, ConsumeKeepsInv DEF ConsumerNext
<1>3. ASSUME NEW w \in Workers, WorkerNext(w) PROVE Inv'
  BY <1>3, WorkerKeepsInv
<1>4. CASE APICrash
  BY <1>4, CrashOfAPIKeepsInv
<1>5. CASE UNCHANGED vars
  BY <1>5, StutterKeepsInv
<1> QED BY <1>1, <1>2, <1>3, <1>4, <1>5 DEF Next

THEOREM InvHolds == Spec => []Inv
<1> QED BY InitInv, StepKeepsInv, PTL DEF Spec

\* Every variable keeps its type, whatever fails: the statuses written to a
\* job and to an event are those of internal/models, a retry count never
\* passes the cap, the counters of an event are numbers.
THEOREM TypeCorrect == Spec => []TypeOK
<1>1. Inv => TypeOK
  BY DEF Inv
<1> QED BY <1>1, InvHolds, PTL

-----------------------------------------------------------------------------
(* No job is lost silently.  NoSilentLoss is inductive together with Inv   *)
(* and two facts: a request that is not being handled has nothing left to  *)
(* publish, and as long as no connection was lost every goroutine that has *)
(* not returned has its channel, so that (by Attached) the delivery it is  *)
(* busy with is still in the broker's hands.                               *)

IdleRequests == \A r \in Requests : rpc[r] = "idle" => todo[r] = {}

Connected ==
    spent["conn"] = 0 => \A c \in Consumers : pc[c] # "off" => conn[WorkerOf[c]]

LossInv == Inv /\ IdleRequests /\ Connected /\ NoSilentLoss

LEMMA InitLossInv == Init => LossInv
<1> SUFFICES ASSUME Init PROVE LossInv
  OBVIOUS
<1>1. Inv
  BY InitInv
<1>2. IdleRequests /\ Connected /\ NoSilentLoss
  BY DispatchAssumption DEF Init, StoreInit, IdleRequests, Connected, NoSilentLoss
<1> QED BY <1>1, <1>2 DEF LossInv

\* A step uses up one fault at most.
LEMMA StepSpends ==
    ASSUME [Next]_vars
    PROVE  UNCHANGED spent \/ \E k \in FaultKind : Spend(k)
<1>0. {"apiCrash", "crash", "stop", "conn", "error", "lost", "rerun"} = FaultKind
  BY DEF FaultKind
<1>1. ASSUME NEW r \in Requests, RequestNext(r)
      PROVE  UNCHANGED spent \/ \E k \in FaultKind : Spend(k)
  BY <1>0, <1>1 DEF RequestNext, RequestStep, CreateEvent, RerunFailed, PublishJob,
                PublishLost, MarkRequest, Respond, AbandonRequest
<1>2. ASSUME NEW c \in Consumers, ConsumerNext(c)
      PROVE  UNCHANGED spent \/ \E k \in FaultKind : Spend(k)
  BY <1>0, <1>2 DEF ConsumerNext, HandlerStep, ConsumeStep, StartJob, MarkEventRunning,
         Execute, SaveResult, CountJobs, CountPending, SaveRollup, HandlerError,
         HandlerFails, Deliver, Republish, DeadLetter, Ack, AnswerClosed, Exit, BrokerRequeue
<1>3. ASSUME NEW w \in Workers, WorkerNext(w)
      PROVE  UNCHANGED spent \/ \E k \in FaultKind : Spend(k)
  BY <1>0, <1>3 DEF WorkerNext, Shutdown, ProcessExit, Crash, ConnLost, Restart
<1> QED BY <1>0, <1>1, <1>2, <1>3 DEF Next, APICrash, vars

\* So what has not been used up after a step had not been before it.
LEMMA SpentBefore ==
    ASSUME TypeOK, [Next]_vars
    PROVE  /\ \A k \in FaultKind : spent'[k] = 0 => spent[k] = 0
           /\ \A k \in FaultKind : spent'[k] = 0 => ~ Spend(k)
<1>1. spent \in [FaultKind -> Nat]
  BY DEF TypeOK
<1>2. \A k \in FaultKind : Spend(k) => spent'[k] # 0 /\ \A l \in FaultKind : spent'[l] = 0 => spent[l] = 0
  BY <1>1 DEF Spend
<1> QED BY <1>2, StepSpends

LEMMA SpentKept ==
    ASSUME TypeOK, [Next]_vars, spent'["conn"] = 0
    PROVE  spent["conn"] = 0
BY SpentBefore DEF FaultKind

LEMMA StepKeepsIdleRequests ==
    ASSUME Inv, IdleRequests, [Next]_vars PROVE IdleRequests'
<1> USE DEF IdleRequests, requestVars
<1>0. rpc \in [Requests -> RequestPC] /\ todo \in [Requests -> SUBSET Jobs]
  BY DEF Inv, TypeOK, RequestTypeOK
<1>1. ASSUME NEW r \in Requests, RequestNext(r) PROVE IdleRequests'
  <2>1. ASSUME NEW e \in Events, CreateEvent(r, e) \/ RerunFailed(r, e) PROVE IdleRequests'
    BY <1>0, <2>1 DEF CreateEvent, RerunFailed
  <2>2. ASSUME NEW j \in Jobs, PublishJob(r, j) \/ PublishLost(r, j) PROVE IdleRequests'
    BY <1>0, <2>2 DEF PublishJob, PublishLost
  <2>3. CASE MarkRequest(r)
    BY <1>0, <2>3 DEF MarkRequest
  <2>4. CASE Respond(r) \/ AbandonRequest(r)
    BY <1>0, <2>4 DEF Respond, AbandonRequest, EndRequest
  <2> QED BY <1>1, <2>1, <2>2, <2>3, <2>4 DEF RequestNext, RequestStep
<1>2. ASSUME NEW c \in Consumers, ConsumerNext(c) PROVE IdleRequests'
  <2>1. UNCHANGED requestVars
    BY <1>2 DEF ConsumerNext, HandlerStep, ConsumeStep, StartJob, MarkEventRunning,
         Execute, SaveResult, CountJobs, CountPending, SaveRollup, HandlerError,
         HandlerFails, Deliver, Republish, DeadLetter, Ack, AnswerClosed, Exit, BrokerRequeue
  <2> QED BY <2>1
<1>3. ASSUME NEW w \in Workers, WorkerNext(w) PROVE IdleRequests'
  BY <1>3 DEF WorkerNext, Shutdown, ProcessExit, Crash, ConnLost, Restart
<1>4. CASE APICrash
  BY <1>4 DEF APICrash
<1>5. CASE UNCHANGED vars
  BY <1>5 DEF vars
<1> QED BY <1>1, <1>2, <1>3, <1>4, <1>5 DEF Next

LEMMA StepKeepsConnected ==
    ASSUME Inv, Connected, [Next]_vars PROVE Connected'
<1> SUFFICES ASSUME spent'["conn"] = 0
             PROVE  \A c \in Consumers : pc'[c] # "off" => conn'[WorkerOf[c]]
  BY DEF Connected
<1> USE DEF workerVars
<1>0. TypeOK /\ pc \in [Consumers -> ConsumerPC] /\ conn \in [Workers -> BOOLEAN]
  BY DEF Inv, TypeOK, ConsumerTypeOK, WorkerTypeOK
<1>a. \A c \in Consumers : pc[c] # "off" => conn[WorkerOf[c]]
  BY <1>0, SpentKept DEF Connected
<1>1. ASSUME NEW r \in Requests, RequestNext(r) PROVE Connected'
  BY <1>a, <1>1 DEF Connected, RequestNext, RequestStep, CreateEvent, RerunFailed,
                    PublishJob, PublishLost, MarkRequest, Respond, AbandonRequest
<1>2. ASSUME NEW c \in Consumers, ConsumerNext(c) PROVE Connected'
  <2>1. \/ UNCHANGED conn /\ pc[c] # "off" /\ \E l : pc' = [pc EXCEPT ![c] = l]
        \/ UNCHANGED <<conn, pc>>
    BY <1>2 DEF ConsumerNext, HandlerStep, ConsumeStep, StartJob, MarkEventRunning,
         Execute, SaveResult, CountJobs, CountPending, SaveRollup, HandlerError,
         HandlerFails, Deliver, Republish, DeadLetter, Ack, AnswerClosed, Exit,
         BrokerRequeue, Goto
  <2> QED BY <1>0, <1>a, <2>1 DEF Connected
<1>3. ASSUME NEW w \in Workers, WorkerNext(w) PROVE Connected'
  <2>1. CASE Shutdown(w)
    BY <1>a, <2>1 DEF Shutdown, Connected
  <2>2. CASE ProcessExit(w)
    BY <1>0, <1>a, <2>2, DispatchAssumption DEF ProcessExit, ConsumersOf, Connected
  <2>3. CASE Crash(w)
    BY <1>0, <1>a, <2>3, DispatchAssumption DEF Crash, Connected
  <2>4. CASE ConnLost(w)
    <3>1. spent["conn"] \in Nat /\ spent'["conn"] = spent["conn"] + 1
      BY <1>0, <2>4 DEF ConnLost, Spend, TypeOK, FaultKind
    <3> QED BY <3>1
  <2>5. CASE Restart(w)
    BY <1>0, <1>a, <2>5, DispatchAssumption DEF Restart, Connected
  <2> QED BY <1>3, <2>1, <2>2, <2>3, <2>4, <2>5 DEF WorkerNext
<1>4. CASE APICrash \/ UNCHANGED vars
  BY <1>a, <1>4 DEF APICrash, vars, Connected
<1> QED BY <1>1, <1>2, <1>3, <1>4 DEF Next, Connected

\* Coverage outlives a step that takes away none of its four reasons.
LEMMA CoverageKept ==
    ASSUME NEW j, Covered(j),
           \A m \in Message : m.job = j /\ ready[m] > 0 => ready'[m] > 0,
           \A c \in Consumers : unacked[c] # None /\ unacked[c].job = j /\ pc[c] \in Owing
                                => unacked'[c] = unacked[c] /\ pc'[c] \in Owing,
           \A r \in Requests : j \in todo[r] => j \in todo'[r] \/ j \in parked',
           j \in parked => j \in parked'
    PROVE  Covered(j)'
BY DEF Covered

\* The steps of a request, under the premises that Inv, IdleRequests and
\* NoSilentLoss give: a job that is pending afterwards is covered.
LEMMA RequestLosesNothing ==
    ASSUME TypeOK, IdleRequests, NEW r \in Requests, RequestNext(r), NEW j \in Jobs,
           jobStatus[j] \in PendingJob /\ j \notin lost => Covered(j),
           jobStatus'[j] \in PendingJob, j \notin lost'
    PROVE  Covered(j)'
<1>0. /\ jobStatus \in [Jobs -> JobStatus \cup {"NONE"}]
      /\ todo \in [Requests -> SUBSET Jobs]
      /\ ready \in [Message -> Nat]
  BY DEF TypeOK, StoreTypeOK, RequestTypeOK, BrokerTypeOK
<1>1. ASSUME NEW e \in Events, CreateEvent(r, e) PROVE Covered(j)'
  <2>1. CASE j \in JobsOf(e)
    BY <1>0, <1>1, <2>1 DEF CreateEvent, Covered
  <2>2. CASE j \notin JobsOf(e)
    <3>1. jobStatus'[j] = jobStatus[j] /\ todo[r] = {}
      BY <1>1, <2>2 DEF CreateEvent, InsertEventWithJobs, JobsOf, IdleRequests
    <3> QED BY <1>0, <1>1, <3>1, CoverageKept DEF CreateEvent, brokerVars
  <2> QED BY <2>1, <2>2
<1>2. ASSUME NEW e \in Events, RerunFailed(r, e) PROVE Covered(j)'
  <2>1. CASE j \in FailedJobs(e)
    BY <1>0, <1>2, <2>1 DEF RerunFailed, Covered
  <2>2. CASE j \notin FailedJobs(e)
    <3>1. jobStatus'[j] = jobStatus[j] /\ todo[r] = {}
      BY <1>2, <2>2 DEF RerunFailed, ResetFailed, IdleRequests
    <3> QED BY <1>0, <1>2, <3>1, CoverageKept DEF RerunFailed, brokerVars
  <2> QED BY <2>1, <2>2
<1>3. CASE MarkRequest(r)
  BY <1>3, CoverageKept DEF MarkRequest, UpdateEventStatus, brokerVars
<1>4. ASSUME NEW k \in Jobs, PublishJob(r, k) PROVE Covered(j)'
  <2>1. NewMessage(k) \in Message /\ NewMessage(k).job = k
    BY BrokerAssumption DEF NewMessage, Message
  <2>2. \A m \in Message : ready[m] > 0 => ready'[m] > 0
    BY <1>0, <1>4 DEF PublishJob, Publish
  <2>3. CASE j = k
    <3>1. ready'[NewMessage(k)] > 0
      BY <1>0, <1>4, <2>1 DEF PublishJob, Publish
    <3> QED BY <2>1, <2>3, <3>1 DEF Covered
  <2>4. CASE j # k
    BY <1>0, <1>4, <2>2, <2>4, CoverageKept DEF PublishJob, Publish, storeVars
  <2> QED BY <2>3, <2>4
<1>5. ASSUME NEW k \in Jobs, PublishLost(r, k) PROVE Covered(j)'
  BY <1>0, <1>5, CoverageKept DEF PublishLost, brokerVars, storeVars
<1>6. CASE Respond(r)
  BY <1>0, <1>6, CoverageKept DEF Respond, EndRequest, brokerVars, storeVars
<1>7. CASE AbandonRequest(r)
  <2>1. jobStatus' = jobStatus
    BY <1>7 DEF AbandonRequest, UpdateEventStatus, storeVars
  <2> QED BY <1>0, <1>7, <2>1, CoverageKept DEF AbandonRequest, EndRequest, brokerVars
<1> QED BY <1>1, <1>2, <1>3, <1>4, <1>5, <1>6, <1>7 DEF RequestNext, RequestStep

\* The steps of a consumer, under the premise (from Connected) that every
\* goroutine that is busy has its channel.
LEMMA ConsumerLosesNothing ==
    ASSUME Inv, NEW c \in Consumers, ConsumerNext(c), NEW j \in Jobs,
           \A d \in Consumers : pc[d] # "off" => conn[WorkerOf[d]],
           jobStatus[j] \in PendingJob /\ j \notin lost => Covered(j),
           jobStatus'[j] \in PendingJob, j \notin lost'
    PROVE  Covered(j)'
<1>0. /\ jobStatus \in [Jobs -> JobStatus \cup {"NONE"}]
      /\ ready \in [Message -> Nat]
      /\ unacked \in [Consumers -> Message \cup {None}]
      /\ pc \in [Consumers -> ConsumerPC]
      /\ cur \in [Consumers -> Message \cup {None}]
  BY DEF Inv, TypeOK, StoreTypeOK, BrokerTypeOK, ConsumerTypeOK
\* What c is busy with is what the broker holds for it.
<1>b. pc[c] \in Holding => /\ ChannelOpen(c)
                           /\ unacked[c] = cur[c]
                           /\ cur[c] \in Message /\ cur[c].job \in Jobs /\ cur[c] # None
  BY <1>0, NoneAssumption DEF Inv, Attached, BusyHolds, ChannelOpen, Holding, Message
<1> USE DEF Holding, ConsumerPC, Owing, Goto
<1>1. CASE StartJob(c)
  <2>1. CASE j = cur[c].job
    BY <1>0, <1>1, <1>b, <2>1 DEF StartJob, Covered, brokerVars
  <2>2. CASE j # cur[c].job
    BY <1>0, <1>1, <2>2, CoverageKept
       DEF StartJob, UpdateJobRunning, brokerVars, requestVars
  <2> QED BY <2>1, <2>2
<1>2. CASE MarkEventRunning(c)
  BY <1>0, <1>2, CoverageKept
     DEF MarkEventRunning, UpdateEventStatus, storeVars, brokerVars, requestVars
<1>3. ASSUME NEW s \in TerminalJob, Execute(c, s) PROVE Covered(j)'
  BY <1>0, <1>3, CoverageKept DEF Execute, storeVars, brokerVars, requestVars
<1>4. CASE SaveResult(c)
  <2>1. status[c] \in TerminalJob
    BY <1>4 DEF SaveResult, Inv, StatusFits
  <2>2. j # cur[c].job /\ jobStatus'[j] = jobStatus[j]
    BY <1>0, <1>4, <2>1 DEF SaveResult, UpdateJobResult
  <2> QED BY <1>0, <1>4, <1>b, <2>2, CoverageKept DEF SaveResult, brokerVars, requestVars
<1>5. CASE CountJobs(c)
  BY <1>0, <1>5, CoverageKept DEF CountJobs, storeVars, brokerVars, requestVars
<1>6. CASE CountPending(c)
  BY <1>0, <1>6, CoverageKept DEF CountPending, storeVars, brokerVars, requestVars
<1>7. CASE SaveRollup(c)
  BY <1>0, <1>7, CoverageKept DEF SaveRollup, WriteRollup, brokerVars, requestVars
<1>8. CASE HandlerError(c)
  <2>1. /\ pc[c] \in {"load", "result", "count", "pending", "write"}
        /\ pc' = [pc EXCEPT ![c] = "retry"]
        /\ UNCHANGED <<brokerVars, cur, requestVars, history>>
    BY <1>8 DEF HandlerError, HandlerFails
  <2>2. CASE j = cur[c].job
    BY <1>0, <1>b, <2>1, <2>2 DEF Covered, brokerVars
  <2>3. CASE j # cur[c].job
    <3>1. jobStatus'[j] = jobStatus[j]
      BY <1>0, <1>8, <2>3 DEF HandlerError, HandlerFails, UpdateJobRunning,
                              UpdateJobResult, WriteRollup, storeVars
    <3> QED BY <1>0, <2>1, <3>1, CoverageKept DEF brokerVars, requestVars
  <2> QED BY <2>2, <2>3
<1>9. ASSUME NEW m \in Message, Deliver(c, m) PROVE Covered(j)'
  <2>1. /\ jobStatus' = jobStatus /\ todo' = todo /\ parked' = parked /\ lost' = lost
        /\ pc[c] = "idle" /\ pc' = [pc EXCEPT ![c] = "load"]
        /\ ready' = [ready EXCEPT ![m] = ready[m] - 1]
        /\ unacked' = [unacked EXCEPT ![c] = m] /\ unacked[c] = None
    BY <1>9 DEF Deliver, DeliverTo, storeVars, requestVars
  <2>2. CASE j = m.job
    BY <1>0, <2>1, <2>2, NoneAssumption DEF Covered
  <2>3. CASE j # m.job
    <3>1. \A n \in Message : n.job = j /\ ready[n] > 0 => ready'[n] > 0
      BY <1>0, <2>1, <2>3
    <3> QED BY <1>0, <2>1, <3>1, CoverageKept
  <2> QED BY <2>2, <2>3
<1>10. CASE Republish(c)
  <2> DEFINE again == [cur[c] EXCEPT !.retry = @ + 1]
  <2>1. again \in Message /\ again.job = cur[c].job
    BY <1>10, <1>b, BrokerAssumption DEF Republish, Message
  <2> HIDE DEF again
  <2>2. /\ jobStatus' = jobStatus /\ todo' = todo /\ parked' = parked /\ lost' = lost
        /\ pc' = [pc EXCEPT ![c] = "ack"] /\ unacked' = unacked
        /\ ready' = [ready EXCEPT ![again] = ready[again] + 1]
    BY <1>10 DEF Republish, Publish, storeVars, requestVars, again
  <2>3. CASE j = cur[c].job
    BY <1>0, <2>1, <2>2, <2>3 DEF Covered
  <2>4. CASE j # cur[c].job
    BY <1>0, <1>10, <1>b, <2>1, <2>2, <2>4, CoverageKept DEF Republish
  <2> QED BY <2>3, <2>4
<1>11. CASE DeadLetter(c)
  <2>1. /\ jobStatus' = jobStatus /\ todo' = todo /\ lost' = lost
        /\ parked' = parked \cup {cur[c].job}
        /\ pc' = [pc EXCEPT ![c] = "idle"] /\ ready' = ready
        /\ unacked' = [unacked EXCEPT ![c] = None]
    BY <1>11 DEF DeadLetter, NackBy, storeVars, requestVars
  <2>2. CASE j = cur[c].job
    BY <2>1, <2>2 DEF Covered
  <2>3. CASE j # cur[c].job
    BY <1>0, <1>11, <1>b, <2>1, <2>3, CoverageKept DEF DeadLetter
  <2> QED BY <2>2, <2>3
<1>12. CASE Ack(c)
  BY <1>0, <1>12, CoverageKept DEF Ack, AckBy, storeVars, requestVars
<1>13. CASE AnswerClosed(c)
  BY <1>13, <1>b DEF AnswerClosed
<1>14. CASE Exit(c)
  BY <1>0, <1>14, CoverageKept DEF Exit, storeVars, brokerVars, requestVars
<1>15. CASE BrokerRequeue(c)
  <2>1. /\ jobStatus' = jobStatus /\ todo' = todo /\ parked' = parked /\ lost' = lost /\ pc' = pc
        /\ unacked[c] # None
        /\ ready' = [ready EXCEPT ![unacked[c]] = ready[unacked[c]] + 1]
        /\ unacked' = [unacked EXCEPT ![c] = None]
    BY <1>15 DEF BrokerRequeue, RequeueFrom, storeVars, requestVars
  <2>2. unacked[c] \in Message
    BY <1>0, <2>1
  <2>3. CASE j = unacked[c].job
    BY <1>0, <2>1, <2>2, <2>3 DEF Covered
  <2>4. CASE j # unacked[c].job
    BY <1>0, <2>1, <2>2, <2>4, CoverageKept
  <2> QED BY <2>3, <2>4
<1> QED BY <1>1, <1>2, <1>3, <1>4, <1>5, <1>6, <1>7, <1>8, <1>9, <1>10, <1>11, <1>12,
           <1>13, <1>14, <1>15 DEF ConsumerNext, HandlerStep, ConsumeStep

LEMMA WorkerLosesNothing ==
    ASSUME Inv, NEW w \in Workers, WorkerNext(w), NEW j \in Jobs,
           jobStatus[j] \in PendingJob /\ j \notin lost => Covered(j),
           jobStatus'[j] \in PendingJob, j \notin lost'
    PROVE  Covered(j)'
<1>1. UNCHANGED <<storeVars, brokerVars, requestVars, history>>
  BY DEF WorkerNext, Shutdown, ProcessExit, Crash, ConnLost, Restart
<1>2. \A c \in Consumers : unacked[c] # None /\ pc[c] \in Owing => pc'[c] \in Owing
  BY DEF WorkerNext, Shutdown, ProcessExit, Crash, ConnLost, Restart, ConsumersOf, Owing
<1> QED BY <1>1, <1>2, CoverageKept DEF storeVars, brokerVars, requestVars

LEMMA StepKeepsNoSilentLoss ==
    ASSUME LossInv, [Next]_vars PROVE NoSilentLoss'
<1> SUFFICES ASSUME spent'["conn"] = 0, NEW j \in Jobs, jobStatus'[j] \in PendingJob,
                    j \notin lost'
             PROVE  Covered(j)'
  BY DEF NoSilentLoss
<1>0. /\ Inv /\ TypeOK /\ IdleRequests
      /\ jobStatus \in [Jobs -> JobStatus \cup {"NONE"}]
  BY DEF LossInv, Inv, TypeOK, StoreTypeOK
<1>a. ASSUME spent["conn"] = 0
      PROVE  /\ jobStatus[j] \in PendingJob /\ j \notin lost => Covered(j)
             /\ \A d \in Consumers : pc[d] # "off" => conn[WorkerOf[d]]
  BY <1>a DEF LossInv, NoSilentLoss, Connected
<1>b. spent["conn"] = 0
  BY <1>0, SpentKept
<1>1. ASSUME NEW r \in Requests, RequestNext(r) PROVE Covered(j)'
  BY <1>0, <1>a, <1>b, <1>1, RequestLosesNothing
<1>2. ASSUME NEW c \in Consumers, ConsumerNext(c) PROVE Covered(j)'
  BY <1>0, <1>a, <1>b, <1>2, ConsumerLosesNothing
<1>3. ASSUME NEW w \in Workers, WorkerNext(w) PROVE Covered(j)'
  BY <1>0, <1>a, <1>b, <1>3, WorkerLosesNothing
<1>4. CASE APICrash
  <2>1. /\ jobStatus' = jobStatus /\ parked' = parked
        /\ lost' = lost \cup UNION {todo[r] : r \in Requests}
    BY <1>4 DEF APICrash, storeVars
  <2>2. \A r \in Requests : j \notin todo[r]
    BY <2>1
  <2> QED BY <1>a, <1>b, <1>4, <2>1, <2>2, CoverageKept DEF APICrash, brokerVars
<1>5. CASE UNCHANGED vars
  BY <1>a, <1>b, <1>5, CoverageKept DEF vars, storeVars, brokerVars, requestVars
<1> QED BY <1>1, <1>2, <1>3, <1>4, <1>5 DEF Next

\* As long as no worker loses its AMQP connection the workers lose no job
\* silently, through any number of crashes of the API and of the workers,
\* signals, failing statements, re-runs and redeliveries: a QUEUED or RUNNING
\* job has a message, a consumer or a request that answers for it, or ended in
\* an error response or the dead-letter queue.  Left out are the jobs in lost:
\* those whose publication reported success in vain, and those an API process
\* had yet to publish when it died.
THEOREM NothingLostSilently == Spec => []NoSilentLoss
<1>1. LossInv /\ [Next]_vars => LossInv'
  BY StepKeepsInv, StepKeepsIdleRequests, StepKeepsConnected, StepKeepsNoSilentLoss
     DEF LossInv
<1>2. LossInv => NoSilentLoss
  BY DEF LossInv
<1> QED BY InitLossInv, <1>1, <1>2, PTL DEF Spec
=============================================================================
