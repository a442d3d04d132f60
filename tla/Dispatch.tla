------------------------------ MODULE Dispatch ------------------------------
(***************************************************************************)
(* How an event travels: the API handlers that insert and publish jobs     *)
(* (internal/events), the worker processes and their consumer goroutines   *)
(* (worker/cmd/worker, internal/queue, worker/internal/runner), over the   *)
(* tables of Store and the queue of Broker.                                *)
(*                                                                         *)
(* A request handler and a consumer are each a program counter.  A step    *)
(* ends where another actor can look: at every SQL statement, publish,     *)
(* acknowledgement and remote script.  Processes crash, stop on a signal   *)
(* and lose their AMQP connection; statements fail, with or without having *)
(* been applied; publishes vanish, since the channel asks for no confirms. *)
(***************************************************************************)
EXTENDS Store, Broker

CONSTANTS Workers,    \* worker processes
          WorkerOf,   \* the process each consumer goroutine runs in
          Requests,   \* API requests that may be handled at the same time
          Budget      \* how often each fault, and the user's re-run, may happen

FaultKind == {"apiCrash",   \* the API process dies
              "crash",      \* a worker process dies
              "stop",       \* a worker gets SIGTERM
              "conn",       \* a worker's AMQP connection closes
              "error",      \* a statement fails
              "lost",       \* a message is published into a dying connection
              "rerun"}      \* a user asks for "re-run failed"

ASSUME DispatchAssumption == /\ WorkerOf \in [Consumers -> Workers]
                             /\ Budget \in [FaultKind -> Nat]

VARIABLES
    proc,     \* worker processes: up, stopping (signalled), down
    conn,     \* their AMQP connections
    pc,       \* where each consumer goroutine is in Consume and Handle
    cur,      \* the delivery it is handling
    status,   \* the local variable status of Handle, then of RollupEvent
    tally,    \* the local variables verified, failed, total of RollupEvent
    rpc,      \* where each API request is
    revent,   \* the event it is about
    todo,     \* the jobs it has yet to publish
    parked,   \* history: jobs given up with an error response or in the dlq
    lost,     \* history: jobs whose message was never sent and nobody was told
    spent     \* history: how much of Budget is used up

workerVars  == <<proc, conn>>
localVars   == <<cur, status, tally>>
requestVars == <<rpc, revent, todo>>
history     == <<parked, lost>>
vars == <<storeVars, brokerVars, workerVars, pc, localVars, requestVars, history, spent>>

ConsumerPC == {"off",      \* the goroutine has returned, or its process is down
               "idle",     \* in the select of Consume
               "load", "mark", "exec", "result",        \* in Handle
               "count", "pending", "write",             \* in RollupEvent
               "ack", "retry"}                          \* back in Consume
RequestPC  == {"idle", "mark", "publish"}
TallyRow   == [verified : Nat, failed : Nat, total : Nat]
NoTally    == [verified |-> 0, failed |-> 0, total |-> 0]
LocalStatus == TerminalJob \cup EventStatus \cup {"NONE"}

WorkerTypeOK ==
    /\ proc \in [Workers -> {"up", "stopping", "down"}]
    /\ conn \in [Workers -> BOOLEAN]

ConsumerTypeOK ==
    /\ pc \in [Consumers -> ConsumerPC]
    /\ cur \in [Consumers -> Message \cup {None}]
    /\ status \in [Consumers -> LocalStatus]
    /\ tally \in [Consumers -> TallyRow]

RequestTypeOK ==
    /\ rpc \in [Requests -> RequestPC]
    /\ revent \in [Requests -> Events \cup {None}]
    /\ todo \in [Requests -> SUBSET Jobs]

TypeOK ==
    /\ StoreTypeOK
    /\ BrokerTypeOK
    /\ WorkerTypeOK
    /\ ConsumerTypeOK
    /\ RequestTypeOK
    /\ parked \subseteq Jobs
    /\ lost \subseteq Jobs
    /\ spent \in [FaultKind -> Nat]

Init ==
    /\ StoreInit
    /\ BrokerInit
    /\ proc = [w \in Workers |-> "up"]
    /\ conn = [w \in Workers |-> TRUE]
    /\ pc = [c \in Consumers |-> "idle"]
    /\ cur = [c \in Consumers |-> None]
    /\ status = [c \in Consumers |-> "NONE"]
    /\ tally = [c \in Consumers |-> NoTally]
    /\ rpc = [r \in Requests |-> "idle"]
    /\ revent = [r \in Requests |-> None]
    /\ todo = [r \in Requests |-> {}]
    /\ parked = {}
    /\ lost = {}
    /\ spent = [k \in FaultKind |-> 0]

Spend(k) == /\ spent[k] < Budget[k]
            /\ spent' = [spent EXCEPT ![k] = @ + 1]

-----------------------------------------------------------------------------
(* API requests: events.Service.Create and events.Service.RerunFailed.     *)

\* Create, past its validation, up to the commit of CreateEventWithJobs.
CreateEvent(r, e) ==
    /\ rpc[r] = "idle"
    /\ event[e].status = "NONE"
    /\ InsertEventWithJobs(e)
    /\ rpc' = [rpc EXCEPT ![r] = "mark"]
    /\ revent' = [revent EXCEPT ![r] = e]
    /\ todo' = [todo EXCEPT ![r] = JobsOf(e)]
    /\ UNCHANGED <<brokerVars, workerVars, pc, localVars, history, spent>>

\* RerunFailed up to the UPDATE of ResetFailedJobs.  Neither looks at the
\* status of the event, nor at whether any job is FAILED.
RerunFailed(r, e) ==
    /\ rpc[r] = "idle"
    /\ event[e].status # "NONE"
    /\ Spend("rerun")
    /\ ResetFailed(e)
    /\ rpc' = [rpc EXCEPT ![r] = "mark"]
    /\ revent' = [revent EXCEPT ![r] = e]
    /\ todo' = [todo EXCEPT ![r] = FailedJobs(e)]
    /\ UNCHANGED <<brokerVars, workerVars, pc, localVars, history>>

\* Both go on to UpdateEventStatus(RUNNING), each in a statement of its own.
MarkRequest(r) ==
    /\ rpc[r] = "mark"
    /\ UpdateEventStatus(revent[r], "RUNNING")
    /\ rpc' = [rpc EXCEPT ![r] = "publish"]
    /\ UNCHANGED <<brokerVars, workerVars, pc, localVars, revent, todo, history, spent>>

PublishJob(r, j) ==
    /\ rpc[r] = "publish"
    /\ j \in todo[r]
    /\ Publish(NewMessage(j))
    /\ todo' = [todo EXCEPT ![r] = @ \ {j}]
    /\ parked' = parked \ {j}
    /\ lost' = lost \ {j}
    /\ UNCHANGED <<storeVars, workerVars, pc, localVars, rpc, revent, spent>>

\* PublishWithContext returned nil, but the connection died before the
\* broker had the message: the caller goes on as if it had.
PublishLost(r, j) ==
    /\ rpc[r] = "publish"
    /\ j \in todo[r]
    /\ Spend("lost")
    /\ todo' = [todo EXCEPT ![r] = @ \ {j}]
    /\ lost' = lost \cup {j}
    /\ UNCHANGED <<storeVars, brokerVars, workerVars, pc, localVars, rpc, revent, parked>>

EndRequest(r) ==
    /\ rpc' = [rpc EXCEPT ![r] = "idle"]
    /\ revent' = [revent EXCEPT ![r] = None]
    /\ todo' = [todo EXCEPT ![r] = {}]

\* Mutant: the handler responds after the first publish.
RespondEarly(r) ==
    /\ rpc[r] = "publish"
    /\ todo[r] # JobsOf(revent[r])
    /\ EndRequest(r)
    /\ UNCHANGED <<storeVars, brokerVars, workerVars, pc, localVars, history, spent>>

Respond(r) ==
    /\ rpc[r] = "publish"
    /\ todo[r] = {}
    /\ EndRequest(r)
    /\ UNCHANGED <<storeVars, brokerVars, workerVars, pc, localVars, history, spent>>

\* A statement or a publish returned an error: so does the handler, at once,
\* and nobody undoes or finishes what it had begun.
AbandonRequest(r) ==
    /\ rpc[r] # "idle"
    /\ Spend("error")
    /\ \/ UNCHANGED storeVars
       \/ rpc[r] = "mark" /\ UpdateEventStatus(revent[r], "RUNNING")
    /\ parked' = parked \cup todo[r]
    /\ EndRequest(r)
    /\ UNCHANGED <<brokerVars, workerVars, pc, localVars, lost>>

\* No request that was under way gets an answer.
APICrash ==
    /\ Spend("apiCrash")
    /\ lost' = lost \cup UNION {todo[r] : r \in Requests}
    /\ rpc' = [r \in Requests |-> "idle"]
    /\ revent' = [r \in Requests |-> None]
    /\ todo' = [r \in Requests |-> {}]
    /\ UNCHANGED <<storeVars, brokerVars, workerVars, pc, localVars, parked>>

-----------------------------------------------------------------------------
(* A consumer goroutine: Consume around Handle around RollupEvent.         *)

Up(c)          == proc[WorkerOf[c]] = "up"
Stopping(c)    == proc[WorkerOf[c]] = "stopping"
ChannelOpen(c) == pc[c] # "off" /\ conn[WorkerOf[c]]

Goto(c, label) == pc' = [pc EXCEPT ![c] = label]

Forget(c) == /\ status' = [status EXCEPT ![c] = "NONE"]
             /\ tally' = [tally EXCEPT ![c] = NoTally]

\* The select of Consume may pick a delivery after the context is cancelled:
\* both of its cases are ready.
Deliver(c, m) ==
    /\ pc[c] = "idle"
    /\ ChannelOpen(c)
    /\ DeliverTo(c, m)
    /\ cur' = [cur EXCEPT ![c] = m]
    /\ Goto(c, "load")
    /\ UNCHANGED <<storeVars, workerVars, status, tally, requestVars, history, spent>>

\* Handle reads the job, its event and its instance, and marks the job.
StartJob(c) ==
    /\ pc[c] = "load"
    /\ Up(c)
    /\ UpdateJobRunning(cur[c].job)
    /\ Goto(c, "mark")
    /\ UNCHANGED <<brokerVars, workerVars, localVars, requestVars, history, spent>>

\* The one statement whose error Handle ignores.
MarkEventRunning(c) ==
    /\ pc[c] = "mark"
    /\ \/ /\ Up(c)
          /\ UpdateEventStatus(EventOf[cur[c].job], "RUNNING")
          /\ UNCHANGED spent
       \/ /\ \/ Stopping(c) /\ UNCHANGED spent
             \/ Spend("error")
          /\ UNCHANGED storeVars
    /\ Goto(c, "exec")
    /\ UNCHANGED <<brokerVars, workerVars, localVars, requestVars, history>>

\* The SSH part: VERIFIED when the script exits with 0; FAILED for every
\* other exit, unusable credentials, unreachable host or unknown task.  It is
\* not bound to the context: a signal does not interrupt it.
Execute(c, s) ==
    /\ pc[c] = "exec"
    /\ status' = [status EXCEPT ![c] = s]
    /\ Goto(c, "result")
    /\ UNCHANGED <<storeVars, brokerVars, workerVars, cur, tally, requestVars, history, spent>>

SaveResult(c) ==
    /\ pc[c] = "result"
    /\ Up(c)
    /\ UpdateJobResult(cur[c].job, status[c])
    /\ Forget(c)
    /\ Goto(c, "count")
    /\ UNCHANGED <<brokerVars, workerVars, cur, requestVars, history, spent>>

CountJobs(c) ==
    /\ pc[c] = "count"
    /\ Up(c)
    /\ tally' = [tally EXCEPT ![c] = Tally(EventOf[cur[c].job])]
    /\ Goto(c, "pending")
    /\ UNCHANGED <<storeVars, brokerVars, workerVars, cur, status, requestVars, history, spent>>

CountPending(c) ==
    /\ pc[c] = "pending"
    /\ Up(c)
    /\ status' = [status EXCEPT ![c] =
                    RollupStatus(tally[c], PendingCount(EventOf[cur[c].job]))]
    /\ Goto(c, "write")
    /\ UNCHANGED <<storeVars, brokerVars, workerVars, cur, tally, requestVars, history, spent>>

SaveRollup(c) ==
    /\ pc[c] = "write"
    /\ Up(c)
    /\ WriteRollup(EventOf[cur[c].job], tally[c], status[c])
    /\ Forget(c)
    /\ Goto(c, "ack")
    /\ UNCHANGED <<brokerVars, workerVars, cur, requestVars, history, spent>>

\* A statement of Handle failed, or the context is cancelled.  A write that
\* reports an error may have been applied all the same.
HandlerFails(c, next) ==
    /\ \/ Stopping(c) /\ UNCHANGED spent
       \/ Spend("error")
    /\ \/ /\ pc[c] \in {"load", "result", "count", "pending", "write"}
          /\ UNCHANGED storeVars
       \/ pc[c] = "load" /\ UpdateJobRunning(cur[c].job)
       \/ pc[c] = "result" /\ UpdateJobResult(cur[c].job, status[c])
       \/ pc[c] = "write" /\ WriteRollup(EventOf[cur[c].job], tally[c], status[c])
    /\ Forget(c)
    /\ Goto(c, next)
    /\ UNCHANGED <<brokerVars, workerVars, cur, requestVars, history>>

\* Mutants: Handle swallows its errors; Handle ignores the error of RollupEvent.
SwallowError(c) == HandlerFails(c, "ack")
IgnoreRollupError(c) ==
    HandlerFails(c, IF pc[c] \in {"count", "pending", "write"} THEN "ack" ELSE "retry")

\* Mutant: a job whose attempt cannot go on is marked FAILED.
FailUnstarted(c) ==
    \/ HandlerFails(c, "retry")
    \/ /\ pc[c] = "load"
       /\ Spend("error")
       /\ UpdateJobResult(cur[c].job, "FAILED")
       /\ Goto(c, "retry")
       /\ UNCHANGED <<brokerVars, workerVars, localVars, requestVars, history>>

HandlerError(c) == HandlerFails(c, "retry")

\* Mutant: the first copy is acknowledged and no second one published.
RepublishNothing(c) ==
    /\ pc[c] = "retry"
    /\ cur[c].retry + 1 < MaxAttempts
    /\ ChannelOpen(c)
    /\ Goto(c, "ack")
    /\ UNCHANGED <<storeVars, brokerVars, workerVars, localVars, requestVars, history, spent>>

\* Mutant: and rejects the original back into the queue instead.
RepublishAndRequeue(c) ==
    /\ pc[c] = "retry"
    /\ cur[c].retry + 1 < MaxAttempts
    /\ ChannelOpen(c)
    /\ ready' = [ready EXCEPT ![cur[c]] = @ + 1, ![[cur[c] EXCEPT !.retry = @ + 1]] = @ + 1]
    /\ unacked' = [unacked EXCEPT ![c] = None]
    /\ cur' = [cur EXCEPT ![c] = None]
    /\ Goto(c, "idle")
    /\ UNCHANGED <<storeVars, dlq, workerVars, status, tally, requestVars, history, spent>>

\* Consume answers a handler error with a second copy of the message, and
\* acknowledges the first only afterwards.  Publishing ignores the context.
Republish(c) ==
    /\ pc[c] = "retry"
    /\ cur[c].retry + 1 < MaxAttempts
    /\ ChannelOpen(c)
    /\ Publish([cur[c] EXCEPT !.retry = @ + 1])
    /\ Goto(c, "ack")
    /\ UNCHANGED <<storeVars, workerVars, localVars, requestVars, history, spent>>

\* The last attempt is rejected into the dead-letter queue.
DeadLetter(c) ==
    /\ pc[c] = "retry"
    /\ cur[c].retry + 1 >= MaxAttempts
    /\ ChannelOpen(c)
    /\ NackBy(c)
    /\ parked' = parked \cup {cur[c].job}
    /\ cur' = [cur EXCEPT ![c] = None]
    /\ Goto(c, "idle")
    /\ UNCHANGED <<storeVars, workerVars, status, tally, requestVars, lost, spent>>

Ack(c) ==
    /\ pc[c] = "ack"
    /\ ChannelOpen(c)
    /\ AckBy(c)
    /\ cur' = [cur EXCEPT ![c] = None]
    /\ Goto(c, "idle")
    /\ UNCHANGED <<storeVars, workerVars, status, tally, requestVars, history, spent>>

\* On a closed channel the republish, the Nack and the Ack all fail, and
\* Consume ignores it.
AnswerClosed(c) ==
    /\ pc[c] \in {"ack", "retry"}
    /\ ~ ChannelOpen(c)
    /\ cur' = [cur EXCEPT ![c] = None]
    /\ Goto(c, "idle")
    /\ UNCHANGED <<storeVars, brokerVars, workerVars, status, tally, requestVars, history, spent>>

\* Mutant: Consume does not watch the context.
ExitOnClosed(c) ==
    /\ pc[c] = "idle"
    /\ ~ ChannelOpen(c)
    /\ Goto(c, "off")
    /\ UNCHANGED <<storeVars, brokerVars, workerVars, localVars, requestVars, history, spent>>

\* Consume returns: the context is cancelled or the deliveries are closed.
\* Nothing in main calls it again.
Exit(c) ==
    /\ pc[c] = "idle"
    /\ Stopping(c) \/ ~ ChannelOpen(c)
    /\ Goto(c, "off")
    /\ UNCHANGED <<storeVars, brokerVars, workerVars, localVars, requestVars, history, spent>>

-----------------------------------------------------------------------------
(* Worker processes and the broker's view of their channels.               *)

ConsumersOf(w) == {c \in Consumers : WorkerOf[c] = w}

Shutdown(w) ==
    /\ proc[w] = "up"
    /\ Spend("stop")
    /\ proc' = [proc EXCEPT ![w] = "stopping"]
    /\ UNCHANGED <<storeVars, brokerVars, conn, pc, localVars, requestVars, history>>

\* main returns when wg.Wait does.
ProcessExit(w) ==
    /\ proc[w] = "stopping"
    /\ \A c \in ConsumersOf(w) : pc[c] = "off"
    /\ proc' = [proc EXCEPT ![w] = "down"]
    /\ conn' = [conn EXCEPT ![w] = FALSE]
    /\ UNCHANGED <<storeVars, brokerVars, pc, localVars, requestVars, history, spent>>

Crash(w) ==
    /\ proc[w] # "down"
    /\ Spend("crash")
    /\ proc' = [proc EXCEPT ![w] = "down"]
    /\ conn' = [conn EXCEPT ![w] = FALSE]
    /\ pc' = [c \in Consumers |-> IF WorkerOf[c] = w THEN "off" ELSE pc[c]]
    /\ cur' = [c \in Consumers |-> IF WorkerOf[c] = w THEN None ELSE cur[c]]
    /\ status' = [c \in Consumers |-> IF WorkerOf[c] = w THEN "NONE" ELSE status[c]]
    /\ tally' = [c \in Consumers |-> IF WorkerOf[c] = w THEN NoTally ELSE tally[c]]
    /\ UNCHANGED <<storeVars, brokerVars, requestVars, history>>

\* The client library does not reconnect.
ConnLost(w) ==
    /\ conn[w]
    /\ Spend("conn")
    /\ conn' = [conn EXCEPT ![w] = FALSE]
    /\ UNCHANGED <<storeVars, brokerVars, proc, pc, localVars, requestVars, history>>

\* docker-compose restarts a worker that went down.  Its channels are new;
\* those of its predecessor have been cleaned up.
Restart(w) ==
    /\ proc[w] = "down"
    /\ \A c \in ConsumersOf(w) : unacked[c] = None
    /\ proc' = [proc EXCEPT ![w] = "up"]
    /\ conn' = [conn EXCEPT ![w] = TRUE]
    /\ pc' = [c \in Consumers |-> IF WorkerOf[c] = w THEN "idle" ELSE pc[c]]
    /\ UNCHANGED <<storeVars, brokerVars, localVars, requestVars, history, spent>>

\* The broker notices that a channel is gone and takes its message back.
BrokerRequeue(c) ==
    /\ ~ ChannelOpen(c)
    /\ RequeueFrom(c)
    /\ UNCHANGED <<storeVars, workerVars, pc, localVars, requestVars, history, spent>>

-----------------------------------------------------------------------------
RequestStep(r) ==
    \/ MarkRequest(r)
    \/ \E j \in Jobs : PublishJob(r, j)
    \/ Respond(r)

HandlerStep(c) ==
    \/ StartJob(c) \/ MarkEventRunning(c)
    \/ \E s \in TerminalJob : Execute(c, s)
    \/ SaveResult(c) \/ CountJobs(c) \/ CountPending(c) \/ SaveRollup(c)

ConsumeStep(c) ==
    \/ \E m \in Message : Deliver(c, m)
    \/ Republish(c) \/ DeadLetter(c) \/ Ack(c) \/ AnswerClosed(c) \/ Exit(c)

RequestNext(r) ==
    \/ \E e \in Events : CreateEvent(r, e) \/ RerunFailed(r, e)
    \/ \E j \in Jobs : PublishLost(r, j)
    \/ RequestStep(r) \/ AbandonRequest(r)

ConsumerNext(c) == HandlerStep(c) \/ ConsumeStep(c) \/ HandlerError(c) \/ BrokerRequeue(c)

WorkerNext(w) == Shutdown(w) \/ ProcessExit(w) \/ Crash(w) \/ ConnLost(w) \/ Restart(w)

Next ==
    \/ \E r \in Requests : RequestNext(r)
    \/ \E c \in Consumers : ConsumerNext(c)
    \/ \E w \in Workers : WorkerNext(w)
    \/ APICrash

Spec == Init /\ [][Next]_vars

-----------------------------------------------------------------------------
(* Fairness.  The Go scheduler runs every runnable goroutine, statements   *)
(* and scripts return, the broker delivers what waits and cleans up after  *)
(* dead channels, and docker-compose restarts a worker that went down.     *)
(* Users, signals and faults are under no obligation.                      *)

Fairness ==
    /\ \A r \in Requests : WF_vars(RequestStep(r))
    /\ \A c \in Consumers : /\ WF_vars(HandlerStep(c))
                            /\ WF_vars(ConsumeStep(c))
                            /\ WF_vars(BrokerRequeue(c))
                            /\ WF_vars(Stopping(c) /\ HandlerError(c))
    /\ \A w \in Workers : WF_vars(ProcessExit(w)) /\ WF_vars(Restart(w))

FairSpec == Spec /\ Fairness

-----------------------------------------------------------------------------
(* Properties.                                                             *)

\* Program points from which a consumer still answers for the job it holds:
\* before its result is saved, before a failed attempt is handed back, and
\* after its process died with the message unacknowledged.
Owing == {"off", "load", "mark", "exec", "result", "retry"}

Covered(j) ==
    \/ \E m \in Message : m.job = j /\ ready[m] > 0
    \/ \E c \in Consumers : /\ unacked[c] # None
                            /\ unacked[c].job = j
                            /\ pc[c] \in Owing
    \/ \E r \in Requests : j \in todo[r]
    \/ j \in parked

\* As long as no worker loses its connection, a job that is QUEUED or RUNNING
\* is on its way: its message waits, a consumer answers for it, a request is
\* about to publish it, or it was given up with an error response or in the
\* dead-letter queue.  It is about the order of the writes, the republish and
\* the acknowledgement in Consume and Handle under crashes, signals, failing
\* statements and redeliveries: the worker loses no job silently.  The API
\* does, and the property leaves out the jobs it lost: those of a publish that
\* reported success in vain, and those an API process took with it.
NoSilentLoss ==
    spent["conn"] = 0 =>
        \A j \in Jobs \ lost : jobStatus[j] \in PendingJob => Covered(j)

GivenUp == parked \cup lost

\* Nothing is going on for the event any more, and nothing was given up.
Settled(e) ==
    /\ event[e].status # "NONE"
    /\ \A j \in JobsOf(e) : jobStatus[j] \in TerminalJob /\ j \notin GivenUp
    /\ \A m \in Message : EventOf[m.job] = e => ready[m] = 0
    /\ \A c \in Consumers :
          \A m \in {unacked[c], cur[c]} \ {None} : EventOf[m.job] # e
    /\ \A r \in Requests : revent[r] # e

DerivedRow(e) ==
    [status |-> IF \A j \in JobsOf(e) : jobStatus[j] = "VERIFIED" THEN "COMPLETED"
                ELSE IF \A j \in JobsOf(e) : jobStatus[j] = "FAILED" THEN "FAILED"
                ELSE "PARTIAL",
     total    |-> Cardinality(JobsOf(e)),
     verified |-> CountStatus(e, "VERIFIED"),
     failed   |-> CountStatus(e, "FAILED")]

\* Once an event has settled, its row is what RollupEvent derives from its
\* jobs (ARCHITECTURE.md: "Event status is derived from job outcomes").  No
\* single write has to be right: the last one has to be.
StatusDerived == \A e \in Events : Settled(e) => event[e] = DerivedRow(e)

\* What can bring a job a second message, or its message a second time: the
\* broker takes it back from a dead worker; Consume copies it when a statement
\* failed or a signal interrupted Handle; a re-run publishes another.  So far
\* at most one of the three has happened, however often, and no worker has
\* lost its connection while its consumers work on.
OneCause ==
    /\ spent["conn"] = 0
    /\ \E cause \in {{"crash"}, {"error", "stop"}, {"rerun"}} :
          \A k \in {"crash", "error", "stop", "rerun"} \ cause : spent[k] = 0

\* Then no two consumers are on the same job between UpdateJobRunning and the
\* result: its script never runs twice at the same time on the node.  That a
\* copy is published before the original is acknowledged does no harm, nor
\* does it that a re-run publishes jobs while others of its event are at work.
\* Two causes together do: a worker that dies between the two has its
\* original delivered next to the copy.
SingleFlight ==
    OneCause => \A c1, c2 \in Consumers :
        /\ c1 # c2
        /\ pc[c1] \in {"mark", "exec", "result"}
        /\ pc[c2] \in {"mark", "exec", "result"}
        => cur[c1].job # cur[c2].job

\* The attempts at jobs, as Attempt sees them: from the delivery until the
\* result is saved, whichever consumer it is that handles the job.
InHand(c, j) == pc[c] \in {"load", "mark", "exec", "result"} /\ cur[c].job = j
Handled(j)   == \E c \in Consumers : InHand(c, j)
Handler(j)   == CHOOSE c \in Consumers : InHand(c, j)

Point(label) == CASE label = "load"             -> "start"
                  [] label \in {"mark", "exec"} -> "exec"
                  [] label = "result"           -> "save"

At      == [j \in Jobs |-> IF Handled(j) THEN Point(pc[Handler(j)]) ELSE "idle"]
Verdict == [j \in Jobs |-> IF At[j] = "save" THEN status[Handler(j)] ELSE "NONE"]

InAttempts == INSTANCE Attempt WITH at <- At, verdict <- Verdict

\* Under the same premise the attempts at a job follow each other, although
\* crashes, retries and re-runs hand it from consumer to consumer: every status
\* a job gets is RUNNING at the start of the one attempt that is under way, the
\* verdict of its own script, or QUEUED when there is none.
AttemptsApart ==
    /\ InAttempts!Init
    /\ [][OneCause' => InAttempts!Next \/ UNCHANGED InAttempts!attemptVars]_vars

\* Without faults an event shown as COMPLETED has only VERIFIED jobs, however
\* the three statements of concurrent RollupEvents and re-runs interleave.  (A
\* message that is delivered again after a crash sets a VERIFIED job of a
\* COMPLETED event to RUNNING.)
CompletedMeansVerified ==
    \A e \in Events : event[e].status = "COMPLETED" =>
        \A j \in JobsOf(e) : jobStatus[j] = "VERIFIED"

\* Without faults and until a user asks for a re-run, an event with a terminal
\* status has no job left to run: the page that polls while the event is
\* active may stop.
TerminalMeansNothingPending ==
    spent["rerun"] = 0 =>
        \A e \in Events : event[e].status \in TerminalEvent =>
            \A j \in JobsOf(e) : jobStatus[j] \in TerminalJob

\* Without faults the dispatcher implements the job lifecycle, liveness
\* included.
Life == INSTANCE JobLife WITH jobStatus <- jobStatus
ImplementsJobLife == Life!Spec

\* With faults a result is final when its message has been acknowledged: until
\* then the job may run again, and counts as RUNNING.  Seen that way every
\* step is one of the lifecycle, whatever crashes, stops or fails between the
\* result and the acknowledgement, as long as no worker loses its connection
\* and no user asks for a re-run.
Outstanding(j) ==
    \/ \E m \in Message : m.job = j /\ ready[m] > 0
    \/ \E c \in Consumers : unacked[c] # None /\ unacked[c].job = j

Acknowledged == [j \in Jobs |-> IF jobStatus[j] \in TerminalJob /\ Outstanding(j)
                                THEN "RUNNING" ELSE jobStatus[j]]

AtAck == INSTANCE JobLife WITH jobStatus <- Acknowledged

FinalWhenAcknowledged ==
    /\ AtAck!Init
    /\ [][spent'["conn"] = 0 /\ spent'["rerun"] = 0 =>
             AtAck!Next \/ UNCHANGED Acknowledged]_vars

\* Whatever crashes, stops or fails in the workers, a job that is pending
\* reaches a result or ends in an error response or the dead-letter queue:
\* retries and redeliveries are not for ever.  It says nothing of the jobs the
\* API lost without telling anybody (a publish in vain, an API crash): JobsRun
\* has them.
JobsSettle ==
    \A j \in Jobs : jobStatus[j] \in PendingJob ~>
                       (jobStatus[j] \in TerminalJob \/ j \in GivenUp)

\* A worker that is told to stop does stop: no consumer goroutine keeps
\* wg.Wait waiting, although the select of Consume may prefer deliveries.
ShutdownCompletes == \A w \in Workers : proc[w] = "stopping" ~> proc[w] = "down"

-----------------------------------------------------------------------------
(* What ARCHITECTURE.md says and the code does not keep.                   *)

\* "Jobs survive API/worker crashes": a job that was inserted is eventually
\* run to a result.
JobsRun == \A j \in Jobs : jobStatus[j] \in PendingJob ~> jobStatus[j] \in TerminalJob

\* The same as a safety property, lost connections included: a pending job
\* that the API did not lose has a message, a request, a report, or a consumer
\* at work on it, though its channel may be closed.
NothingLost ==
    \A j \in Jobs \ lost : jobStatus[j] \in PendingJob =>
        \/ Covered(j)
        \/ \E c \in Consumers : \E m \in {unacked[c], cur[c]} \ {None} : m.job = j

\* Job status goes "QUEUED -> RUNNING -> VERIFIED | FAILED": a VERIFIED job is
\* done, and its script does not run again.
VerifiedIsFinal ==
    [][\A j \in Jobs : jobStatus[j] = "VERIFIED" => jobStatus'[j] = "VERIFIED"]_vars
=============================================================================
