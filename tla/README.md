# OtelForge in TLA+

OtelForge runs predefined scripts on fleets of nodes.  A user creates an
*event* (deploy a configuration, restart, install, …) for some *instances*; the
API stores one *job* per instance and publishes one message per job; worker
processes consume the messages, run the job's script over SSH, store the result
and roll the event's status up from its jobs.  The web page polls the event
while it is active.

## 1. Inventory

| Component | State | Operations | Interacts with |
|---|---|---|---|
| Event service (`internal/events`) | none of its own; the position in the handler and the jobs left to publish | `Create`, `RerunFailed`, `Clone` | store (SQL), queue (publish) |
| Store (`internal/db/store.go`) | tables `events`, `jobs`, `job_checks`, `event_instances`, `instances`, `users`; a bounded connection pool | one method per statement; two multi-statement ones without a transaction (`RollupEvent`, `ResetFailedJobs`), one with (`CreateEventWithJobs`) | API and every worker share it |
| Job queue (`internal/queue`) | `deploy.jobs`, one unacknowledged delivery per channel, `deploy.jobs.dlq` | `Publish`, `Consume` | API publishes, worker goroutines consume |
| Worker process (`worker/cmd/worker`) | up / stopping / down, one AMQP connection, `WORKER_CONCURRENCY` goroutines | start, signal, stop | queue, runner |
| Runner (`worker/internal/runner`) | the job in hand, its status, the counts of `RollupEvent` | `Handle`, `fail`, `failJob` | store, SSH |
| SSH client (`internal/ssh`) | the pinned host key of an instance | `TestConnectivity`, `RunScript` | nodes, store (pin callback) |
| Node scripts (`scripts/bash`) | configuration, its backup, the service | deploy, rollback, install, … | whatever else runs on the node |
| Handlers, instances, auth (`api/`, `internal/auth`) | request only | REST routes, ownership checks | event service, store |
| Web (`web/src`) | the last event fetched, timers, requests in flight | poll, re-run, clone, roll back | API |

The hard behaviour is in the middle of that table: several goroutines in
several processes update the same event and job rows with separate statements;
messages are redelivered after crashes, copied on retries and lost with
connections; a process can die, be told to stop or fail between any two writes.
What makes each part correct:

* **event service and queue:** a job that was inserted reaches a result or is
  given up with a report (short of a lost publish or an API crash, which report
  nothing); nothing is published for a job that is not queued.
* **API and store:** a request is answered: no handler waits for a connection that
  only another waiting handler could give back.
* **runner and SSH client:** an instance is only ever reached with the key it was
  pinned to; status and checks of a job agree; a job has its instance; retries end.
* **runner and store:** a job's script does not run twice at once; a finished job
  stays finished; when all is done, the event says what its jobs say.
* **worker process:** it stops when told, and consumes while it runs.
* **nodes:** after a failed deploy, rollback restores the last good configuration.
* **web:** what is shown last is what is stored, and polling stops only when
  nothing more can change.

Everything in this list that is hard to test is under `hazards` in
`PROJECT.json`, at the line where it bites, with the properties that watch it.

## 2. Modules

| Module | Models |
|---|---|
| `Models` | statuses and the job-to-event relation (`internal/models`, migration 001); constants `Jobs`, `Events`, `EventOf` |
| `Store` | `jobs.status`, `events.(status, total_jobs, verified_count, failed_count)` and the statements on them; one operator is one statement, so one atomic step |
| `Broker` | the queue as a bag of messages (job, `x-retry-count`), the unacknowledged message of each channel, the dead-letter queue |
| `Dispatch` | API requests, consumer goroutines and worker processes over `Store` and `Broker`; the properties |
| `JobLife` | abstract: the job lifecycle of ARCHITECTURE.md, with its liveness |
| `Instances` | the table `instances`: credentials (usable, right, wrong), the pinned host key, the foreign keys |
| `Runner` | the attempts at jobs in detail: `Handle`, the SSH client and its host key callback over `jobs`, `job_checks` and `Instances`, with the messages that republishing, crashes and re-runs leave a job, while instances are edited and nodes get new keys |
| `Timeline` | what `buildJobSteps` draws from a job's status and checks |
| `Attempt` | abstract: what an attempt does to the status of its job; `Runner` implements it with everything inside an attempt, `Dispatch` with everything around it |
| `ConnPool` | the handlers of the API as users of one pool of connections |
| `Node` | one node: what is installed, the configuration in place, its backup, the collector, and the scripts of `scripts/bash` running on it, a command at a time |
| `EventPage` | the event page: `useEventPolling`, the buttons of `EventDetailPage`, requests in flight, and as much of the server as they can see |
| `DispatchProofs`, `AckProofs`, `FlightProofs`, `RollupProofs`, `RunnerProofs`, `ConnPoolProofs`, `NodeProofs`, `EventPageProofs` | the theorems about them |
| `MCDispatch`, `MCRunner`, `MCConnPool`, `MCNode`, `MCEventPage` | values for TLC |

`Dispatch` EXTENDS `Store` and `Broker`, which EXTEND `Models`.  The others are about its
edges, each with as much of `Dispatch` as its part can tell apart:

* `Runner` EXTENDS `Instances` and `Timeline` and opens up `StartJob`, `Execute` and
  `SaveResult`.  The two meet in `Attempt`: `Handle` does to `jobs.status` what an attempt
  does, whatever happens in it (`ImplementsAttempt`), and the consumers of `Dispatch` do
  what attempts one after the other do, whatever hands a job from one to the next
  (`AttemptsApart`).
* `Node` refines what `Execute` leaves to two outcomes, and takes from `Dispatch` that a
  job can be launched again (`WorkerCrash`, `Rerun`).
* `ConnPool` has the statements of the handlers, but not what they do.
* `EventPage` takes from `Dispatch` what can become of an event: its jobs change, it ends,
  and once it is over it is worked on again when a user re-runs it (`rerun`), a message
  is delivered again after a crash, or a rollup that counted earlier writes last (`late`).

### How `Dispatch` corresponds to the code

A consumer `c` is a goroutine of `main.go`; `pc[c]` says where it is:

| `pc` | Code | Action that leaves it |
|---|---|---|
| `idle` | the `select` of `Consume` | `Deliver`, `Exit` |
| `load` | `Handle`, reads and `UpdateJobRunning` | `StartJob` |
| `mark` | `UpdateEventStatus(RUNNING)`, error ignored | `MarkEventRunning` |
| `exec` | credentials, connectivity, script | `Execute` (both outcomes) |
| `result` | `UpdateJobResult` in `Handle` or `failJob` | `SaveResult` |
| `count`, `pending`, `write` | the three statements of `RollupEvent` | `CountJobs`, `CountPending`, `SaveRollup` |
| `retry` | the handler returned an error | `Republish`, `DeadLetter` |
| `ack` | `d.Ack(false)` | `Ack` |
| `off` | `Consume` returned, or the process is down | `Restart` |

`HandlerError` leaves every point of `Handle` that can return an error: a
statement failed (from the budget), or the context was cancelled by a signal
(`proc = "stopping"`), in which case every statement fails; a failing write may or
may not have been applied.  `AnswerClosed` is a republish, `Nack` or `Ack` on a
closed channel: the code ignores all three errors.

A request `r` goes `idle → mark → publish → idle` (`CreateEvent` or `RerunFailed`,
`MarkRequest`, `PublishJob`*, `Respond`); `AbandonRequest` is an error return at any
of these points, `PublishLost` a publish that reported success and never reached
the broker, `APICrash` the end of all requests.

`parked`, `lost` and `spent` are history.  `parked` holds the jobs that were given up and
reported: with an error response (`AbandonRequest`) or in the dead-letter queue
(`DeadLetter`).  `lost` holds those that the API lost without telling anybody: by a
publish that reported success in vain (`PublishLost`), or because its process died
with jobs still to publish (`APICrash`).  `spent` counts the faults.  Nothing
reads them but bounds and properties.  `NoSilentLoss` leaves `lost` out, so it is about
the workers and the requests that are answered; what happens to a lost job is `api_crash`.

Abstractions.  The broker's queue has no order.  A message is delivered when the
goroutine takes it (prefetch 1 makes the difference invisible).  The messages of a
dead worker go back to the queue before the same worker's consumers start again
(those of *other* workers take them at any time).  A republish on an open channel
is not lost: it shares the channel with the acknowledgement that follows it.
Output, exit codes, `job_checks` and timestamps are left out: no step of
this part reads them back.

`Dispatch` refines `JobLife` twice.  Without faults, `jobStatus` is the abstract status
(`ImplementsJobLife`).  With faults it cannot be: a message that comes back takes a
`VERIFIED` job back to `RUNNING`.  `Acknowledged` is the abstract status then: a result
counts when no message of the job is left, and until then the job is `RUNNING`.
`FinalWhenAcknowledged` says that this is a behaviour of `JobLife` (its safety part) as
long as no worker loses its connection and no user asks for a re-run.

`SingleFlight` and `AttemptsApart` have the premise `OneCause`: no connection was lost, and
messages were multiplied by crashes, or by failing statements and signals, or by
re-runs, but not by two of the three (below: what happens then).

### How `Runner` corresponds to the code

A message is a job and one of the names `Copies`; `retry[m]` is its retry count, `None`
when there is no such message.  `pc[m]` is where the attempt that handles message `m`
is in `Handle`; `conf[m]` is the row `GetInstance` returned, `peer[m]` the key of the node
it has reached.

| `pc` | Code | Actions |
|---|---|---|
| `load`, `mark` | `GetInstance`; `UpdateJobRunning` | `LoadInstance`, `StartJob` |
| `connect`, `auth` | credentials; `TestConnectivity`: `verifyHostKey`, then the login | `NoCredentials`, `Dial`, `Authenticate`, `ConnectionFails` |
| `connected`, `refused` | the check `ssh_connectivity` | `RecordConnectivity` |
| `reconnect`, `reauth`, `script` | `RunScript`, on a connection of its own | `Dial`, `Authenticate`, `ConnectionFails`, `RunScript` |
| `ran` | the check `task_execution` | `RecordExecution` |
| `result`, `rollup` | `UpdateJobResult`, `RollupEvent` | `SaveResult`, `Rollup` |
| `retry` | the handler returned an error | `Republish` (publishes the copy), `Settle` (dead-letters) |
| `ack` | `d.Ack(false)` | `Settle` |

A job may have several messages and several attempts at once: a crash between `Republish`
and `Settle` leaves original and copy, and `RerunFailed` looks at no message.  `Copies`
bounds them.  `attempts` counts the deliveries of a job per retry count; `beside` holds the
jobs at which two attempts have overlapped.  Both are history.  Lost connections are
left to `Dispatch`.  `EditInstance` is the handlers of instances (`UpdateInstance` of the store, which would clear a pin, is called
by nobody).  A failed `pin` is a failed connection.  `job_checks` is a
sequence: `ListChecksForJob` has no `ORDER BY`, and PostgreSQL returns rows of a table
that is only inserted into in that order.  Whether a key or a password is meant, the
name of the user and the activity text are left out.

### How `ConnPool` corresponds to the code

A handler is the list of its statements (`todo`), named `"one"` where it makes no difference
which.  `outer` is the connection of the current statement, `inner` the one that
`ListChecksForJob` takes while the rows of `ListJobsForEvent` are open.  `waiting` is the line
in `pgxpool.Pool.Acquire`: fiber's context has no deadline, so nobody leaves it.  `Fail` is every
early return after an error: `rows.Close` and `tx.Rollback` are deferred.  A row of `BulkCreate` that fails does not end
the request (`"row"`); the routes under `/admin` run `RequireAuth` twice, once for each group.

### How `Node` corresponds to the code

An attempt `<<j, n>>` is the `n`-th script started for job `j`; `at` is the command it is
at.  One action is one command of the script, in the order of the file:

| Script | Actions |
|---|---|
| `deploy.sh` | `Backup`, `Copy`, `Validate`, `Restart`, `IsActive` |
| `rollback.sh` | `NeedBackup`, `Restore`, `Validate`, `Restart`, `IsActive` |
| `install.sh` | `Probe`, `Unpack`, `Defaults`, `Unit`, `Validate`, `Restart`, `IsActive` |
| `restart.sh` | `Restart`, `IsActive` |
| `stop.sh` | `Stop` |
| `validate.sh`, `status.sh`, `logs.sh`, `ssh_test.sh` | `Report` |

Under `set -e` a script ends at the first command that fails, so `Breaks` (any command,
any reason of its own, or the script being killed) covers every early end.
`Launch`, `Unreachable`, `ScriptEnded` and `Disconnect` are the four things
`TestConnectivity` and `RunScript` can tell the worker; after `Disconnect` and `WorkerCrash`
the script runs on, and `Rerun` or a new `Launch` puts a second one beside it.
`Type=simple` makes a start succeed whatever the configuration, and `Restart=on-failure`
starts a failing collector again: `collector = "failing"` is both.  `writer`, `unstarted`
and `seen` are history.  A copied file is there at once, and a configuration is
valid for good: `otelcol validate` accepts what the collector will start with.

### How `EventPage` corresponds to the code

`shown` is the hook's `event`, `page` the id in the URL, a slot of `requests` one call of
`api.getEvent`; `load`, its timer and `refresh` are `Tick`, `Refresh`, `Receive` and `Fail`.
No request is aborted, so a slot may outlive the page it was sent for.
`EventsHandler.Get` is two steps, `GetEvent` and `ListJobs`.  `Press`, `Navigate` and
`ActionFails` are `run`; `clone` stands for "Rollback selected" too, which also answers
with a new event.  The content of an event is its status and a version of its jobs.
`JobStep`, `EventEnds` and `EventRunsAgain` are the workers: `UpdateJobRunning` and
`UpdateJobResult` ask for no status of the event, and `UpdateEventStatus(RUNNING)` and
`RollupEvent` overwrite any.  A change of an event that is over is counted in `late`.
`ResetJobs` and `ResetEvent` are the two statements of `ResetFailedJobs`, and `rerun` counts
re-runs.  A POST that fails in between leaves the event as it is.
Loading indicators, `lastUpdated` and the selected job are left out, and the buttons
are offered whether or not a job has failed.

## 3. Runs

### Dispatch

`Budget` bounds how often each fault may happen; the
other bounds are the constants themselves.  Deadlock checking is off here and
below: when everything has settled and the bounds are used up, the system rests.

| Run | Instance | Shows |
|---|---|---|
| `serial` | 1 consumer, 1 event with 2 jobs, 1 request at a time, each fault once, no re-run, 2 attempts | `TypeOK`, `NoSilentLoss`, and `StatusDerived`: with a single consumer the event row is right whenever the event has settled, through crashes, shutdowns, duplicate messages and failing statements |
| `concurrent` | 2 consumers, 2 jobs, 2 requests, 2 re-runs, no faults, fairness | `SingleFlight`, `CompletedMeansVerified`, `TerminalMeansNothingPending`; `Dispatch` implements `JobLife` (safety and liveness) and, with re-runs, `Attempt` (`AttemptsApart`) |
| `live` | 2 workers with a consumer each, 1 job, a crash, a signal, a failing statement, a lost publish, fairness | `NoSilentLoss` where one worker takes over from the other; `SingleFlight` and `AttemptsApart` with crashes, or with failing statements and signals; `JobsSettle`, `ShutdownCompletes`; `FinalWhenAcknowledged` |

Two consumers and two jobs of one event are the smallest instance in which two
rollups overlap, two messages of one job meet, and a redelivery races with its
original; a third of either adds no new pair.  Two attempts are enough to take a
message through the retry and the dead-letter path; `concurrent` uses the code's
three.  One fault of each kind already gives every order of those faults; `live` leaves
out those that `serial` has and that concern the API, and the lost connection, after
which jobs do stay behind (below).

Runs that end in a counterexample (each is a finding in `PROJECT.json`):

| Run | What happens |
|---|---|
| `rollup_race` | consumers A and B finish the two jobs of an event; A counts before B's result is stored, and writes after B: the event keeps A's counts (`PARTIAL`, or `RUNNING` for good) although every job is `VERIFIED` |
| `api_crash` | the API dies between commit and publish; the jobs stay `QUEUED`, and re-run does not take them |

The same models have further counterexamples, which are not runs of the project:

| Instance | Property | What happens |
|---|---|---|
| 1 job, 1 worker, a crash | `VerifiedIsFinal` | a crash between result and acknowledgement: the `VERIFIED` job is `RUNNING` again and its script runs twice, although ARCHITECTURE.md:409 has no way back |
| 1 job, 1 consumer, 1 re-run | `StatusDerived` | re-run of an event without `FAILED` jobs sets it `RUNNING`; nothing is in flight that would set it back |
| 1 job, 1 consumer, 1 lost connection | `JobsRun` | the consumers return, the worker process stays up, jobs stay `QUEUED` |
| 1 job, 2 workers, a lost connection and a crash | `NothingLost` | a consumer that lost its channel marks the job `RUNNING` after another worker completed and acknowledged it, then its process dies: `RUNNING` with no message |
| 1 job, 2 workers, a failing statement and a crash | `SingleFlight` without `OneCause` | the worker dies between `Republish` and `Ack`: the original is delivered next to its copy, and two consumers run the script at once |
| `Node`, 2 valid deploys at once | `DeployIsConfirmed` | a deploy is confirmed while the collector runs the other's configuration |
| `EventPage`, 2 events, clone while a poll is in flight | `PollsWhileActive` | the late answer for the old event, terminal, stops the timer |
| `Runner`, as in `runner` | `PinnedMeansAccepted` | the key is pinned although the login is refused; ARCHITECTURE.md:385 has it "set on first successful connect" |
| `Runner`, as in `runner` | `TimelineTellsResult` | a job fails to connect, is re-run and `VERIFIED`: `buildJobSteps` takes the first check, and draws the failed connection for good (ARCHITECTURE.md:570: checks are "displayed in the UI as pass/fail") |
| `ConnPool`, as in `pool` | `AlwaysAnswered` | as many listings as connections are open, and each waits for one more: the API hangs for good (ARCHITECTURE.md:743 gives "non-blocking API" as a reason for the queue) |

A node that is rebuilt has another host key; no handler clears the pin, and the instance
cannot be deleted once an event has used it (ARCHITECTURE.md:693), so it can
never be used again.  This follows from `EditInstance`: none of its disjuncts sets `pin`.

Fairness (`Fairness` in `Dispatch`) is weak fairness of each request, of each
consumer's own steps, of the broker's requeueing and of process exit and restart:
goroutines are scheduled, statements and scripts return, RabbitMQ
delivers and cleans up, and `restart: unless-stopped` in `docker-compose.yml` brings a
dead worker back.  There is none for users, signals, faults, and none for a
consumer that has returned: nothing starts it again.

`NoSilentLoss` and `TerminalMeansNothingPending` have a premise on `spent` (no lost
connection; no re-run): `NothingLost` in the last table and the stale rollup
after a re-run break them otherwise.  `NoSilentLoss` and `JobsSettle` leave out or excuse
the jobs in `lost`: `JobsRun`, violated in `api_crash`, is about those.  `CompletedMeansVerified` and
`TerminalMeansNothingPending` hold without faults only: a message that comes back after a
crash breaks both.  `JobsSettle` and `ShutdownCompletes` assume that scripts return:
`session.Run` has no timeout and no context, so a script that hangs holds its consumer.

### Runner

`Budget` bounds each fault and each act of a user, `Total` all of them together.

| Run | Instance | Shows |
|---|---|---|
| `runner` | 2 events with a job each for the same instance, 2 host keys, 2 attempts per message; each fault once and failing statements twice, two altogether while one job is there, one with both | `TypeOK`, `PinnedKeyUsed`, `VerifiedHasCheck`, `AttemptsBounded`, `JobsHaveInstances`, `PinIsForGood`, `TimelineAdvances`, and the refinement `ImplementsAttempt` |

Two jobs of one instance are two first connections at once; a second instance would be
independent of the first.  Of the faults, the failing statement needs two to get a message
rejected, and two others give every pair (a failing statement and a crash between the
copy and the acknowledgement, a re-run and a crash, an edit and a rebuilt node, …).
Three names are enough for the messages that two faults can leave a job.  `Scope`
is what TLC explores: both jobs are there with one fault, one of them with two.  The
theorems have none of these bounds.  The keys, and the jobs with their events,
are interchangeable (`SYMMETRY`; the run has no liveness property).

`VerifiedHasCheck` says that the check is the latest one only for jobs at which no two
attempts have overlapped: otherwise one attempt inserts its first check between the last
check and the result of the other.  `ImplementsAttempt` has the same premise, and
`AttemptsApart` says when `Dispatch` keeps attempts apart.  `TimelineAdvances` is about
first attempts: later ones are drawn from the checks of the first (`TimelineTellsResult`
above).

### ConnPool

| Run | Instance | Shows |
|---|---|---|
| `pool` | 3 requests, 2 connections, up to 2 jobs in the event listed, fairness | `TypeOK`, `ConnsAccounted`, `NoGridlock`, `Answered` |

Handlers are taken with one instance, two rows of a CSV file and up to two jobs; more
would repeat their statements.  Two connections and three requests let both connections be lent while a request waits, and
two listings fill the pool (`Crowded`).  `Answered` has `Crowded` as its way out: with as
many listings as connections the handlers do wait for each other for good.  `Fairness` is
weak fairness of every handler and of the pool; failures and new requests are free.

### Node

The bounds are the jobs, the tasks they have, and `MaxRuns` attempts at each.  Two
valid configurations and an invalid one tell apart every file that properties
compare.

| Run | Instance | Shows |
|---|---|---|
| `node_deploy` | a valid deploy, an invalid one, a rollback and a validation, once each | `LastWriterRuns`: whatever overlaps, a writer that exited with 0 and was not overtaken has its configuration running; `FailureIsHarmless`: scripts one at a time never start a rejected configuration; `RollbackPossible` and `DeployTakesEffect`, with overlaps excluded by their premises |
| `node_service` | an installation, an invalid deploy, a stop and a restart, on a bare or a provisioned node | `TypeOK`, and `LastWriterRuns` when install writes the first configuration and the collector is stopped, or restarted without a validation, beside it |
| `node_rerun` (violated) | an invalid deploy, run twice | the second run saves the rejected configuration as the backup |

Three scripts are the fewest in which a deploy is between two others.  A second
attempt at a job is to the node another job with the same task, so one attempt each
at two deploys stands for it; `node_rerun` has the attempts themselves.  No run has two
installations, which are too many states beside other scripts; `LastWriterRunsAlways` has
any number of them.

### EventPage

`Slots` bounds the requests in flight, `MaxVersion` the changes to the jobs of each event,
`MaxLate` what workers do to an event that is over, `MaxAgain` that and its re-runs together,
`MaxFailures` the requests that fail.  Two requests overtake each other in every way that
a pair can.  One change to the jobs, before or after the end of the event or by a re-run, and
one return from terminal to active let an answer be stale in its status, in its jobs or in
both.  `First`'s clone only starts and ends: what the page could mix up is which event an
answer is about.

| Run | Instance | Shows |
|---|---|---|
| `page_events` | 2 events, 2 requests, 1 change, 1 re-run or late step of a worker, 1 failure, refresh and clone | `TypeOK`; `TimerHeals`: as long as the timer runs, neither answers of a previous event nor workers that change an event late do lasting harm; for an event nobody re-runs or changes late, `RestShowsResult`, and `CatchesUp`: a user who stays on it sees the server's final state in the end, or an error |
| `page_rerun` (violated) | re-run of an event that was over | the page navigates to where it is, loads nothing, and its timer stays off |

`RestShowsResult` and `CatchesUp` have the premise `Untouched`: a page that has stopped polling
does not notice that its event was re-run elsewhere, that a redelivered job runs again
after the event was over, or that the slower rollup of `rollup_race` has set it `RUNNING`.
`page_rerun` has no late steps, so that its trace is the re-run.

`Fairness` in `EventPage` is weak fairness of the timer and of each request's way
through the server and back: browsers run intervals, and the API answers or
the request fails.  There is none for jobs and users; a page that polls an event for
ever is allowed.

## 4. Proofs

### Dispatch

`DispatchProofs` proves, for every finite set of jobs, any number of events,
consumers, workers and requests, any number of attempts and any budget of faults
(assumptions `JobsAssumption`, `BrokerAssumption`, `NoneAssumption`,
`DispatchAssumption`):

* `TypeCorrect`: `Spec => []TypeOK`.  The types alone are not inductive: the result a
  consumer writes is typed only because of where it is (`StatusFits`), a `Nack`
  dead-letters a message only because the broker holds the one the consumer is
  busy with (`Attached`, `BusyHolds`).  `Inv` is their conjunction.
* `NothingLostSilently`: `Spec => []NoSilentLoss`.  `LossInv` adds that an idle request has
  nothing to publish and that, while no connection was lost, every goroutine that
  has not returned has its channel; so the message of a job in progress is still
  in the broker's hands.  `CoverageKept` says which four reasons keep a job covered;
  each action either keeps them or replaces one by another, but for `PublishLost` and
  `APICrash`, which add to `lost`, where the property does not look.

`AckProofs` EXTENDS it with `FinalWhenAcknowledgedHolds`: `Spec => FinalWhenAcknowledged`, a
refinement proof with faults.  A consumer's step is first reduced to what the
broker and the table show of it (`Effect`: nothing, a status written to a job whose
message the consumer has, a message given up); each kind is a step of `JobLife` or a
stutter.  `OnceInv` is the strengthening for the API's side: without re-runs a job that is
yet to be published is `QUEUED` and has no message, so a publication never takes a
result back.

`FlightProofs` EXTENDS `AckProofs`.  Its first part is about orderly times: no worker has
crashed, stopped or lost its connection and no statement has failed (`Orderly`), while
re-runs, lost messages and API crashes may come as often as they like.  `OneFlight` says
that the next run of a job is in one place at most, with a request, in the queue, or with
a consumer that has not saved its result (`OnePlace`), and that the status of the job tells
where (`StatusTells`); so `ResetFailedJobs` only queues jobs that are nowhere.

* `OrderlyLife`: the safety part of `ImplementsJobLife`: every step is one of `JobLife` or leaves
  the statuses alone.
* `CompletedMeansVerifiedHolds`, `TerminalMeansNothingPendingHolds`: what a `RollupEvent` has
  counted (all `VERIFIED`, none pending) stays so until it is written, because `OrderlyLife`
  takes no result back (`CountInv`); `CountsTell` is the lemma about cardinalities.

Its second part is about faults of one kind.  `CopyInv` is the inductive invariant: without
re-runs, and while workers only crash or statements only fail, there is one copy of the
message of a job that is still of use (`OneCopy`).  A crash gives the broker its message
back; `Republish` puts a copy into the queue while the original is about to be acknowledged,
so an original at `ack` counts only while nothing has been copied (`Holds`).  With `OneFlight`
for the re-runs this gives `OneAtATime`, and from it

* `SingleFlightHolds`: `Spec => []SingleFlight`.
* `DispatchImplementsAttempt`: `Spec => AttemptsApart`.  A step of a consumer moves the attempt at
  its own job (`AttemptMoves`) and leaves the others where they are (`AttemptKept`); `At` is
  defined with `CHOOSE`, which `OneAtATime` makes harmless (`AtTells`).

The premises are needed: a consumer whose connection is lost goes on while its message is
delivered again, and a worker that crashes after `Republish` leaves two copies.

`RollupProofs` EXTENDS `AckProofs`:

* `StatusDerivedHolds`: with one consumer, `Spec => [](NoRerun => StatusDerived)`, under every
  fault.  `CalmDerived` weakens `Settled` until it is inductive: the row is right as soon as
  nothing but acknowledgements is left.  `CountsCurrent` is where one consumer is needed
  (`rollup_race` violates it with two), `Kept` covers closed channels and crashes,
  `FreshJobs` and `MarkedFirst` say that a request marks the event before any of its
  jobs can have been worked on.

Only model-checked: liveness, that of `JobLife` included (out of the prover's reach).

### Runner

`RunnerProofs`, for any jobs, instances, keys and budgets (`JobsAssumption`,
`InstanceAssumption`, `RunnerAssumption`):

* `RunnerTypeCorrect`: `Spec => []TypeOK`.  A retry count is one because whoever is busy with a
  message has one (`MessageHeld`).
* `JobsHaveInstancesAlways`: the foreign keys at work.
* `PinIsForGoodAlways`: `PinStays` goes through every writer of the table.
* `PinnedKeyUsedAlways`: the pin is for good and the instance of a job is not deleted, so a
  row that was read with a pin has the pin still stored (`PinInv`, per message).
* `AttemptsBoundedAlways`: for a job and a retry count, the deliveries there have been and the
  messages that are still to be delivered, or to become such a copy (`ToCome`), are
  together at most 1 + re-runs + crashes (`CountInv`).  A delivery moves a message from the
  second to the first; a republish replaces an original that owes a copy by the copy; a
  crash puts one message back, a re-run adds one.
* `VerifiedHasCheckAlways`: `CheckInv` says which check each attempt has left at each of its
  points; `SingleInv` that a job not in `beside` has one attempt under way at most, so that
  nobody else has added a check behind it.
* `RunnerImplementsAttempt`: `Spec => ImplementsAttempt`, step by step.  `Attempting` is a `CHOOSE`,
  which `SingleInv` makes harmless (`AttemptingIs`).
* `TimelineAdvancesAlways`: `FirstInv` lists the checks that a first attempt can have left at
  each of its points, at most one of each kind, so what the timeline finds is known
  without induction over the sequence (`FirstOfOne`, `FirstOfTwo`).

Nothing is only model-checked.

### ConnPool

`ConnPoolProofs`, for any finite sets of requests and connections (`PoolAssumption`):

* `PoolTypeCorrect`, `ConnsAccountedAlways`.
* `NoGridlockAlways`: when everybody who has a connection is in line, each of them has a listing
  open (`LineFits`), and they have all the connections, each one: so there
  are as many listings as connections.  The last step counts (`FS_Surjection`).

Only model-checked: `Answered` (liveness).

### Node

`NodeProofs`, for any tasks, configurations and number of attempts
(`NodeAssumption`):

* `NodeTypeCorrect`: `Spec => []TypeOK`.
* `LastWriterRunsAlways`: `Spec => []LastWriterRuns`, with any overlap.  `WriterInv` says
  what the last writer has achieved at each of its commands; it survives the other
  scripts because whoever writes the file becomes the last writer, and whoever starts the
  collector starts it with the file in place.  `Fresh` says that an attempt not
  launched yet has done nothing.
* `FailureIsHarmlessAlways` and `RollbackPossibleAlways`: both are about scripts that run one
  at a time, so `SerialInv` follows the single script through its commands, and `TaskFits`
  says which scripts have which commands.
* `DeployTakesEffectAlways`: `EffectInv` says what a deploy has achieved at each of its commands
  when it is alone on the node, even on one that was left broken or blind before.

### EventPage

`EventPageProofs`, for any events and any number of requests in flight
(`PageAssumption`):

* `PageTypeCorrect`: `Spec => []TypeOK`; that an answer has a status rests on `Known`, the page
  asks only about events that exist.
* `RestShowsResultAlways`: `Spec => []RestShowsResult`.  `RestInv` says it of the requests in
  flight, too: one that read a terminal event has read, or will read, its final jobs.
  `Settled` is what the server grants: an event that is over and changes is no longer
  `Untouched`; `Counted` that a re-run counts from its first statement.

Only model-checked: `CatchesUp` and `TimerHeals` (liveness).

## 5. What is left

Not modelled, and why:

* authentication (stateless: tokens and passwords), ownership checks (owners never
  change), configuration, YAML validation and encryption (pure functions);
* the choice of input in `Clone` and `RollbackJob`: both end in `Create`, which is modelled;
* `useAutoSelectJob`, rendering and forms: no state that outlives an answer;
* routing, seeding and migrations (run once, idempotent).

Worth doing next: how many copies of a message faults of several kinds can make in
`Dispatch`; two installations on one node in a run; a page that several users re-run.
