-------------------------------- MODULE Node --------------------------------
(***************************************************************************)
(* One node and the scripts of scripts/bash that run on it.  RunScript     *)
(* (internal/ssh) starts a script for each attempt at a job and waits for  *)
(* its exit code; the scripts are bash under "set -e", so each line below  *)
(* is one command, and the first command that fails ends the script.       *)
(*                                                                         *)
(* Nothing keeps two scripts from running on one node: two events may      *)
(* target it, and a script goes on, for a while or to its end, when its    *)
(* worker dies or the connection breaks, while the message of the job is   *)
(* delivered again.  A copied file is there at once: torn writes are not   *)
(* modelled.                                                               *)
(***************************************************************************)
EXTENDS Integers

CONSTANTS Jobs,       \* the jobs for this node
          TaskOf,     \* their task_type
          Config,     \* configurations
          Valid,      \* those that "otelcol validate" accepts
          ConfigOf,   \* the config_content of each job
          Default,    \* the configuration install.sh writes
          MaxRuns,    \* bound: attempts at each job
          None        \* no file, no script

TaskType == {"deploy_config", "validate_config", "restart_collector",
             "check_status", "fetch_logs", "rollback_config",
             "stop_collector", "ssh_connectivity_test", "install_otel_agent"}

ASSUME NodeAssumption ==
    /\ TaskOf \in [Jobs -> TaskType]
    /\ Valid \subseteq Config
    /\ ConfigOf \in [Jobs -> Config]
    /\ Default \in Config
    /\ MaxRuns \in Nat
    /\ None \notin Config /\ None \notin Jobs \X Nat
    /\ Config \cap {"stopped", "failing"} = {}

Attempt == Jobs \X (1..MaxRuns)

VARIABLES
    present,    \* what install.sh has put on the node
    config,     \* /etc/otelcol/config.yaml
    backup,     \* /etc/otelcol/config.yaml.bak
    collector,  \* the configuration the service runs with, "stopped", or
                \* "failing": it exits and systemd starts it again
    at,         \* the command each attempt's script is at
    run,        \* how many attempts at a job were started
    result,     \* what the worker knows of the job
    writer,     \* history: the attempt that wrote config last
    unstarted,  \* history: 1 when config was written since the collector was
                \* last started, 2 when that has been saved as the backup, too
    seen        \* history: what has happened, of Seen

nodeVars   == <<present, config, backup, collector>>
workerVars == <<run, result>>
history    == <<writer, unstarted, seen>>
vars == <<nodeVars, at, workerVars, history>>

Command == {"backup", "copy", "needBackup", "restore", "validate", "restart", "isActive",
            "probe", "unpack", "defaults", "unit", "stop", "report"}

Seen == {"halted",    \* the collector has stopped or crashed since it was last started
         "overlap",   \* two scripts have run at the same time
         "blind"}     \* the collector was started without a validation, or crashed

TypeOK ==
    /\ present \subseteq {"dir", "binary", "unit"}
    /\ config \in Config \cup {None}
    /\ backup \in Config \cup {None}
    /\ collector \in Config \cup {"stopped", "failing"}
    /\ at \in [Attempt -> Command \cup {"none", "ok", "failed"}]
    /\ run \in [Jobs -> 0..MaxRuns]
    /\ result \in [Jobs -> {"QUEUED", "RUNNING", "VERIFIED", "FAILED"}]
    /\ writer \in Attempt \cup {None}
    /\ unstarted \in 0..2
    /\ seen \subseteq Seen

\* A bare node, or one where a collector runs a valid configuration.
Init ==
    /\ \/ present = {} /\ config = None /\ collector = "stopped"
       \/ /\ present = {"dir", "binary", "unit"}
          /\ config \in Valid
          /\ collector = config
    /\ backup = None
    /\ at = [a \in Attempt |-> "none"]
    /\ run = [j \in Jobs |-> 0]
    /\ result = [j \in Jobs |-> "QUEUED"]
    /\ writer = None /\ unstarted = 0
    /\ seen = {}

Running(a) == at[a] \in Command

Goto(a, next) == at' = [at EXCEPT ![a] = next]

-----------------------------------------------------------------------------
(* The worker: connect, start the script, wait.                            *)

FirstCommand(t) ==
    CASE t = "deploy_config"      -> "backup"
      [] t = "rollback_config"    -> "needBackup"
      [] t = "restart_collector"  -> "restart"
      [] t = "install_otel_agent" -> "probe"
      [] t = "stop_collector"     -> "stop"
      [] OTHER                    -> "report"

Launch(j) ==
    /\ result[j] = "QUEUED"
    /\ run[j] < MaxRuns
    /\ run' = [run EXCEPT ![j] = @ + 1]
    /\ result' = [result EXCEPT ![j] = "RUNNING"]
    /\ Goto(<<j, run[j] + 1>>, FirstCommand(TaskOf[j]))
    /\ seen' = seen \cup (IF \E a \in Attempt : Running(a) THEN {"overlap"} ELSE {})
    /\ UNCHANGED <<nodeVars, writer, unstarted>>

Learn(j, r) ==
    /\ result' = [result EXCEPT ![j] = r]
    /\ UNCHANGED <<nodeVars, at, run, history>>

\* TestConnectivity fails: the job fails without a script.
Unreachable(j) == result[j] = "QUEUED" /\ Learn(j, "FAILED")

\* The exit code of the script.
ScriptEnded(j) ==
    /\ result[j] = "RUNNING"
    /\ \/ at[<<j, run[j]>>] = "ok" /\ Learn(j, "VERIFIED")
       \/ at[<<j, run[j]>>] = "failed" /\ Learn(j, "FAILED")

\* The connection breaks: session.Run returns an error while the script may
\* go on.
Disconnect(j) == result[j] = "RUNNING" /\ Learn(j, "FAILED")

\* The worker dies and the message of the job is delivered again.
WorkerCrash(j) == result[j] = "RUNNING" /\ Learn(j, "QUEUED")

\* "Re-run failed", or another event with the same task and configuration.
Rerun(j) == result[j] = "FAILED" /\ Learn(j, "QUEUED")

-----------------------------------------------------------------------------
(* Commands.                                                               *)

\* A command fails for a reason of its own (sudo, disk, download, checksum),
\* or the script is killed: either way it ends here.
Breaks(a) ==
    /\ Running(a)
    /\ Goto(a, "failed")
    /\ UNCHANGED <<nodeVars, workerVars, history>>

\* Mutant: a backup that exists is kept.
BackupOnce(a) ==
    /\ at[a] = "backup"
    /\ backup' = IF backup = None THEN config ELSE backup
    /\ Goto(a, "copy")
    /\ unstarted' = IF unstarted = 1 THEN 2 ELSE unstarted
    /\ UNCHANGED <<present, config, collector, workerVars, writer, seen>>

\* deploy.sh: cp config.yaml config.yaml.bak, if there is one.
Backup(a) ==
    /\ at[a] = "backup"
    /\ backup' = IF config = None THEN backup ELSE config
    /\ Goto(a, "copy")
    /\ unstarted' = IF unstarted = 1 THEN 2 ELSE unstarted
    /\ UNCHANGED <<present, config, collector, workerVars, writer, seen>>

WriteConfig(a, c) ==
    /\ config' = c
    /\ writer' = a
    /\ unstarted' = IF unstarted = 0 THEN 1 ELSE unstarted

\* deploy.sh: cp $1 config.yaml, into the directory install.sh makes.
Copy(a) ==
    /\ at[a] = "copy"
    /\ "dir" \in present
    /\ WriteConfig(a, ConfigOf[a[1]])
    /\ Goto(a, "validate")
    /\ UNCHANGED <<present, backup, collector, workerVars, seen>>

\* rollback.sh: exit 1 without a backup.
NeedBackup(a) ==
    /\ at[a] = "needBackup"
    /\ Goto(a, IF backup = None THEN "failed" ELSE "restore")
    /\ UNCHANGED <<nodeVars, workerVars, history>>

Restore(a) ==
    /\ at[a] = "restore"
    /\ WriteConfig(a, backup)
    /\ Goto(a, "validate")
    /\ UNCHANGED <<present, backup, collector, workerVars, seen>>

\* Mutant: the configuration is validated only after the restart.
ValidateNothing(a) ==
    /\ at[a] = "validate"
    /\ "binary" \in present
    /\ Goto(a, "restart")
    /\ UNCHANGED <<nodeVars, workerVars, history>>

\* otelcol validate --config=config.yaml
Validate(a) ==
    /\ at[a] = "validate"
    /\ Goto(a, IF "binary" \in present /\ config \in Valid THEN "restart" ELSE "failed")
    /\ UNCHANGED <<nodeVars, workerVars, history>>

\* Mutant: a configuration that is not valid makes it fall back on the backup.
StartBackup(validated) ==
    /\ collector' = IF config \in Valid THEN config ELSE backup
    /\ seen' = (seen \ {"halted"}) \cup (IF validated THEN {} ELSE {"blind"})
    /\ unstarted' = 0

\* What the service becomes when it is started now.  Type=simple: starting
\* succeeds whatever the configuration, and Restart=on-failure tries again.
StartCollector(validated) ==
    /\ collector' = IF config \in Valid THEN config ELSE "failing"
    /\ seen' = (seen \ {"halted"}) \cup (IF validated THEN {} ELSE {"blind"})
    /\ unstarted' = 0

\* Mutant: a collector that is running is left alone.
StartUnlessActive(a) ==
    /\ at[a] = "restart"
    /\ "unit" \in present
    /\ IF collector \in Config
       THEN UNCHANGED <<collector, unstarted, seen>>
       ELSE StartCollector(TaskOf[a[1]] # "restart_collector")
    /\ Goto(a, "isActive")
    /\ UNCHANGED <<present, config, backup, workerVars, writer>>

\* systemctl restart otelcol
Restart(a) ==
    /\ at[a] = "restart"
    /\ "unit" \in present
    /\ StartCollector(TaskOf[a[1]] # "restart_collector")
    /\ Goto(a, "isActive")
    /\ UNCHANGED <<present, config, backup, workerVars, writer>>

\* systemctl is-active otelcol, the last command: a failing service is active
\* until it exits.
IsActive(a) ==
    /\ at[a] = "isActive"
    /\ \/ collector # "stopped" /\ Goto(a, "ok")
       \/ collector \in {"stopped", "failing"} /\ Goto(a, "failed")
    /\ UNCHANGED <<nodeVars, workerVars, history>>

\* install.sh: on a node that has binary and unit, start the service unless it
\* is active, and be done; otherwise mkdir /etc/otelcol.
Probe(a) ==
    /\ at[a] = "probe"
    /\ \/ /\ {"binary", "unit"} \subseteq present
          /\ \/ collector # "stopped" /\ UNCHANGED <<collector, unstarted, seen>>
             \/ collector \in {"stopped", "failing"} /\ StartCollector(FALSE)
          /\ Goto(a, "ok")
          /\ UNCHANGED present
       \/ /\ ~ {"binary", "unit"} \subseteq present
          /\ present' = present \cup {"dir"}
          /\ Goto(a, "unpack")
          /\ UNCHANGED <<collector, unstarted, seen>>
    /\ UNCHANGED <<config, backup, workerVars, writer>>

\* install.sh: download, compare the checksum, install the binary.
Unpack(a) ==
    /\ at[a] = "unpack"
    /\ present' = present \cup {"binary"}
    /\ Goto(a, "defaults")
    /\ UNCHANGED <<config, backup, collector, workerVars, history>>

\* install.sh: a first configuration, unless there is one.
Defaults(a) ==
    /\ at[a] = "defaults"
    /\ IF config = None THEN WriteConfig(a, Default) ELSE UNCHANGED <<config, writer, unstarted>>
    /\ Goto(a, "unit")
    /\ UNCHANGED <<present, backup, collector, workerVars, seen>>

\* install.sh: the unit file, then validate, restart and is-active as above.
Unit(a) ==
    /\ at[a] = "unit"
    /\ present' = present \cup {"unit"}
    /\ Goto(a, "validate")
    /\ UNCHANGED <<config, backup, collector, workerVars, history>>

\* stop.sh
Stop(a) ==
    /\ at[a] = "stop"
    /\ "unit" \in present
    /\ collector' = "stopped"
    /\ seen' = seen \cup {"halted"}
    /\ Goto(a, "ok")
    /\ UNCHANGED <<present, config, backup, workerVars, writer, unstarted>>

\* status.sh, logs.sh, ssh_test.sh and validate.sh change nothing; validate.sh
\* judges the file that was sent, not the one in place.
Report(a) ==
    /\ at[a] = "report"
    /\ LET fine == "binary" \in present /\ ConfigOf[a[1]] \in Valid
       IN Goto(a, IF TaskOf[a[1]] = "validate_config" => fine THEN "ok" ELSE "failed")
    /\ UNCHANGED <<nodeVars, workerVars, history>>

-----------------------------------------------------------------------------
(* systemd, as install.sh sets it up: Restart=on-failure.                  *)

CollectorCrash ==
    /\ collector \in Config
    /\ collector' = "failing"
    /\ seen' = seen \cup {"halted", "blind"}
    /\ UNCHANGED <<present, config, backup, at, workerVars, writer, unstarted>>

SystemdRestart ==
    /\ collector = "failing"
    /\ StartCollector(FALSE)
    /\ UNCHANGED <<present, config, backup, at, workerVars, writer>>

-----------------------------------------------------------------------------
WorkerNext(j) == \/ Launch(j) \/ Unreachable(j) \/ ScriptEnded(j)
                 \/ Disconnect(j) \/ WorkerCrash(j) \/ Rerun(j)

ScriptNext(a) == \/ Breaks(a)
                 \/ Backup(a) \/ Copy(a) \/ NeedBackup(a) \/ Restore(a)
                 \/ Validate(a) \/ Restart(a) \/ IsActive(a)
                 \/ Probe(a) \/ Unpack(a) \/ Defaults(a) \/ Unit(a)
                 \/ Stop(a) \/ Report(a)

Next == \/ \E j \in Jobs : WorkerNext(j)
        \/ \E a \in Attempt : ScriptNext(a)
        \/ CollectorCrash
        \/ SystemdRestart

Spec == Init /\ [][Next]_vars

-----------------------------------------------------------------------------
(* Properties.                                                             *)

\* However the scripts of a node interleave, break and run again: when the one
\* that wrote the configuration last has exited with 0, that configuration is
\* valid, and the collector runs it unless it was stopped or has crashed since
\* it was last started.
LastWriterRuns ==
    writer # None => (at[writer] = "ok" =>
        /\ config \in Valid
        /\ "halted" \in seen \/ collector = config)

\* A deploy or a rollback that fails does no harm: as long as scripts run one
\* at a time, and the collector neither crashes nor is started by a script that
\* does not validate (restart.sh, install.sh on a node that has it), it is
\* never made to run a configuration it rejects.
FailureIsHarmless == seen \cap {"overlap", "blind"} = {} => collector # "failing"

\* "Re-run failed nodes, rollback one/all": after a deploy has written its
\* configuration, what the collector runs is in place or in the backup.
RunningIsSaved ==
    /\ writer # None
    /\ TaskOf[writer[1]] = "deploy_config"
    /\ seen \cap {"overlap", "blind"} = {}
    /\ collector \in Config
    => collector \in {config, backup}

\* Rollback has something to roll back to: with scripts one at a time, a deploy
\* (whatever becomes of it) leaves what the collector runs in place or in the
\* backup, unless it has saved a configuration the collector never started with.
RollbackPossible == unstarted # 2 => RunningIsSaved

\* "Backup -> copy config -> validate -> restart -> confirm active": with scripts
\* one at a time, and whatever broke, was stopped or ran again before, a deploy
\* that exits with 0 leaves the collector with the configuration of its job,
\* unless the collector crashed since the deploy started it.
DeployTakesEffect ==
    [][seen \cap {"overlap", "halted"} = {} => \A a \in Attempt :
          TaskOf[a[1]] = "deploy_config" /\ at[a] = "isActive" /\ at'[a] = "ok" =>
              collector' = ConfigOf[a[1]]]_vars

-----------------------------------------------------------------------------
(* What ARCHITECTURE.md says and the scripts do not keep.                  *)

\* Deploy is "Backup -> copy config -> validate -> restart -> confirm active":
\* when it exits with 0, the collector runs the configuration of its job.
DeployIsConfirmed ==
    [][\A a \in Attempt :
          /\ TaskOf[a[1]] = "deploy_config"
          /\ at[a] = "isActive"
          /\ at'[a] = "ok"
          /\ "blind" \notin seen
          => collector' = ConfigOf[a[1]]]_vars
=============================================================================
