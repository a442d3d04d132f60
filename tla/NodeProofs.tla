----------------------------- MODULE NodeProofs -----------------------------
(***************************************************************************)
(* Theorems about Node, for any jobs and tasks, any configurations and any *)
(* number of attempts.                                                     *)
(***************************************************************************)
EXTENDS Node, TLAPS

LEMMA AttemptPair ==
    ASSUME NEW a \in Attempt
    PROVE  a[1] \in Jobs /\ a[2] \in 1..MaxRuns /\ a = <<a[1], a[2]>>
BY DEF Attempt

LEMMA LaunchedAttempt ==
    ASSUME TypeOK, NEW j \in Jobs, Launch(j)
    PROVE  /\ <<j, run[j] + 1>> \in Attempt
           /\ FirstCommand(TaskOf[j]) \in Command
BY NodeAssumption DEF TypeOK, Launch, Attempt, FirstCommand, Command

LEMMA StartType ==
    ASSUME TypeOK, NEW validated, StartCollector(validated)
    PROVE  /\ collector' \in Config \cup {"stopped", "failing"}
           /\ unstarted' \in 0..2
           /\ seen' \subseteq Seen
<1>1. collector' \in Config \cup {"stopped", "failing"} /\ unstarted' \in 0..2
  BY NodeAssumption DEF StartCollector
<1>2. seen' \subseteq Seen
  BY DEF StartCollector, TypeOK, Seen
<1> QED
  BY <1>1, <1>2

\* Every step is one of the worker's, of a script's, or of systemd's.
LEMMA TypeStep == TypeOK /\ [Next]_vars => TypeOK'
<1> SUFFICES ASSUME TypeOK, [Next]_vars PROVE TypeOK'
  OBVIOUS
<1> USE NodeAssumption DEF TypeOK, nodeVars, workerVars, history, Goto, Seen
<1>1. ASSUME NEW j \in Jobs, Launch(j) PROVE TypeOK'
  <2>1. run[j] + 1 \in 0..MaxRuns
    BY <1>1 DEF Launch
  <2> QED
    BY <1>1, <2>1, LaunchedAttempt DEF Launch
<1>2. ASSUME NEW j \in Jobs, WorkerNext(j), ~ Launch(j) PROVE TypeOK'
  BY <1>2 DEF WorkerNext, Unreachable, ScriptEnded, Disconnect, WorkerCrash, Rerun, Learn
<1>3. ASSUME NEW a \in Attempt, ScriptNext(a) PROVE TypeOK'
  <2>1. a[1] \in Jobs
    BY AttemptPair
  <2>2. CASE Breaks(a) \/ Validate(a) \/ NeedBackup(a) \/ IsActive(a) \/ Report(a)
    BY <2>2 DEF Breaks, Validate, NeedBackup, IsActive, Report, Command
  <2>3. CASE Backup(a)
    BY <2>3 DEF Backup, Command
  <2>4. CASE Copy(a)
    BY <2>1, <2>4 DEF Copy, WriteConfig, Command
  <2>5. CASE Restore(a)
    BY <2>5 DEF Restore, WriteConfig, Command
  <2>6. CASE Defaults(a)
    BY <2>6 DEF Defaults, WriteConfig, Command
  <2>7. CASE Restart(a)
    BY <2>7, StartType DEF Restart, Command
  <2>9. CASE Probe(a)
    <3>1. collector' \in Config \cup {"stopped", "failing"} /\ unstarted' \in 0..2 /\ seen' \subseteq Seen
      BY <2>9, StartType DEF Probe
    <3> QED
      BY <2>9, <3>1 DEF Probe, Command
  <2>10. CASE Stop(a)
    BY <2>10 DEF Stop, Command
  <2>8. CASE Unpack(a) \/ Unit(a)
    BY <2>8 DEF Unpack, Unit, Command
  <2> QED
    BY <1>3, <2>2, <2>3, <2>4, <2>5, <2>6, <2>7, <2>8, <2>9, <2>10 DEF ScriptNext
<1>4. CASE CollectorCrash
  BY <1>4 DEF CollectorCrash
<1>5. CASE SystemdRestart
  BY <1>5, StartType DEF SystemdRestart
<1>6. CASE UNCHANGED vars
  BY <1>6 DEF vars
<1> QED
  BY <1>1, <1>2, <1>3, <1>4, <1>5, <1>6 DEF Next

\* Types hold in every state, whatever the tasks and however often they run.
THEOREM NodeTypeCorrect == Spec => []TypeOK
<1>1. Init => TypeOK
  BY NodeAssumption DEF Init, TypeOK
<1> QED
  BY <1>1, TypeStep, PTL DEF Spec

-----------------------------------------------------------------------------
(* The last writer.                                                        *)

\* An attempt that was not launched has done nothing.
Fresh == \A a \in Attempt : a[2] > run[a[1]] => at[a] = "none"

\* What the attempt that wrote config last has achieved at each command.
WriterInv ==
    writer # None =>
        /\ at[writer] \in {"unit", "validate", "restart", "isActive", "ok", "failed"}
        /\ at[writer] \in {"restart", "isActive", "ok"} => config \in Valid
        /\ at[writer] \in {"isActive", "ok"} => "halted" \in seen \/ collector = config

LastInv == TypeOK /\ Fresh /\ WriterInv

LEMMA FreshStep == TypeOK /\ Fresh /\ [Next]_vars => Fresh'
<1> SUFFICES ASSUME TypeOK, Fresh, [Next]_vars PROVE Fresh'
  OBVIOUS
<1>1. ASSUME NEW j \in Jobs, Launch(j) PROVE Fresh'
  <2> SUFFICES ASSUME NEW a \in Attempt, a[2] > run'[a[1]] PROVE at'[a] = "none"
    BY DEF Fresh
  <2>1. a[1] \in Jobs /\ a[2] \in Nat /\ run[a[1]] \in Nat /\ run[j] \in Nat
    BY AttemptPair DEF TypeOK
  <2>2. a[2] > run[a[1]] /\ a # <<j, run[j] + 1>>
    BY <1>1, <2>1 DEF Launch, TypeOK
  <2>3. at'[a] = at[a]
    BY <1>1, <2>2 DEF Launch, Goto, TypeOK
  <2> QED
    BY <2>2, <2>3 DEF Fresh
<1>2. ASSUME NEW j \in Jobs, WorkerNext(j), ~ Launch(j) PROVE Fresh'
  BY <1>2 DEF WorkerNext, Unreachable, ScriptEnded, Disconnect, WorkerCrash, Rerun, Learn, Fresh
<1>3. ASSUME NEW a \in Attempt, ScriptNext(a) PROVE Fresh'
  <2>1. at[a] # "none" /\ run' = run /\ \A b \in Attempt : b # a => at'[b] = at[b]
    BY <1>3 DEF ScriptNext, Breaks, Running, Command, Backup, Copy, NeedBackup, Restore, Validate,
                Restart, IsActive, Probe, Unpack, Defaults, Unit, Stop, Report,
                Goto, TypeOK, workerVars
  <2> QED
    BY <2>1 DEF Fresh
<1>4. CASE CollectorCrash \/ SystemdRestart \/ UNCHANGED vars
  BY <1>4 DEF CollectorCrash, SystemdRestart, workerVars, vars, Fresh
<1> QED
  BY <1>1, <1>2, <1>3, <1>4 DEF Next

LEMMA WriterStep == LastInv /\ [Next]_vars => WriterInv'
<1> SUFFICES ASSUME LastInv, [Next]_vars PROVE WriterInv'
  OBVIOUS
<1> USE NodeAssumption DEF LastInv, TypeOK, WriterInv, nodeVars, workerVars, history, Goto, Seen
<1>1. ASSUME NEW j \in Jobs, Launch(j) PROVE WriterInv'
  <2>1. at[<<j, run[j] + 1>>] = "none"
    BY <1>1, LaunchedAttempt DEF Fresh
  <2>2. writer # None => at'[writer] = at[writer]
    BY <1>1, <2>1 DEF Launch
  <2> QED
    BY <1>1, <2>2 DEF Launch
<1>2. ASSUME NEW j \in Jobs, WorkerNext(j), ~ Launch(j) PROVE WriterInv'
  BY <1>2 DEF WorkerNext, Unreachable, ScriptEnded, Disconnect, WorkerCrash, Rerun, Learn
<1>3. ASSUME NEW a \in Attempt, ScriptNext(a) PROVE WriterInv'
  <2>1. a # None
    BY NodeAssumption DEF Attempt
  <2>2. CASE Breaks(a)
    BY <2>2 DEF Breaks
  <2>11. CASE NeedBackup(a)
    BY <2>11 DEF NeedBackup
  <2>12. CASE Report(a)
    BY <2>12 DEF Report
  <2>3. CASE Validate(a)
    BY <2>3 DEF Validate
  <2>4. CASE IsActive(a)
    BY <2>4 DEF IsActive
  <2>5. CASE Backup(a) \/ Unpack(a) \/ Unit(a)
    BY <2>5 DEF Backup, Unpack, Unit
  \* The new writer has only just written.
  <2>6. CASE Copy(a) \/ Restore(a)
    BY <2>1, <2>6 DEF Copy, Restore, WriteConfig
  <2>7. CASE Defaults(a)
    BY <2>1, <2>7 DEF Defaults, WriteConfig
  \* Whoever starts the collector starts it with what the writer wrote.
  <2>8. CASE Restart(a)
    BY <2>8 DEF Restart, StartCollector
  <2>9. CASE Probe(a)
    BY <2>9 DEF Probe, StartCollector
  <2>10. CASE Stop(a)
    BY <2>10 DEF Stop
  <2> QED
    BY <1>3, <2>2, <2>3, <2>4, <2>5, <2>6, <2>7, <2>8, <2>9, <2>10, <2>11, <2>12 DEF ScriptNext
<1>4. CASE CollectorCrash \/ SystemdRestart
  BY <1>4 DEF CollectorCrash, SystemdRestart, StartCollector
<1>5. CASE UNCHANGED vars
  BY <1>5 DEF vars
<1> QED
  BY <1>1, <1>2, <1>3, <1>4, <1>5 DEF Next

\* Whatever scripts run on the node, in any interleaving: a script that exits
\* with 0 and has not been overwritten leaves its configuration running.
THEOREM LastWriterRunsAlways == Spec => []LastWriterRuns
<1>1. Init => LastInv
  BY NodeAssumption DEF Init, LastInv, TypeOK, Fresh, WriterInv
<1>2. LastInv /\ [Next]_vars => LastInv'
  BY TypeStep, FreshStep, WriterStep DEF LastInv
<1>3. LastInv => LastWriterRuns
  BY DEF LastInv, WriterInv, LastWriterRuns
<1> QED
  BY <1>1, <1>2, <1>3, PTL DEF Spec

-----------------------------------------------------------------------------
(* Scripts one at a time.                                                  *)

Clean == seen \cap {"overlap", "blind"} = {}

OneAtATime == \A a, b \in Attempt : Running(a) /\ Running(b) => a = b

\* restart.sh apart, the service is started with a validated configuration.
Validated == \A a \in Attempt :
    at[a] = "restart" => config \in Valid \/ TaskOf[a[1]] = "restart_collector"

\* The configuration in place is the one that runs, until it is written.
InPlace == unstarted = 0 /\ collector \in Config => collector = config

\* A deploy about to copy has saved what is in place.
Saved == \A a \in Attempt : at[a] = "copy" =>
    /\ unstarted # 1
    /\ unstarted = 0 => config = None \/ backup = config

SerialInv ==
    Clean => /\ OneAtATime
             /\ collector # "failing"
             /\ Validated
             /\ InPlace
             /\ Saved
             /\ RollbackPossible

\* Which commands belong to which script.
TaskFits == \A a \in Attempt :
    /\ at[a] \in {"needBackup", "restore"} => TaskOf[a[1]] = "rollback_config"
    /\ at[a] \in {"probe", "unpack", "defaults", "unit"} => TaskOf[a[1]] = "install_otel_agent"

LEMMA TaskStep == TypeOK /\ TaskFits /\ [Next]_vars => TaskFits'
<1> SUFFICES ASSUME TypeOK, TaskFits, [Next]_vars PROVE TaskFits'
  OBVIOUS
<1> USE DEF TypeOK, TaskFits, Goto
<1>1. ASSUME NEW j \in Jobs, Launch(j) PROVE TaskFits'
  <2>1. \A a \in Attempt : a = <<j, run[j] + 1>> => a[1] = j
    OBVIOUS
  <2>2. \A a \in Attempt : a # <<j, run[j] + 1>> => at'[a] = at[a]
    BY <1>1 DEF Launch
  <2>3. \A a \in Attempt : a = <<j, run[j] + 1>> => at'[a] = FirstCommand(TaskOf[j])
    BY <1>1 DEF Launch
  <2>4. /\ FirstCommand(TaskOf[j]) \in {"needBackup", "restore"} => TaskOf[j] = "rollback_config"
        /\ FirstCommand(TaskOf[j]) \in {"probe", "unpack", "defaults", "unit"}
              => TaskOf[j] = "install_otel_agent"
    BY NodeAssumption DEF FirstCommand, TaskType
  <2> QED
    BY <2>1, <2>2, <2>3, <2>4
<1>2. ASSUME NEW j \in Jobs, WorkerNext(j), ~ Launch(j) PROVE TaskFits'
  BY <1>2 DEF WorkerNext, Unreachable, ScriptEnded, Disconnect, WorkerCrash, Rerun, Learn
<1>3. ASSUME NEW a \in Attempt, ScriptNext(a) PROVE TaskFits'
  <2>1. CASE NeedBackup(a) \/ Restore(a)
    BY <2>1 DEF NeedBackup, Restore
  <2>2. CASE Probe(a) \/ Unpack(a) \/ Defaults(a) \/ Unit(a)
    <3>1. /\ TaskOf[a[1]] = "install_otel_agent"
          /\ at'[a] \in {"ok", "unpack", "defaults", "unit", "validate"}
      BY <2>2 DEF Probe, Unpack, Defaults, Unit
    <3>2. \A b \in Attempt : b # a => at'[b] = at[b]
      BY <2>2 DEF Probe, Unpack, Defaults, Unit
    <3> QED
      BY <3>1, <3>2
  <2>3. CASE Breaks(a) \/ Backup(a) \/ Copy(a) \/ Validate(a) \/ Restart(a) \/ IsActive(a)
    BY <2>3 DEF Breaks, Backup, Copy, Validate, Restart, IsActive
  <2>4. CASE Stop(a) \/ Report(a)
    BY <2>4 DEF Stop, Report
  <2> QED
    BY <1>3, <2>1, <2>2, <2>3, <2>4 DEF ScriptNext
<1>4. CASE CollectorCrash \/ SystemdRestart \/ UNCHANGED vars
  BY <1>4 DEF CollectorCrash, SystemdRestart, vars
<1> QED
  BY <1>1, <1>2, <1>3, <1>4 DEF Next

LEMMA SerialStep == LastInv /\ TaskFits /\ SerialInv /\ [Next]_vars => SerialInv'
<1> SUFFICES ASSUME LastInv, TaskFits, SerialInv, [Next]_vars, Clean' PROVE SerialInv'
  BY DEF SerialInv
<1> USE NodeAssumption DEF LastInv, TypeOK, Seen, nodeVars, workerVars, history, Goto, Clean
<1>1. ASSUME NEW j \in Jobs, Launch(j) PROVE SerialInv'
  <2> DEFINE n == <<j, run[j] + 1>>
  <2>1. Clean /\ \A a \in Attempt : ~ Running(a)
    BY <1>1 DEF Launch
  <2>2. \A a \in Attempt : a # n => at'[a] = at[a]
    BY <1>1 DEF Launch
  <2>3. n \in Attempt /\ at'[n] = FirstCommand(TaskOf[j]) /\ n[1] = j
    BY <1>1, LaunchedAttempt DEF Launch
  <2>4. /\ FirstCommand(TaskOf[j]) # "copy"
        /\ FirstCommand(TaskOf[j]) = "restart" => TaskOf[j] = "restart_collector"
    BY DEF FirstCommand, TaskType
  <2>5. UNCHANGED <<nodeVars, writer, unstarted>>
    BY <1>1 DEF Launch
  <2>6. OneAtATime'
    BY <2>1, <2>2 DEF OneAtATime, Running
  <2>7. Validated' /\ Saved'
    <3>1. \A a \in Attempt : a # n => at'[a] \notin Command
      BY <2>1, <2>2 DEF Running
    <3> QED
      BY <2>3, <2>4, <3>1 DEF Validated, Saved, Command
  <2>8. (collector # "failing")' /\ InPlace' /\ RollbackPossible'
    BY <2>1, <2>5 DEF SerialInv, InPlace, RollbackPossible, RunningIsSaved
  <2> QED
    BY <2>6, <2>7, <2>8 DEF SerialInv
<1>2. ASSUME NEW j \in Jobs, WorkerNext(j), ~ Launch(j) PROVE SerialInv'
  BY <1>2 DEF WorkerNext, Unreachable, ScriptEnded, Disconnect, WorkerCrash, Rerun, Learn, SerialInv,
              OneAtATime, Running, Validated, InPlace, Saved, RollbackPossible, RunningIsSaved
<1>3. ASSUME NEW a \in Attempt, ScriptNext(a) PROVE SerialInv'
  <2>1. Clean /\ Running(a) /\ \A b \in Attempt : b # a => at'[b] = at[b]
    BY <1>3 DEF ScriptNext, Breaks, Running, Command, Backup, Copy, NeedBackup, Restore, Validate,
                Restart, IsActive, Probe, Unpack, Defaults, Unit, Stop, Report, StartCollector
  <2>2. /\ OneAtATime /\ collector # "failing" /\ Validated /\ InPlace /\ Saved /\ RollbackPossible
    BY <2>1 DEF SerialInv
  <2>3. \A b \in Attempt : b # a => at'[b] \notin Command
    BY <2>1, <2>2 DEF OneAtATime, Running
  <2>4. OneAtATime'
    BY <2>3 DEF OneAtATime, Running
  \* Only the script that runs matters to the conjuncts about scripts.
  <2> SUFFICES /\ (collector # "failing")' /\ InPlace' /\ RollbackPossible'
               /\ at'[a] = "restart" =>
                     (config' \in Valid \/ TaskOf[a[1]] = "restart_collector")
               /\ at'[a] = "copy" =>
                     (unstarted' # 1 /\ (unstarted' = 0 => config' = None \/ backup' = config'))
    BY <2>3, <2>4 DEF SerialInv, Validated, Saved, Command
  <2> USE <2>2 DEF InPlace, RollbackPossible, RunningIsSaved
  <2>5. CASE Breaks(a)
    BY <2>5 DEF Breaks
  <2>6. CASE Backup(a)
    BY <2>6 DEF Backup
  <2>7. CASE Copy(a)
    BY <2>7 DEF Copy, WriteConfig, Saved
  <2>8. CASE NeedBackup(a)
    BY <2>8 DEF NeedBackup
  <2>9. CASE Restore(a)
    BY <2>9 DEF Restore, WriteConfig, TaskFits
  <2>10. CASE Validate(a)
    BY <2>10 DEF Validate
  <2>11. CASE Restart(a)
    BY <2>11 DEF Restart, StartCollector, Validated
  <2>12. CASE IsActive(a)
    BY <2>12 DEF IsActive
  <2>13. CASE Probe(a)
    BY <2>13 DEF Probe, StartCollector
  <2>14. CASE Unpack(a)
    BY <2>14 DEF Unpack
  <2>15. CASE Defaults(a)
    BY <2>15 DEF Defaults, WriteConfig, TaskFits
  <2>16. CASE Unit(a)
    BY <2>16 DEF Unit
  <2>17. CASE Stop(a)
    BY <2>17 DEF Stop
  <2>19. CASE Report(a)
    BY <2>19 DEF Report
  <2> QED
    BY <1>3, <2>5, <2>6, <2>7, <2>8, <2>9, <2>10, <2>11, <2>12, <2>13, <2>14, <2>15, <2>16,
       <2>17, <2>19 DEF ScriptNext
\* Neither step of systemd leaves the history clean.
<1>4. CASE CollectorCrash
  BY <1>4 DEF CollectorCrash
<1>5. CASE SystemdRestart
  BY <1>5 DEF SystemdRestart, StartCollector
<1>6. CASE UNCHANGED vars
  BY <1>6 DEF vars, SerialInv, OneAtATime, Running, Validated, InPlace, Saved, RollbackPossible,
              RunningIsSaved
<1> QED
  BY <1>1, <1>2, <1>3, <1>4, <1>5, <1>6 DEF Next

LEMMA SerialInvariant == Spec => [](LastInv /\ TaskFits /\ SerialInv)
<1>1. Init => LastInv /\ TaskFits
  BY NodeAssumption DEF Init, LastInv, TypeOK, Fresh, WriterInv, TaskFits
<1>2. Init => SerialInv
  BY NodeAssumption DEF Init, SerialInv, OneAtATime, Running, Command, Validated, InPlace, Saved,
                        RollbackPossible, RunningIsSaved
<1>3. LastInv /\ TaskFits /\ SerialInv /\ [Next]_vars => (LastInv /\ TaskFits /\ SerialInv)'
  BY TypeStep, FreshStep, WriterStep, TaskStep, SerialStep DEF LastInv
<1> QED
  BY <1>1, <1>2, <1>3, PTL DEF Spec

\* While scripts run one at a time and nothing starts the collector without a
\* validation, no script, failed, broken or run again, makes it fail.
THEOREM FailureIsHarmlessAlways == Spec => []FailureIsHarmless
<1>1. SerialInv => FailureIsHarmless
  BY DEF SerialInv, Clean, FailureIsHarmless
<1> QED
  BY <1>1, SerialInvariant, PTL

\* Under the same conditions, what the collector runs after a deploy can be
\* put back, until a configuration that never ran has been saved over it.
THEOREM RollbackPossibleAlways == Spec => []RollbackPossible
<1>1. SerialInv => RollbackPossible
  BY DEF SerialInv, Clean, RollbackPossible, RunningIsSaved
<1> QED
  BY <1>1, SerialInvariant, PTL

-----------------------------------------------------------------------------
(* A deploy takes effect.                                                  *)

\* What a deploy has achieved at each command when no other script interferes:
\* the configuration of its job is in place, is valid, and is what runs.
Effect(a) ==
    /\ at[a] \in {"validate", "restart", "isActive"} => config = ConfigOf[a[1]]
    /\ at[a] \in {"restart", "isActive"} => config \in Valid
    /\ at[a] = "isActive" => "halted" \in seen \/ collector = config

EffectInv ==
    "overlap" \notin seen =>
        /\ OneAtATime
        /\ \A a \in Attempt : TaskOf[a[1]] = "deploy_config" => Effect(a)

LEMMA EffectStep == TypeOK /\ TaskFits /\ EffectInv /\ [Next]_vars => EffectInv'
<1> SUFFICES ASSUME TypeOK, TaskFits, EffectInv, [Next]_vars, "overlap" \notin seen'
             PROVE  EffectInv'
  BY DEF EffectInv
<1> USE NodeAssumption DEF TypeOK, Seen, nodeVars, workerVars, history, Goto
<1>1. ASSUME NEW j \in Jobs, Launch(j) PROVE EffectInv'
  <2> DEFINE n == <<j, run[j] + 1>>
  <2>1. \A a \in Attempt : ~ Running(a)
    BY <1>1 DEF Launch
  <2>2. \A a \in Attempt : a # n => at'[a] \notin Command
    BY <1>1, <2>1 DEF Launch, Running
  <2>3. n \in Attempt /\ at'[n] = FirstCommand(TaskOf[j]) /\ n[1] = j
    BY <1>1, LaunchedAttempt DEF Launch
  <2>4. TaskOf[n[1]] = "deploy_config" => at'[n] = "backup"
    BY <2>3 DEF FirstCommand
  <2>5. OneAtATime'
    BY <2>2 DEF OneAtATime, Running
  <2>6. ASSUME NEW a \in Attempt, TaskOf[a[1]] = "deploy_config" PROVE Effect(a)'
    BY <2>2, <2>4, <2>6 DEF Effect, Command
  <2> QED
    BY <2>5, <2>6 DEF EffectInv
<1>2. ASSUME NEW j \in Jobs, WorkerNext(j), ~ Launch(j) PROVE EffectInv'
  BY <1>2 DEF WorkerNext, Unreachable, ScriptEnded, Disconnect, WorkerCrash, Rerun, Learn,
              EffectInv, OneAtATime, Running, Effect
<1>3. ASSUME NEW a \in Attempt, ScriptNext(a) PROVE EffectInv'
  <2>1. "overlap" \notin seen /\ Running(a) /\ \A b \in Attempt : b # a => at'[b] = at[b]
    BY <1>3 DEF ScriptNext, Breaks, Running, Command, Backup, Copy, NeedBackup, Restore, Validate,
                Restart, IsActive, Probe, Unpack, Defaults, Unit, Stop, Report, StartCollector
  <2>2. OneAtATime /\ (TaskOf[a[1]] = "deploy_config" => Effect(a))
    BY <2>1 DEF EffectInv
  <2>3. \A b \in Attempt : b # a => at'[b] \notin Command
    BY <2>1, <2>2 DEF OneAtATime, Running
  <2>4. OneAtATime'
    BY <2>3 DEF OneAtATime, Running
  <2>5. ASSUME TaskOf[a[1]] = "deploy_config" PROVE Effect(a)'
    <3> USE <2>2, <2>5 DEF Effect
    <3>1. CASE Backup(a) \/ Copy(a) \/ Validate(a)
      BY <3>1 DEF Backup, Copy, WriteConfig, Validate
    <3>2. CASE Restart(a)
      BY <3>2 DEF Restart, StartCollector
    <3>3. CASE Breaks(a) \/ IsActive(a) \/ NeedBackup(a) \/ Stop(a) \/ Report(a)
      BY <3>3 DEF Breaks, IsActive, NeedBackup, Stop, Report
    <3>4. CASE Restore(a) \/ Probe(a) \/ Unpack(a) \/ Defaults(a)
      BY <3>4 DEF Restore, Probe, Unpack, Defaults, TaskFits
    <3>5. CASE Unit(a)
      BY <3>5 DEF Unit, TaskFits
    <3> QED
      BY <1>3, <3>1, <3>2, <3>3, <3>4, <3>5 DEF ScriptNext
  <2>6. ASSUME NEW b \in Attempt, TaskOf[b[1]] = "deploy_config" PROVE Effect(b)'
    BY <2>3, <2>5, <2>6 DEF Effect, Command
  <2> QED
    BY <2>4, <2>6 DEF EffectInv
<1>4. CASE CollectorCrash
  BY <1>4 DEF CollectorCrash, EffectInv, OneAtATime, Running, Effect
<1>5. CASE SystemdRestart
  BY <1>5 DEF SystemdRestart, StartCollector, EffectInv, OneAtATime, Running, Effect
<1>6. CASE UNCHANGED vars
  BY <1>6 DEF vars, EffectInv, OneAtATime, Running, Effect
<1> QED
  BY <1>1, <1>2, <1>3, <1>4, <1>5, <1>6 DEF Next

\* A deploy that exits with 0 while no other script runs has done what its job
\* says.
THEOREM DeployTakesEffectAlways == Spec => DeployTakesEffect
<1>1. Init => EffectInv
  BY NodeAssumption DEF Init, EffectInv, OneAtATime, Running, Command, Effect
<1>2. ASSUME TypeOK, EffectInv, [Next]_vars, NEW a \in Attempt, TaskOf[a[1]] = "deploy_config",
             at[a] = "isActive", at'[a] = "ok", seen \cap {"overlap", "halted"} = {}
      PROVE  collector' = ConfigOf[a[1]]
  <2>1. collector = ConfigOf[a[1]]
    BY <1>2 DEF EffectInv, Effect
  <2>2. collector' = collector
    <3>1. ASSUME NEW b \in Attempt, ScriptNext(b), b # a PROVE FALSE
      BY <1>2, <3>1 DEF ScriptNext, Breaks, Backup, Copy, NeedBackup, Restore, Validate, Restart,
                  IsActive, Probe, Unpack, Defaults, Unit, Stop, Report, Goto, TypeOK
    <3>2. CASE ScriptNext(a)
      BY <1>2, <3>2 DEF ScriptNext, Breaks, Backup, Copy, NeedBackup, Restore, Validate, Restart,
                  IsActive, Probe, Unpack, Defaults, Unit, Stop, Report, Goto, TypeOK, nodeVars
    <3>3. ASSUME NEW j \in Jobs, WorkerNext(j) PROVE UNCHANGED nodeVars
      BY <3>3 DEF WorkerNext, Launch, Unreachable, ScriptEnded, Disconnect, WorkerCrash, Rerun, Learn
    <3>4. CASE CollectorCrash \/ SystemdRestart \/ UNCHANGED vars
      BY <1>2, <3>4 DEF CollectorCrash, SystemdRestart, vars
    <3> QED
      BY <3>1, <3>2, <3>3, <3>4, <1>2 DEF Next, nodeVars
  <2> QED
    BY <2>1, <2>2
<1>3. TypeOK /\ EffectInv /\ [Next]_vars =>
        [seen \cap {"overlap", "halted"} = {} => \A a \in Attempt :
            TaskOf[a[1]] = "deploy_config" /\ at[a] = "isActive" /\ at'[a] = "ok" =>
                collector' = ConfigOf[a[1]]]_vars
  BY <1>2
<1>4. TypeOK /\ TaskFits /\ EffectInv /\ [Next]_vars => EffectInv'
  BY EffectStep
<1>5. Spec => [](TypeOK /\ TaskFits)
  BY SerialInvariant, PTL DEF LastInv
<1> QED
  BY <1>1, <1>3, <1>4, <1>5, PTL DEF Spec, DeployTakesEffect
=============================================================================
