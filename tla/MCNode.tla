------------------------------- MODULE MCNode -------------------------------
(***************************************************************************)
(* Small instances of Node for TLC: good and better are configurations     *)
(* that "otelcol validate" accepts, bad is one that it does not.           *)
(***************************************************************************)
EXTENDS Node

CONSTANTS good, better, bad

\* Two deploys, of a configuration that is valid and one that is not, a
\* rollback, and a script that changes nothing.
DeployTasks   == <<"deploy_config", "deploy_config", "rollback_config", "validate_config">>
DeployConfigs == <<better, bad, good, good>>

\* An installation, a deploy, a stop and a restart.
ServiceTasks   == <<"install_otel_agent", "deploy_config", "stop_collector", "restart_collector">>
ServiceConfigs == <<good, bad, good, better>>

\* One deploy of a configuration that is not valid.
OneTask   == <<"deploy_config">>
OneConfig == <<bad>>
=============================================================================
