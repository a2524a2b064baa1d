-------------------------------- MODULE Stack --------------------------------
(***************************************************************************)
(* The local stack and the command line that drives it: `start`, `stop`,   *)
(* `reset` and `destroy` (executeRuntimeCommand of src/cli/run.ts) turn a  *)
(* configuration into a plan of runtime commands, run them one process at  *)
(* a time, roll a failed start back with the plan of `destroy`, wait for   *)
(* the services, and write running.json for `status`.                      *)
(*                                                                         *)
(* Several runs of the command line may overlap, each may be killed        *)
(* between two commands, and a run that started the stack stays to serve   *)
(* the facade on the configuration's ports.                                *)
(***************************************************************************)
EXTENDS ContainerRuntime, SequencesExt

CONSTANTS
    Runtimes,       \* the container runtimes a host may have
    Services,       \* the services in the order of createLocalStackServices
    InitTasks,      \* those with an init task
    Minio,          \* the bundled object store, present in bundled mode only
    Configs,        \* the configurations a run may resolve to
    MaxActive,      \* a bound on the runs under way at a time
    MaxKills        \* a bound on the runs killed halfway

ASSUME StackAssumption ==
    /\ Runtimes \subseteq {"docker", "apple-container"}
    /\ Services \in Seq(Service) /\ Range(Services) = Service /\ IsInjective(Services)
    /\ InitTasks \subseteq HasVolume
    /\ Configs # {}
    /\ MaxActive \in Nat \ {0} /\ MaxKills \in Nat

VARIABLES
    runtime,        \* the container runtime of this host
    snapshot,       \* running.json: the run that wrote it, NoCli if absent
    phase,          \* where each run is in executeRuntimeCommand
    cmd,            \* its command
    conf,           \* the configuration it resolved
    at,             \* the next command of its plan, or of its rollback
    ready,          \* the services whose readiness check has passed
    alone           \* of a run under way: no other has been while it was

cliVars == <<runtime, snapshot, phase, cmd, conf, at, ready, alone>>
vars == <<runtimeVars, cliVars>>

Commands == {"start", "stop", "reset", "destroy"}
Active == {"config", "plan", "rollback", "waiting", "recording"}

-----------------------------------------------------------------------------
(* The plans                                                               *)

Cmd(op, s) == [op |-> op, service |-> s, allowFailure |-> FALSE]
AllowFailure(op, s) == [op |-> op, service |-> s, allowFailure |-> TRUE]

createLocalStackServices(cf) ==
    IF cf.bundled THEN Services ELSE RemoveFirst(Services, Minio)

\* One plan: the commands of every service, in the services' order.
ForEach(services, part(_)) ==
    FlattenSeq([i \in DOMAIN services |-> part(services[i])])

networkCreate ==
    IF runtime = "docker" THEN Cmd("networkCreate", Minio)
                          ELSE AllowFailure("networkCreate", Minio)

startService(s) ==
    <<Cmd("pull", s)>>
    \o (IF s \in InitTasks THEN <<Cmd("pull", s)>> ELSE <<>>)
    \o (IF s \in HasVolume THEN <<AllowFailure("volumeCreate", s)>> ELSE <<>>)
    \o (IF s \in InitTasks THEN <<Cmd("initTask", s)>> ELSE <<>>)
    \o <<Cmd("create", s), Cmd("start", s)>>

\* Mutant: removes the volume before the container that mounts it.
destroyServiceVolumeFirst(s) ==
    (IF s \in HasVolume THEN <<AllowFailure("volumeRm", s)>> ELSE <<>>)
    \o <<AllowFailure("rm", s)>>

destroyService(s) ==
    <<AllowFailure("rm", s)>>
    \o (IF s \in HasVolume THEN <<AllowFailure("volumeRm", s)>> ELSE <<>>)

planStart(services) == <<networkCreate>> \o ForEach(services, startService)
planStop(services) == ForEach(services, LAMBDA s : <<AllowFailure("stop", s)>>)

\* Mutant: removes the network before the containers on it.
planDestroyNetworkFirst(services) ==
    <<AllowFailure("networkRm", Minio)>> \o ForEach(services, destroyService)

planDestroy(services) ==
    ForEach(services, destroyService) \o <<AllowFailure("networkRm", Minio)>>

\* Mutant: a reset that only stops the old stack before it starts the new
\* one.
commandPlanSwapped(command, services) ==
    CASE command = "start"   -> planStart(services)
      [] command = "stop"    -> planStop(services)
      [] command = "destroy" -> planDestroy(services)
      [] command = "reset"   -> planStop(services) \o planStart(services)

commandPlan(command, services) ==
    CASE command = "start"   -> planStart(services)
      [] command = "stop"    -> planStop(services)
      [] command = "destroy" -> planDestroy(services)
      [] command = "reset"   -> planDestroy(services) \o planStart(services)

servicesOf(c) == createLocalStackServices(conf[c])
plan(c) == commandPlan(cmd[c], servicesOf(c))
Starts(command) == command \in {"start", "reset"}
rollbackPlan(c) == IF Starts(cmd[c]) THEN planDestroy(servicesOf(c)) ELSE <<>>

-----------------------------------------------------------------------------
(* Running one command of a plan                                           *)

\* executor.run: one subprocess, to its exit code.
runCommand(c, k, ok) ==
    \/ k.op = "networkCreate" /\ NetworkCreate(ok)
    \/ k.op = "networkRm" /\ NetworkRemove(ok)
    \/ k.op \in {"pull", "initTask"} /\ FetchOrTask(ok)
    \/ k.op = "volumeCreate" /\ VolumeCreate(c, k.service, ok)
    \/ k.op = "volumeRm" /\ VolumeRemove(k.service, ok)
    \/ k.op = "create" /\ ContainerCreate(c, k.service, ok)
    \/ k.op = "start" /\ ContainerStart(k.service, ok)
    \/ k.op = "stop" /\ ContainerStop(k.service, ok)
    \/ k.op = "rm" /\ ContainerRemove(k.service, ok)

Go(c, where) ==
    /\ phase' = [phase EXCEPT ![c] = where]
    /\ at' = [at EXCEPT ![c] = 1]

-----------------------------------------------------------------------------
(* One run of the command line                                             *)

Init ==
    /\ RuntimeInit
    /\ runtime \in Runtimes
    /\ snapshot = NoCli
    /\ phase = [c \in Cli |-> "idle"]
    /\ cmd = [c \in Cli |-> "stop"]
    /\ conf = [c \in Cli |-> CHOOSE cf \in Configs : TRUE]
    /\ at = [c \in Cli |-> 1]
    /\ ready = [c \in Cli |-> {}]
    /\ alone = [c \in Cli |-> TRUE]

\* A port of the configuration is held by one of the stack's own containers
\* or by a run that serves the facade.
PortsTaken(cf) ==
    \/ \E s \in Service :
         /\ container[s] = "running"
         /\ conf[madeBy[s]].ports = cf.ports
         /\ cf.bundled \/ s # Minio
    \/ \E c \in Cli : phase[c] = "serving" /\ conf[c].ports = cf.ports

\* The command line is run with a command and a configuration.  A start or a
\* reset checks the host's ports first; somebody else's process may hold one.
Invoke(c) ==
    /\ phase[c] = "idle"
    /\ Cardinality({d \in Cli : phase[d] \in Active}) < MaxActive
    /\ \E command \in Commands, cf \in Configs, foreign \in BOOLEAN :
         /\ cmd' = [cmd EXCEPT ![c] = command]
         /\ conf' = [conf EXCEPT ![c] = cf]
         /\ phase' = [phase EXCEPT ![c] =
                        IF ~Starts(command) THEN "plan"
                        ELSE IF PortsTaken(cf) \/ foreign THEN "refused" ELSE "config"]
    /\ LET others == {d \in Cli \ {c} : phase[d] \in Active}
       IN alone' = [d \in Cli |-> IF d = c THEN others = {} ELSE d \notin others]
    /\ UNCHANGED <<runtimeVars, snapshot, at, ready>>

\* resolveHostGateway (Apple's runtime creates the network to learn its
\* gateway) and the configuration files; either may throw out of the run.
PrepareConfig(c) ==
    /\ phase[c] = "config"
    /\ IF runtime = "docker"
         THEN UNCHANGED runtimeVars
         ELSE \E ok \in BOOLEAN : NetworkCreate(ok)
    /\ \E next \in {"plan", "threw"} : Go(c, next)
    /\ UNCHANGED <<snapshot, cmd, conf, ready, alone>>

\* executeRuntimePlan: the next command; a failure that is not allowed turns
\* to the rollback.
ExecuteCommand(c) ==
    /\ phase[c] = "plan" /\ at[c] <= Len(plan(c))
    /\ \E ok \in BOOLEAN :
         /\ runCommand(c, plan(c)[at[c]], ok)
         /\ IF ok \/ plan(c)[at[c]].allowFailure
              THEN at' = [at EXCEPT ![c] = @ + 1] /\ UNCHANGED phase
              ELSE Go(c, "rollback")
    /\ UNCHANGED <<snapshot, cmd, conf, ready, alone>>

PlanDone(c) ==
    /\ phase[c] = "plan" /\ at[c] > Len(plan(c))
    /\ Go(c, IF Starts(cmd[c]) THEN "waiting" ELSE "recording")
    /\ UNCHANGED <<runtimeVars, snapshot, cmd, conf, ready, alone>>

\* Mutant: stops rolling back at the first command that fails.
RollBackStops(c) ==
    /\ phase[c] = "rollback" /\ at[c] <= Len(rollbackPlan(c))
    /\ \E ok \in BOOLEAN :
         /\ runCommand(c, rollbackPlan(c)[at[c]], ok)
         /\ at' = [at EXCEPT ![c] = IF ok THEN @ + 1 ELSE Len(rollbackPlan(c)) + 1]
    /\ UNCHANGED <<snapshot, phase, cmd, conf, ready, alone>>

\* executeRollback: every command, whatever the ones before it returned.
RollBack(c) ==
    /\ phase[c] = "rollback" /\ at[c] <= Len(rollbackPlan(c))
    /\ \E ok \in BOOLEAN : runCommand(c, rollbackPlan(c)[at[c]], ok)
    /\ at' = [at EXCEPT ![c] = @ + 1]
    /\ UNCHANGED <<snapshot, phase, cmd, conf, ready, alone>>

RolledBack(c) ==
    /\ phase[c] = "rollback" /\ at[c] > Len(rollbackPlan(c))
    /\ Go(c, "failed")
    /\ UNCHANGED <<runtimeVars, snapshot, cmd, conf, ready, alone>>

\* A readiness check passes: something of that service answers on its port.
ServiceReady(c, s) ==
    /\ phase[c] = "waiting" /\ s \in Range(servicesOf(c)) \ ready[c]
    /\ container[s] = "running" /\ conf[madeBy[s]].ports = conf[c].ports
    /\ ready' = [ready EXCEPT ![c] = @ \cup {s}]
    /\ UNCHANGED <<runtimeVars, snapshot, phase, cmd, conf, at, alone>>

\* waitForServicesReady: the run goes on once every service has answered...
ServicesReady(c) ==
    /\ phase[c] = "waiting" /\ ready[c] = Range(servicesOf(c))
    /\ Go(c, "recording")
    /\ ready' = [ready EXCEPT ![c] = {}]
    /\ UNCHANGED <<runtimeVars, snapshot, cmd, conf, alone>>

\* ... and rolls back when one of them has not by its deadline.
ReadinessTimesOut(c) ==
    /\ phase[c] = "waiting" /\ ready[c] # Range(servicesOf(c))
    /\ Go(c, "rollback")
    /\ ready' = [ready EXCEPT ![c] = {}]
    /\ UNCHANGED <<runtimeVars, snapshot, cmd, conf, alone>>

\* writeRunningConfig or removeRunningConfig, each of which may fail unseen;
\* then a start serves the facade and the other commands return.
RecordRunningConfig(c) ==
    /\ phase[c] = "recording"
    /\ snapshot' \in {snapshot, IF Starts(cmd[c]) THEN c ELSE NoCli}
    /\ Go(c, IF cmd[c] = "start" THEN "serving" ELSE "done")
    /\ UNCHANGED <<runtimeVars, cmd, conf, ready, alone>>

-----------------------------------------------------------------------------
(* The world around it                                                     *)

\* Ctrl-C, or the end of the process that serves the facade.
Kill(c) ==
    /\ phase[c] \in Active \cup {"serving"}
    /\ Cardinality({d \in Cli : phase[d] = "killed"}) < MaxKills
    /\ Go(c, "killed")
    /\ ready' = [ready EXCEPT ![c] = {}]
    /\ UNCHANGED <<runtimeVars, snapshot, cmd, conf, alone>>

HostGoesDown == HostStops /\ UNCHANGED cliVars

AllEnded == (\A c \in Cli : phase[c] \notin Active \cup {"idle"}) /\ UNCHANGED vars

RunStep(c) ==
    \/ PrepareConfig(c) \/ ExecuteCommand(c) \/ PlanDone(c)
    \/ RollBack(c) \/ RolledBack(c)
    \/ (\E s \in Service : ServiceReady(c, s))
    \/ ServicesReady(c) \/ ReadinessTimesOut(c) \/ RecordRunningConfig(c)

Next ==
    \/ (\E c \in Cli : Invoke(c) \/ RunStep(c) \/ Kill(c)) /\ UNCHANGED runtime
    \/ HostGoesDown
    \/ AllEnded

Spec == Init /\ [][Next]_vars

-----------------------------------------------------------------------------
(* Properties                                                              *)

Ended == {"refused", "threw", "failed", "done", "serving", "killed"}

\* The variables keep their types.
TypeOK ==
    /\ network \in BOOLEAN
    /\ container \in [Service -> {"missing", "created", "running", "stopped"}]
    /\ madeBy \in [Service -> Cli \cup {NoCli}]
    /\ volume \in [HasVolume -> Cli \cup {NoCli}]
    /\ runtime \in Runtimes
    /\ snapshot \in Cli \cup {NoCli}
    /\ phase \in [Cli -> {"idle"} \cup Active \cup Ended]
    /\ cmd \in [Cli -> Commands]
    /\ conf \in [Cli -> Configs]
    /\ at \in [Cli -> Nat \ {0}]
    /\ ready \in [Cli -> SUBSET Service]
    /\ alone \in [Cli -> BOOLEAN]

\* Nothing of the services of c's configuration is left, and no network
\* either, unless a container outside that configuration is attached to it.
NothingLeft(c) ==
    /\ \A s \in Range(servicesOf(c)) :
         ~HasContainer(s) /\ (s \in HasVolume => volume[s] = NoCli)
    /\ network => \E s \in Service : HasContainer(s)

\* A start or a reset that fails, at whichever command or readiness check, has
\* taken everything down again by the time it reports the failure, whatever it
\* found there (executeRollback over planDestroy).
FailureLeavesNothing ==
    [][\A c \in Cli : alone[c] /\ phase[c] # "failed" /\ phase'[c] = "failed"
                      => NothingLeft(c)']_vars

\* A destroy that reports success has removed the containers, the volumes and
\* the network, also those that killed, failed or overlapping runs left
\* behind; every one of its commands may fail unseen (planDestroy).
DestroyLeavesNothing ==
    [][\A c \in Cli : /\ alone[c] /\ cmd[c] = "destroy"
                      /\ phase[c] # "done" /\ phase'[c] = "done"
                      => NothingLeft(c)']_vars

\* A reset that reports success has given every service a new container and a
\* new volume: no data of before shows through, although a volume that could
\* not be removed would be reused without an error (commandPlan "reset").
ResetIsFresh ==
    [][\A c \in Cli : /\ alone[c] /\ cmd[c] = "reset"
                      /\ phase[c] # "done" /\ phase'[c] = "done"
                      => \A s \in Range(servicesOf(c)) :
                           madeBy'[s] = c /\ (s \in HasVolume => volume'[s] = c)]_vars

\* The name a command that may not fail is about to give is free.
NameIsFree(k) ==
    /\ k.op = "networkCreate" => k.allowFailure \/ ~network
    /\ k.op = "create" => ~HasContainer(k.service)

\* A reset that runs alone never trips over what earlier runs left, as long as
\* there is no container outside its configuration: its first half frees
\* every name its second half takes (planDestroy against planStart).
ResetIsNotBlocked ==
    \A c \in Cli :
      /\ cmd[c] = "reset" /\ alone[c] /\ phase[c] = "plan" /\ at[c] <= Len(plan(c))
      /\ \A s \in Service \ Range(servicesOf(c)) : ~HasContainer(s)
      => NameIsFree(plan(c)[at[c]])

\* What the documentation says of the commands, and the code does not do.

\* Data that a stop kept goes away in a reset or a destroy, never in a start:
\* once a stop has returned, a start removes only volumes of its own making.
StoppedDataSurvives ==
    [][\A s \in HasVolume :
         /\ volume[s] # NoCli /\ volume'[s] = NoCli
         /\ \E c \in Cli : cmd[c] = "stop" /\ phase[c] = "done"
         => \E c \in Cli : /\ phase[c] \in Active
                           /\ cmd[c] \in {"reset", "destroy"} \/ volume[s] = c]_vars
=============================================================================
