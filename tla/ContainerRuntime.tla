-------------------------- MODULE ContainerRuntime --------------------------
(***************************************************************************)
(* The container runtime as athena-local uses it: the `docker` and         *)
(* `container` command lines (src/runtime/docker.ts, apple-container.ts).  *)
(* The runtime is not part of the repository: each operator below is what  *)
(* one subcommand does to the project's network, containers and named      *)
(* volumes, and when it exits with 0.  Fetching an image, running an init  *)
(* task, creating and starting a container may fail for reasons of their   *)
(* own; removing something fails only when it is absent or in use.         *)
(***************************************************************************)
EXTENDS Naturals

CONSTANTS
    Service,        \* the names of the stack's services
    HasVolume,      \* those that keep a named volume
    Cli,            \* the runs of the command line
    NoCli           \* nobody

ASSUME ServiceAssumption == HasVolume \subseteq Service /\ NoCli \notin Cli

VARIABLES
    network,        \* does the project's network exist
    container,      \* each service's container
    madeBy,         \* the run of the command line that created it
    volume          \* the run that created each named volume, NoCli if absent

runtimeVars == <<network, container, madeBy, volume>>

RuntimeInit ==
    /\ network = FALSE
    /\ container = [s \in Service |-> "missing"]
    /\ madeBy = [s \in Service |-> NoCli]
    /\ volume = [s \in HasVolume |-> NoCli]

HasContainer(s) == container[s] # "missing"

\* `network create`: a second network of the same name is refused.
NetworkCreate(ok) ==
    /\ ok = ~network
    /\ network' = TRUE
    /\ UNCHANGED <<container, madeBy, volume>>

\* `network rm`: refused while a running container is attached.
NetworkRemove(ok) ==
    /\ ok = (network /\ \A s \in Service : container[s] # "running")
    /\ network' = (network /\ ~ok)
    /\ UNCHANGED <<container, madeBy, volume>>

\* `pull`, and `run --rm` of an init task: nothing of the project changes.
FetchOrTask(ok) ==
    /\ ok \in BOOLEAN
    /\ UNCHANGED runtimeVars

\* `volume create`: an existing volume is kept, with exit code 0 under docker
\* and an error under Apple's runtime.
VolumeCreate(c, s, ok) ==
    /\ ok \/ volume[s] # NoCli
    /\ volume' = [volume EXCEPT ![s] = IF @ = NoCli THEN c ELSE @]
    /\ UNCHANGED <<network, container, madeBy>>

\* `volume rm`: refused while a container, running or not, mounts it.
VolumeRemove(s, ok) ==
    /\ ok = (volume[s] # NoCli /\ ~HasContainer(s))
    /\ volume' = IF ok THEN [volume EXCEPT ![s] = NoCli] ELSE volume
    /\ UNCHANGED <<network, container, madeBy>>

\* `create --name`: the name must be free and the network there; a named
\* volume that is absent is created with the container.
ContainerCreate(c, s, ok) ==
    /\ ok => network /\ ~HasContainer(s)
    /\ container' = IF ok THEN [container EXCEPT ![s] = "created"] ELSE container
    /\ madeBy' = IF ok THEN [madeBy EXCEPT ![s] = c] ELSE madeBy
    /\ volume' = IF ok /\ s \in HasVolume
                 THEN [volume EXCEPT ![s] = IF @ = NoCli THEN c ELSE @]
                 ELSE volume
    /\ UNCHANGED network

\* `start`: needs the container and its network.
ContainerStart(s, ok) ==
    /\ ok => network /\ HasContainer(s)
    /\ container' = IF ok THEN [container EXCEPT ![s] = "running"] ELSE container
    /\ UNCHANGED <<network, madeBy, volume>>

\* `stop`: a container that never ran stays as created.
ContainerStop(s, ok) ==
    /\ ok = HasContainer(s)
    /\ container' = [container EXCEPT ![s] = IF @ = "running" THEN "stopped" ELSE @]
    /\ UNCHANGED <<network, madeBy, volume>>

\* `rm -f`: running or not.
ContainerRemove(s, ok) ==
    /\ ok = HasContainer(s)
    /\ container' = [container EXCEPT ![s] = "missing"]
    /\ madeBy' = [madeBy EXCEPT ![s] = NoCli]
    /\ UNCHANGED <<network, volume>>

\* The host or the runtime goes down: every running container stops.
HostStops ==
    /\ \E s \in Service : container[s] = "running"
    /\ container' = [s \in Service |->
                       IF container[s] = "running" THEN "stopped" ELSE container[s]]
    /\ UNCHANGED <<network, madeBy, volume>>
=============================================================================
