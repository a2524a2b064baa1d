--------------------------- MODULE QueryLifecycle ---------------------------
(***************************************************************************)
(* What a client of the facade may rely on, whatever calls run at once:    *)
(* an execution is created once, moves forward only, ends once, is         *)
(* CANCELLED only after somebody asked for it, and is SUCCEEDED only after *)
(* its CSV object was published.  Nothing here says how: handlers, Trino,  *)
(* tokens and restarts belong to the module that implements this one.      *)
(***************************************************************************)
EXTENDS QueryStates

CONSTANT Ids          \* execution ids

VARIABLES
    status,           \* id -> "absent" or a QueryState
    published,        \* ids whose CSV object exists
    stopAsked         \* ids some StopQueryExecution named

lifecycleVars == <<status, published, stopAsked>>

Open(id) == status[id] \in {"QUEUED", "RUNNING"}

LifecycleInit ==
    /\ status = [id \in Ids |-> "absent"]
    /\ published = {}
    /\ stopAsked = {}

\* StartQueryExecution creates the execution.
Create(id) ==
    /\ status[id] = "absent"
    /\ status' = [status EXCEPT ![id] = "QUEUED"]
    /\ UNCHANGED <<published, stopAsked>>

\* The engine has taken it.
Begin(id) ==
    /\ status[id] = "QUEUED"
    /\ status' = [status EXCEPT ![id] = "RUNNING"]
    /\ UNCHANGED <<published, stopAsked>>

\* Its CSV object is there.  The write may land after the execution was
\* cancelled or failed.
Publish(id) ==
    /\ status[id] # "absent"
    /\ published' = published \cup {id}
    /\ UNCHANGED <<status, stopAsked>>

\* It succeeds, with its CSV published, or fails.
Conclude(id) ==
    /\ Open(id)
    /\ \/ id \in published /\ status' = [status EXCEPT ![id] = "SUCCEEDED"]
       \/ status' = [status EXCEPT ![id] = "FAILED"]
    /\ UNCHANGED <<published, stopAsked>>

\* A Stop names it, with no effect yet (or none at all).
AskStop(id) ==
    /\ stopAsked' = stopAsked \cup {id}
    /\ UNCHANGED <<status, published>>

\* A Stop cancels it.
Cancel(id) ==
    /\ Open(id)
    /\ status' = [status EXCEPT ![id] = "CANCELLED"]
    /\ stopAsked' = stopAsked \cup {id}
    /\ UNCHANGED published

LifecycleNext ==
    \E id \in Ids :
        Create(id) \/ Begin(id) \/ Publish(id) \/ Conclude(id) \/ AskStop(id) \/ Cancel(id)

LifecycleSpec == LifecycleInit /\ [][LifecycleNext]_lifecycleVars

\* Every execution that was created ends.
LifecycleFairSpec ==
    LifecycleSpec /\ \A id \in Ids : WF_lifecycleVars(Conclude(id) \/ Cancel(id))

=============================================================================
