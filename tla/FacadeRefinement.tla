-------------------------- MODULE FacadeRefinement --------------------------
(***************************************************************************)
(* The facade implements QueryLifecycle: the status of an execution is the *)
(* state column of its row, its CSV is published when the object store     *)
(* holds it, and a Stop that has read its id has asked for it to stop.     *)
(***************************************************************************)
EXTENDS Facade

statusOf(id) == IF db[id] = None THEN "absent" ELSE db[id].state
publishedIds == {id \in Starts : storage[id] # None}
stopAskedIds == {id \in Starts : \E s \in Stops : target[s] = id}

Lifecycle == INSTANCE QueryLifecycle WITH
    Ids       <- Starts,
    status    <- [id \in Starts |-> statusOf(id)],
    published <- publishedIds,
    stopAsked <- stopAskedIds

\* Every step of the facade is a step of the lifecycle or leaves it alone,
\* restarts of a process with a durable table included.
RefinesLifecycle == Lifecycle!LifecycleSpec

\* And in a process that keeps running, with fair handlers and a Trino whose
\* queries get on, every execution that was created ends.
RefinesFairLifecycle == Lifecycle!LifecycleFairSpec

=============================================================================
