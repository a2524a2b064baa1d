---------------------------- MODULE QueryStates ----------------------------
(***************************************************************************)
(* The states of a query execution and the transitions the state store     *)
(* accepts (src/state/types.ts, src/state/transitions.ts).  Every other    *)
(* module about queries is written with these operators.                   *)
(***************************************************************************)

\* The states a query_execution row can hold.
QueryState == {"QUEUED", "RUNNING", "SUCCEEDED", "FAILED", "CANCELLED"}

\* The states that end an execution.
terminalQueryStates == {"SUCCEEDED", "FAILED", "CANCELLED"}

\* The table of transitions between two different states.
allowedTransitions ==
    [s \in QueryState |->
        IF s = "QUEUED" THEN {"RUNNING"} \cup terminalQueryStates
        ELSE IF s = "RUNNING" THEN terminalQueryStates
        ELSE {}]

\* Mutants: no row may be written twice with one state; every write passes.
canMoveQueryState(from, to) == to \in allowedTransitions[from]
canAlwaysTransition(from, to) == TRUE

\* A row may always be written again with the state it already has, a
\* terminal one included; otherwise the table decides.
canTransitionQueryState(from, to) ==
    from = to \/ to \in allowedTransitions[from]

\* What a restart is meant to make of a state it finds in the store.  Nothing
\* under src/ calls it outside the tests.
recoverStateAfterRestart(state) ==
    IF state \in terminalQueryStates THEN state ELSE "FAILED"

=============================================================================
