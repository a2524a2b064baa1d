------------------------------ MODULE Shutdown ------------------------------
(***************************************************************************)
(* A facade that is told to stop (`shutdown` of src/cli.ts, on SIGINT and  *)
(* SIGTERM): the database is closed first and the server stopped after it, *)
(* so the handlers that are suspended then go on without a table.  Every   *)
(* use of it throws, the one in the catch block of #execute too, and the   *)
(* request is answered 500.                                                *)
(***************************************************************************)
EXTENDS Facade

VARIABLE
    open    \* the database is open, and the server takes requests

ShutdownInit == Init /\ open = TRUE

\* bootstrap.close(), then server.stop(): no new request, those under way go on.
CloseAndStop ==
    /\ open
    /\ open' = FALSE
    /\ UNCHANGED vars

-----------------------------------------------------------------------------
(***************************************************************************)
(* Handlers that are resumed without a database.                           *)
(***************************************************************************)

\* The rest of the page loop and the upload need no table.
GoesOn(c) ==
    \/ TrinoAccepts(c)
    \/ StorageWrites(c)
    \/ (FetchReturns(c) /\ pc'[c] \in {"fetch", "write"})

\* The pages after which a handler would write to its row: any answer to its
\* statement, and the page that ends the loop with an error.
NeedsTheRow(c, page) ==
    \/ pc[c] = "accepted"
    \/ pc[c] = "fetch" /\ page.kind = "error"
    \/ pc[c] = "fetch" /\ page.kind = "last" /\ target[c] \in BadOutput

\* Mutant: an exception of the catch block is dropped, the answer is the id.
UpdateLost(c) ==
    /\ pc[c] \in Executing \cup Stopping
    /\ pc' = [pc EXCEPT ![c] = "ok"]
    /\ UNCHANGED <<db, target, rows, seen, trino, storage, crashes>>

\* updateState throws, after an answer, an exception or the upload; what the
\* handler had collected is gone with it.
UpdateThrows(c) ==
    /\ pc[c] \in Executing \cup Stopping
    /\ pc' = [pc EXCEPT ![c] = "internal"]
    /\ \/ trino' = trino
       \/ c \in Starts /\ \E page \in Page : NeedsTheRow(c, page) /\ TrinoAnswers(c, page)
    /\ UNCHANGED <<db, target, rows, seen, storage, crashes>>

ClosedStep(c) ==
    \/ c \in Starts /\ GoesOn(c)
    \/ c \in Stops /\ TrinoCancels(c)
    \/ UpdateThrows(c)

OpenStep(c) == (c \in Starts /\ StartStep(c)) \/ (c \in Stops /\ StopStep(c))

\* One step of a request's handler.
HandlerStep(c) ==
    /\ \/ open /\ OpenStep(c)
       \/ ~open /\ ClosedStep(c)
    /\ UNCHANGED open

\* The process ends, shut down or not, and is started again.
StartAgain == Restart /\ open' = TRUE

-----------------------------------------------------------------------------
(***************************************************************************)
(* Properties.                                                             *)
(***************************************************************************)

\* A facade on its way down misleads nobody: a Start that answers 200 has
\* left its row terminal, and a row that stays live with no handler at work on
\* it belongs to a Start that was answered 500 by a facade without a database
\* (bootstrap.close before server.stop).
InterruptedIsReported ==
    /\ \A c \in Starts : pc[c] = "ok" => ~Live(target[c])
    /\ crashes = 0 =>
         \A id \in Starts :
            Live(id) /\ runningFor(id) = {} =>
                ~open /\ \E c \in executorsOf(id) : pc[c] = "internal"

=============================================================================
