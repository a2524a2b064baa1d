------------------------------- MODULE Facade -------------------------------
(***************************************************************************)
(* The query facade: StartQueryExecution and StopQueryExecution handlers   *)
(* of src/facade/service.ts over the query_execution table of              *)
(* src/state/repository.ts, with Trino and the object store as external    *)
(* actors.  The program runs on one event loop, so the code between two    *)
(* awaits is one atomic step: a handler is a process whose control point   *)
(* is the await it is suspended at, and other handlers run between.        *)
(*                                                                         *)
(* A Start request also names the execution id its handler generates (ids  *)
(* are fresh UUIDs, one per call), hence rows, stored objects and Trino    *)
(* queries are indexed by Start requests too.  A timestamp is the request  *)
(* whose handler took it: a handler stamps a column at most once.          *)
(***************************************************************************)
EXTENDS Naturals, Sequences, QueryStates

CONSTANTS
    Starts,      \* StartQueryExecution requests
    Stops,       \* StopQueryExecution requests
    Tokens,      \* values of ClientRequestToken
    TokenOf,     \* the token each Start request carries
    BadOutput,   \* Start requests whose OutputLocation does not parse
    Persistent,  \* TRUE iff ATHENA_LOCAL_STATE_PATH names a file
    MaxPages,    \* bound: result pages with rows, per Trino query
    MaxCrashes,  \* bound: restarts of the process
    None         \* SQL NULL / undefined

Calls == Starts \cup Stops

ASSUME FacadeAssumption ==
    /\ Starts \cap Stops = {}
    /\ TokenOf \in [Starts -> Tokens]
    /\ BadOutput \subseteq Starts
    /\ Persistent \in BOOLEAN
    /\ MaxPages \in Nat
    /\ MaxCrashes \in Nat

VARIABLES
    db,       \* the query_execution table: id -> row, or None
    pc,       \* where each request's handler is suspended, or its outcome
    target,   \* the id each handler works on
    rows,     \* the rows a Start handler has collected from Trino's pages
    seen,     \* what a Stop handler read: the row's state and next URI
    trino,    \* external: the Trino query each Start request submitted
    storage,  \* external: the CSV object <prefix><id>.csv, or None
    crashes   \* restarts so far

vars == <<db, pc, target, rows, seen, trino, storage, crashes>>

(***************************************************************************)
(* Control points.  "accepted", "stored" and "deleted" say that the        *)
(* external side has acted and its answer is still on the way.             *)
(***************************************************************************)
Executing == {"submit", "accepted", "fetch", "write", "stored"}
Stopping  == {"delete", "deleted"}
\* "returned": answered with the id of an execution some other call runs;
\* "ok": answered 200; "invalid": 400; "internal": 500.
Answered  == {"returned", "ok", "invalid", "internal"}
Control   == {"idle", "dead"} \cup Executing \cup Stopping \cup Answered

Rows  == Seq(Starts \X Nat)
Row   == [token : Tokens, state : QueryState,
          startedAt : Calls \cup {None}, completedAt : Calls \cup {None},
          trinoQueryId : Starts \cup {None}, trinoNextUri : Starts \cup {None},
          result : Rows \cup {None}]
View  == [state : QueryState, trinoNextUri : Starts \cup {None}]

\* None is a value of its own.
ASSUME NoneAssumption == None \notin Calls \cup Rows \cup Row \cup View

Page  == [data : BOOLEAN, kind : {"more", "last", "error"}]

-----------------------------------------------------------------------------
(***************************************************************************)
(* The repository (src/state/repository.ts).                               *)
(***************************************************************************)

newRow(token) ==
    [token |-> token, state |-> "QUEUED", startedAt |-> None, completedAt |-> None,
     trinoQueryId |-> None, trinoNextUri |-> None, result |-> None]

\* Mutant: only executions that have not ended are looked up by token.
liveHoldersOf(token) ==
    {id \in Starts : db[id] # None /\ db[id].token = token
                     /\ db[id].state \notin terminalQueryStates}

\* The rows that hold a token: at most one, the column is UNIQUE.
holdersOf(token) == {id \in Starts : db[id] # None /\ db[id].token = token}

\* `??`: the update's value, or the current one where the update has none.
orElse(value, current) == IF value = None THEN current ELSE value

\* Mutant: every write of RUNNING stamps the start again.
restampState(row, call, update) ==
    [token        |-> row.token,
     state        |-> update.state,
     startedAt    |-> IF update.state = "RUNNING" THEN call ELSE row.startedAt,
     completedAt  |-> IF update.state \in terminalQueryStates THEN call
                      ELSE row.completedAt,
     trinoQueryId |-> orElse(update.trinoQueryId, row.trinoQueryId),
     trinoNextUri |-> orElse(update.trinoNextUri, row.trinoNextUri),
     result       |-> orElse(update.result, row.result)]

\* The row after UPDATE: the start is stamped once, an end is stamped on
\* every write of a terminal state, the other columns are merged.
updateState(row, call, update) ==
    [token        |-> row.token,
     state        |-> update.state,
     startedAt    |-> IF update.state = "RUNNING" THEN orElse(row.startedAt, call)
                      ELSE row.startedAt,
     completedAt  |-> IF update.state \in terminalQueryStates THEN call
                      ELSE row.completedAt,
     trinoQueryId |-> orElse(update.trinoQueryId, row.trinoQueryId),
     trinoNextUri |-> orElse(update.trinoNextUri, row.trinoNextUri),
     result       |-> orElse(update.result, row.result)]

\* The updates the facade asks for.
toState(state) ==
    [state |-> state, trinoQueryId |-> None, trinoNextUri |-> None, result |-> None]
submittedAs(call, page) ==
    [toState("RUNNING") EXCEPT
        !.trinoQueryId = call,
        !.trinoNextUri = IF page.kind = "more" THEN call ELSE None]
succeededWith(result) == [toState("SUCCEEDED") EXCEPT !.result = result]

-----------------------------------------------------------------------------
(***************************************************************************)
(* How a Start handler ends (#execute, src/facade/service.ts).             *)
(***************************************************************************)

\* The handler of call c is resumed with the table as given, writes the
\* outcome and answers.  A refused write throws into the catch block, which
\* writes FAILED; where that is refused too the request answers 500.
Settle(c, table, update) ==
    LET id    == target[c]
        write == [table EXCEPT ![id] = updateState(@, c, update)]
        fail  == [table EXCEPT ![id] = updateState(@, c, toState("FAILED"))]
        from  == table[id].state
    IN  \/ /\ canTransitionQueryState(from, update.state)
           /\ db' = write
           /\ pc' = [pc EXCEPT ![c] = "ok"]
        \/ /\ ~canTransitionQueryState(from, update.state)
           /\ canTransitionQueryState(from, "FAILED")
           /\ db' = fail
           /\ pc' = [pc EXCEPT ![c] = "ok"]
        \/ /\ ~canTransitionQueryState(from, update.state)
           /\ ~canTransitionQueryState(from, "FAILED")
           /\ db' = table
           /\ pc' = [pc EXCEPT ![c] = "internal"]

\* An exception inside the try block.
Throw(c, table) == Settle(c, table, toState("FAILED"))

\* Mutant: the loop is left before the rows of the last page are collected.
HandlePageLate(c, table, page) ==
    /\ rows' = IF page.data /\ page.kind # "last"
               THEN [rows EXCEPT ![c] = Append(@, <<c, trino[c].sent + 1>>)]
               ELSE rows
    /\ \/ /\ page.kind = "error"
          /\ Settle(c, table, toState("FAILED"))
       \/ /\ page.kind = "more"
          /\ db' = table
          /\ pc' = [pc EXCEPT ![c] = "fetch"]
       \/ /\ page.kind = "last"
          /\ db' = table
          /\ pc' = [pc EXCEPT ![c] = "write"]

\* One turn of the page loop: collect, then fail, fetch the next page, or
\* leave the loop and write the CSV.
HandlePage(c, table, page) ==
    /\ rows' = IF page.data
               THEN [rows EXCEPT ![c] = Append(@, <<c, trino[c].sent + 1>>)]
               ELSE rows
    /\ \/ /\ page.kind = "error"
          /\ Settle(c, table, toState("FAILED"))
       \/ /\ page.kind = "more"
          /\ db' = table
          /\ pc' = [pc EXCEPT ![c] = "fetch"]
       \/ /\ page.kind = "last" /\ target[c] \in BadOutput
          /\ Throw(c, table)
       \/ /\ page.kind = "last" /\ target[c] \notin BadOutput
          /\ db' = table
          /\ pc' = [pc EXCEPT ![c] = "write"]

\* External: Trino answers a statement or next-URI request with a page.  A
\* cancelled query answers with an error page.
TrinoAnswers(c, page) ==
    \/ /\ trino[c].state = "active"
       /\ page.data => trino[c].sent < MaxPages
       /\ trino' = [trino EXCEPT
            ![c].state = IF page.kind = "more" THEN "active"
                         ELSE IF page.kind = "last" THEN "finished" ELSE "failed",
            ![c].sent  = IF page.data THEN @ + 1 ELSE @]
    \/ /\ trino[c].state = "cancelled"
       /\ page = [data |-> FALSE, kind |-> "error"]
       /\ trino' = trino

-----------------------------------------------------------------------------
(***************************************************************************)
(* StartQueryExecution.                                                    *)
(***************************************************************************)

\* The handler up to its first await: the row of the token, created if there
\* is none; an execution past QUEUED is returned as it is, any other is
\* executed by this call, whoever created it.
StartQueryExecution(c) ==
    /\ pc[c] = "idle"
    /\ \/ /\ holdersOf(TokenOf[c]) = {}
          /\ db' = [db EXCEPT ![c] = newRow(TokenOf[c])]
          /\ target' = [target EXCEPT ![c] = c]
          /\ pc' = [pc EXCEPT ![c] = "submit"]
       \/ \E id \in holdersOf(TokenOf[c]) :
          /\ target' = [target EXCEPT ![c] = id]
          /\ pc' = [pc EXCEPT ![c] = IF db[id].state = "QUEUED" THEN "submit"
                                     ELSE "returned"]
          /\ db' = db
    /\ UNCHANGED <<rows, seen, trino, storage, crashes>>

\* External: Trino takes the statement and starts a query.
TrinoAccepts(c) ==
    /\ pc[c] = "submit"
    /\ pc' = [pc EXCEPT ![c] = "accepted"]
    /\ trino' = [trino EXCEPT ![c].state = "active"]
    /\ UNCHANGED <<db, target, rows, seen, storage, crashes>>

\* trino.submit returns: RUNNING is recorded, then the first page is handled.
SubmitReturns(c) ==
    /\ pc[c] = "accepted"
    /\ \E page \in Page :
       /\ TrinoAnswers(c, page)
       /\ \/ /\ canTransitionQueryState(db[target[c]].state, "RUNNING")
             /\ HandlePage(c, [db EXCEPT ![target[c]] =
                                updateState(@, c, submittedAs(c, page))], page)
          \/ /\ ~canTransitionQueryState(db[target[c]].state, "RUNNING")
             /\ Throw(c, db)
             /\ rows' = rows
    /\ UNCHANGED <<target, seen, storage, crashes>>

\* trino.submit throws, before or after Trino took the statement.
SubmitThrows(c) ==
    /\ pc[c] \in {"submit", "accepted"}
    /\ Throw(c, db)
    /\ UNCHANGED <<target, rows, seen, trino, storage, crashes>>

\* trino.fetchNext returns a page.
FetchReturns(c) ==
    /\ pc[c] = "fetch"
    /\ \E page \in Page : TrinoAnswers(c, page) /\ HandlePage(c, db, page)
    /\ UNCHANGED <<target, seen, storage, crashes>>

\* Mutant: an exception of fetchNext is not caught.
FetchRejects(c) ==
    /\ pc[c] = "fetch"
    /\ pc' = [pc EXCEPT ![c] = "internal"]
    /\ UNCHANGED <<db, target, rows, seen, trino, storage, crashes>>

\* trino.fetchNext throws.
FetchThrows(c) ==
    /\ pc[c] = "fetch"
    /\ Throw(c, db)
    /\ UNCHANGED <<target, rows, seen, trino, storage, crashes>>

\* External: the object store has the CSV.
StorageWrites(c) ==
    /\ pc[c] = "write"
    /\ pc' = [pc EXCEPT ![c] = "stored"]
    /\ storage' = [storage EXCEPT ![target[c]] = rows[c]]
    /\ UNCHANGED <<db, target, rows, seen, trino, crashes>>

\* Mutant: SUCCEEDED is written without waiting for the object store.
WriteDoesNotWait(c) ==
    /\ pc[c] \in {"write", "stored"}
    /\ Settle(c, db, succeededWith(rows[c]))
    /\ UNCHANGED <<target, rows, seen, trino, storage, crashes>>

\* materializeCsvResult returns: SUCCEEDED with the rows.
WriteReturns(c) ==
    /\ pc[c] = "stored"
    /\ Settle(c, db, succeededWith(rows[c]))
    /\ UNCHANGED <<target, rows, seen, trino, storage, crashes>>

\* Mutant: a failed upload is tried again, without end.
WriteRetries(c) ==
    /\ pc[c] \in {"write", "stored"}
    /\ pc' = [pc EXCEPT ![c] = "write"]
    /\ UNCHANGED <<db, target, rows, seen, trino, storage, crashes>>

\* materializeCsvResult throws, before or after the object was written.
WriteThrows(c) ==
    /\ pc[c] \in {"write", "stored"}
    /\ Throw(c, db)
    /\ UNCHANGED <<target, rows, seen, trino, storage, crashes>>

-----------------------------------------------------------------------------
(***************************************************************************)
(* StopQueryExecution.                                                     *)
(***************************************************************************)

\* Mutant: an execution that has ended meanwhile is taken for a stopped one.
WriteCancelledIfLive(s, id) ==
    \/ /\ db[id].state \notin terminalQueryStates
       /\ db' = [db EXCEPT ![id] = updateState(@, s, toState("CANCELLED"))]
       /\ pc' = [pc EXCEPT ![s] = "ok"]
    \/ /\ db[id].state \in terminalQueryStates
       /\ db' = db
       /\ pc' = [pc EXCEPT ![s] = "ok"]

\* The handler of call s writes CANCELLED and answers; a refused write
\* answers 500.
WriteCancelled(s, id) ==
    \/ /\ canTransitionQueryState(db[id].state, "CANCELLED")
       /\ db' = [db EXCEPT ![id] = updateState(@, s, toState("CANCELLED"))]
       /\ pc' = [pc EXCEPT ![s] = "ok"]
    \/ /\ ~canTransitionQueryState(db[id].state, "CANCELLED")
       /\ db' = db
       /\ pc' = [pc EXCEPT ![s] = "internal"]

\* Mutant: the next URI comes from whichever other query is running.
readAnyQuery(id) ==
    LET others == {r \in Starts \ {id} : db[r] # None /\ db[r].trinoNextUri # None}
    IN  [state |-> db[id].state,
         trinoNextUri |-> IF others = {} THEN db[id].trinoNextUri
                          ELSE db[CHOOSE r \in others : TRUE].trinoNextUri]

\* What a Stop reads of the row and keeps over its await.
readRecord(id) == [state |-> db[id].state, trinoNextUri |-> db[id].trinoNextUri]

\* The handler up to its await: an unknown id is refused; a RUNNING row with
\* a next URI is first cancelled in Trino; other live rows are CANCELLED at
\* once; a terminal row is left alone.
StopQueryExecution(s) ==
    /\ pc[s] = "idle"
    /\ \E id \in Starts :
       /\ target' = [target EXCEPT ![s] = id]
       /\ \/ /\ db[id] = None
             /\ pc' = [pc EXCEPT ![s] = "invalid"]
             /\ UNCHANGED <<db, seen>>
          \/ /\ db[id] # None
             /\ seen' = [seen EXCEPT ![s] = readRecord(id)]
             /\ \/ /\ db[id].state = "RUNNING" /\ db[id].trinoNextUri # None
                   /\ pc' = [pc EXCEPT ![s] = "delete"]
                   /\ db' = db
                \/ /\ \/ db[id].state = "QUEUED"
                      \/ db[id].state = "RUNNING" /\ db[id].trinoNextUri = None
                   /\ WriteCancelled(s, id)
                \/ /\ db[id].state \in terminalQueryStates
                   /\ pc' = [pc EXCEPT ![s] = "ok"]
                   /\ db' = db
    /\ UNCHANGED <<rows, trino, storage, crashes>>

\* External: Trino takes the DELETE; a query that is over stays as it is.
TrinoCancels(s) ==
    /\ pc[s] = "delete"
    /\ pc' = [pc EXCEPT ![s] = "deleted"]
    /\ trino' = [trino EXCEPT ![seen[s].trinoNextUri].state =
                    IF @ = "active" THEN "cancelled" ELSE @]
    /\ UNCHANGED <<db, target, rows, seen, storage, crashes>>

\* trino.cancel returns: the row was live when it was read, so CANCELLED is
\* written over whatever it has become since.
CancelReturns(s) ==
    /\ pc[s] = "deleted"
    /\ WriteCancelled(s, target[s])
    /\ UNCHANGED <<target, rows, seen, trino, storage, crashes>>

\* Mutant: an execution that cannot be cancelled is FAILED.
CancelFails(s) ==
    /\ pc[s] \in Stopping
    /\ pc' = [pc EXCEPT ![s] = "internal"]
    /\ db' = IF db[target[s]].state \in terminalQueryStates THEN db
             ELSE [db EXCEPT ![target[s]] = updateState(@, s, toState("FAILED"))]
    /\ UNCHANGED <<target, rows, seen, trino, storage, crashes>>

\* trino.cancel throws, before or after Trino took the DELETE: 500.
CancelThrows(s) ==
    /\ pc[s] \in Stopping
    /\ pc' = [pc EXCEPT ![s] = "internal"]
    /\ UNCHANGED <<db, target, rows, seen, trino, storage, crashes>>

-----------------------------------------------------------------------------
(***************************************************************************)
(* The process stops at any moment and is started again: suspended         *)
(* handlers are gone, the table is opened as it was left (or empty, when   *)
(* it lived in memory), and nothing looks at the rows it holds.            *)
(***************************************************************************)
Restart ==
    /\ crashes < MaxCrashes
    /\ crashes' = crashes + 1
    /\ pc' = [c \in Calls |-> IF pc[c] \in Executing \cup Stopping THEN "dead" ELSE pc[c]]
    /\ db' = IF Persistent THEN db ELSE [id \in Starts |-> None]
    /\ UNCHANGED <<target, rows, seen, trino, storage>>

Init ==
    /\ db = [id \in Starts |-> None]
    /\ pc = [c \in Calls |-> "idle"]
    /\ target = [c \in Calls |-> None]
    /\ rows = [c \in Starts |-> <<>>]
    /\ seen = [s \in Stops |-> None]
    /\ trino = [c \in Starts |-> [state |-> "none", sent |-> 0]]
    /\ storage = [id \in Starts |-> None]
    /\ crashes = 0

StartStep(c) ==
    \/ StartQueryExecution(c)
    \/ TrinoAccepts(c) \/ SubmitReturns(c) \/ SubmitThrows(c)
    \/ FetchReturns(c) \/ FetchThrows(c)
    \/ StorageWrites(c) \/ WriteReturns(c) \/ WriteThrows(c)

StopStep(s) ==
    \/ StopQueryExecution(s)
    \/ TrinoCancels(s) \/ CancelReturns(s) \/ CancelThrows(s)

Next ==
    \/ \E c \in Starts : StartStep(c)
    \/ \E s \in Stops : StopStep(s)
    \/ Restart

Spec == Init /\ [][Next]_vars

(***************************************************************************)
(* Fairness.  The event loop resumes a handler whose answer has come, and  *)
(* every HTTP exchange ends, with an answer or an error.  For a page       *)
(* request to end the page loop, Trino must also get its query further:    *)
(* pages without rows and with a next URI are stuttering steps here, and   *)
(* only the second formula rules out an endless run of them.               *)
(***************************************************************************)
HandlersRun ==
    /\ \A c \in Starts : WF_vars(SubmitReturns(c) \/ SubmitThrows(c))
    /\ \A c \in Starts : WF_vars(StorageWrites(c) \/ WriteReturns(c) \/ WriteThrows(c))
    /\ \A s \in Stops  : WF_vars(CancelReturns(s) \/ CancelThrows(s))
QueriesProgress == \A c \in Starts : WF_vars(FetchReturns(c) \/ FetchThrows(c))

FairSpec == Spec /\ HandlersRun /\ QueriesProgress

-----------------------------------------------------------------------------
(***************************************************************************)
(* Properties.                                                             *)
(***************************************************************************)

\* The calls that execute the row, and those still at it.
executorsOf(id) ==
    {c \in Starts : target[c] = id /\ pc[c] \notin {"idle", "returned"}}
runningFor(id) == {c \in executorsOf(id) : pc[c] \in Executing}

Live(id) == db[id] # None /\ db[id].state \notin terminalQueryStates

\* Every variable has its type.
TypeOK ==
    /\ db \in [Starts -> Row \cup {None}]
    /\ pc \in [Calls -> Control]
    /\ target \in [Calls -> Starts \cup {None}]
    /\ rows \in [Starts -> Rows]
    /\ seen \in [Stops -> View \cup {None}]
    /\ trino \in [Starts -> [state : {"none", "active", "finished", "failed", "cancelled"},
                             sent : Nat]]
    /\ storage \in [Starts -> Rows \cup {None}]
    /\ crashes \in Nat

\* A ClientRequestToken names one row, whichever calls raced to create it,
\* and every call that got past its lookup works on the row of its own token
\* (createOrGetByToken reads and inserts without an await between).
TokenNamesOneRow ==
    /\ \A i, j \in Starts :
        db[i] # None /\ db[j] # None /\ db[i].token = db[j].token => i = j
    /\ \A c \in Starts :
        pc[c] # "idle" /\ db[target[c]] # None => db[target[c]].token = TokenOf[c]

\* A row that says SUCCEEDED has its rows in the table and its CSV in the
\* object store: GetQueryResults never meets "Query succeeded without
\* persisted result rows", and the advertised S3 location can be read.
SucceededIsReadable ==
    \A id \in Starts :
        db[id] # None /\ db[id].state = "SUCCEEDED" =>
            db[id].result # None /\ storage[id] # None

\* An execution run by one call alone reports exactly what Trino produced:
\* the pages of that call's query, all of them, in order and from a query
\* that ran to its end, the same in the table as in the CSV.
ResultIsTheQuerys ==
    \A id, c \in Starts :
        (db[id] # None /\ db[id].state = "SUCCEEDED" /\ executorsOf(id) = {c}) =>
            /\ trino[c].state = "finished"
            /\ db[id].result = [k \in 1..trino[c].sent |-> <<c, k>>]
            /\ storage[id] = db[id].result

\* The next URI a row stores, which Stop sends its DELETE to, is the URI of a
\* Trino query that was submitted for that very row; and so is the one a Stop
\* has already read.
CancelHitsOwnQuery ==
    /\ \A id \in Starts :
        db[id] # None /\ db[id].trinoNextUri # None =>
            /\ target[db[id].trinoNextUri] = id
            /\ trino[db[id].trinoNextUri].state # "none"
    /\ \A s \in Stops :
        pc[s] \in Stopping => target[seen[s].trinoNextUri] = target[s]

\* While the process has not been restarted, a live row is being worked on:
\* no path through #execute leaves it QUEUED or RUNNING with nobody to finish
\* it.
LiveRowHasAHandler ==
    crashes = 0 => \A id \in Starts : Live(id) => runningFor(id) # {}

\* A Start that has executed its query and answers leaves a terminal row; it
\* answers 500 only when someone else ended the row before it could: a Stop,
\* or a second call with the same token.
StartAnswer ==
    \A c \in Starts :
        LET id == target[c] IN
        /\ pc[c] \in {"ok", "internal"} => ~Live(id)
        /\ pc[c] = "internal" /\ db[id] # None =>
              db[id].state # "FAILED" /\ db[id].completedAt # c

\* A Stop that answers 200 for an execution it found live has CANCELLED it,
\* for good, whatever other handlers did during the DELETE.
StopAnswer ==
    \A s \in Stops :
        (pc[s] = "ok" /\ seen[s].state \notin terminalQueryStates /\ db[target[s]] # None)
            => db[target[s]].state = "CANCELLED"

\* CANCELLED is never written by anyone but a Stop, and FAILED and SUCCEEDED
\* never by a Stop: the stamp of the end belongs to the kind of call that can
\* decide it.
EndedBy ==
    \A id \in Starts :
        db[id] # None /\ db[id].state \in terminalQueryStates =>
            \/ db[id].state = "CANCELLED" /\ db[id].completedAt \in Stops
            \/ db[id].state # "CANCELLED" /\ db[id].completedAt \in executorsOf(id)

KeepsEnds ==
    \A id \in Starts :
        db[id] # None /\ (Persistent \/ crashes' = crashes) =>
            /\ db'[id] # None
            /\ db[id].state \in terminalQueryStates => db'[id].state = db[id].state
            /\ db[id].state # "QUEUED" => db'[id].state # "QUEUED"
            /\ db[id].startedAt # None => db'[id].startedAt = db[id].startedAt

\* A row that has ended keeps its state, a row never gets back to QUEUED, the
\* start is stamped once, and no row disappears, except when an in-memory
\* table is lost with the process.
StateIsFinal == [][KeepsEnds]_vars

\* Every request is answered when the process keeps running, Trino's queries
\* get on and every HTTP exchange ends.
CallsAreAnswered ==
    \A c \in Calls : pc[c] \in Executing \cup Stopping ~> pc[c] \in Answered

-----------------------------------------------------------------------------
(***************************************************************************)
(* What a document says and the code does not do.                          *)
(***************************************************************************)

\* README.md: StartQueryExecution "honors ClientRequestToken idempotency".
\* One token starts one Trino query.
TokenStartsOneQuery ==
    \A c, d \in Starts :
        (TokenOf[c] = TokenOf[d] /\ trino[c].state # "none" /\ trino[d].state # "none")
            => c = d

=============================================================================
