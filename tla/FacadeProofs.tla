---------------------------- MODULE FacadeProofs ----------------------------
(***************************************************************************)
(* Proofs about Facade, its refinement of the lifecycle, and the query     *)
(* command, the reader of results and the shutdown around it, for any      *)
(* requests, tokens, page and restart bounds.                              *)
(*                                                                         *)
(* The argument about Facade has two halves.  Every action that resumes a  *)
(* Start handler is first shown to be an instance of one relation,         *)
(* Resumed(c): what any such step may do to the row and to the handler.    *)
(* Then Resumed, the requests' first steps, the external steps and Restart *)
(* are shown to keep the core of the inductive invariant.                  *)
(*                                                                         *)
(* Whatever happens around the query command is, to the facade, one of its *)
(* own steps or a write that a closed table refuses.  Such a step keeps    *)
(* the core and what it says of results; then, what the command and the    *)
(* reader remember of a row stays true of it, because an execution that    *)
(* has ended keeps its end and its pages.                                  *)
(***************************************************************************)
EXTENDS FacadeRefinement, QueryCommand, SequenceTheorems, TLAPS

Terminal(row) == row.state \in terminalQueryStates

(***************************************************************************)
(* The inductive invariant.                                                *)
(***************************************************************************)

\* Which control points Starts and Stops can be at.
ControlOK ==
    /\ \A c \in Starts : pc[c] \notin Stopping \cup {"invalid"}
    /\ \A s \in Stops : pc[s] \notin Executing \cup {"returned"}

\* A request that has begun has a target, and the request that names the
\* target has begun too, so no row is ever created twice; one that has not
\* begun has left no trace.
TargetOK ==
    /\ \A c \in Calls : pc[c] = "idle" => target[c] = None
    /\ \A c \in Starts : pc[c] # "idle" => target[c] \in Starts /\ pc[target[c]] # "idle"
    /\ \A s \in Stops : pc[s] # "idle" => target[s] \in Starts
    /\ \A s \in Stops : pc[s] \in Stopping \cup {"ok"} => pc[target[s]] # "idle" /\ seen[s] # None
    /\ \A id \in Starts : db[id] # None => pc[id] # "idle"

\* A suspended handler's row is there.
RowOK ==
    /\ \A c \in Starts : pc[c] \in Executing => db[target[c]] # None
    /\ \A s \in Stops : pc[s] \in Stopping => db[target[s]] # None

\* The external side has what the handler's progress says it has.
ExternalOK ==
    /\ \A c \in Starts : pc[c] = "idle" => trino[c].state = "none"
    /\ \A c \in Starts : pc[c] \in {"accepted", "fetch", "write", "stored"} => trino[c].state # "none"
    /\ \A c \in Starts : pc[c] = "stored" => storage[target[c]] # None

\* The URI a suspended Stop holds is that of a query of its target.
SeenOK ==
    \A s \in Stops : pc[s] \in Stopping => seen[s].trinoNextUri \in Starts

\* The stamp of an end belongs to a request that has answered 200 for that
\* row, a Stop exactly when the state is CANCELLED.
EndOK ==
    \A id \in Starts : db[id] # None =>
        /\ db[id].completedAt # None =>
              pc[db[id].completedAt] = "ok" /\ target[db[id].completedAt] = id
        /\ Terminal(db[id]) =>
              \/ db[id].state = "CANCELLED" /\ db[id].completedAt \in Stops
              \/ db[id].state # "CANCELLED" /\ db[id].completedAt \in Starts

\* A Start that has answered 200 leaves no row under way.
OkOK == \A c \in Starts : pc[c] = "ok" => ~Live(target[c])

\* What holds of the handlers whether or not the table they write to is open.
Core ==
    /\ TypeOK /\ ControlOK /\ TargetOK /\ RowOK /\ ExternalOK /\ SeenOK /\ EndOK
    /\ TokenNamesOneRow /\ SucceededIsReadable /\ CancelHitsOwnQuery
    /\ OkOK /\ StopAnswer

\* And what holds only while no write is lost.
IInv == Core /\ LiveRowHasAHandler /\ StartAnswer

\* A step keeps the core by the core alone, and each of the other two by
\* itself.
Kept ==
    /\ Core'
    /\ LiveRowHasAHandler => LiveRowHasAHandler'
    /\ StartAnswer => StartAnswer'

(***************************************************************************)
(* Writes of a row.                                                        *)
(***************************************************************************)
Update == [state : QueryState, trinoQueryId : Starts \cup {None},
           trinoNextUri : Starts \cup {None}, result : Rows \cup {None}]

LEMMA UpdateType ==
    ASSUME NEW row \in Row, NEW call \in Calls, NEW update \in Update
    PROVE  updateState(row, call, update) \in Row
<1>1. row.startedAt \in Calls \cup {None} /\ row.completedAt \in Calls \cup {None}
      /\ row.trinoQueryId \in Starts \cup {None} /\ row.trinoNextUri \in Starts \cup {None}
      /\ row.result \in Rows \cup {None}
  BY DEF Row
<1>2. update.state \in QueryState /\ update.trinoQueryId \in Starts \cup {None}
      /\ update.trinoNextUri \in Starts \cup {None} /\ update.result \in Rows \cup {None}
  BY DEF Update
<1>3. orElse(row.startedAt, call) \in Calls \cup {None}
      /\ orElse(update.trinoQueryId, row.trinoQueryId) \in Starts \cup {None}
      /\ orElse(update.trinoNextUri, row.trinoNextUri) \in Starts \cup {None}
      /\ orElse(update.result, row.result) \in Rows \cup {None}
  BY <1>1, <1>2 DEF orElse
<1>5. row.token \in Tokens
  BY DEF Row
<1>6. /\ (IF update.state = "RUNNING" THEN orElse(row.startedAt, call) ELSE row.startedAt)
            \in Calls \cup {None}
      /\ (IF update.state \in terminalQueryStates THEN call ELSE row.completedAt)
            \in Calls \cup {None}
  BY <1>1, <1>3
<1>. QED
  BY <1>2, <1>3, <1>5, <1>6 DEF updateState, Row

LEMMA ToStateType ==
    ASSUME NEW state \in QueryState
    PROVE  toState(state) \in Update
BY DEF toState, Update

LEMMA SubmittedType ==
    ASSUME NEW c \in Starts, NEW page \in Page
    PROVE  submittedAs(c, page) \in Update
BY DEF submittedAs, toState, Update, QueryState

LEMMA SucceededType ==
    ASSUME NEW result \in Rows
    PROVE  succeededWith(result) \in Update
BY DEF succeededWith, toState, Update, QueryState

LEMMA NewRowType ==
    ASSUME NEW token \in Tokens
    PROVE  newRow(token) \in Row
BY DEF newRow, Row, QueryState

LEMMA AppendType ==
    ASSUME NEW s \in Rows, NEW c \in Starts, NEW n \in Nat
    PROVE  Append(s, <<c, n>>) \in Rows
BY DEF Rows

(***************************************************************************)
(* What a write does to the columns the invariant speaks of.               *)
(***************************************************************************)
LEMMA UpdateColumns ==
    ASSUME NEW row \in Row, NEW call \in Calls, NEW update \in Update,
           NEW new, new = updateState(row, call, update)
    PROVE  /\ new \in Row
           /\ new.state = update.state
           /\ new.token = row.token
           /\ row.startedAt # None => new.startedAt = row.startedAt
           /\ update.state \in terminalQueryStates => new.completedAt = call
           /\ update.state \notin terminalQueryStates => new.completedAt = row.completedAt
           /\ new.trinoNextUri \in {row.trinoNextUri, update.trinoNextUri}
           /\ update.result # None => new.result = update.result
           /\ update.result = None => new.result = row.result
<1>1. new \in Row
  BY UpdateType
<1>2. /\ new.state = update.state
      /\ new.token = row.token
      /\ new.startedAt = IF update.state = "RUNNING" THEN orElse(row.startedAt, call)
                         ELSE row.startedAt
      /\ new.completedAt = IF update.state \in terminalQueryStates THEN call
                           ELSE row.completedAt
      /\ new.trinoNextUri = orElse(update.trinoNextUri, row.trinoNextUri)
      /\ new.result = orElse(update.result, row.result)
  BY DEF updateState, Row
<1>. QED
  BY <1>1, <1>2 DEF orElse

\* How the row of a Start handler's target, and the handler, may change when
\* the handler is resumed: old and new rows, and the next control point.
RowChange(c, old, new, p) ==
    /\ new \in Row
    /\ new.token = old.token
    /\ Terminal(old) => new.state = old.state
    /\ old.state # "QUEUED" => new.state # "QUEUED"
    /\ old.startedAt # None => new.startedAt = old.startedAt
    /\ new.trinoNextUri # old.trinoNextUri /\ new.trinoNextUri # None =>
          new.trinoNextUri = c /\ pc[c] = "accepted"
    /\ new.state = "SUCCEEDED" /\ new # old =>
          pc[c] = "stored" /\ new.result = rows[c]
    /\ p \in {"ok", "internal", "fetch", "write"}
    /\ p = "ok" => new.state \in {"SUCCEEDED", "FAILED"} /\ new.completedAt = c
    /\ p = "internal" => new = old /\ old.state \in {"SUCCEEDED", "CANCELLED"}
    /\ p \in {"fetch", "write"} =>
          /\ pc[c] \in {"accepted", "fetch"}
          /\ new.completedAt = old.completedAt
          /\ new.state # old.state => new.state = "RUNNING" /\ ~Terminal(old)

Resumed(c) ==
    \E new \in Row, p \in {"ok", "internal", "fetch", "write"} :
        /\ RowChange(c, db[target[c]], new, p)
        /\ db' = [db EXCEPT ![target[c]] = new]
        /\ pc' = [pc EXCEPT ![c] = p]

LEMMA CanTransition ==
    ASSUME NEW from \in QueryState, NEW to \in QueryState
    PROVE  canTransitionQueryState(from, to) <=>
             \/ from = to
             \/ from = "QUEUED"
             \/ from = "RUNNING" /\ to # "QUEUED"
BY DEF canTransitionQueryState, allowedTransitions, QueryState, terminalQueryStates

\* An outcome settled on a table whose row of the target is old.
LEMMA SettleOutcome ==
    ASSUME NEW c \in Starts, target[c] \in Starts,
           NEW table \in [Starts -> Row \cup {None}], table[target[c]] \in Row,
           NEW update \in Update, update.state \in {"SUCCEEDED", "FAILED"},
           update.state = "SUCCEEDED" <=> update.result # None,
           update.trinoNextUri = None,
           Settle(c, table, update)
    PROVE  LET old == table[target[c]] IN
           \E new \in Row, p \in {"ok", "internal"} :
              /\ db' = [table EXCEPT ![target[c]] = new]
              /\ pc' = [pc EXCEPT ![c] = p]
              /\ new.token = old.token
              /\ Terminal(old) => new.state = old.state
              /\ old.startedAt # None => new.startedAt = old.startedAt
              /\ new.trinoNextUri = old.trinoNextUri \/ new.trinoNextUri = None
              /\ new.state # "QUEUED"
              /\ p = "ok" => new.state \in {update.state, "FAILED"} /\ new.completedAt = c
              /\ p = "ok" /\ new.state = "SUCCEEDED" => new.result = update.result
              /\ p = "internal" => new = old /\ old.state \in {"SUCCEEDED", "CANCELLED"}
<1>. DEFINE id    == target[c]
            old   == table[id]
            good  == updateState(old, c, update)
            bad   == updateState(old, c, toState("FAILED"))
<1>1. c \in Calls /\ old.state \in QueryState /\ "FAILED" \in QueryState /\ update.state \in QueryState
  BY DEF Calls, Row, QueryState
<1>2. toState("FAILED") \in Update /\ toState("FAILED").state = "FAILED"
      /\ toState("FAILED").trinoNextUri = None /\ toState("FAILED").result = None
  BY <1>1, ToStateType DEF toState
<1>3. /\ good \in Row
      /\ good.state = update.state
      /\ good.token = old.token
      /\ old.startedAt # None => good.startedAt = old.startedAt
      /\ good.completedAt = c
      /\ good.trinoNextUri \in {old.trinoNextUri, None}
      /\ update.state = "SUCCEEDED" => good.result = update.result
  BY <1>1, UpdateColumns DEF terminalQueryStates
<1>4. /\ bad \in Row
      /\ bad.state = "FAILED"
      /\ bad.token = old.token
      /\ old.startedAt # None => bad.startedAt = old.startedAt
      /\ bad.completedAt = c
      /\ bad.trinoNextUri \in {old.trinoNextUri, None}
  BY <1>1, <1>2, UpdateColumns DEF terminalQueryStates
<1>5. CASE /\ canTransitionQueryState(old.state, update.state)
           /\ db' = [table EXCEPT ![id] = good]
           /\ pc' = [pc EXCEPT ![c] = "ok"]
  <2>1. Terminal(old) => good.state = old.state
    BY <1>1, <1>3, <1>5, CanTransition DEF Terminal, terminalQueryStates
  <2>. QED
    BY <1>3, <1>5, <2>1
<1>6. CASE /\ canTransitionQueryState(old.state, "FAILED")
           /\ db' = [table EXCEPT ![id] = bad]
           /\ pc' = [pc EXCEPT ![c] = "ok"]
  <2>1. Terminal(old) => bad.state = old.state
    BY <1>1, <1>4, <1>6, CanTransition DEF Terminal, terminalQueryStates
  <2>. QED
    BY <1>4, <1>6, <2>1
<1>7. CASE /\ ~canTransitionQueryState(old.state, "FAILED")
           /\ db' = table
           /\ pc' = [pc EXCEPT ![c] = "internal"]
  <2>1. old.state \in {"SUCCEEDED", "CANCELLED"}
    BY <1>1, <1>7, CanTransition DEF QueryState
  <2>2. db' = [table EXCEPT ![id] = old]
    BY <1>7
  <2>. QED
    BY <1>7, <2>1, <2>2
<1>. QED
  BY <1>5, <1>6, <1>7 DEF Settle

(***************************************************************************)
(* Every action that resumes a Start handler is an instance of Resumed.    *)
(***************************************************************************)

\* What those actions leave alone, or touch only within its type.
Frame(c) ==
    /\ UNCHANGED <<target, seen, storage, crashes>>
    /\ rows' \in [Starts -> Rows]
    /\ trino' \in [Starts -> [state : {"none", "active", "finished", "failed", "cancelled"},
                               sent : Nat]]
    /\ \A d \in Starts : trino'[d].state = "none" <=> trino[d].state = "none"

LEMMA Handler ==
    ASSUME Core, NEW c \in Starts, pc[c] \in Executing
    PROVE  /\ c \in Calls /\ target[c] \in Starts
           /\ db[target[c]] # None /\ db[target[c]] \in Row
           /\ db \in [Starts -> Row \cup {None}] /\ pc \in [Calls -> Control]
           /\ rows \in [Starts -> Rows]
<1>1. c \in Calls /\ pc[c] # "idle"
  BY DEF Calls, Executing
<1>. QED
  BY <1>1 DEF Core, TypeOK, TargetOK, RowOK

LEMMA ThrowResumed ==
    ASSUME Core, NEW c \in Starts, pc[c] \in Executing, Throw(c, db)
    PROVE  Resumed(c)
<1>1. /\ target[c] \in Starts /\ db[target[c]] \in Row
      /\ db \in [Starts -> Row \cup {None}]
  BY Handler
<1>2. toState("FAILED") \in Update /\ toState("FAILED").state = "FAILED"
      /\ toState("FAILED").trinoNextUri = None /\ toState("FAILED").result = None
  BY ToStateType DEF toState, QueryState
<1>3. PICK new \in Row, p \in {"ok", "internal"} :
              /\ db' = [db EXCEPT ![target[c]] = new]
              /\ pc' = [pc EXCEPT ![c] = p]
              /\ new.token = db[target[c]].token
              /\ Terminal(db[target[c]]) => new.state = db[target[c]].state
              /\ db[target[c]].startedAt # None => new.startedAt = db[target[c]].startedAt
              /\ new.trinoNextUri = db[target[c]].trinoNextUri \/ new.trinoNextUri = None
              /\ new.state # "QUEUED"
              /\ p = "ok" => new.state = "FAILED" /\ new.completedAt = c
              /\ p = "internal" => new = db[target[c]]
                                   /\ db[target[c]].state \in {"SUCCEEDED", "CANCELLED"}
  BY <1>1, <1>2, SettleOutcome DEF Throw
<1>4. RowChange(c, db[target[c]], new, p)
  BY <1>3 DEF RowChange
<1>. QED
  BY <1>3, <1>4 DEF Resumed

LEMMA Answers ==
    ASSUME TypeOK, NEW c \in Starts, NEW page \in Page, TrinoAnswers(c, page)
    PROVE  /\ trino' \in [Starts -> [state : {"none", "active", "finished", "failed", "cancelled"},
                                      sent : Nat]]
           /\ \A d \in Starts : trino'[d].state = "none" <=> trino[d].state = "none"
<1>. DEFINE states == {"none", "active", "finished", "failed", "cancelled"}
<1>1. trino \in [Starts -> [state : states, sent : Nat]]
  BY DEF TypeOK
<1>2. CASE trino' = trino
  BY <1>1, <1>2
<1>3. CASE trino[c].state = "active"
           /\ \E st \in {"active", "finished", "failed"}, n \in Nat :
                 trino' = [trino EXCEPT ![c].state = st, ![c].sent = n]
  <2>1. PICK st \in {"active", "finished", "failed"}, n \in Nat :
           trino' = [trino EXCEPT ![c].state = st, ![c].sent = n]
    BY <1>3
  <2>2. /\ trino'[c] = [state |-> st, sent |-> n]
        /\ \A d \in Starts \ {c} : trino'[d] = trino[d]
        /\ DOMAIN trino' = Starts
    BY <1>1, <2>1
  <2>. QED
    BY <1>1, <1>3, <2>1, <2>2
<1>. QED
  <2>1. trino[c].sent \in Nat /\ trino[c].sent + 1 \in Nat
    BY <1>1
  <2>. QED
    BY <1>2, <1>3, <2>1 DEF TrinoAnswers

LEMMA PageRows ==
    ASSUME TypeOK, NEW c \in Starts, NEW page \in Page, NEW table,
           HandlePage(c, table, page)
    PROVE  rows' \in [Starts -> Rows]
<1>1. Append(rows[c], <<c, trino[c].sent + 1>>) \in Rows
  BY AppendType DEF TypeOK
<1>. QED
  BY <1>1 DEF TypeOK, HandlePage

LEMMA FetchResumed ==
    ASSUME Core, NEW c \in Starts, FetchReturns(c)
    PROVE  Resumed(c) /\ Frame(c)
<1>. TypeOK /\ pc[c] = "fetch" /\ pc[c] \in Executing
  BY DEF Core, FetchReturns, Executing
<1>1. PICK page \in Page : TrinoAnswers(c, page) /\ HandlePage(c, db, page)
  BY DEF FetchReturns
<1>2. Frame(c)
  BY <1>1, Answers, PageRows DEF FetchReturns, Frame
<1>3. CASE Settle(c, db, toState("FAILED"))
  BY <1>2, <1>3, ThrowResumed DEF Throw
<1>4. CASE db' = db /\ \E p \in {"fetch", "write"} : pc' = [pc EXCEPT ![c] = p]
  <2>1. PICK p \in {"fetch", "write"} : pc' = [pc EXCEPT ![c] = p]
    BY <1>4
  <2>2. db[target[c]] \in Row /\ db' = [db EXCEPT ![target[c]] = db[target[c]]]
    BY <1>4, Handler
  <2>3. RowChange(c, db[target[c]], db[target[c]], p)
    BY <2>1, <2>2 DEF RowChange
  <2>. QED
    BY <1>2, <2>1, <2>2, <2>3 DEF Resumed
<1>. QED
  BY <1>1, <1>3, <1>4 DEF HandlePage, Throw

LEMMA SubmitResumed ==
    ASSUME Core, NEW c \in Starts, SubmitReturns(c)
    PROVE  Resumed(c) /\ Frame(c)
<1>. DEFINE id  == target[c]
            old == db[id]
<1>. TypeOK /\ pc[c] = "accepted" /\ pc[c] \in Executing
  BY DEF Core, SubmitReturns, Executing
<1>1. /\ c \in Calls /\ id \in Starts /\ old \in Row
      /\ db \in [Starts -> Row \cup {None}] /\ rows \in [Starts -> Rows]
  BY Handler
<1>2. PICK page \in Page :
        /\ TrinoAnswers(c, page)
        /\ \/ /\ canTransitionQueryState(old.state, "RUNNING")
              /\ HandlePage(c, [db EXCEPT ![id] =
                                 updateState(old, c, submittedAs(c, page))], page)
           \/ Throw(c, db) /\ rows' = rows
  BY DEF SubmitReturns
<1>3. CASE Throw(c, db) /\ rows' = rows
  <2>1. Frame(c)
    BY <1>1, <1>2, <1>3, Answers DEF SubmitReturns, Frame
  <2>. QED
    BY <1>3, <2>1, ThrowResumed
<1>4. CASE /\ canTransitionQueryState(old.state, "RUNNING")
           /\ HandlePage(c, [db EXCEPT ![id] =
                              updateState(old, c, submittedAs(c, page))], page)
  <2>. DEFINE run   == updateState(old, c, submittedAs(c, page))
              table == [db EXCEPT ![id] = run]
  <2>1. Frame(c)
    BY <1>2, <1>4, Answers, PageRows DEF SubmitReturns, Frame
  <2>2. /\ submittedAs(c, page) \in Update
        /\ submittedAs(c, page).state = "RUNNING"
        /\ submittedAs(c, page).result = None
        /\ submittedAs(c, page).trinoNextUri \in {None, c}
    BY SubmittedType DEF submittedAs, toState
  <2>3. /\ run \in Row /\ run.state = "RUNNING" /\ run.token = old.token
        /\ old.startedAt # None => run.startedAt = old.startedAt
        /\ run.completedAt = old.completedAt
        /\ run.trinoNextUri \in {old.trinoNextUri, None, c}
    BY <1>1, <2>2, UpdateColumns DEF terminalQueryStates
  <2>4. ~Terminal(old)
    BY <1>1, <1>4, CanTransition DEF Terminal, terminalQueryStates, Row, QueryState
  <2>5. table \in [Starts -> Row \cup {None}] /\ table[id] = run
    BY <1>1, <2>3
  <2>. HIDE DEF run, table
  <2>6. CASE Settle(c, table, toState("FAILED"))
    <3>1. toState("FAILED") \in Update /\ toState("FAILED").state = "FAILED"
          /\ toState("FAILED").trinoNextUri = None /\ toState("FAILED").result = None
      BY ToStateType DEF toState, QueryState
    <3>2. PICK new \in Row, p \in {"ok", "internal"} :
              /\ db' = [table EXCEPT ![id] = new]
              /\ pc' = [pc EXCEPT ![c] = p]
              /\ new.token = run.token
              /\ run.startedAt # None => new.startedAt = run.startedAt
              /\ new.trinoNextUri = run.trinoNextUri \/ new.trinoNextUri = None
              /\ new.state # "QUEUED"
              /\ p = "ok" => new.state = "FAILED" /\ new.completedAt = c
              /\ p = "internal" => run.state \in {"SUCCEEDED", "CANCELLED"}
      BY <1>1, <2>3, <2>5, <2>6, <3>1, SettleOutcome
    <3>3. p = "ok" /\ db' = [db EXCEPT ![id] = new]
      BY <1>1, <2>3, <3>2 DEF table
    <3>4. RowChange(c, old, new, p)
      BY <2>3, <2>4, <3>2, <3>3 DEF RowChange
    <3>. QED
      BY <2>1, <3>2, <3>3, <3>4 DEF Resumed
  <2>7. CASE db' = table /\ \E p \in {"fetch", "write"} : pc' = [pc EXCEPT ![c] = p]
    <3>1. PICK p \in {"fetch", "write"} : pc' = [pc EXCEPT ![c] = p]
      BY <2>7
    <3>2. RowChange(c, old, run, p)
      BY <2>3, <2>4, <3>1 DEF RowChange
    <3>. QED
      BY <2>1, <2>3, <2>7, <3>1, <3>2 DEF Resumed, table
  <2>. QED
    BY <1>4, <2>6, <2>7 DEF HandlePage, Throw, table, run
<1>. QED
  BY <1>2, <1>3, <1>4

LEMMA WriteResumed ==
    ASSUME Core, NEW c \in Starts, WriteReturns(c)
    PROVE  Resumed(c) /\ Frame(c)
<1>. TypeOK /\ pc[c] = "stored" /\ pc[c] \in Executing
  BY DEF Core, WriteReturns, Executing
<1>1. /\ target[c] \in Starts /\ db[target[c]] \in Row
      /\ db \in [Starts -> Row \cup {None}] /\ rows[c] \in Rows
  BY Handler
<1>2. Frame(c)
  BY DEF WriteReturns, Frame, TypeOK
<1>3. rows[c] # None
  BY <1>1, NoneAssumption
<1>4. /\ succeededWith(rows[c]) \in Update
      /\ succeededWith(rows[c]).state = "SUCCEEDED"
      /\ succeededWith(rows[c]).trinoNextUri = None
      /\ succeededWith(rows[c]).result = rows[c]
  BY <1>1, SucceededType DEF succeededWith, toState
<1>5. PICK new \in Row, p \in {"ok", "internal"} :
              /\ db' = [db EXCEPT ![target[c]] = new]
              /\ pc' = [pc EXCEPT ![c] = p]
              /\ new.token = db[target[c]].token
              /\ Terminal(db[target[c]]) => new.state = db[target[c]].state
              /\ db[target[c]].startedAt # None => new.startedAt = db[target[c]].startedAt
              /\ new.trinoNextUri = db[target[c]].trinoNextUri \/ new.trinoNextUri = None
              /\ new.state # "QUEUED"
              /\ p = "ok" => new.state \in {"SUCCEEDED", "FAILED"} /\ new.completedAt = c
              /\ p = "ok" /\ new.state = "SUCCEEDED" => new.result = rows[c]
              /\ p = "internal" => new = db[target[c]]
                                   /\ db[target[c]].state \in {"SUCCEEDED", "CANCELLED"}
  BY <1>1, <1>3, <1>4, SettleOutcome DEF WriteReturns
<1>6. RowChange(c, db[target[c]], new, p)
  BY <1>5 DEF RowChange
<1>. QED
  BY <1>2, <1>5, <1>6 DEF Resumed

LEMMA ThrowsResumed ==
    ASSUME Core, NEW c \in Starts, SubmitThrows(c) \/ FetchThrows(c) \/ WriteThrows(c)
    PROVE  Resumed(c) /\ Frame(c)
<1>1. pc[c] \in Executing /\ Throw(c, db)
  BY DEF SubmitThrows, FetchThrows, WriteThrows, Executing
<1>2. Frame(c)
  BY DEF SubmitThrows, FetchThrows, WriteThrows, Frame, Core, TypeOK
<1>. QED
  BY <1>1, <1>2, ThrowResumed

(***************************************************************************)
(* Resumed keeps the inductive invariant.                                  *)
(***************************************************************************)
LEMMA ResumedKeeps ==
    ASSUME Core, NEW c \in Starts, pc[c] \in Executing, Resumed(c), Frame(c)
    PROVE  Kept
<1>. DEFINE id  == target[c]
            old == db[id]
<1>1. /\ c \in Calls /\ id \in Starts /\ old # None /\ old \in Row
      /\ db \in [Starts -> Row \cup {None}] /\ pc \in [Calls -> Control]
  BY Handler
<1>2. PICK new \in Row, p \in {"ok", "internal", "fetch", "write"} :
        /\ RowChange(c, old, new, p)
        /\ db' = [db EXCEPT ![id] = new]
        /\ pc' = [pc EXCEPT ![c] = p]
  BY DEF Resumed
<1>3. /\ db' \in [Starts -> Row \cup {None}]
      /\ db'[id] = new /\ new # None
      /\ \A x \in Starts \ {id} : db'[x] = db[x]
      /\ \A x \in Starts : db'[x] # None <=> db[x] # None
  BY <1>1, <1>2, NoneAssumption
<1>4. /\ pc' \in [Calls -> Control]
      /\ pc'[c] = p
      /\ \A x \in Calls \ {c} : pc'[x] = pc[x]
  BY <1>1, <1>2 DEF Control, Executing, Answered
<1>5. /\ Starts \subseteq Calls /\ Stops \subseteq Calls /\ c \notin Stops
      /\ None \notin Calls
  BY FacadeAssumption, NoneAssumption DEF Calls
<1>6. /\ target' = target /\ seen' = seen /\ storage' = storage /\ crashes' = crashes
      /\ \A d \in Starts : trino'[d].state = "none" <=> trino[d].state = "none"
  BY DEF Frame
<1>7. TypeOK'
  BY <1>3, <1>4, <1>6 DEF Core, TypeOK, Frame
<1>8. ControlOK'
  BY <1>4, <1>5 DEF Core, ControlOK, Stopping, Executing
<1>9. \A x \in Calls : pc'[x] = "idle" <=> pc[x] = "idle"
  BY <1>4 DEF Executing
<1>10. \A s \in Stops : pc'[s] = pc[s]
  BY <1>4, <1>5
<1>11. TargetOK'
  <2>1. /\ \A d \in Calls : pc'[d] = "idle" => target[d] = None
        /\ \A d \in Starts : pc'[d] # "idle" => target[d] \in Starts /\ pc'[target[d]] # "idle"
        /\ \A s \in Stops : pc'[s] # "idle" => target[s] \in Starts
    BY <1>5, <1>9 DEF Core, TargetOK
  <2>2. \A s \in Stops : pc'[s] \in Stopping \cup {"ok"} =>
                            pc'[target[s]] # "idle" /\ seen[s] # None
    BY <1>5, <1>9, <1>10 DEF Core, TargetOK, Stopping
  <2>3. \A x \in Starts : db'[x] # None => pc'[x] # "idle"
    BY <1>3, <1>5, <1>9 DEF Core, TargetOK
  <2>. QED
    BY <2>1, <2>2, <2>3, <1>6 DEF TargetOK
<1>12. RowOK'
  <2>1. \A d \in Starts : pc'[d] \in Executing => pc[d] \in Executing
    BY <1>4, <1>5
  <2>2. \A d \in Starts : pc[d] \in Executing => db'[target[d]] # None
    BY <1>3 DEF Core, RowOK, TargetOK, Executing
  <2>3. \A s \in Stops : pc[s] \in Stopping => db'[target[s]] # None
    BY <1>3 DEF Core, RowOK, TargetOK, Stopping
  <2>. QED
    BY <2>1, <2>2, <2>3, <1>6, <1>10 DEF RowOK
<1>13. ExternalOK'
  BY <1>2, <1>4, <1>5, <1>6 DEF Core, ExternalOK, RowChange, Executing
<1>14. SeenOK'
  BY <1>6, <1>10 DEF Core, SeenOK
<1>15. EndOK'
  <2>. SUFFICES ASSUME NEW x \in Starts, db'[x] # None
                PROVE  /\ db'[x].completedAt # None =>
                            pc'[db'[x].completedAt] = "ok" /\ target[db'[x].completedAt] = x
                       /\ Terminal(db'[x]) =>
                            \/ db'[x].state = "CANCELLED" /\ db'[x].completedAt \in Stops
                            \/ db'[x].state # "CANCELLED" /\ db'[x].completedAt \in Starts
    BY <1>6 DEF EndOK, Terminal
  <2>1. /\ db[x].completedAt # None =>
              pc[db[x].completedAt] = "ok" /\ target[db[x].completedAt] = x
        /\ Terminal(db[x]) =>
              \/ db[x].state = "CANCELLED" /\ db[x].completedAt \in Stops
              \/ db[x].state # "CANCELLED" /\ db[x].completedAt \in Starts
        /\ db[x] \in Row
    BY <1>1, <1>3 DEF Core, EndOK
  <2>2. db[x].completedAt # None =>
            db[x].completedAt # c /\ pc'[db[x].completedAt] = "ok"
    <3>1. db[x].completedAt \in Calls \cup {None}
      BY <2>1 DEF Row
    <3>. QED
      BY <2>1, <3>1, <1>4 DEF Executing
  <2>3. CASE x # id
    BY <2>1, <2>2, <2>3, <1>3
  <2>4. CASE x = id /\ p = "ok"
    BY <2>4, <1>2, <1>3, <1>4 DEF RowChange
  <2>5. CASE x = id /\ p = "internal"
    BY <2>1, <2>2, <2>5, <1>2, <1>3 DEF RowChange
  <2>6. CASE x = id /\ p \in {"fetch", "write"}
    <3>1. new.completedAt = old.completedAt /\ (Terminal(new) => new.state = old.state)
      BY <2>6, <1>2 DEF RowChange, Terminal, terminalQueryStates
    <3>. QED
      BY <3>1, <2>1, <2>2, <2>6, <1>3 DEF Terminal
  <2>. QED
    BY <2>3, <2>4, <2>5, <2>6
<1>16. TokenNamesOneRow'
  <2>1. \A x \in Starts : db'[x] # None => db'[x].token = db[x].token
    BY <1>2, <1>3 DEF RowChange
  <2>2. \A d \in Starts : pc[d] # "idle" => target[d] \in Starts
    BY DEF Core, TargetOK
  <2>. QED
    BY <2>1, <2>2, <1>3, <1>5, <1>6, <1>9 DEF Core, TokenNamesOneRow
<1>17. SucceededIsReadable'
  <2>1. rows[c] # None
    BY NoneAssumption DEF Core, TypeOK
  <2>2. new.state = "SUCCEEDED" => new.result # None /\ storage[id] # None
    BY <2>1, <1>1, <1>2 DEF Core, ExternalOK, SucceededIsReadable, RowChange
  <2>. QED
    BY <2>2, <1>3, <1>6 DEF Core, SucceededIsReadable
<1>18. CancelHitsOwnQuery'
  <2>1. new.trinoNextUri # None =>
            target[new.trinoNextUri] = id /\ trino[new.trinoNextUri].state # "none"
    BY <1>1, <1>2 DEF Core, ExternalOK, CancelHitsOwnQuery, RowChange
  <2>2. \A x \in Starts : db'[x] # None /\ db'[x].trinoNextUri # None =>
            /\ target[db'[x].trinoNextUri] = x
            /\ trino[db'[x].trinoNextUri].state # "none"
            /\ db'[x].trinoNextUri \in Starts
    BY <2>1, <1>3 DEF Core, CancelHitsOwnQuery, Row
  <2>. QED
    BY <2>2, <1>6, <1>10 DEF Core, CancelHitsOwnQuery
<1>19. p \in {"ok", "internal"} => Terminal(new)
  BY <1>2 DEF RowChange, Terminal, terminalQueryStates
<1>20. LiveRowHasAHandler => LiveRowHasAHandler'
  <2>. SUFFICES ASSUME LiveRowHasAHandler, crashes = 0, NEW x \in Starts, db'[x] # None, ~Terminal(db'[x])
                PROVE  \E d \in Starts : target[d] = x /\ pc'[d] \in Executing
    BY <1>6 DEF LiveRowHasAHandler, runningFor, executorsOf, Live, Terminal, Executing
  <2>1. CASE x # id
    <3>1. PICK d \in Starts : target[d] = x /\ pc[d] \in Executing
      BY <1>3, <2>1 DEF Core, LiveRowHasAHandler, runningFor, executorsOf, Live, Terminal
    <3>. QED
      BY <3>1, <2>1, <1>4, <1>5
  <2>2. CASE x = id
    BY <2>2, <1>3, <1>4, <1>19 DEF Executing
  <2>. QED
    BY <2>1, <2>2
<1>21. \A x \in Starts : ~Live(x) => ~Live(x)' /\ (db[x] # None => db'[x].state = db[x].state)
  BY <1>2, <1>3 DEF Live, RowChange, Terminal
<1>22. StartAnswer => StartAnswer'
  <2>. SUFFICES ASSUME StartAnswer, NEW d \in Starts
                PROVE  /\ pc'[d] \in {"ok", "internal"} => ~Live(target[d])'
                       /\ pc'[d] = "internal" /\ db'[target[d]] # None =>
                            db'[target[d]].state # "FAILED" /\ db'[target[d]].completedAt # d
    BY <1>6 DEF StartAnswer, Live
  <2>1. CASE d = c
    <3>1. pc'[d] \in {"ok", "internal"} => ~Live(id)'
      BY <2>1, <1>3, <1>4, <1>6, <1>19 DEF Live, Terminal
    <3>2. p = "internal" => new.state # "FAILED" /\ new.completedAt # c
      BY <1>1, <1>2, <1>5 DEF RowChange, Core, EndOK, Executing
    <3>. QED
      BY <2>1, <3>1, <3>2, <1>3, <1>4
  <2>2. CASE d # c /\ pc[d] \in {"ok", "internal"}
    <3>1. target[d] \in Starts /\ ~Live(target[d])
      BY <2>2 DEF Core, StartAnswer, TargetOK
    <3>2. ~Live(target[d])'
      BY <3>1, <1>21, <1>6 DEF Live
    <3>3. CASE target[d] = id /\ pc[d] = "internal"
      <4>1. new.state = old.state /\ new.completedAt \in {c, old.completedAt}
        BY <3>1, <3>3, <1>1, <1>2 DEF RowChange, Live, Terminal
      <4>2. old.state # "FAILED" /\ old.completedAt # d
        BY <3>3, <1>1 DEF Core, StartAnswer
      <4>. QED
        BY <2>2, <3>2, <3>3, <4>1, <4>2, <1>3
    <3>4. CASE target[d] # id \/ pc[d] # "internal"
      BY <2>2, <3>1, <3>2, <3>4, <1>3, <1>4, <1>5 DEF Core, StartAnswer
    <3>. QED
      BY <3>3, <3>4
  <2>3. CASE d # c /\ pc[d] \notin {"ok", "internal"}
    BY <2>3, <1>4, <1>5
  <2>. QED
    BY <2>1, <2>2, <2>3
<1>23. StopAnswer'
  <2>. SUFFICES ASSUME NEW s \in Stops, pc[s] = "ok",
                       seen[s].state \notin terminalQueryStates, db'[target[s]] # None
                PROVE  db'[target[s]].state = "CANCELLED"
    BY <1>6, <1>10 DEF StopAnswer
  <2>1. target[s] \in Starts
    BY DEF Core, TargetOK
  <2>2. db[target[s]] # None /\ db[target[s]].state = "CANCELLED"
    BY <2>1, <1>3 DEF Core, StopAnswer
  <2>. QED
    BY <2>1, <2>2, <1>21 DEF Live, terminalQueryStates
<1>24. OkOK'
  <2>. SUFFICES ASSUME NEW d \in Starts, pc'[d] = "ok"
                PROVE  ~Live(target[d])'
    BY <1>6 DEF OkOK, Live
  <2>1. CASE d = c
    BY <2>1, <1>3, <1>4, <1>6, <1>19 DEF Live, Terminal
  <2>2. CASE d # c
    <3>1. pc[d] = "ok" /\ target[d] \in Starts
      BY <2>2, <1>4, <1>5 DEF Core, TargetOK
    <3>2. ~Live(target[d])
      BY <3>1 DEF Core, OkOK
    <3>. QED
      BY <3>1, <3>2, <1>6, <1>21 DEF Live
  <2>. QED
    BY <2>1, <2>2
<1>. QED
  BY <1>7, <1>8, <1>11, <1>12, <1>13, <1>14, <1>15, <1>16, <1>17, <1>18, <1>20, <1>22, <1>23,
     <1>24 DEF Core, Kept

(***************************************************************************)
(* Steps that write no row: the external side acts, or a cancel throws.    *)
(***************************************************************************)
TrinoType == [Starts -> [state : {"none", "active", "finished", "failed", "cancelled"},
                         sent : Nat]]

Quiet(x, q) ==
    /\ UNCHANGED <<db, target, rows, seen, crashes>>
    /\ pc' = [pc EXCEPT ![x] = q]
    /\ trino' \in TrinoType /\ storage' \in [Starts -> Rows \cup {None}]
    /\ \A d \in Starts : trino[d].state # "none" => trino'[d].state # "none"
    /\ \A d \in Starts : trino[d].state = "none" /\ d # x => trino'[d].state = "none"
    /\ \A id \in Starts : storage[id] # None => storage'[id] # None
    /\ \/ /\ x \in Starts /\ pc[x] \in Executing /\ q \in {"accepted", "stored"}
          /\ trino'[x].state # "none"
          /\ q = "stored" => storage'[target[x]] # None
       \/ x \in Stops /\ pc[x] \in Stopping /\ q \in {"deleted", "internal"}

LEMMA QuietKeeps ==
    ASSUME Core, NEW x \in Calls, NEW q, Quiet(x, q)
    PROVE  Kept
<1>1. /\ db' = db /\ target' = target /\ rows' = rows /\ seen' = seen /\ crashes' = crashes
      /\ \A d \in Starts : trino[d].state # "none" => trino'[d].state # "none"
      /\ \A id \in Starts : storage[id] # None => storage'[id] # None
  BY DEF Quiet
<1>2. /\ pc' \in [Calls -> Control]
      /\ pc'[x] = q
      /\ \A y \in Calls \ {x} : pc'[y] = pc[y]
  BY DEF Quiet, Core, TypeOK, Control, Executing, Stopping, Answered
<1>3. /\ Starts \subseteq Calls /\ Stops \subseteq Calls /\ Starts \cap Stops = {}
  BY FacadeAssumption DEF Calls
<1>4. \/ x \in Starts /\ x \notin Stops /\ pc[x] \in Executing /\ q \in {"accepted", "stored"}
      \/ x \in Stops /\ x \notin Starts /\ pc[x] \in Stopping /\ q \in {"deleted", "internal"}
  BY <1>3 DEF Quiet
<1>5. \A y \in Calls : pc'[y] = "idle" <=> pc[y] = "idle"
  BY <1>2, <1>4 DEF Executing, Stopping
<1>6. \A c \in Starts : /\ pc'[c] \in Executing <=> pc[c] \in Executing
                        /\ pc'[c] \in Answered => pc'[c] = pc[c]
  BY <1>2, <1>3, <1>4 DEF Executing, Answered
<1>7. \A s \in Stops : /\ pc'[s] \in Stopping => pc[s] \in Stopping
                       /\ pc'[s] = "ok" <=> pc[s] = "ok"
  BY <1>2, <1>3, <1>4 DEF Stopping
<1>8. TypeOK'
  BY <1>1, <1>2 DEF Quiet, TrinoType, Core, TypeOK
<1>9. ControlOK'
  BY <1>2, <1>3, <1>4 DEF Core, ControlOK, Stopping, Executing
<1>10. TargetOK'
  <2>1. /\ \A d \in Calls : pc'[d] = "idle" => target[d] = None
        /\ \A d \in Starts : pc'[d] # "idle" => target[d] \in Starts /\ pc'[target[d]] # "idle"
        /\ \A s \in Stops : pc'[s] # "idle" => target[s] \in Starts
    BY <1>3, <1>5 DEF Core, TargetOK
  <2>2. \A s \in Stops : pc'[s] \in Stopping \cup {"ok"} =>
                            pc'[target[s]] # "idle" /\ seen[s] # None
    BY <1>3, <1>5, <1>7 DEF Core, TargetOK, Stopping
  <2>3. \A id \in Starts : db[id] # None => pc'[id] # "idle"
    BY <1>3, <1>5 DEF Core, TargetOK
  <2>. QED
    BY <2>1, <2>2, <2>3, <1>1 DEF TargetOK
<1>11. RowOK'
  BY <1>1, <1>6, <1>7 DEF Core, RowOK
<1>12. ExternalOK'
  <2>1. \A c \in Starts : pc'[c] = "idle" => trino'[c].state = "none"
    BY <1>2, <1>3, <1>4, <1>5 DEF Core, ExternalOK, Quiet
  <2>2. \A c \in Starts : pc'[c] \in {"accepted", "fetch", "write", "stored"} =>
                            trino'[c].state # "none"
    BY <1>1, <1>2, <1>3, <1>4 DEF Core, ExternalOK, Quiet, Stopping
  <2>3. \A c \in Starts : pc'[c] = "stored" => storage'[target[c]] # None
    <3>. SUFFICES ASSUME NEW c \in Starts, pc'[c] = "stored"
                  PROVE  storage'[target[c]] # None
      OBVIOUS
    <3>1. target[c] \in Starts
      BY <1>3, <1>5 DEF Core, TargetOK
    <3>2. CASE c = x
      BY <3>2, <1>2, <1>3, <1>4 DEF Quiet
    <3>3. CASE c # x
      BY <3>1, <3>3, <1>1, <1>2, <1>3 DEF Core, ExternalOK
    <3>. QED
      BY <3>2, <3>3
  <2>. QED
    BY <2>1, <2>2, <2>3, <1>1 DEF ExternalOK
<1>13. SeenOK'
  BY <1>1, <1>7 DEF Core, SeenOK
<1>14. EndOK'
  <2>1. \A id \in Starts : db[id] # None /\ db[id].completedAt # None =>
            db[id].completedAt \in Calls
    BY DEF Core, TypeOK, Row
  <2>2. \A id \in Starts : db[id] # None /\ db[id].completedAt # None =>
            pc'[db[id].completedAt] = "ok"
    BY <2>1, <1>2, <1>4 DEF Core, EndOK, Executing, Stopping
  <2>. QED
    BY <2>2, <1>1 DEF Core, EndOK
<1>15. TokenNamesOneRow'
  BY <1>1, <1>3, <1>5 DEF Core, TokenNamesOneRow
<1>16. SucceededIsReadable'
  BY <1>1 DEF Core, SucceededIsReadable
<1>17. CancelHitsOwnQuery'
  <2>1. \A id \in Starts : db[id] # None => db[id].trinoNextUri \in Starts \cup {None}
    BY DEF Core, TypeOK, Row
  <2>. QED
    BY <2>1, <1>1, <1>7 DEF Core, CancelHitsOwnQuery
<1>18. LiveRowHasAHandler => LiveRowHasAHandler'
  <2>. SUFFICES ASSUME LiveRowHasAHandler, crashes = 0, NEW id \in Starts, Live(id)
                PROVE  \E d \in Starts : target[d] = id /\ pc'[d] \in Executing
    BY <1>1 DEF LiveRowHasAHandler, runningFor, executorsOf, Live, Executing
  <2>. QED
    BY <1>6 DEF Core, LiveRowHasAHandler, runningFor, executorsOf
<1>19. OkOK' /\ (StartAnswer => StartAnswer')
  BY <1>1, <1>6 DEF Core, OkOK, StartAnswer, Live, Answered
<1>20. StopAnswer'
  BY <1>1, <1>7 DEF Core, StopAnswer
<1>. QED
  BY <1>8, <1>9, <1>10, <1>11, <1>12, <1>13, <1>14, <1>15, <1>16, <1>17, <1>18, <1>19, <1>20
     DEF Core, Kept

LEMMA TrinoAcceptsKeeps ==
    ASSUME Core, NEW c \in Starts, TrinoAccepts(c)
    PROVE  Kept
<1>1. c \in Calls /\ pc[c] = "submit" /\ trino \in TrinoType /\ storage \in [Starts -> Rows \cup {None}]
  BY DEF Core, TypeOK, Calls, TrinoAccepts, TrinoType
<1>2. trino' = [trino EXCEPT ![c].state = "active"]
  BY DEF TrinoAccepts
<1>3. /\ trino'[c] = [state |-> "active", sent |-> trino[c].sent]
      /\ \A d \in Starts \ {c} : trino'[d] = trino[d]
      /\ trino' \in TrinoType
  BY <1>1, <1>2 DEF TrinoType
<1>4. Quiet(c, "accepted")
  BY <1>1, <1>3 DEF TrinoAccepts, Quiet, Executing
<1>. QED
  BY <1>1, <1>4, QuietKeeps

LEMMA StorageWritesKeeps ==
    ASSUME Core, NEW c \in Starts, StorageWrites(c)
    PROVE  Kept
<1>1. /\ c \in Calls /\ pc[c] = "write" /\ target[c] \in Starts
      /\ trino \in TrinoType /\ storage \in [Starts -> Rows \cup {None}]
      /\ rows[c] \in Rows /\ trino[c].state # "none"
  BY DEF Core, TypeOK, Calls, StorageWrites, TrinoType, TargetOK, ExternalOK
<1>2. rows[c] # None
  BY <1>1, NoneAssumption
<1>3. storage' = [storage EXCEPT ![target[c]] = rows[c]]
  BY DEF StorageWrites
<1>4. /\ storage' \in [Starts -> Rows \cup {None}]
      /\ storage'[target[c]] # None
      /\ \A id \in Starts : storage[id] # None => storage'[id] # None
  BY <1>1, <1>2, <1>3
<1>5. Quiet(c, "stored")
  BY <1>1, <1>4 DEF StorageWrites, Quiet, Executing
<1>. QED
  BY <1>1, <1>5, QuietKeeps

LEMMA TrinoCancelsKeeps ==
    ASSUME Core, NEW s \in Stops, TrinoCancels(s)
    PROVE  Kept
<1>. DEFINE q == seen[s].trinoNextUri
<1>1. /\ s \in Calls /\ pc[s] \in Stopping /\ q \in Starts
      /\ trino \in TrinoType /\ storage \in [Starts -> Rows \cup {None}]
  BY DEF Core, TypeOK, Calls, TrinoCancels, TrinoType, SeenOK, Stopping
<1>2. trino' = [trino EXCEPT ![q].state = IF @ = "active" THEN "cancelled" ELSE @]
  BY DEF TrinoCancels
<1>3. /\ trino'[q] = [state |-> IF trino[q].state = "active" THEN "cancelled" ELSE trino[q].state,
                      sent |-> trino[q].sent]
      /\ \A d \in Starts \ {q} : trino'[d] = trino[d]
      /\ trino' \in TrinoType
  BY <1>1, <1>2 DEF TrinoType
<1>4. \A d \in Starts : trino'[d].state = "none" <=> trino[d].state = "none"
  BY <1>3
<1>5. Quiet(s, "deleted")
  BY <1>1, <1>3, <1>4 DEF TrinoCancels, Quiet
<1>. QED
  BY <1>1, <1>5, QuietKeeps

LEMMA CancelThrowsKeeps ==
    ASSUME Core, NEW s \in Stops, CancelThrows(s)
    PROVE  Kept
<1>1. s \in Calls /\ trino \in TrinoType /\ storage \in [Starts -> Rows \cup {None}]
  BY DEF Core, TypeOK, Calls, TrinoType
<1>2. Quiet(s, "internal")
  BY <1>1 DEF CancelThrows, Quiet
<1>. QED
  BY <1>1, <1>2, QuietKeeps

(***************************************************************************)
(* A Start's first step.                                                   *)
(***************************************************************************)
LEMMA StartKeeps ==
    ASSUME Core, NEW c \in Starts, StartQueryExecution(c)
    PROVE  Kept
<1>1. /\ Starts \subseteq Calls /\ Stops \subseteq Calls /\ c \notin Stops
      /\ None \notin Starts /\ TokenOf[c] \in Tokens
  BY FacadeAssumption, NoneAssumption DEF Calls
<1>2. /\ pc[c] = "idle" /\ target[c] = None /\ db[c] = None /\ trino[c].state = "none"
      /\ rows' = rows /\ seen' = seen /\ trino' = trino /\ storage' = storage /\ crashes' = crashes
  BY <1>1 DEF StartQueryExecution, Core, TargetOK, ExternalOK
<1>3. newRow(TokenOf[c]) \in Row /\ newRow(TokenOf[c]) # None
  BY <1>1, NewRowType, NoneAssumption
<1>4. PICK id \in Starts, q \in {"submit", "returned"} :
        /\ target' = [target EXCEPT ![c] = id]
        /\ pc' = [pc EXCEPT ![c] = q]
        /\ \/ /\ id = c /\ q = "submit" /\ holdersOf(TokenOf[c]) = {}
              /\ db' = [db EXCEPT ![c] = newRow(TokenOf[c])]
           \/ db' = db /\ db[id] # None /\ db[id].token = TokenOf[c]
  BY DEF StartQueryExecution, holdersOf
<1>5. /\ pc' \in [Calls -> Control] /\ pc'[c] = q
      /\ \A y \in Calls \ {c} : pc'[y] = pc[y]
  BY <1>1, <1>4 DEF Core, TypeOK, Control, Executing, Answered
<1>6. /\ target' \in [Calls -> Starts \cup {None}] /\ target'[c] = id
      /\ \A y \in Calls \ {c} : target'[y] = target[y]
  BY <1>1, <1>4 DEF Core, TypeOK
<1>7. /\ db' \in [Starts -> Row \cup {None}]
      /\ \A x \in Starts : db[x] # None => db'[x] = db[x] /\ pc[x] # "idle"
      /\ \A x \in Starts : db[x] = None /\ db'[x] # None =>
            /\ x = c /\ id = c /\ q = "submit" /\ db'[x] = newRow(TokenOf[c])
            /\ holdersOf(TokenOf[c]) = {}
      /\ db'[id] # None /\ db'[id].token = TokenOf[c]
  BY <1>2, <1>3, <1>4 DEF Core, TypeOK, TargetOK, newRow
<1>8. /\ newRow(TokenOf[c]).state = "QUEUED" /\ newRow(TokenOf[c]).completedAt = None
      /\ newRow(TokenOf[c]).trinoNextUri = None /\ newRow(TokenOf[c]).token = TokenOf[c]
  BY DEF newRow
<1>9. pc'[id] # "idle"
  BY <1>1, <1>4, <1>5, <1>7
<1>10. \A d \in Starts \ {c} : pc[d] # "idle" => target[d] \in Starts \ {c} /\ pc'[target[d]] # "idle"
  BY <1>1, <1>2, <1>5 DEF Core, TargetOK
<1>11. \A s \in Stops : pc'[s] = pc[s] /\ target'[s] = target[s]
  BY <1>1, <1>5, <1>6
<1>12. TypeOK'
  BY <1>2, <1>5, <1>6, <1>7 DEF Core, TypeOK
<1>13. ControlOK'
  BY <1>1, <1>5 DEF Core, ControlOK, Stopping, Executing
<1>14. TargetOK'
  <2>1. /\ \A d \in Calls : pc'[d] = "idle" => target'[d] = None
        /\ \A s \in Stops : pc'[s] # "idle" => target'[s] \in Starts
    BY <1>1, <1>5, <1>6, <1>11 DEF Core, TargetOK
  <2>2. \A d \in Starts : pc'[d] # "idle" => target'[d] \in Starts /\ pc'[target'[d]] # "idle"
    BY <1>1, <1>5, <1>6, <1>9, <1>10
  <2>3. \A s \in Stops : pc'[s] \in Stopping \cup {"ok"} =>
                            pc'[target'[s]] # "idle" /\ seen[s] # None
    <3>1. \A s \in Stops : pc[s] \in Stopping \cup {"ok"} =>
                target[s] \in Starts /\ pc[target[s]] # "idle" /\ seen[s] # None
      BY <1>1 DEF Core, TargetOK, Stopping
    <3>. QED
      BY <3>1, <1>1, <1>2, <1>5, <1>11
  <2>4. \A x \in Starts : db'[x] # None => pc'[x] # "idle"
    BY <1>1, <1>4, <1>5, <1>7
  <2>. QED
    BY <2>1, <2>2, <2>3, <2>4, <1>2 DEF TargetOK
<1>15. RowOK'
  <2>1. \A d \in Starts : pc'[d] \in Executing => db'[target'[d]] # None
    <3>. SUFFICES ASSUME NEW d \in Starts, pc'[d] \in Executing
                  PROVE  db'[target'[d]] # None
      OBVIOUS
    <3>1. CASE d = c
      BY <3>1, <1>6, <1>7
    <3>2. CASE d # c
      <4>1. pc[d] \in Executing /\ target[d] \in Starts /\ db[target[d]] # None
        BY <3>2, <1>1, <1>5 DEF Core, RowOK, TargetOK, Executing
      <4>. QED
        BY <4>1, <3>2, <1>1, <1>6, <1>7
    <3>. QED
      BY <3>1, <3>2
  <2>2. \A s \in Stops : pc'[s] \in Stopping => db'[target'[s]] # None
    BY <1>7, <1>11 DEF Core, RowOK, TargetOK, Stopping
  <2>. QED
    BY <2>1, <2>2 DEF RowOK
<1>16. ExternalOK'
  <2>1. \A d \in Starts : pc'[d] = "stored" => d # c /\ pc[d] = "stored" /\ target'[d] = target[d]
    BY <1>1, <1>5, <1>6
  <2>. QED
    BY <2>1, <1>1, <1>2, <1>5 DEF Core, ExternalOK
<1>17. SeenOK'
  BY <1>2, <1>11 DEF Core, SeenOK
<1>18. EndOK'
  <2>. SUFFICES ASSUME NEW x \in Starts, db'[x] # None
                PROVE  /\ db'[x].completedAt # None =>
                            pc'[db'[x].completedAt] = "ok" /\ target'[db'[x].completedAt] = x
                       /\ Terminal(db'[x]) =>
                            \/ db'[x].state = "CANCELLED" /\ db'[x].completedAt \in Stops
                            \/ db'[x].state # "CANCELLED" /\ db'[x].completedAt \in Starts
    BY DEF EndOK, Terminal
  <2>1. CASE db[x] # None
    <3>1. db[x].completedAt \in Calls \cup {None}
      BY <2>1 DEF Core, TypeOK, Row
    <3>. QED
      BY <3>1, <2>1, <1>2, <1>5, <1>6, <1>7 DEF Core, EndOK
  <2>2. CASE db[x] = None
    BY <2>2, <1>7, <1>8 DEF Terminal, terminalQueryStates
  <2>. QED
    BY <2>1, <2>2
<1>19. TokenNamesOneRow'
  <2>1. \A i, j \in Starts :
            db'[i] # None /\ db'[j] # None /\ db'[i].token = db'[j].token => i = j
    BY <1>7, <1>8 DEF Core, TokenNamesOneRow, holdersOf
  <2>2. \A d \in Starts : pc'[d] # "idle" /\ db'[target'[d]] # None =>
                            db'[target'[d]].token = TokenOf[d]
    <3>. SUFFICES ASSUME NEW d \in Starts, pc'[d] # "idle", db'[target'[d]] # None
                  PROVE  db'[target'[d]].token = TokenOf[d]
      OBVIOUS
    <3>1. CASE d = c
      BY <3>1, <1>6, <1>7
    <3>2. CASE d # c
      <4>1. pc[d] # "idle" /\ target'[d] = target[d] /\ target[d] \in Starts \ {c}
        BY <3>2, <1>1, <1>5, <1>6, <1>10
      <4>2. db[target[d]] # None /\ db'[target[d]] = db[target[d]]
        BY <4>1, <1>7
      <4>. QED
        BY <4>1, <4>2 DEF Core, TokenNamesOneRow
    <3>. QED
      BY <3>1, <3>2
  <2>. QED
    BY <2>1, <2>2 DEF TokenNamesOneRow
<1>20. SucceededIsReadable'
  BY <1>2, <1>7, <1>8 DEF Core, SucceededIsReadable
<1>21. CancelHitsOwnQuery'
  <2>1. \A x \in Starts : db'[x] # None /\ db'[x].trinoNextUri # None =>
            /\ target'[db'[x].trinoNextUri] = x
            /\ trino[db'[x].trinoNextUri].state # "none"
    <3>. SUFFICES ASSUME NEW x \in Starts, db'[x] # None, db'[x].trinoNextUri # None
                  PROVE  /\ target'[db'[x].trinoNextUri] = x
                         /\ trino[db'[x].trinoNextUri].state # "none"
      OBVIOUS
    <3>1. db[x] # None /\ db'[x] = db[x] /\ db[x].trinoNextUri \in Starts
      BY <1>7, <1>8 DEF Core, TypeOK, Row
    <3>2. target[db[x].trinoNextUri] = x /\ trino[db[x].trinoNextUri].state # "none"
      BY <3>1 DEF Core, CancelHitsOwnQuery
    <3>. QED
      BY <3>1, <3>2, <1>1, <1>2, <1>6
  <2>2. \A s \in Stops : pc[s] \in Stopping => target'[seen[s].trinoNextUri] = target'[s]
    <3>. SUFFICES ASSUME NEW s \in Stops, pc[s] \in Stopping
                  PROVE  target'[seen[s].trinoNextUri] = target'[s]
      OBVIOUS
    <3>1. /\ seen[s].trinoNextUri \in Starts /\ target[s] \in Starts
          /\ target[seen[s].trinoNextUri] = target[s]
      BY DEF Core, SeenOK, TargetOK, CancelHitsOwnQuery, Stopping
    <3>. QED
      BY <3>1, <1>1, <1>2, <1>6, <1>11
  <2>. QED
    BY <2>1, <2>2, <1>2, <1>11 DEF CancelHitsOwnQuery
<1>22. LiveRowHasAHandler => LiveRowHasAHandler'
  <2>. SUFFICES ASSUME LiveRowHasAHandler, crashes = 0, NEW x \in Starts, db'[x] # None, ~Terminal(db'[x])
                PROVE  \E d \in Starts : target'[d] = x /\ pc'[d] \in Executing
    BY <1>2 DEF LiveRowHasAHandler, runningFor, executorsOf, Live, Terminal, Executing
  <2>1. CASE db[x] # None
    <3>1. PICK d \in Starts : target[d] = x /\ pc[d] \in Executing
      BY <2>1, <1>7 DEF Core, LiveRowHasAHandler, runningFor, executorsOf, Live, Terminal
    <3>2. d # c
      BY <3>1, <1>2 DEF Executing
    <3>. QED
      BY <3>1, <3>2, <1>1, <1>5, <1>6
  <2>2. CASE db[x] = None
    BY <2>2, <1>5, <1>6, <1>7 DEF Executing
  <2>. QED
    BY <2>1, <2>2
<1>23. StartAnswer => StartAnswer'
  <2>. SUFFICES ASSUME StartAnswer, NEW d \in Starts, pc'[d] \in {"ok", "internal"}
                PROVE  /\ db'[target'[d]] = None \/ Terminal(db'[target'[d]])
                       /\ pc'[d] = "internal" /\ db'[target'[d]] # None =>
                            db'[target'[d]].state # "FAILED" /\ db'[target'[d]].completedAt # d
    BY DEF StartAnswer, Live, Terminal
  <2>1. d # c /\ pc[d] = pc'[d] /\ target'[d] = target[d]
    BY <1>1, <1>5, <1>6
  <2>2. target[d] \in Starts \ {c}
    BY <2>1, <1>10
  <2>3. db'[target[d]] = db[target[d]]
    BY <2>2, <1>7
  <2>. QED
    BY <2>1, <2>2, <2>3 DEF Core, StartAnswer, Live, Terminal
<1>24. StopAnswer'
  <2>. SUFFICES ASSUME NEW s \in Stops, pc[s] = "ok",
                       seen[s].state \notin terminalQueryStates, db'[target[s]] # None
                PROVE  db'[target[s]].state = "CANCELLED"
    BY <1>2, <1>11 DEF StopAnswer
  <2>1. target[s] \in Starts /\ target[s] # c
    BY <1>2 DEF Core, TargetOK
  <2>2. db'[target[s]] = db[target[s]] /\ db[target[s]] # None
    BY <2>1, <1>7
  <2>. QED
    BY <2>2 DEF Core, StopAnswer
<1>25. OkOK'
  <2>. SUFFICES ASSUME NEW d \in Starts, pc'[d] = "ok"
                PROVE  db'[target'[d]] = None \/ Terminal(db'[target'[d]])
    BY DEF OkOK, Live, Terminal
  <2>1. d # c /\ pc[d] = "ok" /\ target'[d] = target[d]
    BY <1>1, <1>4, <1>5, <1>6
  <2>2. target[d] \in Starts \ {c}
    BY <2>1, <1>10
  <2>3. db'[target[d]] = db[target[d]]
    BY <2>2, <1>7
  <2>. QED
    BY <2>1, <2>2, <2>3 DEF Core, OkOK, Live, Terminal
<1>. QED
  BY <1>12, <1>13, <1>14, <1>15, <1>16, <1>17, <1>18, <1>19, <1>20, <1>21, <1>22, <1>23, <1>24,
     <1>25 DEF Core, Kept

(***************************************************************************)
(* A Stop's two steps over a row that exists.                              *)
(***************************************************************************)

\* The Stop has looked at the row id; it writes CANCELLED over it, or leaves
\* it alone.
Stopped(s, id, v, new, p) ==
    /\ pc[s] = "idle" \/ (pc[s] = "deleted" /\ target[s] = id)
    /\ db[id] # None
    /\ target' = [target EXCEPT ![s] = id]
    /\ seen' = [seen EXCEPT ![s] = v]
    /\ db' = [db EXCEPT ![id] = new]
    /\ pc' = [pc EXCEPT ![s] = p]
    /\ UNCHANGED <<rows, trino, storage, crashes>>
    /\ new # db[id] =>
          /\ p = "ok" /\ new.state = "CANCELLED" /\ new.completedAt = s
          /\ Terminal(db[id]) => db[id].state = "CANCELLED"
          /\ new.token = db[id].token
          /\ new.trinoNextUri = db[id].trinoNextUri
          /\ db[id].startedAt # None => new.startedAt = db[id].startedAt
    /\ p = "ok" => v.state \in terminalQueryStates \/ new.state = "CANCELLED"
    /\ p = "delete" => v.trinoNextUri = db[id].trinoNextUri /\ v.trinoNextUri \in Starts

StoppedSome(s) ==
    \E id \in Starts, v \in View, new \in Row, p \in {"ok", "internal", "delete"} :
        Stopped(s, id, v, new, p)

\* WriteCancelled, as a change of the row.
LEMMA CancelledRow ==
    ASSUME NEW s \in Stops, NEW id \in Starts, db \in [Starts -> Row \cup {None}],
           db[id] \in Row, WriteCancelled(s, id)
    PROVE  \E new \in Row, p \in {"ok", "internal"} :
              /\ db' = [db EXCEPT ![id] = new]
              /\ pc' = [pc EXCEPT ![s] = p]
              /\ new # db[id] =>
                    /\ p = "ok" /\ new.state = "CANCELLED" /\ new.completedAt = s
                    /\ Terminal(db[id]) => db[id].state = "CANCELLED"
                    /\ new.token = db[id].token
                    /\ new.trinoNextUri = db[id].trinoNextUri
                    /\ db[id].startedAt # None => new.startedAt = db[id].startedAt
              /\ p = "ok" => new.state = "CANCELLED"
<1>. DEFINE old == db[id]
            new == updateState(old, s, toState("CANCELLED"))
<1>1. s \in Calls /\ old.state \in QueryState /\ "CANCELLED" \in QueryState
  BY DEF Calls, Row, QueryState
<1>2. /\ toState("CANCELLED") \in Update
      /\ toState("CANCELLED").state = "CANCELLED"
      /\ toState("CANCELLED").trinoNextUri = None
  BY <1>1, ToStateType DEF toState
<1>3. /\ new \in Row
      /\ new.state = "CANCELLED" /\ new.completedAt = s /\ new.token = old.token
      /\ old.startedAt # None => new.startedAt = old.startedAt
  BY <1>1, <1>2, UpdateColumns DEF terminalQueryStates
<1>4. new.trinoNextUri = old.trinoNextUri
  BY <1>2 DEF updateState, orElse
<1>5. CASE /\ canTransitionQueryState(old.state, "CANCELLED")
           /\ db' = [db EXCEPT ![id] = new]
           /\ pc' = [pc EXCEPT ![s] = "ok"]
  <2>1. Terminal(old) => old.state = "CANCELLED"
    BY <1>1, <1>5, CanTransition DEF Terminal, terminalQueryStates
  <2>. QED
    BY <1>3, <1>4, <1>5, <2>1
<1>6. CASE db' = db /\ pc' = [pc EXCEPT ![s] = "internal"]
  <2>1. db' = [db EXCEPT ![id] = old]
    BY <1>6
  <2>. QED
    BY <1>6, <2>1
<1>. QED
  BY <1>5, <1>6 DEF WriteCancelled

LEMMA StopIsStopped ==
    ASSUME Core, NEW s \in Stops, NEW id \in Starts, db[id] # None,
           pc[s] = "idle",
           target' = [target EXCEPT ![s] = id],
           seen' = [seen EXCEPT ![s] = readRecord(id)],
           UNCHANGED <<rows, trino, storage, crashes>>,
           \/ /\ db[id].state = "RUNNING" /\ db[id].trinoNextUri # None
              /\ pc' = [pc EXCEPT ![s] = "delete"]
              /\ db' = db
           \/ WriteCancelled(s, id)
           \/ /\ db[id].state \in terminalQueryStates
              /\ pc' = [pc EXCEPT ![s] = "ok"]
              /\ db' = db
    PROVE  StoppedSome(s)
<1>1. db \in [Starts -> Row \cup {None}] /\ db[id] \in Row
  BY DEF Core, TypeOK
<1>2. /\ readRecord(id) \in View
      /\ readRecord(id).state = db[id].state
      /\ readRecord(id).trinoNextUri = db[id].trinoNextUri
  BY <1>1 DEF readRecord, View, Row
<1>3. db = [db EXCEPT ![id] = db[id]]
  BY <1>1
<1>4. CASE /\ db[id].state = "RUNNING" /\ db[id].trinoNextUri # None
           /\ pc' = [pc EXCEPT ![s] = "delete"]
           /\ db' = db
  <2>1. db[id].trinoNextUri \in Starts
    BY <1>1, <1>4 DEF Row
  <2>2. Stopped(s, id, readRecord(id), db[id], "delete")
    BY <1>2, <1>3, <1>4, <2>1 DEF Stopped
  <2>. QED
    BY <1>1, <1>2, <2>2 DEF StoppedSome
<1>5. CASE WriteCancelled(s, id)
  <2>1. PICK new \in Row, p \in {"ok", "internal"} :
              /\ db' = [db EXCEPT ![id] = new]
              /\ pc' = [pc EXCEPT ![s] = p]
              /\ new # db[id] =>
                    /\ p = "ok" /\ new.state = "CANCELLED" /\ new.completedAt = s
                    /\ Terminal(db[id]) => db[id].state = "CANCELLED"
                    /\ new.token = db[id].token
                    /\ new.trinoNextUri = db[id].trinoNextUri
                    /\ db[id].startedAt # None => new.startedAt = db[id].startedAt
              /\ p = "ok" => new.state = "CANCELLED"
    BY <1>1, <1>5, CancelledRow
  <2>2. Stopped(s, id, readRecord(id), new, p)
    BY <2>1 DEF Stopped
  <2>. QED
    BY <1>2, <2>1, <2>2 DEF StoppedSome
<1>6. CASE /\ db[id].state \in terminalQueryStates
           /\ pc' = [pc EXCEPT ![s] = "ok"]
           /\ db' = db
  <2>1. Stopped(s, id, readRecord(id), db[id], "ok")
    BY <1>2, <1>3, <1>6 DEF Stopped
  <2>. QED
    BY <1>1, <1>2, <2>1 DEF StoppedSome
<1>. QED
  BY <1>4, <1>5, <1>6

LEMMA CancelIsStopped ==
    ASSUME Core, NEW s \in Stops, CancelReturns(s)
    PROVE  StoppedSome(s)
<1>. DEFINE id == target[s]
<1>1. /\ id \in Starts /\ db \in [Starts -> Row \cup {None}] /\ db[id] \in Row /\ db[id] # None
      /\ seen[s] \in View
  BY DEF CancelReturns, Core, TypeOK, TargetOK, RowOK, Stopping
<1>2. PICK new \in Row, p \in {"ok", "internal"} :
              /\ db' = [db EXCEPT ![id] = new]
              /\ pc' = [pc EXCEPT ![s] = p]
              /\ new # db[id] =>
                    /\ p = "ok" /\ new.state = "CANCELLED" /\ new.completedAt = s
                    /\ Terminal(db[id]) => db[id].state = "CANCELLED"
                    /\ new.token = db[id].token
                    /\ new.trinoNextUri = db[id].trinoNextUri
                    /\ db[id].startedAt # None => new.startedAt = db[id].startedAt
              /\ p = "ok" => new.state = "CANCELLED"
  BY <1>1, CancelledRow DEF CancelReturns
<1>3. target' = [target EXCEPT ![s] = id] /\ seen' = [seen EXCEPT ![s] = seen[s]]
  BY DEF CancelReturns, Core, TypeOK
<1>4. Stopped(s, id, seen[s], new, p)
  BY <1>1, <1>2, <1>3 DEF Stopped, CancelReturns
<1>. QED
  BY <1>1, <1>2, <1>4 DEF StoppedSome

LEMMA StoppedKeeps ==
    ASSUME Core, NEW s \in Stops, StoppedSome(s)
    PROVE  Kept
<1>1. PICK id \in Starts, v \in View, new \in Row, p \in {"ok", "internal", "delete"} :
        Stopped(s, id, v, new, p)
  BY DEF StoppedSome
<1>2. /\ Starts \subseteq Calls /\ Stops \subseteq Calls /\ s \in Calls /\ s \notin Starts
      /\ None \notin Calls /\ None \notin Row /\ None \notin View
  BY FacadeAssumption, NoneAssumption DEF Calls
<1>3. /\ pc[s] \in {"idle", "deleted"} /\ db[id] # None /\ db[id] \in Row
      /\ rows' = rows /\ trino' = trino /\ storage' = storage /\ crashes' = crashes
  BY <1>1 DEF Stopped, Core, TypeOK
<1>4. /\ pc' \in [Calls -> Control] /\ pc'[s] = p
      /\ \A y \in Calls \ {s} : pc'[y] = pc[y]
  BY <1>1, <1>2 DEF Stopped, Core, TypeOK, Control, Stopping, Answered
<1>5. /\ target' \in [Calls -> Starts \cup {None}] /\ target'[s] = id
      /\ \A y \in Calls \ {s} : target'[y] = target[y]
  BY <1>1, <1>2 DEF Stopped, Core, TypeOK
<1>6. /\ db' \in [Starts -> Row \cup {None}] /\ db'[id] = new
      /\ \A x \in Starts \ {id} : db'[x] = db[x]
      /\ \A x \in Starts : db'[x] # None <=> db[x] # None
  BY <1>1, <1>2, <1>3 DEF Stopped, Core, TypeOK
<1>7. /\ seen' \in [Stops -> View \cup {None}] /\ seen'[s] = v
      /\ \A y \in Stops \ {s} : seen'[y] = seen[y]
  BY <1>1 DEF Stopped, Core, TypeOK
<1>8. \A c \in Starts : pc'[c] = pc[c] /\ target'[c] = target[c]
  BY <1>2, <1>4, <1>5
\* How any row may have changed.
<1>9. \A x \in Starts : db'[x] # db[x] =>
            /\ x = id /\ p = "ok" /\ db'[x].state = "CANCELLED" /\ db'[x].completedAt = s
            /\ db[x] # None /\ (Terminal(db[x]) => db[x].state = "CANCELLED")
            /\ db'[x].token = db[x].token /\ db'[x].trinoNextUri = db[x].trinoNextUri
  BY <1>1, <1>3, <1>6 DEF Stopped
<1>10. TypeOK'
  BY <1>3, <1>4, <1>5, <1>6, <1>7 DEF Core, TypeOK
<1>11. ControlOK'
  BY <1>2, <1>4 DEF Core, ControlOK, Executing
<1>12. TargetOK'
  <2>1. \A d \in Calls : pc'[d] = "idle" => target'[d] = None
    BY <1>4, <1>5 DEF Core, TargetOK
  <2>2. \A c \in Starts : pc'[c] # "idle" => target'[c] \in Starts /\ pc'[target'[c]] # "idle"
    BY <1>8 DEF Core, TargetOK
  <2>3. \A t \in Stops : pc'[t] # "idle" => target'[t] \in Starts
    BY <1>2, <1>4, <1>5 DEF Core, TargetOK
  <2>4. \A t \in Stops : pc'[t] \in Stopping \cup {"ok"} =>
                            pc'[target'[t]] # "idle" /\ seen'[t] # None
    <3>. SUFFICES ASSUME NEW t \in Stops, pc'[t] \in Stopping \cup {"ok"}
                  PROVE  pc'[target'[t]] # "idle" /\ seen'[t] # None
      OBVIOUS
    <3>1. CASE t = s
      BY <3>1, <1>2, <1>3, <1>5, <1>7, <1>8 DEF Core, TargetOK
    <3>2. CASE t # s
      <4>1. pc[t] \in Stopping \cup {"ok"} /\ target'[t] = target[t] /\ seen'[t] = seen[t]
        BY <3>2, <1>2, <1>4, <1>5, <1>7
      <4>2. target[t] \in Starts
        BY <4>1 DEF Core, TargetOK, Stopping
      <4>. QED
        BY <4>1, <4>2, <1>8 DEF Core, TargetOK
    <3>. QED
      BY <3>1, <3>2
  <2>5. \A x \in Starts : db'[x] # None => pc'[x] # "idle"
    BY <1>6, <1>8 DEF Core, TargetOK
  <2>. QED
    BY <2>1, <2>2, <2>3, <2>4, <2>5 DEF TargetOK
<1>13. RowOK'
  <2>1. \A c \in Starts : pc'[c] \in Executing => db'[target'[c]] # None
    BY <1>6, <1>8 DEF Core, RowOK, TargetOK, Executing
  <2>2. \A t \in Stops : pc'[t] \in Stopping => db'[target'[t]] # None
    <3>. SUFFICES ASSUME NEW t \in Stops, pc'[t] \in Stopping
                  PROVE  db'[target'[t]] # None
      OBVIOUS
    <3>1. CASE t = s
      BY <3>1, <1>3, <1>5, <1>6
    <3>2. CASE t # s
      BY <3>2, <1>2, <1>4, <1>5, <1>6 DEF Core, RowOK, TargetOK, Stopping
    <3>. QED
      BY <3>1, <3>2
  <2>. QED
    BY <2>1, <2>2 DEF RowOK
<1>14. ExternalOK'
  BY <1>3, <1>8 DEF Core, ExternalOK
<1>15. SeenOK'
  <2>1. p = "delete" => v.trinoNextUri \in Starts
    BY <1>1 DEF Stopped
  <2>. QED
    BY <2>1, <1>2, <1>4, <1>7 DEF Core, SeenOK, Stopping
<1>16. EndOK'
  <2>. SUFFICES ASSUME NEW x \in Starts, db'[x] # None
                PROVE  /\ db'[x].completedAt # None =>
                            pc'[db'[x].completedAt] = "ok" /\ target'[db'[x].completedAt] = x
                       /\ Terminal(db'[x]) =>
                            \/ db'[x].state = "CANCELLED" /\ db'[x].completedAt \in Stops
                            \/ db'[x].state # "CANCELLED" /\ db'[x].completedAt \in Starts
    BY DEF EndOK, Terminal
  <2>1. CASE db'[x] = db[x]
    <3>1. db[x].completedAt \in Calls \cup {None}
      BY <2>1 DEF Core, TypeOK, Row
    <3>. QED
      BY <3>1, <2>1, <1>3, <1>4, <1>5 DEF Core, EndOK
  <2>2. CASE db'[x] # db[x]
    BY <2>2, <1>4, <1>5, <1>9
  <2>. QED
    BY <2>1, <2>2
<1>17. TokenNamesOneRow'
  <2>1. \A x \in Starts : db'[x] # None => db[x] # None /\ db'[x].token = db[x].token
    BY <1>6, <1>9
  <2>2. \A c \in Starts : pc[c] # "idle" => target[c] \in Starts
    BY DEF Core, TargetOK
  <2>3. /\ \A i, j \in Starts :
              db[i] # None /\ db[j] # None /\ db[i].token = db[j].token => i = j
        /\ \A c \in Starts :
              pc[c] # "idle" /\ db[target[c]] # None => db[target[c]].token = TokenOf[c]
    BY DEF Core, TokenNamesOneRow
  <2>4. \A i, j \in Starts :
            db'[i] # None /\ db'[j] # None /\ db'[i].token = db'[j].token => i = j
    BY <2>1, <2>3
  <2>5. \A c \in Starts :
            pc'[c] # "idle" /\ db'[target'[c]] # None => db'[target'[c]].token = TokenOf[c]
    BY <2>1, <2>2, <2>3, <1>8
  <2>. QED
    BY <2>4, <2>5 DEF TokenNamesOneRow
<1>18. SucceededIsReadable'
  <2>. SUFFICES ASSUME NEW x \in Starts, db'[x] # None, db'[x].state = "SUCCEEDED"
                PROVE  db'[x].result # None /\ storage[x] # None
    BY <1>3 DEF SucceededIsReadable
  <2>1. db'[x] = db[x]
    BY <1>9
  <2>. QED
    BY <2>1 DEF Core, SucceededIsReadable
<1>19. CancelHitsOwnQuery'
  <2>1. \A x \in Starts : db'[x] # None /\ db'[x].trinoNextUri # None =>
            /\ target'[db'[x].trinoNextUri] = x
            /\ trino[db'[x].trinoNextUri].state # "none"
    <3>. SUFFICES ASSUME NEW x \in Starts, db'[x] # None, db'[x].trinoNextUri # None
                  PROVE  /\ target'[db'[x].trinoNextUri] = x
                         /\ trino[db'[x].trinoNextUri].state # "none"
      OBVIOUS
    <3>1. db[x] # None /\ db'[x].trinoNextUri = db[x].trinoNextUri
      BY <1>6, <1>9
    <3>2. db[x].trinoNextUri \in Starts
      BY <3>1 DEF Core, TypeOK, Row
    <3>3. target[db[x].trinoNextUri] = x /\ trino[db[x].trinoNextUri].state # "none"
      BY <3>1 DEF Core, CancelHitsOwnQuery
    <3>. QED
      BY <3>1, <3>2, <3>3, <1>8
  <2>2. \A t \in Stops : pc'[t] \in Stopping => target'[seen'[t].trinoNextUri] = target'[t]
    <3>. SUFFICES ASSUME NEW t \in Stops, pc'[t] \in Stopping
                  PROVE  target'[seen'[t].trinoNextUri] = target'[t]
      OBVIOUS
    <3>1. CASE t = s
      <4>1. v.trinoNextUri = db[id].trinoNextUri /\ v.trinoNextUri \in Starts
        BY <3>1, <1>1, <1>4 DEF Stopped, Stopping
      <4>2. target[v.trinoNextUri] = id
        BY <4>1, <1>2, <1>3 DEF Core, CancelHitsOwnQuery
      <4>. QED
        BY <3>1, <4>1, <4>2, <1>5, <1>7, <1>8
    <3>2. CASE t # s
      <4>1. pc[t] \in Stopping /\ seen'[t] = seen[t] /\ target'[t] = target[t]
        BY <3>2, <1>2, <1>4, <1>5, <1>7
      <4>2. seen[t].trinoNextUri \in Starts /\ target[seen[t].trinoNextUri] = target[t]
        BY <4>1 DEF Core, SeenOK, CancelHitsOwnQuery
      <4>. QED
        BY <4>1, <4>2, <1>8
    <3>. QED
      BY <3>1, <3>2
  <2>. QED
    BY <2>1, <2>2, <1>3 DEF CancelHitsOwnQuery
<1>20. \A x \in Starts : ~Live(x) =>
            /\ ~Live(x)'
            /\ db'[x] # None => db'[x].state = db[x].state /\ db'[x].completedAt \in {s, db[x].completedAt}
  BY <1>6, <1>9 DEF Live, Terminal, terminalQueryStates
<1>21. LiveRowHasAHandler => LiveRowHasAHandler'
  <2>. SUFFICES ASSUME LiveRowHasAHandler, crashes = 0, NEW x \in Starts, db'[x] # None, ~Terminal(db'[x])
                PROVE  \E d \in Starts : target'[d] = x /\ pc'[d] \in Executing
    BY <1>3 DEF LiveRowHasAHandler, runningFor, executorsOf, Live, Terminal, Executing
  <2>1. db'[x] = db[x]
    BY <1>9 DEF Terminal, terminalQueryStates
  <2>. QED
    BY <2>1, <1>8 DEF Core, LiveRowHasAHandler, runningFor, executorsOf, Live, Terminal
<1>22. StartAnswer => StartAnswer'
  <2>. SUFFICES ASSUME StartAnswer, NEW d \in Starts, pc[d] \in {"ok", "internal"}
                PROVE  /\ db'[target[d]] = None \/ Terminal(db'[target[d]])
                       /\ pc[d] = "internal" /\ db'[target[d]] # None =>
                            db'[target[d]].state # "FAILED" /\ db'[target[d]].completedAt # d
    BY <1>8 DEF StartAnswer, Live, Terminal
  <2>1. target[d] \in Starts /\ ~Live(target[d]) /\ d # s
    BY <1>2 DEF Core, TargetOK, StartAnswer
  <2>2. /\ ~Live(target[d])'
        /\ db'[target[d]] # None =>
              /\ db[target[d]] # None
              /\ db'[target[d]].state = db[target[d]].state
              /\ db'[target[d]].completedAt \in {s, db[target[d]].completedAt}
    BY <2>1, <1>6, <1>8, <1>20 DEF Live
  <2>. QED
    BY <2>1, <2>2, <1>8 DEF Core, StartAnswer, Live, Terminal
<1>23. StopAnswer'
  <2>. SUFFICES ASSUME NEW t \in Stops, pc'[t] = "ok",
                       seen'[t].state \notin terminalQueryStates, db'[target'[t]] # None
                PROVE  db'[target'[t]].state = "CANCELLED"
    BY DEF StopAnswer
  <2>1. CASE t = s
    BY <2>1, <1>1, <1>4, <1>5, <1>6, <1>7 DEF Stopped
  <2>2. CASE t # s
    <3>1. pc[t] = "ok" /\ seen'[t] = seen[t] /\ target'[t] = target[t]
      BY <2>2, <1>2, <1>4, <1>5, <1>7
    <3>2. target[t] \in Starts
      BY <3>1 DEF Core, TargetOK
    <3>3. db[target[t]] # None /\ db[target[t]].state = "CANCELLED"
      BY <3>1, <3>2, <1>6 DEF Core, StopAnswer
    <3>. QED
      BY <3>1, <3>2, <3>3, <1>9
  <2>. QED
    BY <2>1, <2>2
<1>24. OkOK'
  <2>. SUFFICES ASSUME NEW d \in Starts, pc[d] = "ok"
                PROVE  db'[target[d]] = None \/ Terminal(db'[target[d]])
    BY <1>8 DEF OkOK, Live, Terminal
  <2>1. target[d] \in Starts /\ ~Live(target[d])
    BY DEF Core, TargetOK, OkOK
  <2>. QED
    BY <2>1, <1>20 DEF Live, Terminal
<1>. QED
  BY <1>10, <1>11, <1>12, <1>13, <1>14, <1>15, <1>16, <1>17, <1>18, <1>19, <1>21, <1>22, <1>23,
     <1>24 DEF Core, Kept

\* A Stop of an execution nobody knows.
LEMMA RefusedKeeps ==
    ASSUME Core, NEW s \in Stops, NEW id \in Starts, pc[s] = "idle",
           target' = [target EXCEPT ![s] = id],
           pc' = [pc EXCEPT ![s] = "invalid"],
           UNCHANGED <<db, rows, seen, trino, storage, crashes>>
    PROVE  Kept
<1>1. Starts \subseteq Calls /\ Stops \subseteq Calls /\ s \in Calls /\ s \notin Starts
  BY FacadeAssumption DEF Calls
<1>2. /\ pc' \in [Calls -> Control] /\ pc'[s] = "invalid"
      /\ \A y \in Calls \ {s} : pc'[y] = pc[y]
  BY <1>1 DEF Core, TypeOK, Control, Answered
<1>3. /\ target' \in [Calls -> Starts \cup {None}] /\ target'[s] = id
      /\ \A y \in Calls \ {s} : target'[y] = target[y]
  BY <1>1 DEF Core, TypeOK
<1>4. \A c \in Starts : pc'[c] = pc[c] /\ target'[c] = target[c]
  BY <1>1, <1>2, <1>3
<1>5. \A t \in Stops : pc'[t] \in Stopping \cup {"ok"} =>
                          t # s /\ pc[t] = pc'[t] /\ target'[t] = target[t] /\ target[t] \in Starts
  BY <1>1, <1>2, <1>3 DEF Core, TargetOK, Stopping
<1>6. TypeOK' /\ ControlOK'
  BY <1>1, <1>2, <1>3 DEF Core, TypeOK, ControlOK, Executing
<1>7. TargetOK'
  <2>1. \A d \in Calls : pc'[d] = "idle" => target'[d] = None
    BY <1>2, <1>3 DEF Core, TargetOK
  <2>2. /\ \A c \in Starts : pc'[c] # "idle" => target'[c] \in Starts /\ pc'[target'[c]] # "idle"
        /\ \A x \in Starts : db[x] # None => pc'[x] # "idle"
    BY <1>4 DEF Core, TargetOK
  <2>3. \A t \in Stops : pc'[t] # "idle" => target'[t] \in Starts
    BY <1>1, <1>2, <1>3 DEF Core, TargetOK
  <2>4. \A t \in Stops : pc'[t] \in Stopping \cup {"ok"} =>
                            pc'[target'[t]] # "idle" /\ seen[t] # None
    BY <1>4, <1>5 DEF Core, TargetOK
  <2>. QED
    BY <2>1, <2>2, <2>3, <2>4 DEF TargetOK
<1>8. RowOK' /\ ExternalOK' /\ SeenOK'
  BY <1>4, <1>5 DEF Core, RowOK, ExternalOK, SeenOK
<1>9. EndOK'
  <2>1. \A x \in Starts : db[x] # None => db[x].completedAt \in Calls \cup {None}
    BY DEF Core, TypeOK, Row
  <2>. QED
    BY <2>1, <1>2, <1>3 DEF Core, EndOK
<1>10. /\ TokenNamesOneRow' /\ SucceededIsReadable' /\ OkOK'
       /\ LiveRowHasAHandler => LiveRowHasAHandler'
       /\ StartAnswer => StartAnswer'
  BY <1>4 DEF Core, TokenNamesOneRow, SucceededIsReadable, OkOK, LiveRowHasAHandler, StartAnswer,
              runningFor, executorsOf, Live
<1>11. CancelHitsOwnQuery'
  <2>1. \A x \in Starts : db[x] # None => db[x].trinoNextUri \in Starts \cup {None}
    BY DEF Core, TypeOK, Row
  <2>2. \A t \in Stops : pc[t] \in Stopping => seen[t].trinoNextUri \in Starts
    BY DEF Core, SeenOK
  <2>. QED
    BY <2>1, <2>2, <1>4, <1>5 DEF Core, CancelHitsOwnQuery
<1>12. StopAnswer'
  BY <1>5 DEF Core, StopAnswer
<1>. QED
  BY <1>6, <1>7, <1>8, <1>9, <1>10, <1>11, <1>12 DEF Core, Kept

LEMMA StopKeeps ==
    ASSUME Core, NEW s \in Stops, StopQueryExecution(s)
    PROVE  Kept
<1>1. PICK id \in Starts :
        /\ target' = [target EXCEPT ![s] = id]
        /\ \/ /\ db[id] = None
              /\ pc' = [pc EXCEPT ![s] = "invalid"]
              /\ UNCHANGED <<db, seen>>
           \/ /\ db[id] # None
              /\ seen' = [seen EXCEPT ![s] = readRecord(id)]
              /\ \/ /\ db[id].state = "RUNNING" /\ db[id].trinoNextUri # None
                    /\ pc' = [pc EXCEPT ![s] = "delete"]
                    /\ db' = db
                 \/ WriteCancelled(s, id)
                 \/ /\ db[id].state \in terminalQueryStates
                    /\ pc' = [pc EXCEPT ![s] = "ok"]
                    /\ db' = db
  BY DEF StopQueryExecution
<1>2. pc[s] = "idle" /\ UNCHANGED <<rows, trino, storage, crashes>>
  BY DEF StopQueryExecution
<1>3. CASE db[id] = None /\ UNCHANGED <<db, seen>> /\ pc' = [pc EXCEPT ![s] = "invalid"]
  BY <1>1, <1>2, <1>3, RefusedKeeps
<1>4. CASE db[id] # None
  BY <1>1, <1>2, <1>4, StopIsStopped, StoppedKeeps
<1>. QED
  BY <1>1, <1>3, <1>4

(***************************************************************************)
(* Restart.                                                                *)
(***************************************************************************)
LEMMA RestartKeeps ==
    ASSUME Core, Restart
    PROVE  Kept
<1>1. /\ Starts \subseteq Calls /\ Stops \subseteq Calls
  BY DEF Calls
<1>2. /\ pc' \in [Calls -> Control]
      /\ \A y \in Calls : /\ pc'[y] \notin Executing \cup Stopping
                          /\ pc'[y] # pc[y] => pc'[y] = "dead" /\ pc[y] \in Executing \cup Stopping
                          /\ pc[y] \in Answered => pc'[y] = pc[y]
  BY DEF Restart, Core, TypeOK, Control, Executing, Stopping, Answered
<1>3. /\ target' = target /\ rows' = rows /\ seen' = seen /\ trino' = trino /\ storage' = storage
      /\ crashes' = crashes + 1 /\ crashes' \in Nat /\ crashes' # 0
  BY DEF Restart, Core, TypeOK
<1>4. /\ db' \in [Starts -> Row \cup {None}]
      /\ \A x \in Starts : db'[x] # None => db[x] # None /\ db'[x] = db[x]
  BY DEF Restart, Core, TypeOK
<1>5. \A y \in Calls : pc'[y] = "idle" <=> pc[y] = "idle"
  BY <1>2 DEF Executing, Stopping
<1>6. TypeOK' /\ ControlOK'
  BY <1>1, <1>2, <1>3, <1>4 DEF Core, TypeOK, ControlOK
<1>7. TargetOK'
  <2>1. /\ \A d \in Calls : pc'[d] = "idle" => target[d] = None
        /\ \A d \in Starts : pc'[d] # "idle" => target[d] \in Starts /\ pc'[target[d]] # "idle"
        /\ \A s \in Stops : pc'[s] # "idle" => target[s] \in Starts
    BY <1>1, <1>5 DEF Core, TargetOK
  <2>2. \A s \in Stops : pc'[s] \in Stopping \cup {"ok"} => pc[s] = "ok" /\ target[s] \in Starts
    BY <1>1, <1>2 DEF Core, TargetOK
  <2>3. \A s \in Stops : pc[s] = "ok" => pc[target[s]] # "idle" /\ seen[s] # None
    BY DEF Core, TargetOK
  <2>4. \A x \in Starts : db'[x] # None => pc'[x] # "idle"
    BY <1>1, <1>4, <1>5 DEF Core, TargetOK
  <2>. QED
    BY <2>1, <2>2, <2>3, <2>4, <1>1, <1>3, <1>5 DEF TargetOK
<1>8. RowOK' /\ ExternalOK' /\ SeenOK'
  <2>1. RowOK' /\ SeenOK'
    BY <1>1, <1>2 DEF RowOK, SeenOK
  <2>2. \A c \in Starts : /\ pc'[c] = "idle" => pc[c] = "idle"
                          /\ pc'[c] \in {"accepted", "fetch", "write", "stored"} => FALSE
    BY <1>1, <1>2, <1>5 DEF Executing
  <2>3. ExternalOK'
    BY <2>2, <1>3 DEF Core, ExternalOK
  <2>. QED
    BY <2>1, <2>3
<1>9. EndOK'
  <2>1. \A x \in Starts : db[x] # None => db[x].completedAt \in Calls \cup {None}
    BY DEF Core, TypeOK, Row
  <2>2. \A y \in Calls : pc[y] = "ok" => pc'[y] = "ok"
    BY <1>2 DEF Answered
  <2>. QED
    BY <2>1, <2>2, <1>3, <1>4 DEF Core, EndOK
<1>10. TokenNamesOneRow'
  <2>1. \A c \in Starts : pc[c] # "idle" => target[c] \in Starts
    BY DEF Core, TargetOK
  <2>2. \A i, j \in Starts :
            db'[i] # None /\ db'[j] # None /\ db'[i].token = db'[j].token => i = j
    BY <1>4 DEF Core, TokenNamesOneRow
  <2>3. \A c \in Starts : pc'[c] # "idle" /\ db'[target[c]] # None =>
                            db'[target[c]].token = TokenOf[c]
    BY <2>1, <1>1, <1>4, <1>5 DEF Core, TokenNamesOneRow
  <2>. QED
    BY <2>2, <2>3, <1>3 DEF TokenNamesOneRow
<1>11. SucceededIsReadable'
  BY <1>3, <1>4 DEF Core, SucceededIsReadable
<1>12. CancelHitsOwnQuery'
  BY <1>1, <1>2, <1>3, <1>4 DEF Core, CancelHitsOwnQuery
<1>13. LiveRowHasAHandler'
  BY <1>3 DEF LiveRowHasAHandler
<1>14. StartAnswer => StartAnswer'
  <2>. SUFFICES ASSUME StartAnswer, NEW d \in Starts, pc'[d] \in {"ok", "internal"}
                PROVE  /\ db'[target[d]] = None \/ Terminal(db'[target[d]])
                       /\ pc'[d] = "internal" /\ db'[target[d]] # None =>
                            db'[target[d]].state # "FAILED" /\ db'[target[d]].completedAt # d
    BY <1>3 DEF StartAnswer, Live, Terminal
  <2>1. pc'[d] = pc[d] /\ target[d] \in Starts
    BY <1>1, <1>2 DEF Core, TargetOK
  <2>. QED
    BY <2>1, <1>4 DEF Core, StartAnswer, Live, Terminal
<1>15. StopAnswer'
  <2>. SUFFICES ASSUME NEW s \in Stops, pc'[s] = "ok",
                       seen[s].state \notin terminalQueryStates, db'[target[s]] # None
                PROVE  db'[target[s]].state = "CANCELLED"
    BY <1>3 DEF StopAnswer
  <2>1. pc[s] = "ok" /\ target[s] \in Starts
    BY <1>1, <1>2 DEF Core, TargetOK
  <2>. QED
    BY <2>1, <1>4 DEF Core, StopAnswer
<1>16. OkOK'
  <2>. SUFFICES ASSUME NEW d \in Starts, pc'[d] = "ok"
                PROVE  db'[target[d]] = None \/ Terminal(db'[target[d]])
    BY <1>3 DEF OkOK, Live, Terminal
  <2>1. pc[d] = "ok" /\ target[d] \in Starts
    BY <1>1, <1>2 DEF Core, TargetOK
  <2>. QED
    BY <2>1, <1>4 DEF Core, OkOK, Live, Terminal
<1>. QED
  BY <1>6, <1>7, <1>8, <1>9, <1>10, <1>11, <1>12, <1>13, <1>14, <1>15, <1>16 DEF Core, Kept

(***************************************************************************)
(* The invariant holds of every behavior.                                  *)
(***************************************************************************)
LEMMA InitIInv == Init => IInv
<1>. SUFFICES ASSUME Init PROVE IInv
  OBVIOUS
<1>1. /\ db = [id \in Starts |-> None] /\ pc = [c \in Calls |-> "idle"]
      /\ target = [c \in Calls |-> None] /\ rows = [c \in Starts |-> <<>>]
      /\ seen = [s \in Stops |-> None]
      /\ trino = [c \in Starts |-> [state |-> "none", sent |-> 0]]
      /\ storage = [id \in Starts |-> None] /\ crashes = 0
  BY DEF Init
<1>2. Starts \subseteq Calls /\ Stops \subseteq Calls
  BY DEF Calls
<1>3. <<>> \in Rows
  BY DEF Rows
<1>4. TypeOK
  BY <1>1, <1>3 DEF TypeOK, Control
<1>5. ControlOK /\ TargetOK /\ RowOK /\ ExternalOK /\ SeenOK /\ EndOK
  BY <1>1, <1>2 DEF ControlOK, TargetOK, RowOK, ExternalOK, SeenOK, EndOK, Executing, Stopping
<1>6. TokenNamesOneRow /\ SucceededIsReadable /\ CancelHitsOwnQuery
  BY <1>1, <1>2 DEF TokenNamesOneRow, SucceededIsReadable, CancelHitsOwnQuery, Stopping
<1>7. LiveRowHasAHandler /\ StartAnswer /\ OkOK /\ StopAnswer
  BY <1>1, <1>2 DEF LiveRowHasAHandler, StartAnswer, OkOK, StopAnswer, Live
<1>. QED
  BY <1>4, <1>5, <1>6, <1>7 DEF IInv, Core

LEMMA StutterKeeps ==
    ASSUME Core, UNCHANGED vars
    PROVE  Kept
BY DEF vars, Core, TypeOK, ControlOK, TargetOK, RowOK, ExternalOK, SeenOK, EndOK,
       TokenNamesOneRow, SucceededIsReadable, CancelHitsOwnQuery, LiveRowHasAHandler,
       StartAnswer, OkOK, StopAnswer, Live, runningFor, executorsOf, Terminal, Kept

LEMMA NextKeeps ==
    ASSUME Core, [Next]_vars
    PROVE  Kept
<1>1. ASSUME NEW c \in Starts, StartQueryExecution(c) PROVE Kept
  BY <1>1, StartKeeps
<1>2. ASSUME NEW c \in Starts, TrinoAccepts(c) PROVE Kept
  BY <1>2, TrinoAcceptsKeeps
<1>3. ASSUME NEW c \in Starts, SubmitReturns(c) PROVE Kept
  <2>1. pc[c] \in Executing
    BY <1>3 DEF SubmitReturns, Executing
  <2>. QED
    BY <1>3, <2>1, SubmitResumed, ResumedKeeps
<1>4. ASSUME NEW c \in Starts, FetchReturns(c) PROVE Kept
  <2>1. pc[c] \in Executing
    BY <1>4 DEF FetchReturns, Executing
  <2>. QED
    BY <1>4, <2>1, FetchResumed, ResumedKeeps
<1>5. ASSUME NEW c \in Starts, StorageWrites(c) PROVE Kept
  BY <1>5, StorageWritesKeeps
<1>6. ASSUME NEW c \in Starts, WriteReturns(c) PROVE Kept
  <2>1. pc[c] \in Executing
    BY <1>6 DEF WriteReturns, Executing
  <2>. QED
    BY <1>6, <2>1, WriteResumed, ResumedKeeps
<1>7. ASSUME NEW c \in Starts, SubmitThrows(c) \/ FetchThrows(c) \/ WriteThrows(c) PROVE Kept
  <2>1. pc[c] \in Executing
    BY <1>7 DEF SubmitThrows, FetchThrows, WriteThrows, Executing
  <2>. QED
    BY <1>7, <2>1, ThrowsResumed, ResumedKeeps
<1>8. ASSUME NEW s \in Stops, StopQueryExecution(s) PROVE Kept
  BY <1>8, StopKeeps
<1>9. ASSUME NEW s \in Stops, TrinoCancels(s) PROVE Kept
  BY <1>9, TrinoCancelsKeeps
<1>10. ASSUME NEW s \in Stops, CancelReturns(s) PROVE Kept
  BY <1>10, CancelIsStopped, StoppedKeeps
<1>11. ASSUME NEW s \in Stops, CancelThrows(s) PROVE Kept
  BY <1>11, CancelThrowsKeeps
<1>12. CASE Restart
  BY <1>12, RestartKeeps
<1>13. CASE UNCHANGED vars
  BY <1>13, StutterKeeps
<1>. QED
  BY <1>1, <1>2, <1>3, <1>4, <1>5, <1>6, <1>7, <1>8, <1>9, <1>10, <1>11, <1>12, <1>13
     DEF Next, StartStep, StopStep

\* In every behavior the inductive invariant holds.
THEOREM Invariance == Spec => []IInv
<1>1. IInv /\ [Next]_vars => IInv'
  BY NextKeeps DEF IInv, Kept
<1>. QED
  BY <1>1, InitIInv, PTL DEF Spec

(***************************************************************************)
(* What follows from it.                                                   *)
(***************************************************************************)

\* The variables keep their types.
THEOREM TypeCorrect == Spec => []TypeOK
<1>1. IInv => TypeOK
  BY DEF IInv, Core
<1>. QED
  BY <1>1, Invariance, PTL

\* A ClientRequestToken names one row, and every call works on the row of its
\* own token, however the calls and restarts interleave.
THEOREM OneRowPerToken == Spec => []TokenNamesOneRow
<1>1. IInv => TokenNamesOneRow
  BY DEF IInv, Core
<1>. QED
  BY <1>1, Invariance, PTL

\* An execution that says SUCCEEDED has its rows in the store and its CSV in
\* the bucket.
THEOREM SuccessIsReadable == Spec => []SucceededIsReadable
<1>1. IInv => SucceededIsReadable
  BY DEF IInv, Core
<1>. QED
  BY <1>1, Invariance, PTL

\* A Stop never sends its DELETE to the query of another execution.
THEOREM CancelIsOwn == Spec => []CancelHitsOwnQuery
<1>1. IInv => CancelHitsOwnQuery
  BY DEF IInv, Core
<1>. QED
  BY <1>1, Invariance, PTL

\* Until the process restarts, a live execution has a handler to end it.
THEOREM NoOrphans == Spec => []LiveRowHasAHandler
<1>1. IInv => LiveRowHasAHandler
  BY DEF IInv
<1>. QED
  BY <1>1, Invariance, PTL

\* A Start that answers 200 or 500 leaves its execution ended, and 500 only
\* when another call had ended it before.
THEOREM StartsAreTrue == Spec => []StartAnswer
<1>1. IInv => StartAnswer
  BY DEF IInv
<1>. QED
  BY <1>1, Invariance, PTL

\* A Stop that answers 200 for an execution it found under way leaves it
\* CANCELLED.
THEOREM StopsAreTrue == Spec => []StopAnswer
<1>1. IInv => StopAnswer
  BY DEF IInv, Core
<1>. QED
  BY <1>1, Invariance, PTL

\* CANCELLED is the work of a Stop, FAILED and SUCCEEDED of a call that ran
\* the execution.
THEOREM EndsAreOwned == Spec => []EndedBy
<1>1. IInv => EndedBy
  <2>. SUFFICES ASSUME Core, NEW id \in Starts, db[id] # None, Terminal(db[id])
                PROVE  \/ db[id].state = "CANCELLED" /\ db[id].completedAt \in Stops
                       \/ db[id].state # "CANCELLED" /\ db[id].completedAt \in executorsOf(id)
    BY DEF EndedBy, Terminal, IInv
  <2>1. /\ \/ db[id].state = "CANCELLED" /\ db[id].completedAt \in Stops
           \/ db[id].state # "CANCELLED" /\ db[id].completedAt \in Starts
        /\ db[id].completedAt # None =>
              pc[db[id].completedAt] = "ok" /\ target[db[id].completedAt] = id
    BY DEF Core, EndOK
  <2>2. None \notin Starts
    BY NoneAssumption DEF Calls
  <2>. QED
    BY <2>1, <2>2 DEF executorsOf
<1>. QED
  BY <1>1, Invariance, PTL

\* No step takes back an end, a beginning or, with a durable table, a row.
LEMMA NextKeepsEnds ==
    ASSUME Core, [Next]_vars
    PROVE  [KeepsEnds]_vars
<1>. DEFINE Lasts(x) ==
                /\ db'[x] # None
                /\ db[x].state \in terminalQueryStates => db'[x].state = db[x].state
                /\ db[x].state # "QUEUED" => db'[x].state # "QUEUED"
                /\ db[x].startedAt # None => db'[x].startedAt = db[x].startedAt
<1>1. ASSUME Core, NEW c \in Starts, pc[c] \in Executing, Resumed(c)
      PROVE  KeepsEnds
  <2>1. /\ target[c] \in Starts /\ db[target[c]] \in Row
        /\ db \in [Starts -> Row \cup {None}]
    BY <1>1, Handler
  <2>2. PICK new \in Row, p \in {"ok", "internal", "fetch", "write"} :
          RowChange(c, db[target[c]], new, p) /\ db' = [db EXCEPT ![target[c]] = new]
    BY <1>1 DEF Resumed
  <2>3. new # None
    BY NoneAssumption
  <2>4. Lasts(target[c])
    BY <2>1, <2>2, <2>3 DEF RowChange, Terminal
  <2>5. \A id \in Starts \ {target[c]} : db'[id] = db[id]
    BY <2>1, <2>2
  <2>6. \A x \in Starts : db[x] # None => Lasts(x)
    BY <2>4, <2>5
  <2>. QED
    BY <2>6 DEF KeepsEnds
<1>2. ASSUME Core, NEW s \in Stops, StoppedSome(s)
      PROVE  KeepsEnds
  <2>1. PICK id \in Starts, v \in View, new \in Row, p \in {"ok", "internal", "delete"} :
          Stopped(s, id, v, new, p)
    BY <1>2 DEF StoppedSome
  <2>2. db \in [Starts -> Row \cup {None}] /\ db' = [db EXCEPT ![id] = new] /\ new # None
    BY <1>2, <2>1, NoneAssumption DEF Stopped, Core, TypeOK
  <2>3. db[id] # None => Lasts(id)
    BY <2>1, <2>2 DEF Stopped, Terminal, terminalQueryStates
  <2>4. \A x \in Starts \ {id} : db'[x] = db[x]
    BY <2>2
  <2>6. \A x \in Starts : db[x] # None => Lasts(x)
    BY <2>3, <2>4
  <2>. QED
    BY <2>6 DEF KeepsEnds
<1>3. ASSUME Core, NEW c \in Starts, StartQueryExecution(c)
      PROVE  KeepsEnds
  <2>1. db[c] = None /\ db \in [Starts -> Row \cup {None}]
    BY <1>3 DEF StartQueryExecution, Core, TargetOK, TypeOK
  <2>2. \A id \in Starts : db[id] # None => db'[id] = db[id]
    BY <1>3, <2>1 DEF StartQueryExecution
  <2>. QED
    BY <2>2 DEF KeepsEnds
<1>4. ASSUME Core, db' = db
      PROVE  KeepsEnds
  BY <1>4 DEF KeepsEnds
<1>5. ASSUME Core, Restart
      PROVE  KeepsEnds
  <2>1. crashes' # crashes
    BY <1>5 DEF Restart, Core, TypeOK
  <2>2. Persistent => db' = db
    BY <1>5 DEF Restart
  <2>. QED
    BY <2>1, <2>2 DEF KeepsEnds
<1>6. ASSUME Core, NEW c \in Starts, StartStep(c)
      PROVE  KeepsEnds
  <2>1. CASE StartQueryExecution(c)
    BY <1>3, <1>6, <2>1
  <2>2. CASE TrinoAccepts(c) \/ StorageWrites(c)
    BY <1>4, <1>6, <2>2 DEF TrinoAccepts, StorageWrites
  <2>3. CASE SubmitReturns(c)
    BY <1>1, <1>6, <2>3, SubmitResumed DEF SubmitReturns, Executing
  <2>4. CASE FetchReturns(c)
    BY <1>1, <1>6, <2>4, FetchResumed DEF FetchReturns, Executing
  <2>5. CASE WriteReturns(c)
    BY <1>1, <1>6, <2>5, WriteResumed DEF WriteReturns, Executing
  <2>6. CASE SubmitThrows(c) \/ FetchThrows(c) \/ WriteThrows(c)
    BY <1>1, <1>6, <2>6, ThrowsResumed DEF SubmitThrows, FetchThrows, WriteThrows, Executing
  <2>. QED
    BY <1>6, <2>1, <2>2, <2>3, <2>4, <2>5, <2>6 DEF StartStep
<1>7. ASSUME Core, NEW s \in Stops, StopStep(s)
      PROVE  KeepsEnds
  <2>1. CASE StopQueryExecution(s)
    <3>1. db' = db \/ StoppedSome(s)
      BY <1>7, <2>1, StopIsStopped DEF StopQueryExecution
    <3>. QED
      BY <1>2, <1>4, <1>7, <3>1
  <2>2. CASE CancelReturns(s)
    BY <1>2, <1>7, <2>2, CancelIsStopped
  <2>3. CASE TrinoCancels(s) \/ CancelThrows(s)
    BY <1>4, <1>7, <2>3 DEF TrinoCancels, CancelThrows
  <2>. QED
    BY <1>7, <2>1, <2>2, <2>3 DEF StopStep
<1>. QED
  BY <1>5, <1>6, <1>7 DEF Next

\* An execution's state is final once it has ended, it never gets back to
\* QUEUED, its start is stamped once, and it disappears only with a table in
\* memory.
THEOREM EndsAreFinal == Spec => StateIsFinal
<1>1. IInv /\ [Next]_vars => [KeepsEnds]_vars
  BY NextKeepsEnds DEF IInv
<1>2. Spec => [][KeepsEnds]_vars
  BY <1>1, Invariance, PTL DEF Spec
<1>. QED
  BY <1>2 DEF StateIsFinal

(***************************************************************************)
(* The result of an execution: a second invariant on top of the first, of  *)
(* what a handler has collected at each of its control points.             *)
(***************************************************************************)

\* The rows of the call's Trino query: those of every page sent so far.
FullRows(c) == [k \in 1..trino[c].sent |-> <<c, k>>]

Collecting == {"accepted", "fetch", "write", "stored"}

ResultOK ==
    /\ \A c \in Starts : pc[c] \in {"idle", "submit"} => rows[c] = <<>> /\ trino[c].sent = 0
    /\ \A c \in Starts : pc[c] \in Collecting => rows[c] = FullRows(c)
    /\ \A c \in Starts : pc[c] \in {"write", "stored"} => trino[c].state = "finished"
    /\ \A c \in Starts :
         pc[c] = "stored" /\ executorsOf(target[c]) = {c} => storage[target[c]] = rows[c]

QInv == Core /\ ResultOK /\ ResultIsTheQuerys

LEMMA AppendRow ==
    ASSUME NEW c, NEW n \in Nat
    PROVE  Append([k \in 1..n |-> <<c, k>>], <<c, n + 1>>) = [k \in 1..(n + 1) |-> <<c, k>>]
OBVIOUS

LEMMA NoRows ==
    ASSUME NEW c
    PROVE  <<>> = [k \in 1..0 |-> <<c, k>>]
OBVIOUS

\* A step of the Start handler c after its first one.
Moves(c) ==
    /\ target' = target
    /\ pc[c] \in Executing /\ pc'[c] \in Collecting \cup {"ok", "internal"}
    /\ \A x \in Calls \ {c} : pc'[x] = pc[x]
    /\ \A d \in Starts \ {c} : rows'[d] = rows[d] /\ trino'[d] = trino[d]
    /\ \A id \in Starts \ {target[c]} : db'[id] = db[id] /\ storage'[id] = storage[id]

\* What such a step has to get right itself.
MovesRight(c) ==
    /\ pc'[c] \in Collecting => rows'[c] = FullRows(c)'
    /\ pc'[c] \in {"write", "stored"} => trino'[c].state = "finished"
    /\ pc'[c] = "stored" => storage'[target[c]] = rows'[c]
    /\ (pc'[c] = "ok" /\ db'[target[c]].state = "SUCCEEDED" /\ executorsOf(target[c]) = {c}) =>
          /\ trino'[c].state = "finished"
          /\ db'[target[c]].result = FullRows(c)' /\ storage'[target[c]] = db'[target[c]].result

\* An execution that one call ran and that has succeeded is no longer worked
\* on: that call has answered.
LEMMA SuccessIsAnswered ==
    ASSUME Core, NEW id \in Starts, NEW c \in Starts, db[id] # None,
           db[id].state = "SUCCEEDED", executorsOf(id) = {c}
    PROVE  pc[c] = "ok"
<1>1. /\ db[id].completedAt \in Starts
      /\ db[id].completedAt # None =>
            pc[db[id].completedAt] = "ok" /\ target[db[id].completedAt] = id
  BY DEF Core, EndOK, Terminal, terminalQueryStates
<1>2. None \notin Starts
  BY NoneAssumption DEF Calls
<1>. QED
  BY <1>1, <1>2 DEF executorsOf

LEMMA MoveKeeps ==
    ASSUME QInv, Core', NEW c \in Starts, Moves(c), MovesRight(c)
    PROVE  QInv'
<1>1. /\ c \in Calls /\ Starts \subseteq Calls
      /\ target[c] \in Starts
  BY Handler DEF QInv, Moves, Calls
<1>2. \A id : executorsOf(id)' = executorsOf(id)
  BY <1>1 DEF Moves, executorsOf, Executing, Collecting
<1>3. \A d \in Starts \ {c} : pc'[d] = pc[d] /\ rows'[d] = rows[d] /\ FullRows(d)' = FullRows(d)
  BY <1>1 DEF Moves, FullRows
<1>4. c \in executorsOf(target[c])
  BY DEF Moves, executorsOf, Executing
<1>5. \A d \in Starts \ {c} : executorsOf(target[d]) = {d} => target[d] # target[c]
  BY <1>4
<1>6. ResultOK'
  <2>1. \A d \in Starts : pc'[d] \in {"idle", "submit"} => rows'[d] = <<>> /\ trino'[d].sent = 0
    BY <1>3 DEF QInv, ResultOK, Moves, Collecting
  <2>2. \A d \in Starts : pc'[d] \in Collecting => rows'[d] = FullRows(d)'
    BY <1>3 DEF QInv, ResultOK, MovesRight
  <2>3. \A d \in Starts : pc'[d] \in {"write", "stored"} => trino'[d].state = "finished"
    BY <1>3 DEF QInv, ResultOK, Moves, MovesRight
  <2>4. ASSUME NEW d \in Starts, pc'[d] = "stored", executorsOf(target[d]) = {d}
        PROVE  storage'[target[d]] = rows'[d]
    <3>1. CASE d = c
      BY <2>4, <3>1 DEF MovesRight
    <3>2. CASE d # c
      <4>1. target[d] # target[c] /\ target[d] \in Starts
        BY <1>1, <1>3, <1>5, <2>4, <3>2 DEF QInv, Core, TargetOK
      <4>. QED
        BY <1>3, <2>4, <3>2, <4>1 DEF QInv, ResultOK, Moves
    <3>. QED
      BY <3>1, <3>2
  <2>5. target' = target
    BY DEF Moves
  <2>. QED
    BY <1>2, <2>1, <2>2, <2>3, <2>4, <2>5 DEF ResultOK
<1>7. ResultIsTheQuerys'
  <2>. SUFFICES ASSUME NEW id \in Starts, NEW d \in Starts, db'[id] # None,
                       db'[id].state = "SUCCEEDED", executorsOf(id) = {d}
                PROVE  /\ trino'[d].state = "finished"
                       /\ db'[id].result = FullRows(d)'
                       /\ storage'[id] = db'[id].result
    BY <1>2 DEF ResultIsTheQuerys, FullRows
  <2>1. CASE d = c
    <3>1. target[c] = id
      BY <2>1 DEF executorsOf
    <3>2. pc'[c] = "ok"
      <4>1. /\ db'[id].completedAt \in Starts
            /\ db'[id].completedAt # None =>
                  pc'[db'[id].completedAt] = "ok" /\ target'[db'[id].completedAt] = id
        BY DEF Core, EndOK, Terminal, terminalQueryStates
      <4>2. None \notin Starts
        BY NoneAssumption DEF Calls
      <4>3. db'[id].completedAt \in executorsOf(id)'
        BY <4>1, <4>2 DEF executorsOf
      <4>. QED
        BY <1>2, <2>1, <4>1, <4>2, <4>3
    <3>. QED
      BY <2>1, <3>1, <3>2 DEF MovesRight
  <2>2. CASE d # c
    <3>1. id # target[c]
      BY <1>4, <2>2
    <3>. QED
      BY <1>3, <2>2, <3>1 DEF Moves, QInv, ResultIsTheQuerys, FullRows
  <2>. QED
    BY <2>1, <2>2
<1>. QED
  BY <1>6, <1>7 DEF QInv

\* A resumed handler: a success it finds is not its own, and one it writes has
\* its rows.
LEMMA ResumedMoves ==
    ASSUME QInv, Core', NEW c \in Starts, pc[c] \in Executing, Resumed(c), Frame(c),
           \A d \in Starts \ {c} : rows'[d] = rows[d] /\ trino'[d] = trino[d],
           pc'[c] \in Collecting => rows'[c] = FullRows(c)',
           pc'[c] = "write" => trino'[c].state = "finished",
           pc[c] = "stored" => trino' = trino
    PROVE  QInv'
<1>. DEFINE id == target[c]
<1>1. /\ c \in Calls /\ id \in Starts /\ db[id] # None /\ db[id] \in Row
      /\ db \in [Starts -> Row \cup {None}] /\ pc \in [Calls -> Control]
  BY Handler DEF QInv
<1>2. PICK new \in Row, p \in {"ok", "internal", "fetch", "write"} :
        /\ RowChange(c, db[id], new, p)
        /\ db' = [db EXCEPT ![id] = new]
        /\ pc' = [pc EXCEPT ![c] = p]
  BY DEF Resumed
<1>3. /\ db'[id] = new /\ pc'[c] = p
      /\ \A x \in Starts \ {id} : db'[x] = db[x]
      /\ \A x \in Calls \ {c} : pc'[x] = pc[x]
  BY <1>1, <1>2
<1>4. target' = target /\ storage' = storage
  BY DEF Frame
<1>5. Moves(c)
  BY <1>3, <1>4 DEF Moves, Collecting
<1>6. MovesRight(c)
  <2>1. ASSUME p = "ok", new.state = "SUCCEEDED", executorsOf(id) = {c}
        PROVE  /\ trino'[c].state = "finished"
               /\ new.result = FullRows(c)' /\ storage'[id] = new.result
    <3>1. pc[c] # "ok"
      BY DEF Executing
    <3>2. new # db[id]
      BY <1>1, <2>1, <3>1, SuccessIsAnswered DEF QInv
    <3>3. pc[c] = "stored" /\ new.result = rows[c]
      BY <1>2, <2>1, <3>2 DEF RowChange
    <3>4. /\ trino[c].state = "finished" /\ rows[c] = FullRows(c) /\ storage[id] = rows[c]
      BY <2>1, <3>3 DEF QInv, ResultOK, Collecting
    <3>5. trino' = trino
      BY <3>3
    <3>. QED
      BY <1>4, <3>3, <3>4, <3>5 DEF FullRows
  <2>. QED
    BY <1>3, <2>1 DEF MovesRight
<1>. QED
  BY <1>5, <1>6, MoveKeeps

\* What a page adds to the handler's rows it adds to Trino's count.
LEMMA PageIsCounted ==
    ASSUME TypeOK, NEW c \in Starts, NEW page \in Page, rows[c] = FullRows(c),
           TrinoAnswers(c, page),
           rows' = IF page.data
                   THEN [rows EXCEPT ![c] = Append(@, <<c, trino[c].sent + 1>>)] ELSE rows
    PROVE  /\ rows'[c] = FullRows(c)'
           /\ page.kind = "last" => trino'[c].state = "finished"
<1>1. /\ trino \in TrinoType /\ rows \in [Starts -> Rows] /\ trino[c].sent \in Nat
  BY DEF TypeOK, TrinoType
<1>2. CASE page.data
  <2>1. /\ trino'[c].sent = trino[c].sent + 1
        /\ page.kind = "last" => trino'[c].state = "finished"
    BY <1>1, <1>2 DEF TrinoAnswers, TrinoType
  <2>2. rows'[c] = Append(FullRows(c), <<c, trino[c].sent + 1>>)
    BY <1>1, <1>2
  <2>3. FullRows(c)' = [k \in 1..(trino[c].sent + 1) |-> <<c, k>>]
    BY <2>1 DEF FullRows
  <2>4. Append([k \in 1..trino[c].sent |-> <<c, k>>], <<c, trino[c].sent + 1>>)
            = [k \in 1..(trino[c].sent + 1) |-> <<c, k>>]
    BY <1>1, AppendRow
  <2>. QED
    BY <2>1, <2>2, <2>3, <2>4 DEF FullRows
<1>3. CASE ~page.data
  <2>1. /\ trino'[c].sent = trino[c].sent
        /\ page.kind = "last" => trino'[c].state = "finished"
    BY <1>1, <1>3 DEF TrinoAnswers, TrinoType
  <2>. QED
    BY <1>3, <2>1 DEF FullRows
<1>. QED
  BY <1>2, <1>3

\* Answers come from the call's own query and go to its own rows.
LEMMA OthersAlone ==
    ASSUME TypeOK, NEW c \in Starts, NEW page, TrinoAnswers(c, page)
    PROVE  \A d \in Starts \ {c} : trino'[d] = trino[d]
BY DEF TypeOK, TrinoAnswers

LEMMA FetchKeepsResult ==
    ASSUME QInv, Core', NEW c \in Starts, FetchReturns(c)
    PROVE  QInv'
<1>1. TypeOK /\ pc[c] = "fetch" /\ pc[c] \in Executing /\ rows[c] = FullRows(c)
  BY DEF QInv, Core, ResultOK, FetchReturns, Executing, Collecting
<1>2. Resumed(c) /\ Frame(c)
  BY FetchResumed DEF QInv
<1>3. PICK page \in Page : TrinoAnswers(c, page) /\ HandlePage(c, db, page)
  BY DEF FetchReturns
<1>4. rows' = IF page.data
              THEN [rows EXCEPT ![c] = Append(@, <<c, trino[c].sent + 1>>)] ELSE rows
  BY <1>3 DEF HandlePage
<1>5. \A d \in Starts \ {c} : rows'[d] = rows[d] /\ trino'[d] = trino[d]
  BY <1>1, <1>3, <1>4, OthersAlone DEF TypeOK
<1>6. rows'[c] = FullRows(c)' /\ (page.kind = "last" => trino'[c].state = "finished")
  BY <1>1, <1>3, <1>4, PageIsCounted
<1>7. pc'[c] = "write" => page.kind = "last"
  <2>1. pc \in [Calls -> Control] /\ c \in Calls
    BY <1>1 DEF TypeOK, Calls
  <2>. QED
    BY <1>3, <2>1 DEF HandlePage, Settle, Throw
<1>. QED
  BY <1>1, <1>2, <1>5, <1>6, <1>7, ResumedMoves

LEMMA SubmitKeepsResult ==
    ASSUME QInv, Core', NEW c \in Starts, SubmitReturns(c)
    PROVE  QInv'
<1>1. TypeOK /\ pc[c] = "accepted" /\ pc[c] \in Executing /\ rows[c] = FullRows(c)
  BY DEF QInv, Core, ResultOK, SubmitReturns, Executing, Collecting
<1>2. Resumed(c) /\ Frame(c)
  BY SubmitResumed DEF QInv
<1>3. PICK page \in Page :
        /\ TrinoAnswers(c, page)
        /\ \/ HandlePage(c, [db EXCEPT ![target[c]] =
                               updateState(@, c, submittedAs(c, page))], page)
           \/ Throw(c, db) /\ rows' = rows
  BY DEF SubmitReturns
<1>4. pc \in [Calls -> Control] /\ c \in Calls
  BY <1>1 DEF TypeOK, Calls
<1>5. CASE Throw(c, db) /\ rows' = rows
  <2>1. pc'[c] \in {"ok", "internal"}
    BY <1>4, <1>5 DEF Throw, Settle
  <2>2. \A d \in Starts \ {c} : rows'[d] = rows[d] /\ trino'[d] = trino[d]
    BY <1>1, <1>3, <1>5, OthersAlone
  <2>. QED
    BY <1>1, <1>2, <2>1, <2>2, ResumedMoves DEF Collecting
<1>6. CASE HandlePage(c, [db EXCEPT ![target[c]] =
                            updateState(@, c, submittedAs(c, page))], page)
  <2>1. rows' = IF page.data
                THEN [rows EXCEPT ![c] = Append(@, <<c, trino[c].sent + 1>>)] ELSE rows
    BY <1>6 DEF HandlePage
  <2>2. \A d \in Starts \ {c} : rows'[d] = rows[d] /\ trino'[d] = trino[d]
    BY <1>1, <1>3, <2>1, OthersAlone DEF TypeOK
  <2>3. rows'[c] = FullRows(c)' /\ (page.kind = "last" => trino'[c].state = "finished")
    BY <1>1, <1>3, <2>1, PageIsCounted
  <2>4. pc'[c] = "write" => page.kind = "last"
    BY <1>4, <1>6 DEF HandlePage, Settle, Throw
  <2>. QED
    BY <1>1, <1>2, <2>2, <2>3, <2>4, ResumedMoves
<1>. QED
  BY <1>3, <1>5, <1>6

LEMMA SettledKeepsResult ==
    ASSUME QInv, Core', NEW c \in Starts,
           \/ WriteReturns(c) \/ SubmitThrows(c) \/ FetchThrows(c) \/ WriteThrows(c)
    PROVE  QInv'
<1>1. /\ pc[c] \in Executing /\ rows' = rows /\ trino' = trino
      /\ \E update : Settle(c, db, update)
  BY DEF WriteReturns, SubmitThrows, FetchThrows, WriteThrows, Throw, Executing
<1>2. Resumed(c) /\ Frame(c)
  BY WriteResumed, ThrowsResumed DEF QInv
<1>3. pc'[c] \in {"ok", "internal"}
  <2>1. pc \in [Calls -> Control] /\ c \in Calls
    BY DEF QInv, Core, TypeOK, Calls
  <2>. QED
    BY <1>1, <2>1 DEF Settle
<1>. QED
  BY <1>1, <1>2, <1>3, ResumedMoves DEF Collecting

LEMMA AcceptsKeepsResult ==
    ASSUME QInv, Core', NEW c \in Starts, TrinoAccepts(c)
    PROVE  QInv'
<1>1. /\ c \in Calls /\ pc[c] = "submit" /\ pc \in [Calls -> Control] /\ trino \in TrinoType
      /\ rows[c] = <<>> /\ trino[c].sent = 0
  BY DEF QInv, Core, TypeOK, Calls, TrinoAccepts, TrinoType, ResultOK
<1>2. /\ pc' = [pc EXCEPT ![c] = "accepted"]
      /\ trino' = [trino EXCEPT ![c].state = "active"]
      /\ UNCHANGED <<db, target, rows, seen, storage, crashes>>
  BY DEF TrinoAccepts
<1>3. trino'[c].sent = 0 /\ \A d \in Starts \ {c} : trino'[d] = trino[d]
  BY <1>1, <1>2 DEF TrinoType
<1>4. rows'[c] = FullRows(c)'
  BY <1>1, <1>2, <1>3, NoRows DEF FullRows
<1>5. Moves(c)
  BY <1>1, <1>2, <1>3 DEF Moves, Executing, Collecting
<1>6. MovesRight(c)
  BY <1>1, <1>2, <1>4 DEF MovesRight
<1>. QED
  BY <1>5, <1>6, MoveKeeps

LEMMA StoresKeepsResult ==
    ASSUME QInv, Core', NEW c \in Starts, StorageWrites(c)
    PROVE  QInv'
<1>1. /\ c \in Calls /\ pc[c] = "write" /\ pc \in [Calls -> Control]
      /\ storage \in [Starts -> Rows \cup {None}] /\ target[c] \in Starts
      /\ rows[c] = FullRows(c) /\ trino[c].state = "finished"
  BY DEF QInv, Core, TypeOK, TargetOK, Calls, StorageWrites, ResultOK, Collecting
<1>2. /\ pc' = [pc EXCEPT ![c] = "stored"]
      /\ storage' = [storage EXCEPT ![target[c]] = rows[c]]
      /\ UNCHANGED <<db, target, rows, seen, trino, crashes>>
  BY DEF StorageWrites
<1>3. storage'[target[c]] = rows[c]
      /\ \A id \in Starts \ {target[c]} : storage'[id] = storage[id]
  BY <1>1, <1>2
<1>4. Moves(c)
  BY <1>1, <1>2, <1>3 DEF Moves, Executing, Collecting
<1>5. FullRows(c)' = FullRows(c)
  BY <1>2 DEF FullRows
<1>6. MovesRight(c)
  BY <1>1, <1>2, <1>3, <1>5 DEF MovesRight
<1>. QED
  BY <1>4, <1>6, MoveKeeps

\* A step of a Stop: it writes no result, and at most cancels a query that is
\* still active.
LEMMA AsideKeepsResult ==
    ASSUME QInv, Core', UNCHANGED <<rows, storage>>,
           \A c \in Starts : pc'[c] = pc[c] /\ target'[c] = target[c],
           \A c \in Starts : /\ trino'[c].sent = trino[c].sent
                             /\ trino[c].state = "finished" => trino'[c].state = "finished",
           \A id \in Starts : (db'[id] # None /\ db'[id].state = "SUCCEEDED") => db'[id] = db[id]
    PROVE  QInv'
<1>1. \A id : executorsOf(id)' = executorsOf(id)
  BY DEF executorsOf
<1>2. \A c \in Starts : FullRows(c)' = FullRows(c)
  BY DEF FullRows
<1>3. ResultOK'
  BY <1>1, <1>2 DEF QInv, ResultOK, Collecting
<1>4. ResultIsTheQuerys'
  BY <1>1, <1>2 DEF QInv, ResultIsTheQuerys, FullRows
<1>. QED
  BY <1>3, <1>4 DEF QInv

LEMMA StoppedKeepsResult ==
    ASSUME QInv, Core', NEW s \in Stops, StoppedSome(s)
    PROVE  QInv'
<1>1. PICK id \in Starts, v \in View, new \in Row, p \in {"ok", "internal", "delete"} :
          Stopped(s, id, v, new, p)
  BY DEF StoppedSome
<1>2. /\ s \in Calls /\ s \notin Starts /\ Starts \subseteq Calls
      /\ pc \in [Calls -> Control] /\ target \in [Calls -> Starts \cup {None}]
      /\ db \in [Starts -> Row \cup {None}]
  BY FacadeAssumption DEF QInv, Core, TypeOK, Calls
<1>3. \A c \in Starts : pc'[c] = pc[c] /\ target'[c] = target[c]
  BY <1>1, <1>2 DEF Stopped
<1>4. UNCHANGED <<rows, storage, trino>>
  BY <1>1 DEF Stopped
<1>5. \A x \in Starts : (db'[x] # None /\ db'[x].state = "SUCCEEDED") => db'[x] = db[x]
  BY <1>1, <1>2 DEF Stopped
<1>. QED
  BY <1>3, <1>4, <1>5, AsideKeepsResult

LEMMA RefusedKeepsResult ==
    ASSUME QInv, Core', NEW s \in Stops, UNCHANGED <<rows, storage, db>>,
           \/ trino' = trino
           \/ \E q \in Starts :
                trino' = [trino EXCEPT ![q].state = IF @ = "active" THEN "cancelled" ELSE @],
           \E p, id : /\ pc' = [pc EXCEPT ![s] = p]
                      /\ target' = [target EXCEPT ![s] = id]
    PROVE  QInv'
<1>1. /\ s \in Calls /\ s \notin Starts /\ Starts \subseteq Calls
      /\ pc \in [Calls -> Control] /\ target \in [Calls -> Starts \cup {None}]
      /\ trino \in TrinoType
  BY FacadeAssumption DEF QInv, Core, TypeOK, Calls, TrinoType
<1>2. \A c \in Starts : pc'[c] = pc[c] /\ target'[c] = target[c]
  BY <1>1
<1>3. \A c \in Starts : /\ trino'[c].sent = trino[c].sent
                        /\ trino[c].state = "finished" => trino'[c].state = "finished"
  BY <1>1 DEF TrinoType
<1>. QED
  BY <1>2, <1>3, AsideKeepsResult

LEMMA StartKeepsResult ==
    ASSUME QInv, Core', NEW c \in Starts, StartQueryExecution(c)
    PROVE  QInv'
<1>1. /\ c \in Calls /\ Starts \subseteq Calls /\ pc[c] = "idle"
      /\ pc \in [Calls -> Control] /\ target \in [Calls -> Starts \cup {None}]
      /\ db \in [Starts -> Row \cup {None}]
      /\ UNCHANGED <<rows, trino, storage>>
  BY DEF StartQueryExecution, QInv, Core, TypeOK, Calls
<1>2. PICK id \in Starts, q \in {"submit", "returned"} :
        /\ target' = [target EXCEPT ![c] = id]
        /\ pc' = [pc EXCEPT ![c] = q]
        /\ q = "submit" => db'[id] # None /\ db'[id].state = "QUEUED"
        /\ \A x \in Starts : q = "returned" \/ x # id => db'[x] = db[x]
  <2>1. CASE /\ db' = [db EXCEPT ![c] = newRow(TokenOf[c])]
             /\ target' = [target EXCEPT ![c] = c]
             /\ pc' = [pc EXCEPT ![c] = "submit"]
    <3>1. newRow(TokenOf[c]) # None /\ newRow(TokenOf[c]).state = "QUEUED"
      BY FacadeAssumption, NewRowType, NoneAssumption DEF newRow
    <3>. QED
      BY <1>1, <2>1, <3>1
  <2>2. CASE \E id \in holdersOf(TokenOf[c]) :
                /\ target' = [target EXCEPT ![c] = id]
                /\ pc' = [pc EXCEPT ![c] = IF db[id].state = "QUEUED" THEN "submit"
                                           ELSE "returned"]
                /\ db' = db
    BY <1>1, <2>2 DEF holdersOf
  <2>. QED
    BY <2>1, <2>2 DEF StartQueryExecution
<1>3. /\ target'[c] = id /\ pc'[c] = q
      /\ \A d \in Starts \ {c} : target'[d] = target[d] /\ pc'[d] = pc[d]
  BY <1>1, <1>2
<1>4. /\ \A x : executorsOf(x) \subseteq executorsOf(x)'
      /\ \A x : x # id \/ q = "returned" => executorsOf(x)' = executorsOf(x)
      /\ q = "submit" => c \in executorsOf(id)'
  BY <1>1, <1>2, <1>3 DEF executorsOf
<1>5. \A d : FullRows(d)' = FullRows(d)
  BY <1>1 DEF FullRows
<1>6. ResultOK'
  <2>1. ASSUME NEW d \in Starts, pc'[d] = "stored", executorsOf(target[d])' = {d}
        PROVE  storage'[target'[d]] = rows'[d]
    <3>1. d # c /\ pc[d] = "stored" /\ target'[d] = target[d]
      BY <1>2, <1>3, <2>1
    <3>2. d \in executorsOf(target[d])
      BY <3>1 DEF executorsOf
    <3>3. executorsOf(target[d]) = {d}
      <4>1. {e \in Starts : target'[e] = target[d] /\ pc'[e] \notin {"idle", "returned"}} = {d}
        BY <2>1, <3>1 DEF executorsOf
      <4>2. executorsOf(target[d]) \subseteq {d}
        BY <1>1, <1>3, <4>1 DEF executorsOf
      <4>. QED
        BY <3>2, <4>2
    <3>. QED
      BY <1>1, <3>1, <3>3 DEF QInv, ResultOK
  <2>2. \A d \in Starts : pc'[d] \in {"idle", "submit"} => rows'[d] = <<>> /\ trino'[d].sent = 0
    BY <1>1, <1>3 DEF QInv, ResultOK
  <2>3. \A d \in Starts : pc'[d] \in Collecting => rows'[d] = FullRows(d)'
    BY <1>1, <1>2, <1>3, <1>5 DEF QInv, ResultOK, Collecting
  <2>4. \A d \in Starts : pc'[d] \in {"write", "stored"} => trino'[d].state = "finished"
    BY <1>1, <1>2, <1>3 DEF QInv, ResultOK
  <2>. QED
    BY <2>1, <2>2, <2>3, <2>4 DEF ResultOK
<1>7. ResultIsTheQuerys'
  <2>. SUFFICES ASSUME NEW x \in Starts, NEW d \in Starts, db'[x] # None,
                       db'[x].state = "SUCCEEDED", executorsOf(x)' = {d}
                PROVE  /\ trino'[d].state = "finished"
                       /\ db'[x].result = FullRows(d)'
                       /\ storage'[x] = db'[x].result
    BY DEF ResultIsTheQuerys, FullRows
  <2>1. x # id \/ q = "returned"
    BY <1>2
  <2>2. db'[x] = db[x] /\ executorsOf(x) = {d}
    BY <1>2, <1>4, <2>1
  <2>. QED
    BY <1>1, <1>5, <2>2 DEF QInv, ResultIsTheQuerys, FullRows
<1>. QED
  BY <1>6, <1>7 DEF QInv

LEMMA RestartKeepsResult ==
    ASSUME QInv, Core', Restart
    PROVE  QInv'
<1>1. /\ \A c \in Starts : pc'[c] = IF pc[c] \in Executing \cup Stopping THEN "dead" ELSE pc[c]
      /\ UNCHANGED <<target, rows, trino, storage>>
      /\ db' = db \/ \A id \in Starts : db'[id] = None
  BY DEF Restart, Calls
<1>2. \A id : executorsOf(id)' = executorsOf(id)
  BY <1>1 DEF executorsOf, Executing, Stopping
<1>3. ResultOK'
  BY <1>1 DEF QInv, ResultOK, Executing, Collecting
<1>4. ResultIsTheQuerys'
  BY <1>1, <1>2 DEF QInv, ResultIsTheQuerys
<1>. QED
  BY <1>3, <1>4 DEF QInv

LEMMA StopKeepsResult ==
    ASSUME QInv, Core', NEW s \in Stops, StopQueryExecution(s)
    PROVE  QInv'
<1>1. PICK id \in Starts :
        /\ target' = [target EXCEPT ![s] = id]
        /\ \/ /\ db[id] = None
              /\ pc' = [pc EXCEPT ![s] = "invalid"]
              /\ UNCHANGED <<db, seen>>
           \/ /\ db[id] # None
              /\ seen' = [seen EXCEPT ![s] = readRecord(id)]
              /\ \/ /\ db[id].state = "RUNNING" /\ db[id].trinoNextUri # None
                    /\ pc' = [pc EXCEPT ![s] = "delete"]
                    /\ db' = db
                 \/ WriteCancelled(s, id)
                 \/ /\ db[id].state \in terminalQueryStates
                    /\ pc' = [pc EXCEPT ![s] = "ok"]
                    /\ db' = db
  BY DEF StopQueryExecution
<1>2. pc[s] = "idle" /\ UNCHANGED <<rows, trino, storage, crashes>>
  BY DEF StopQueryExecution
<1>3. CASE db[id] = None /\ UNCHANGED <<db, seen>> /\ pc' = [pc EXCEPT ![s] = "invalid"]
  BY <1>1, <1>2, <1>3, RefusedKeepsResult
<1>4. CASE db[id] # None
  BY <1>1, <1>2, <1>4, StopIsStopped, StoppedKeepsResult DEF QInv
<1>. QED
  BY <1>1, <1>3, <1>4

LEMMA StopStepKeepsResult ==
    ASSUME QInv, Core', NEW s \in Stops, StopStep(s)
    PROVE  QInv'
<1>0. pc \in [Calls -> Control] /\ target \in [Calls -> Starts \cup {None}] /\ s \in Calls
  BY DEF QInv, Core, TypeOK, Calls
<1>1. CASE StopQueryExecution(s)
  BY <1>1, StopKeepsResult
<1>2. CASE TrinoCancels(s)
  <2>1. pc[s] \in Stopping /\ seen[s].trinoNextUri \in Starts
    BY <1>2 DEF QInv, Core, SeenOK, TrinoCancels, Stopping
  <2>2. target' = [target EXCEPT ![s] = target[s]]
    BY <1>0, <1>2 DEF TrinoCancels
  <2>. QED
    BY <1>2, <2>1, <2>2, RefusedKeepsResult DEF TrinoCancels
<1>3. CASE CancelReturns(s)
  BY <1>3, CancelIsStopped, StoppedKeepsResult DEF QInv
<1>4. CASE CancelThrows(s)
  <2>1. target' = [target EXCEPT ![s] = target[s]]
    BY <1>0, <1>4 DEF CancelThrows
  <2>. QED
    BY <1>4, <2>1, RefusedKeepsResult DEF CancelThrows
<1>. QED
  BY <1>1, <1>2, <1>3, <1>4 DEF StopStep

LEMMA StartStepKeepsResult ==
    ASSUME QInv, Core', NEW c \in Starts, StartStep(c)
    PROVE  QInv'
  BY StartKeepsResult, AcceptsKeepsResult, SubmitKeepsResult, FetchKeepsResult,
     StoresKeepsResult, SettledKeepsResult DEF StartStep

LEMMA InitQInv == Init => QInv
<1>. SUFFICES ASSUME Init PROVE QInv
  OBVIOUS
<1>1. /\ db = [id \in Starts |-> None] /\ pc = [c \in Calls |-> "idle"]
      /\ rows = [c \in Starts |-> <<>>] /\ Starts \subseteq Calls
      /\ trino = [c \in Starts |-> [state |-> "none", sent |-> 0]]
  BY DEF Init, Calls
<1>2. ResultOK
  BY <1>1 DEF ResultOK, Collecting
<1>3. ResultIsTheQuerys
  BY <1>1 DEF ResultIsTheQuerys
<1>. QED
  BY <1>2, <1>3, InitIInv DEF QInv, IInv

LEMMA NextKeepsResult == QInv /\ [Next]_vars => QInv'
<1>. SUFFICES ASSUME QInv, [Next]_vars PROVE QInv'
  OBVIOUS
<1>1. Core'
  BY NextKeeps DEF QInv, Kept
<1>2. CASE UNCHANGED vars
  <2>1. \A id : executorsOf(id)' = executorsOf(id)
    BY <1>2 DEF vars, executorsOf
  <2>2. ResultOK' /\ ResultIsTheQuerys'
    BY <1>2, <2>1 DEF vars, QInv, ResultOK, ResultIsTheQuerys, FullRows
  <2>. QED
    BY <1>1, <2>2 DEF QInv
<1>. QED
  BY <1>1, <1>2, StartStepKeepsResult, StopStepKeepsResult, RestartKeepsResult DEF Next

\* An execution that one call ran and that has SUCCEEDED holds the rows of all
\* pages of that call's Trino query, in order and none left out, in the table
\* and in the CSV, for any pages, other calls, Stops and restarts.
THEOREM ResultsAreTheQuerys == Spec => []ResultIsTheQuerys
<1>1. QInv => ResultIsTheQuerys
  BY DEF QInv
<1>. QED
  BY <1>1, InitQInv, NextKeepsResult, PTL DEF Spec

(***************************************************************************)
(* The facade over a durable table implements QueryLifecycle: its initial  *)
(* states map to the lifecycle's, and each of its steps to a step of the   *)
(* lifecycle or to none.                                                   *)
(***************************************************************************)
Status == [id \in Starts |-> statusOf(id)]

LEMMA RefinesInit ==
    Init => Lifecycle!LifecycleInit
<1>. SUFFICES ASSUME Init PROVE Lifecycle!LifecycleInit
  OBVIOUS
<1>1. [id \in Starts |-> statusOf(id)] = [id \in Starts |-> "absent"]
  BY DEF Init, statusOf
<1>2. publishedIds = {}
  BY DEF Init, publishedIds
<1>3. stopAskedIds = {}
  BY NoneAssumption DEF Init, stopAskedIds, Calls
<1>. QED
  BY <1>1, <1>2, <1>3 DEF Lifecycle!LifecycleInit

\* A step that changes neither table, nor bucket, nor a Stop's target.
LEMMA RefinesStutter ==
    ASSUME db' = db, storage' = storage, \A s \in Stops : target'[s] = target[s]
    PROVE  UNCHANGED Lifecycle!lifecycleVars
<1>1. [id \in Starts |-> statusOf(id)]' = [id \in Starts |-> statusOf(id)]
  BY DEF statusOf
<1>2. publishedIds' = publishedIds /\ stopAskedIds' = stopAskedIds
  BY DEF publishedIds, stopAskedIds
<1>. QED
  BY <1>1, <1>2 DEF Lifecycle!lifecycleVars

LEMMA RefinesStart ==
    ASSUME Core, NEW c \in Starts, StartQueryExecution(c)
    PROVE  Lifecycle!LifecycleNext \/ UNCHANGED Lifecycle!lifecycleVars
<1>1. c \notin Stops /\ db \in [Starts -> Row \cup {None}] /\ db[c] = None
  BY FacadeAssumption DEF StartQueryExecution, Core, TargetOK, TypeOK
<1>2. /\ storage' = storage
      /\ \A s \in Stops : target'[s] = target[s]
      /\ db' = db \/ db' = [db EXCEPT ![c] = newRow(TokenOf[c])]
  <2>1. \E id : target' = [target EXCEPT ![c] = id]
    BY DEF StartQueryExecution
  <2>2. target \in [Calls -> Starts \cup {None}] /\ Stops \subseteq Calls
    BY DEF Core, TypeOK, Calls
  <2>3. \A s \in Stops : target'[s] = target[s]
    BY <2>1, <2>2, <1>1
  <2>. QED
    BY <2>3 DEF StartQueryExecution
<1>3. CASE db' = db
  BY <1>2, <1>3, RefinesStutter
<1>4. CASE db' = [db EXCEPT ![c] = newRow(TokenOf[c])]
  <2>1. newRow(TokenOf[c]) # None /\ newRow(TokenOf[c]).state = "QUEUED"
    BY FacadeAssumption, NewRowType, NoneAssumption DEF newRow
  <2>2. Status[c] = "absent" /\ Status' = [Status EXCEPT ![c] = "QUEUED"]
    BY <1>1, <1>4, <2>1 DEF Status, statusOf
  <2>3. publishedIds' = publishedIds /\ stopAskedIds' = stopAskedIds
    BY <1>2 DEF publishedIds, stopAskedIds
  <2>4. Lifecycle!Create(c)
    BY <2>2, <2>3 DEF Lifecycle!Create, Status
  <2>. QED
    BY <2>4 DEF Lifecycle!LifecycleNext
<1>. QED
  BY <1>2, <1>3, <1>4

LEMMA RefinesPublish ==
    ASSUME Core, NEW c \in Starts, StorageWrites(c)
    PROVE  Lifecycle!LifecycleNext
<1>. DEFINE id == target[c]
<1>1. /\ id \in Starts /\ db[id] # None /\ db[id] \in Row /\ rows[c] # None
      /\ storage \in [Starts -> Rows \cup {None}]
  BY NoneAssumption DEF StorageWrites, Core, TypeOK, TargetOK, RowOK, Executing
<1>2. Status[id] # "absent" /\ Status' = Status
  BY <1>1 DEF StorageWrites, Status, statusOf, Row, QueryState
<1>3. publishedIds' = publishedIds \cup {id} /\ stopAskedIds' = stopAskedIds
  BY <1>1 DEF StorageWrites, publishedIds, stopAskedIds
<1>4. Lifecycle!Publish(id)
  BY <1>1, <1>2, <1>3 DEF Lifecycle!Publish, Status
<1>. QED
  BY <1>1, <1>4 DEF Lifecycle!LifecycleNext

LEMMA RefinesResumed ==
    ASSUME Core, NEW c \in Starts, pc[c] \in Executing, Resumed(c), Frame(c)
    PROVE  Lifecycle!LifecycleNext \/ UNCHANGED Lifecycle!lifecycleVars
<1>. DEFINE id  == target[c]
            old == db[id]
<1>1. /\ id \in Starts /\ old # None /\ old \in Row /\ db \in [Starts -> Row \cup {None}]
  BY Handler
<1>2. PICK new \in Row, p \in {"ok", "internal", "fetch", "write"} :
        RowChange(c, old, new, p) /\ db' = [db EXCEPT ![id] = new]
  BY DEF Resumed
<1>3. new # None /\ old.state \in QueryState /\ new.state \in QueryState
  BY <1>1, NoneAssumption DEF Row
<1>4. publishedIds' = publishedIds /\ stopAskedIds' = stopAskedIds
  BY DEF Frame, publishedIds, stopAskedIds
<1>5. Status[id] = old.state /\ Status' = [Status EXCEPT ![id] = new.state]
  BY <1>1, <1>2, <1>3 DEF Status, statusOf
<1>6. CASE new.state = old.state
  <2>1. Status' = Status
    BY <1>1, <1>5, <1>6 DEF Status
  <2>. QED
    BY <2>1, <1>4 DEF Lifecycle!lifecycleVars, Status
<1>7. CASE new.state # old.state /\ p \in {"fetch", "write"}
  <2>1. old.state = "QUEUED" /\ new.state = "RUNNING"
    BY <1>2, <1>3, <1>7 DEF RowChange, Terminal, terminalQueryStates, QueryState
  <2>2. Lifecycle!Begin(id)
    BY <1>1, <1>4, <1>5, <2>1 DEF Lifecycle!Begin, Status
  <2>. QED
    BY <1>1, <2>2 DEF Lifecycle!LifecycleNext
<1>8. CASE new.state # old.state /\ p \in {"ok", "internal"}
  <2>1. old.state \in {"QUEUED", "RUNNING"} /\ new.state \in {"SUCCEEDED", "FAILED"}
    BY <1>2, <1>3, <1>8 DEF RowChange, Terminal, terminalQueryStates, QueryState
  <2>2. new.state = "SUCCEEDED" => id \in publishedIds
    BY <1>1, <1>2, <1>8 DEF RowChange, Core, ExternalOK, publishedIds
  <2>3. Lifecycle!Open(id)
    BY <1>1, <1>5, <2>1 DEF Lifecycle!Open, Status
  <2>4. Lifecycle!Conclude(id)
    BY <1>4, <1>5, <2>1, <2>2, <2>3 DEF Lifecycle!Conclude, Status
  <2>. QED
    BY <1>1, <2>4 DEF Lifecycle!LifecycleNext
<1>. QED
  BY <1>2, <1>6, <1>7, <1>8

LEMMA RefinesStopped ==
    ASSUME Core, NEW s \in Stops, StoppedSome(s)
    PROVE  Lifecycle!LifecycleNext \/ UNCHANGED Lifecycle!lifecycleVars
<1>1. PICK id \in Starts, v \in View, new \in Row, p \in {"ok", "internal", "delete"} :
        Stopped(s, id, v, new, p)
  BY DEF StoppedSome
<1>2. /\ db[id] # None /\ db[id] \in Row /\ db \in [Starts -> Row \cup {None}]
      /\ new # None /\ s \in Calls /\ target \in [Calls -> Starts \cup {None}]
  BY <1>1, NoneAssumption DEF Stopped, Core, TypeOK, Calls
<1>3. /\ db' = [db EXCEPT ![id] = new] /\ target' = [target EXCEPT ![s] = id]
      /\ publishedIds' = publishedIds
  BY <1>1 DEF Stopped, publishedIds
<1>4. Status[id] = db[id].state /\ Status' = [Status EXCEPT ![id] = new.state]
  BY <1>1, <1>2, <1>3 DEF Status, statusOf
<1>5. stopAskedIds' = stopAskedIds \cup {id}
  <2>1. pc[s] = "idle" \/ target[s] = id
    BY <1>1 DEF Stopped
  <2>2. CASE pc[s] = "idle"
    <3>1. target[s] = None /\ None \notin Starts
      BY <1>2, <2>2, NoneAssumption DEF Core, TargetOK, Calls
    <3>. QED
      BY <1>2, <1>3, <3>1 DEF stopAskedIds, Calls
  <2>3. CASE target[s] = id
    BY <1>2, <1>3, <2>3 DEF stopAskedIds, Calls
  <2>. QED
    BY <2>1, <2>2, <2>3
<1>6. CASE new.state = db[id].state
  <2>1. Status' = Status
    BY <1>4, <1>6 DEF Status
  <2>2. Lifecycle!AskStop(id)
    BY <2>1, <1>3, <1>5 DEF Lifecycle!AskStop, Status
  <2>. QED
    BY <2>2 DEF Lifecycle!LifecycleNext
<1>7. CASE new.state # db[id].state
  <2>1. new.state = "CANCELLED" /\ db[id].state \in {"QUEUED", "RUNNING"}
    BY <1>1, <1>2, <1>7 DEF Stopped, Terminal, terminalQueryStates, Row, QueryState
  <2>2. Lifecycle!Open(id)
    BY <1>4, <2>1 DEF Lifecycle!Open, Status
  <2>3. Lifecycle!Cancel(id)
    BY <1>3, <1>4, <1>5, <2>1, <2>2 DEF Lifecycle!Cancel, Status
  <2>. QED
    BY <2>3 DEF Lifecycle!LifecycleNext
<1>. QED
  BY <1>6, <1>7

\* A Stop of an execution nobody knows has asked, with no effect.
LEMMA RefinesRefused ==
    ASSUME Core, NEW s \in Stops, NEW id \in Starts, pc[s] = "idle",
           target' = [target EXCEPT ![s] = id], db' = db, storage' = storage
    PROVE  Lifecycle!LifecycleNext
<1>1. /\ s \in Calls /\ target[s] = None /\ None \notin Starts /\ Stops \subseteq Calls
      /\ target \in [Calls -> Starts \cup {None}]
  BY NoneAssumption DEF Core, TypeOK, TargetOK, Calls
<1>2. stopAskedIds' = stopAskedIds \cup {id}
  BY <1>1 DEF stopAskedIds
<1>3. publishedIds' = publishedIds /\ Status' = Status
  BY DEF publishedIds, Status, statusOf
<1>4. Lifecycle!AskStop(id)
  BY <1>2, <1>3 DEF Lifecycle!AskStop, Status
<1>. QED
  BY <1>4 DEF Lifecycle!LifecycleNext

LEMMA RefinesStartStep ==
    ASSUME Core, NEW c \in Starts, StartStep(c)
    PROVE  Lifecycle!LifecycleNext \/ UNCHANGED Lifecycle!lifecycleVars
<1>1. CASE StartQueryExecution(c)
  BY <1>1, RefinesStart
<1>2. CASE TrinoAccepts(c)
  BY <1>2, RefinesStutter DEF TrinoAccepts
<1>3. CASE SubmitReturns(c)
  BY <1>3, SubmitResumed, RefinesResumed DEF SubmitReturns, Executing
<1>4. CASE FetchReturns(c)
  BY <1>4, FetchResumed, RefinesResumed DEF FetchReturns, Executing
<1>5. CASE StorageWrites(c)
  BY <1>5, RefinesPublish
<1>6. CASE WriteReturns(c)
  BY <1>6, WriteResumed, RefinesResumed DEF WriteReturns, Executing
<1>7. CASE SubmitThrows(c) \/ FetchThrows(c) \/ WriteThrows(c)
  BY <1>7, ThrowsResumed, RefinesResumed DEF SubmitThrows, FetchThrows, WriteThrows, Executing
<1>. QED
  BY <1>1, <1>2, <1>3, <1>4, <1>5, <1>6, <1>7 DEF StartStep

LEMMA RefinesStopStep ==
    ASSUME Core, NEW s \in Stops, StopStep(s)
    PROVE  Lifecycle!LifecycleNext \/ UNCHANGED Lifecycle!lifecycleVars
<1>1. CASE StopQueryExecution(s)
  <2>1. StoppedSome(s) \/ Lifecycle!LifecycleNext
    BY <1>1, StopIsStopped, RefinesRefused DEF StopQueryExecution
  <2>. QED
    BY <2>1, RefinesStopped
<1>2. CASE CancelReturns(s)
  BY <1>2, CancelIsStopped, RefinesStopped
<1>3. CASE TrinoCancels(s) \/ CancelThrows(s)
  BY <1>3, RefinesStutter DEF TrinoCancels, CancelThrows
<1>. QED
  BY <1>1, <1>2, <1>3 DEF StopStep

\* Over a durable table every behavior of the facade, restarts included, is
\* one of the lifecycle.
THEOREM FacadeImplementsLifecycle == Persistent => (Spec => RefinesLifecycle)
<1>. SUFFICES ASSUME Persistent PROVE Spec => RefinesLifecycle
  OBVIOUS
<1>1. ASSUME Core, Restart
      PROVE  UNCHANGED Lifecycle!lifecycleVars
  BY <1>1, RefinesStutter DEF Restart
<1>2. ASSUME UNCHANGED vars
      PROVE  UNCHANGED Lifecycle!lifecycleVars
  BY <1>2, RefinesStutter DEF vars
<1>3. Core /\ [Next]_vars => [Lifecycle!LifecycleNext]_(Lifecycle!lifecycleVars)
  BY <1>1, <1>2, RefinesStartStep, RefinesStopStep DEF Next
<1>4. IInv => Core
  BY DEF IInv
<1>. QED
  BY <1>3, <1>4, Invariance, RefinesInit, PTL DEF Spec, RefinesLifecycle, Lifecycle!LifecycleSpec

(***************************************************************************)
(* The query command, the reader and the shutdown.                         *)
(***************************************************************************)

\* What can happen to the facade's variables.
FacadeStep == [Next]_vars \/ \E c \in Calls : UpdateThrows(c)

LEMMA CommandIsFacadeStep ==
    ASSUME CommandNext
    PROVE  FacadeStep
<1>1. CASE CommandStep \/ ReadElsewhere
  <2>1. StartQueryExecution(Own) => Next
    BY CommandAssumption DEF Next, StartStep
  <2>2. vars' = vars \/ StartQueryExecution(Own)
    BY <1>1 DEF CommandStep, SendStart, StartAnswered, Poll, RequestFails, PrintResult,
                ReadElsewhere, GetQueryResults, facadeVars, vars
  <2>. QED
    BY <2>1, <2>2 DEF FacadeStep
<1>2. CASE Around
  BY <1>2 DEF Around, CloseAndStop, HandlerStep, OpenStep, ClosedStep, GoesOn, StartAgain,
              FacadeStep, Next, StartStep, StopStep, vars
<1>. QED
  BY <1>1, <1>2 DEF CommandNext

(***************************************************************************)
(* A refused write.                                                        *)
(***************************************************************************)

\* What a refused write does: the handler answers 500, and a page it had
\* asked for may have been taken from its own query.
LEMMA Thrown ==
    ASSUME Core, NEW c \in Calls, UpdateThrows(c)
    PROVE  /\ pc' \in [Calls -> Control] /\ pc'[c] = "internal"
           /\ \A x \in Calls \ {c} : pc'[x] = pc[x]
           /\ UNCHANGED <<db, target, rows, seen, storage, crashes>>
           /\ trino' \in TrinoType
           /\ \A d \in Starts \ {c} : trino'[d] = trino[d]
           /\ \A d \in Starts : trino'[d].state = "none" <=> trino[d].state = "none"
           /\ c \in Starts => c \notin Stops /\ pc[c] \in Executing
           /\ c \notin Starts => c \in Stops /\ pc[c] \in Stopping /\ trino' = trino
<1>1. /\ pc \in [Calls -> Control] /\ trino \in TrinoType /\ TypeOK
      /\ pc[c] \in Executing \cup Stopping /\ pc' = [pc EXCEPT ![c] = "internal"]
      /\ UNCHANGED <<db, target, rows, seen, storage, crashes>>
  BY DEF Core, TypeOK, TrinoType, UpdateThrows
<1>2. CASE trino' = trino
  BY <1>1, <1>2, FacadeAssumption DEF Core, ControlOK, Calls, Control, Answered
<1>3. CASE c \in Starts /\ \E page \in Page : TrinoAnswers(c, page)
  <2>1. PICK page \in Page : TrinoAnswers(c, page)
    BY <1>3
  <2>2. /\ trino' \in TrinoType
        /\ \A d \in Starts : trino'[d].state = "none" <=> trino[d].state = "none"
    BY <1>1, <1>3, <2>1, Answers DEF TrinoType
  <2>3. \A d \in Starts \ {c} : trino'[d] = trino[d]
    BY <1>1, <1>3, <2>1, OthersAlone
  <2>. QED
    BY <1>1, <1>3, <2>2, <2>3, FacadeAssumption DEF Core, ControlOK, Calls, Control, Answered
<1>. QED
  BY <1>2, <1>3 DEF UpdateThrows

LEMMA ThrowKeepsCore ==
    ASSUME Core, NEW c \in Calls, UpdateThrows(c)
    PROVE  Core'
<1>1. /\ pc' \in [Calls -> Control] /\ pc'[c] = "internal"
      /\ \A x \in Calls \ {c} : pc'[x] = pc[x]
      /\ UNCHANGED <<db, target, rows, seen, storage, crashes>>
      /\ trino' \in TrinoType
      /\ \A d \in Starts : trino'[d].state = "none" <=> trino[d].state = "none"
      /\ pc[c] \in Executing \cup Stopping
  BY Thrown
<1>2. Starts \subseteq Calls /\ Stops \subseteq Calls
  BY DEF Calls
<1>3. \A x \in Calls : /\ pc'[x] = "idle" <=> pc[x] = "idle"
                       /\ pc'[x] \in Executing \cup Stopping => pc'[x] = pc[x]
                       /\ pc'[x] = "ok" <=> pc[x] = "ok"
                       /\ pc'[x] # pc[x] => pc'[x] = "internal"
  BY <1>1 DEF Executing, Stopping
<1>4. TypeOK'
  BY <1>1 DEF Core, TypeOK, TrinoType
<1>5. ControlOK'
  BY <1>2, <1>3 DEF Core, ControlOK, Executing, Stopping
<1>6. TargetOK'
  <2>1. /\ \A d \in Calls : pc'[d] = "idle" => target[d] = None
        /\ \A d \in Starts : pc'[d] # "idle" => target[d] \in Starts /\ pc'[target[d]] # "idle"
        /\ \A s \in Stops : pc'[s] # "idle" => target[s] \in Starts
        /\ \A id \in Starts : db[id] # None => pc'[id] # "idle"
    BY <1>2, <1>3 DEF Core, TargetOK
  <2>2. ASSUME NEW s \in Stops, pc'[s] \in Stopping \cup {"ok"}
        PROVE  pc'[target[s]] # "idle" /\ seen[s] # None
    <3>1. pc[s] \in Stopping \cup {"ok"} /\ target[s] \in Starts
      BY <1>2, <1>3, <2>1, <2>2 DEF Stopping
    <3>. QED
      BY <1>2, <1>3, <3>1 DEF Core, TargetOK
  <2>. QED
    BY <2>1, <2>2, <1>1 DEF TargetOK
<1>7. RowOK' /\ SeenOK'
  BY <1>1, <1>2, <1>3 DEF Core, RowOK, SeenOK
<1>8. ExternalOK'
  BY <1>1, <1>2, <1>3 DEF Core, ExternalOK, Executing
<1>9. EndOK'
  <2>1. \A id \in Starts : db[id] # None => db[id].completedAt \in Calls \cup {None}
    BY DEF Core, TypeOK, Row
  <2>. QED
    BY <2>1, <1>1, <1>3 DEF Core, EndOK
<1>10. TokenNamesOneRow' /\ SucceededIsReadable'
  BY <1>1, <1>2, <1>3 DEF Core, TokenNamesOneRow, SucceededIsReadable
<1>11. CancelHitsOwnQuery'
  <2>1. \A id \in Starts : db[id] # None => db[id].trinoNextUri \in Starts \cup {None}
    BY DEF Core, TypeOK, Row
  <2>. QED
    BY <2>1, <1>1, <1>2, <1>3 DEF Core, CancelHitsOwnQuery
<1>12. OkOK' /\ StopAnswer'
  BY <1>1, <1>2, <1>3 DEF Core, OkOK, Live, StopAnswer
<1>. QED
  BY <1>4, <1>5, <1>6, <1>7, <1>8, <1>9, <1>10, <1>11, <1>12 DEF Core

LEMMA ThrowKeepsResult ==
    ASSUME QInv, Core', NEW c \in Calls, UpdateThrows(c)
    PROVE  QInv'
<1>1. /\ pc'[c] = "internal" /\ \A x \in Calls \ {c} : pc'[x] = pc[x]
      /\ UNCHANGED <<db, target, rows, seen, storage, crashes>>
      /\ \A d \in Starts \ {c} : trino'[d] = trino[d]
      /\ c \in Starts => c \notin Stops /\ pc[c] \in Executing
      /\ c \notin Starts => c \in Stops /\ trino' = trino
  BY Thrown DEF QInv
<1>2. CASE c \in Starts
  <2>1. Moves(c)
    BY <1>1, <1>2 DEF Moves
  <2>2. MovesRight(c)
    BY <1>1 DEF MovesRight, Collecting
  <2>. QED
    BY <1>2, <2>1, <2>2, MoveKeeps
<1>3. CASE c \notin Starts
  <2>1. \A d \in Starts : pc'[d] = pc[d] /\ target'[d] = target[d]
    BY <1>1, <1>3 DEF Calls
  <2>. QED
    BY <1>1, <1>3, <2>1, AsideKeepsResult
<1>. QED
  BY <1>2, <1>3

\* So no step of any kind breaks the core, or what it says of results.
LEMMA StepKeepsQInv ==
    ASSUME QInv, FacadeStep
    PROVE  QInv'
<1>1. CASE [Next]_vars
  BY <1>1, NextKeepsResult
<1>2. ASSUME NEW c \in Calls, UpdateThrows(c) PROVE QInv'
  BY <1>2, ThrowKeepsCore, ThrowKeepsResult DEF QInv
<1>. QED
  BY <1>1, <1>2 DEF FacadeStep

(***************************************************************************)
(* How far a step takes a handler.                                         *)
(***************************************************************************)

\* A step of the handler of call x: the other handlers and their Trino queries
\* stay where they are, but for a query that a Stop cancels; only a Start's
\* first step makes a row, its own; a request is never taken back.
HandlerMoves(x) ==
    /\ \A d \in Calls \ {x} : pc'[d] = pc[d] /\ target'[d] = target[d]
    /\ \A d \in Starts \ {x} :
         /\ trino'[d].sent = trino[d].sent
         /\ trino[d].state = "finished" => trino'[d].state = "finished"
    /\ \A id \in Starts :
         db'[id] # None => db[id] # None \/ (id = x /\ pc[x] = "idle" /\ target'[x] = x)
    /\ \/ /\ pc[x] = "idle" /\ pc'[x] # "idle"
          /\ x \in Starts => db'[target'[x]] # None
       \/ /\ pc[x] \in Executing \cup Stopping /\ pc'[x] \notin {"idle", "returned"}
          /\ target'[x] = target[x]

LEMMA ResumedHandlerMoves ==
    ASSUME Core, NEW c \in Starts, pc[c] \in Executing, Resumed(c), target' = target,
           \A d \in Starts \ {c} : trino'[d] = trino[d]
    PROVE  HandlerMoves(c)
<1>1. /\ c \in Calls /\ target[c] \in Starts /\ db[target[c]] # None
      /\ db \in [Starts -> Row \cup {None}] /\ pc \in [Calls -> Control]
  BY Handler
<1>2. PICK new \in Row, p \in {"ok", "internal", "fetch", "write"} :
        db' = [db EXCEPT ![target[c]] = new] /\ pc' = [pc EXCEPT ![c] = p]
  BY DEF Resumed
<1>. QED
  BY <1>1, <1>2 DEF HandlerMoves

LEMMA BeginMoves ==
    ASSUME Core, NEW c \in Starts, StartQueryExecution(c)
    PROVE  HandlerMoves(c)
<1>1. /\ c \in Calls /\ pc[c] = "idle" /\ trino' = trino
      /\ db \in [Starts -> Row \cup {None}] /\ pc \in [Calls -> Control]
      /\ target \in [Calls -> Starts \cup {None}]
  BY DEF Core, TypeOK, Calls, StartQueryExecution
<1>2. newRow(TokenOf[c]) # None
  BY NewRowType, NoneAssumption, FacadeAssumption
<1>3. \/ /\ db' = [db EXCEPT ![c] = newRow(TokenOf[c])]
         /\ target' = [target EXCEPT ![c] = c]
         /\ pc' = [pc EXCEPT ![c] = "submit"]
      \/ \E id \in Starts, q \in {"submit", "returned"} :
            /\ db[id] # None /\ db' = db
            /\ target' = [target EXCEPT ![c] = id]
            /\ pc' = [pc EXCEPT ![c] = q]
  BY DEF StartQueryExecution, holdersOf
<1>. QED
  BY <1>1, <1>2, <1>3 DEF HandlerMoves

LEMMA StartStepMoves ==
    ASSUME Core, NEW c \in Starts, StartStep(c)
    PROVE  HandlerMoves(c)
<1>1. CASE StartQueryExecution(c)
  BY <1>1, BeginMoves
<1>2. CASE TrinoAccepts(c) \/ StorageWrites(c)
  BY <1>2 DEF TrinoAccepts, StorageWrites, HandlerMoves, Core, TypeOK, Calls, Executing
<1>3. CASE SubmitReturns(c)
  <2>1. \A d \in Starts \ {c} : trino'[d] = trino[d]
    BY <1>3, OthersAlone DEF SubmitReturns, Core
  <2>. QED
    BY <1>3, <2>1, SubmitResumed, ResumedHandlerMoves DEF SubmitReturns, Executing
<1>4. CASE FetchReturns(c)
  <2>1. \A d \in Starts \ {c} : trino'[d] = trino[d]
    BY <1>4, OthersAlone DEF FetchReturns, Core
  <2>. QED
    BY <1>4, <2>1, FetchResumed, ResumedHandlerMoves DEF FetchReturns, Executing
<1>5. CASE WriteReturns(c)
  BY <1>5, WriteResumed, ResumedHandlerMoves DEF WriteReturns, Executing
<1>6. CASE SubmitThrows(c) \/ FetchThrows(c) \/ WriteThrows(c)
  BY <1>6, ThrowsResumed, ResumedHandlerMoves
     DEF SubmitThrows, FetchThrows, WriteThrows, Executing
<1>. QED
  BY <1>1, <1>2, <1>3, <1>4, <1>5, <1>6 DEF StartStep

LEMMA StoppedMoves ==
    ASSUME Core, NEW s \in Stops, StoppedSome(s)
    PROVE  HandlerMoves(s)
<1>1. PICK id \in Starts, v \in View, new \in Row, p \in {"ok", "internal", "delete"} :
        Stopped(s, id, v, new, p)
  BY DEF StoppedSome
<1>2. /\ s \in Calls /\ s \notin Starts
      /\ db \in [Starts -> Row \cup {None}] /\ pc \in [Calls -> Control]
      /\ target \in [Calls -> Starts \cup {None}]
  BY FacadeAssumption DEF Core, TypeOK, Calls
<1>3. \A x \in Starts : db'[x] # None => db[x] # None
  BY <1>1, <1>2 DEF Stopped
<1>. QED
  BY <1>1, <1>2, <1>3 DEF Stopped, HandlerMoves, Stopping

LEMMA StopStepMoves ==
    ASSUME Core, NEW s \in Stops, StopStep(s)
    PROVE  HandlerMoves(s)
<1>0. /\ s \in Calls /\ s \notin Starts /\ Starts \subseteq Calls
      /\ pc \in [Calls -> Control] /\ target \in [Calls -> Starts \cup {None}]
      /\ trino \in TrinoType
  BY FacadeAssumption DEF Core, TypeOK, Calls, TrinoType
<1>1. CASE StopQueryExecution(s)
  <2>1. CASE StoppedSome(s)
    BY <2>1, StoppedMoves
  <2>2. CASE \E id \in Starts : /\ target' = [target EXCEPT ![s] = id]
                               /\ pc' = [pc EXCEPT ![s] = "invalid"]
                               /\ db' = db /\ trino' = trino
    BY <1>0, <1>1, <2>2 DEF StopQueryExecution, HandlerMoves
  <2>. QED
    BY <1>1, <2>1, <2>2, StopIsStopped DEF StopQueryExecution
<1>2. CASE TrinoCancels(s)
  <2>1. \A d \in Starts : /\ trino'[d].sent = trino[d].sent
                          /\ trino[d].state = "finished" => trino'[d].state = "finished"
    BY <1>0, <1>2 DEF TrinoCancels, TrinoType
  <2>. QED
    BY <1>0, <1>2, <2>1 DEF TrinoCancels, HandlerMoves, Stopping
<1>3. CASE CancelReturns(s)
  BY <1>3, CancelIsStopped, StoppedMoves
<1>4. CASE CancelThrows(s)
  BY <1>0, <1>4 DEF CancelThrows, HandlerMoves
<1>. QED
  BY <1>1, <1>2, <1>3, <1>4 DEF StopStep

LEMMA ThrowMoves ==
    ASSUME Core, NEW c \in Calls, UpdateThrows(c)
    PROVE  HandlerMoves(c)
  BY Thrown DEF HandlerMoves, UpdateThrows

LEMMA StepMoves ==
    ASSUME Core, FacadeStep
    PROVE  UNCHANGED vars \/ Restart \/ \E x \in Calls : HandlerMoves(x)
  BY StartStepMoves, StopStepMoves, ThrowMoves DEF FacadeStep, Next, Calls

(***************************************************************************)
(* What therefore stays true of a request, a query and a row.              *)
(***************************************************************************)

\* A request that has begun keeps its target, one that has answered its
\* answer, and a Start that begins finds or makes its row.
Advances(d) ==
    /\ pc[d] # "idle" => /\ pc'[d] # "idle" /\ target'[d] = target[d]
                         /\ pc'[d] = "returned" <=> pc[d] = "returned"
    /\ pc[d] \in Answered => pc'[d] = pc[d]
    /\ d \in Starts /\ pc[d] = "idle" /\ pc'[d] # "idle" => db'[target'[d]] # None

\* The query of a Start that has answered sends no more pages.
QueryStands(c) ==
    pc[c] \in Answered =>
        /\ trino'[c].sent = trino[c].sent
        /\ trino[c].state = "finished" => trino'[c].state = "finished"

\* A row that is there now was there before, or was made by its own request.
RowIsOld(id) == db'[id] # None => db[id] # None \/ (pc[id] = "idle" /\ target'[id] = id)

LEMMA StepAdvances ==
    ASSUME Core, FacadeStep
    PROVE  /\ \A d \in Calls : Advances(d)
           /\ \A c \in Starts : QueryStands(c) /\ RowIsOld(c)
<1>0. Starts \subseteq Calls
  BY DEF Calls
<1>1. CASE UNCHANGED vars
  BY <1>0, <1>1 DEF vars, Advances, QueryStands, RowIsOld
<1>2. CASE Restart
  BY <1>0, <1>2 DEF Restart, Advances, QueryStands, RowIsOld, Executing, Stopping, Answered
<1>3. CASE \E x \in Calls : HandlerMoves(x)
  <2>1. PICK x \in Calls : HandlerMoves(x)
    BY <1>3
  <2>2. pc[x] \notin Answered
    BY <2>1 DEF HandlerMoves, Executing, Stopping, Answered
  <2>3. \A d \in Calls : Advances(d)
    BY <2>1, <2>2 DEF HandlerMoves, Advances, Executing, Stopping
  <2>4. \A c \in Starts : QueryStands(c)
    BY <2>1, <2>2 DEF HandlerMoves, QueryStands
  <2>. QED
    BY <2>1, <2>3, <2>4 DEF HandlerMoves, RowIsOld
<1>. QED
  BY <1>1, <1>2, <1>3, StepMoves

\* Nobody leaves the calls that execute a row.
LEMMA ExecutorsStay ==
    ASSUME Core, FacadeStep, NEW id
    PROVE  executorsOf(id) \subseteq executorsOf(id)'
BY StepAdvances DEF executorsOf, Advances, Calls

\* A row that has ended and is still there is still at that end.
LEMMA EndStays ==
    ASSUME Core, FacadeStep, NEW id \in Starts, db[id] # None, db'[id] # None,
           db[id].state \in terminalQueryStates
    PROVE  db'[id].state = db[id].state
<1>1. CASE Restart
  BY <1>1 DEF Restart
<1>2. CASE [Next]_vars /\ ~Restart
  <2>1. [KeepsEnds]_vars
    BY <1>2, NextKeepsEnds
  <2>2. CASE UNCHANGED vars
    BY <2>2 DEF vars
  <2>3. CASE KeepsEnds /\ ~UNCHANGED vars
    <3>1. crashes' = crashes
      BY <1>2, <2>3 DEF Next, StartStep, StopStep, StartQueryExecution, TrinoAccepts,
         SubmitReturns, SubmitThrows, FetchReturns, FetchThrows, StorageWrites, WriteReturns,
         WriteThrows, StopQueryExecution, TrinoCancels, CancelReturns, CancelThrows
    <3>. QED
      BY <2>3, <3>1 DEF KeepsEnds
  <2>. QED
    BY <2>1, <2>2, <2>3
<1>3. CASE \E c \in Calls : UpdateThrows(c)
  BY <1>3 DEF UpdateThrows
<1>. QED
  BY <1>1, <1>2, <1>3 DEF FacadeStep

\* The row of an id is made by the request of that id.
Creator == \A id \in Starts : db[id] # None => target[id] = id

LEMMA StepKeepsCreator ==
    ASSUME Core, Creator, FacadeStep
    PROVE  Creator'
<1>1. \A id \in Starts : db[id] # None => pc[id] # "idle" /\ id \in Calls
  BY DEF Core, TargetOK, Calls
<1>. QED
  BY <1>1, StepAdvances DEF Creator, Advances, RowIsOld

(***************************************************************************)
(* The shutdown.                                                           *)
(***************************************************************************)

\* While the table is open, no live row is left alone.
WorkOK == open => LiveRowHasAHandler

\* A handler that goes on without a table leaves all rows alone, and every
\* Start that executes stays at it.
LEMMA GoesOnMoves ==
    ASSUME Core, NEW c \in Calls, (c \in Starts /\ GoesOn(c)) \/ (c \in Stops /\ TrinoCancels(c))
    PROVE  /\ UNCHANGED <<db, target, crashes>>
           /\ \A d \in Starts : pc'[d] \in Executing <=> pc[d] \in Executing
           /\ \A d \in Starts : pc[d] \in Executing \/ pc'[d] = pc[d]
<1>0. pc \in [Calls -> Control] /\ Starts \subseteq Calls /\ Starts \cap Stops = {}
  BY FacadeAssumption DEF Core, TypeOK, Calls
<1>1. CASE c \in Starts /\ (TrinoAccepts(c) \/ StorageWrites(c))
  BY <1>0, <1>1 DEF TrinoAccepts, StorageWrites, Executing
<1>2. CASE c \in Starts /\ FetchReturns(c) /\ pc'[c] \in {"fetch", "write"}
  <2>1. PICK page \in Page : HandlePage(c, db, page)
    BY <1>2 DEF FetchReturns
  <2>2. pc[c] = "fetch" /\ UNCHANGED <<target, crashes>>
    BY <1>2 DEF FetchReturns
  <2>3. ASSUME NEW update, Settle(c, db, update) PROVE pc'[c] \in {"ok", "internal"}
    BY <1>0, <2>3 DEF Settle
  <2>4. db' = db /\ \E p \in {"fetch", "write"} : pc' = [pc EXCEPT ![c] = p]
    BY <1>2, <2>1, <2>3 DEF HandlePage, Throw
  <2>. QED
    BY <1>0, <2>2, <2>4 DEF Executing
<1>3. CASE c \in Stops /\ TrinoCancels(c)
  BY <1>0, <1>3 DEF TrinoCancels
<1>. QED
  BY <1>1, <1>2, <1>3 DEF GoesOn

ShutdownInv == Core /\ WorkOK /\ InterruptedIsReported

LEMMA OpenIsReported ==
    ASSUME Core, LiveRowHasAHandler
    PROVE  InterruptedIsReported
BY DEF Core, OkOK, LiveRowHasAHandler, InterruptedIsReported

LEMMA ClosedStepReports ==
    ASSUME ShutdownInv, Core', ~open, NEW c \in Calls, ClosedStep(c), open' = open
    PROVE  InterruptedIsReported'
<1>0. Starts \subseteq Calls
  BY DEF Calls
<1>1. UNCHANGED <<db, target, crashes>>
  BY GoesOnMoves DEF ShutdownInv, ClosedStep, UpdateThrows
<1>2. \A id \in Starts : Live(id)' <=> Live(id)
  BY <1>1 DEF Live
<1>3. \A id : executorsOf(id) \subseteq executorsOf(id)'
  BY ExecutorsStay, GoesOnMoves DEF ShutdownInv, ClosedStep, FacadeStep, Next, StartStep, StopStep,
     GoesOn
<1>4. \A d \in Starts : /\ pc[d] = "internal" => pc'[d] = "internal"
                        /\ pc[d] \in Executing => pc'[d] \in Executing \cup {"internal"}
  <2>1. CASE UpdateThrows(c)
    BY <1>0, <2>1, Thrown DEF ShutdownInv
  <2>2. CASE (c \in Starts /\ GoesOn(c)) \/ (c \in Stops /\ TrinoCancels(c))
    BY <2>2, GoesOnMoves DEF ShutdownInv, Executing
  <2>. QED
    BY <2>1, <2>2 DEF ClosedStep
<1>5. ASSUME NEW id \in Starts, crashes = 0, Live(id), runningFor(id)' = {}
      PROVE  \E d \in executorsOf(id)' : pc'[d] = "internal"
  <2>1. PICK d \in executorsOf(id) : pc[d] \in Executing \cup {"internal"}
    BY <1>5 DEF ShutdownInv, InterruptedIsReported, runningFor
  <2>2. d \in Starts /\ d \in executorsOf(id)' /\ pc'[d] \in Executing \cup {"internal"}
    BY <1>3, <1>4, <2>1 DEF executorsOf
  <2>. QED
    BY <1>5, <2>2 DEF runningFor
<1>6. OkOK'
  BY DEF Core
<1>. QED
  BY <1>1, <1>2, <1>5, <1>6 DEF InterruptedIsReported, OkOK

\* A shutdown or a start of the facade, and every step of a handler.
ShutdownStep ==
    \/ \E c \in Calls : HandlerStep(c)
    \/ CloseAndStop
    \/ StartAgain
    \/ UNCHANGED <<vars, open>>

LEMMA StepKeepsShutdown ==
    ASSUME ShutdownInv, ShutdownStep, Core'
    PROVE  WorkOK' /\ InterruptedIsReported'
<1>1. ASSUME NEW c \in Calls, open, OpenStep(c), open' = open
      PROVE  WorkOK' /\ InterruptedIsReported'
  <2>1. Next
    BY <1>1 DEF OpenStep, Next
  <2>2. LiveRowHasAHandler'
    BY <1>1, <2>1, NextKeeps DEF ShutdownInv, WorkOK, Kept
  <2>3. OkOK'
    BY DEF Core
  <2>. QED
    BY <2>2, <2>3 DEF WorkOK, LiveRowHasAHandler, InterruptedIsReported, OkOK
<1>2. ASSUME NEW c \in Calls, ~open, ClosedStep(c), open' = open
      PROVE  WorkOK' /\ InterruptedIsReported'
  BY <1>2, ClosedStepReports DEF WorkOK
<1>3. CASE StartAgain
  <2>1. crashes' # 0
    BY <1>3 DEF StartAgain, Restart, ShutdownInv, Core, TypeOK
  <2>2. OkOK'
    BY DEF Core
  <2>. QED
    BY <2>1, <2>2 DEF WorkOK, LiveRowHasAHandler, InterruptedIsReported, OkOK
<1>4. CASE CloseAndStop
  <2>1. LiveRowHasAHandler /\ ~open' /\ UNCHANGED vars
    BY <1>4 DEF CloseAndStop, ShutdownInv, WorkOK
  <2>2. \A id \in Starts : Live(id)' = Live(id) /\ runningFor(id)' = runningFor(id)
    BY <2>1 DEF vars, Live, runningFor, executorsOf
  <2>3. OkOK'
    BY DEF Core
  <2>. QED
    BY <2>1, <2>2, <2>3 DEF vars, WorkOK, LiveRowHasAHandler, InterruptedIsReported, OkOK
<1>5. CASE UNCHANGED <<vars, open>>
  <2>1. /\ \A id \in Starts : Live(id)' = Live(id) /\ runningFor(id)' = runningFor(id)
        /\ \A id \in Starts : executorsOf(id)' = executorsOf(id)
    BY <1>5 DEF vars, Live, runningFor, executorsOf
  <2>2. OkOK'
    BY DEF Core
  <2>. QED
    BY <1>5, <2>1, <2>2 DEF vars, ShutdownInv, WorkOK, LiveRowHasAHandler, InterruptedIsReported, OkOK
<1>. QED
  BY <1>1, <1>2, <1>3, <1>4, <1>5 DEF ShutdownStep, HandlerStep

(***************************************************************************)
(* The reader.                                                             *)
(***************************************************************************)

\* A client that has got a page has got a prefix of the result of an
\* execution that has SUCCEEDED, as long as its token says.
Following == reader.phase \in {"reading", "done"}

ResultRow == {Header} \cup (Starts \X Nat)

ReaderType == [phase : {"idle", "reading", "done", "refused"}, of : Starts \cup {None},
               token : Nat \cup {NoToken}, got : Seq(ResultRow)]

ReaderOK ==
    /\ reader \in ReaderType
    /\ reader.phase = "idle" => reader.token = NoToken /\ reader.got = <<>>
    /\ reader.phase = "reading" => reader.token \in Nat
    /\ Following => reader.of \in Starts /\ pc[reader.of] # "idle"
    /\ Following /\ db[reader.of] # None => db[reader.of].state = "SUCCEEDED"
    /\ \A id, c \in Starts :
         (Following /\ reader.of = id /\ db[id] # None /\ executorsOf(id) = {c}) =>
            /\ reader.phase = "reading" =>
                  /\ reader.token \in 1 .. Len(resultRows(id)) - 1
                  /\ reader.got = SubSeq(resultRows(id), 1, reader.token)
            /\ reader.phase = "done" => reader.got = resultRows(id)

LEMMA ResultRowsType ==
    ASSUME Core, NEW id \in Starts, db[id] # None, db[id].state = "SUCCEEDED"
    PROVE  /\ resultRows(id) \in Seq(ResultRow)
           /\ Len(resultRows(id)) \in Nat \ {0}
<1>1. db[id].result \in Rows
  BY DEF Core, TypeOK, SucceededIsReadable, Row
<1>2. /\ <<Header>> \in Seq(ResultRow) /\ Len(<<Header>>) = 1
      /\ db[id].result \in Seq(ResultRow)
  BY <1>1 DEF Rows, ResultRow
<1>3. Len(db[id].result) \in Nat
  BY <1>2
<1>. QED
  BY <1>2, <1>3, ConcatProperties DEF resultRows

\* The page arithmetic: a page ends where its token says, or with the list.
LEMMA PageEnds ==
    ASSUME NEW offset \in Nat, NEW maxResults \in Nat \ {0}, NEW length \in Nat
    PROVE  LET size == sliceSize(offset, maxResults, length)
               next == tokenAfter(offset, size, length)
           IN  /\ size \in Nat
               /\ next # NoToken => next \in Nat
               /\ offset < length =>
                     /\ offset + size \in offset + 1 .. length
                     /\ next = NoToken => offset + size = length
                     /\ next # NoToken => next = offset + size /\ next < length
<1>. DEFINE size == sliceSize(offset, maxResults, length)
<1>1. size \in Nat
  BY DEF sliceSize
<1>2. offset < length => offset + size \in offset + 1 .. length
  BY DEF sliceSize
<1>. HIDE DEF size
<1>3. offset + size \in Nat /\ offset + size # NoToken
  BY <1>1, ReadingAssumption
<1>4. tokenAfter(offset, size, length) = IF offset + size >= length THEN NoToken ELSE offset + size
  BY DEF tokenAfter, nextOffset, isLastPage
<1>. QED
  BY <1>1, <1>2, <1>3, <1>4 DEF size

LEMMA ReadKeepsReader ==
    ASSUME QInv, ReaderOK, NEW id \in Starts, GetQueryResults(id)
    PROVE  ReaderOK'
<1>1. /\ reader.phase = "idle" \/ (reader.phase = "reading" /\ reader.of = id)
      /\ UNCHANGED vars
  BY DEF GetQueryResults
<1>2. \A x \in Starts : executorsOf(x)' = executorsOf(x) /\ resultRows(x)' = resultRows(x)
  BY <1>1 DEF vars, executorsOf, resultRows
<1>3. CASE reader' = [reader EXCEPT !.phase = "refused", !.of = id]
  <2>1. reader' \in ReaderType /\ reader'.phase = "refused"
    BY <1>3 DEF ReaderOK, ReaderType
  <2>. QED
    BY <2>1 DEF ReaderOK, Following
<1>4. ASSUME NEW maxResults \in 1..MaxPage, db[id] # None, db[id].state = "SUCCEEDED",
             LET all    == resultRows(id)
                 offset == offsetOf(reader.token)
                 size   == sliceSize(offset, maxResults, Len(all))
                 next   == tokenAfter(offset, size, Len(all))
             IN  reader' = [phase |-> IF next = NoToken THEN "done" ELSE "reading",
                            of    |-> id,
                            token |-> next,
                            got   |-> reader.got \o SubSeq(all, offset + 1, offset + size)]
      PROVE  ReaderOK'
  <2>. DEFINE all    == resultRows(id)
              offset == offsetOf(reader.token)
              size   == sliceSize(offset, maxResults, Len(all))
              next   == tokenAfter(offset, size, Len(all))
  <2>1. all \in Seq(ResultRow) /\ Len(all) \in Nat \ {0}
    BY <1>4, ResultRowsType DEF QInv
  <2>2. offset \in Nat /\ maxResults \in Nat \ {0} /\ reader.got \in Seq(ResultRow)
    BY <1>1, ReadingAssumption DEF ReaderOK, ReaderType, offsetOf
  <2>3. /\ size \in Nat
        /\ next # NoToken => next \in Nat
        /\ offset < Len(all) =>
              /\ offset + size \in offset + 1 .. Len(all)
              /\ next = NoToken => offset + size = Len(all)
              /\ next # NoToken => next = offset + size /\ next < Len(all)
    BY <2>1, <2>2, PageEnds
  <2>4. reader' = [phase |-> IF next = NoToken THEN "done" ELSE "reading", of |-> id,
                   token |-> next, got |-> reader.got \o SubSeq(all, offset + 1, offset + size)]
    BY <1>4
  <2>5. offset >= Len(all) => size = 0
    BY DEF sliceSize
  <2>. HIDE DEF offset, size, next
  <2>9. /\ reader.phase = "idle" => offset = 0
        /\ reader.phase = "reading" => offset = reader.token
    BY ReadingAssumption DEF ReaderOK, ReaderType, offsetOf, offset
  <2>. HIDE DEF all
  <2>10. SubSeq(all, offset + 1, offset + size) \in Seq(ResultRow)
    <3>1. \A i \in offset + 1 .. offset + size : i \in 1 .. Len(all)
      BY <2>1, <2>2, <2>3, <2>5
    <3>2. \A i \in offset + 1 .. offset + size : all[i] \in ResultRow
      BY <2>1, <3>1
    <3>. QED
      BY <2>2, <2>3, <3>2, SubSeqProperties
  <2>6. reader' \in ReaderType
    BY <2>2, <2>3, <2>4, <2>10, ConcatProperties DEF ReaderType
  <2>7. pc[id] # "idle"
    BY <1>4 DEF QInv, Core, TargetOK
  <2>8. ASSUME NEW c \in Starts, executorsOf(id) = {c}
        PROVE  /\ next # NoToken => /\ next \in 1 .. Len(all) - 1
                                    /\ reader'.got = SubSeq(all, 1, next)
               /\ next = NoToken => reader'.got = all
    <3>1. offset < Len(all) /\ reader.got = SubSeq(all, 1, offset)
      <4>1. CASE reader.phase = "idle"
        <5>1. offset = 0 /\ reader.got = <<>>
          BY <2>9, <4>1 DEF ReaderOK
        <5>2. SubSeq(all, 1, 0) = <<>>
          BY SubSeqEmpty
        <5>. QED
          BY <2>1, <5>1, <5>2
      <4>2. CASE reader.phase = "reading" /\ reader.of = id
        BY <1>4, <2>1, <2>8, <2>9, <4>2 DEF ReaderOK, Following, all
      <4>. QED
        BY <1>1, <4>1, <4>2
    <3>2. reader'.got = SubSeq(all, 1, offset + size)
      BY <2>1, <2>2, <2>3, <2>4, <3>1, ConcatAdjacentSubSeq
    <3>3. offset + size = Len(all) => SubSeq(all, 1, offset + size) = all
      BY <2>1, SubSeqFull
    <3>. QED
      BY <2>1, <2>2, <2>3, <3>1, <3>2, <3>3
  <2>. QED
    <3>1. /\ reader'.phase = IF next = NoToken THEN "done" ELSE "reading"
          /\ reader'.of = id /\ reader'.token = next
      BY <2>4
    <3>2. /\ pc' = pc /\ db' = db /\ executorsOf(id)' = executorsOf(id)
          /\ resultRows(id)' = all
      BY <1>1, <1>2 DEF vars, all
    <3>3. /\ reader'.phase = "reading" => reader'.token \in Nat
          /\ reader'.phase # "idle"
          /\ pc'[reader'.of] # "idle" /\ db'[reader'.of].state = "SUCCEEDED"
      BY <1>4, <2>3, <2>7, <3>1, <3>2
    <3>4. ASSUME NEW x \in Starts, NEW c \in Starts, reader'.of = x, executorsOf(x)' = {c}
          PROVE  /\ reader'.phase = "reading" =>
                      /\ reader'.token \in 1 .. Len(resultRows(x)') - 1
                      /\ reader'.got = SubSeq(resultRows(x)', 1, reader'.token)
                 /\ reader'.phase = "done" => reader'.got = resultRows(x)'
      <4>1. x = id
        BY <3>1, <3>4
      <4>2. executorsOf(id) = {c}
        BY <3>2, <3>4, <4>1
      <4>. QED
        BY <2>8, <3>1, <3>2, <4>1, <4>2
    <3>. QED
      BY <2>6, <3>1, <3>3, <3>4 DEF ReaderOK, Following
<1>. QED
  BY <1>3, <1>4 DEF GetQueryResults

\* Whatever else happens, what the reader holds stays a part of the result.
LEMMA StepKeepsReader ==
    ASSUME QInv, Creator, ReaderOK, FacadeStep, reader' = reader
    PROVE  ReaderOK'
<1>0. Core /\ QInv'
  BY StepKeepsQInv DEF QInv
<1>1. CASE ~Following
  BY <1>1 DEF ReaderOK, Following
<1>2. CASE Following
  <2>1. PICK id \in Starts : reader.of = id /\ pc[id] # "idle"
    BY <1>2 DEF ReaderOK
  <2>2. pc'[id] # "idle" /\ (db'[id] # None => db[id] # None)
    BY <1>0, <2>1, StepAdvances DEF Advances, RowIsOld, Calls
  <2>3. db'[id] # None => db[id].state = "SUCCEEDED" /\ db'[id].state = "SUCCEEDED"
    BY <1>0, <1>2, <2>1, <2>2, EndStays DEF ReaderOK, terminalQueryStates
  <2>4. ASSUME NEW c \in Starts, db'[id] # None, executorsOf(id)' = {c}
        PROVE  executorsOf(id) = {c} /\ resultRows(id)' = resultRows(id)
    <3>1. db[id].completedAt \in Starts /\ db[id].completedAt # None
      BY <1>0, <2>2, <2>3, <2>4, NoneAssumption
         DEF Core, EndOK, Terminal, terminalQueryStates, Calls
    <3>2. db[id].completedAt \in executorsOf(id)
      BY <1>0, <2>2, <2>4, <3>1 DEF Core, EndOK, executorsOf
    <3>3. executorsOf(id) \subseteq executorsOf(id)'
      BY <1>0, ExecutorsStay
    <3>4. executorsOf(id) = {c}
      BY <2>4, <3>2, <3>3
    <3>5. pc[c] = "ok"
      BY <1>0, <2>2, <2>3, <2>4, <3>4, SuccessIsAnswered
    <3>6. trino'[c].sent = trino[c].sent
      BY <1>0, <3>5, StepAdvances DEF QueryStands, Answered
    <3>7. db[id].result = FullRows(c)
      BY <2>2, <2>3, <2>4, <3>4 DEF QInv, ResultIsTheQuerys, FullRows
    <3>8. db'[id].result = FullRows(c)'
      BY <1>0, <2>3, <2>4 DEF QInv, ResultIsTheQuerys, FullRows
    <3>. QED
      BY <3>4, <3>6, <3>7, <3>8 DEF FullRows, resultRows
  <2>. QED
    BY <1>2, <2>1, <2>2, <2>3, <2>4 DEF ReaderOK, ReaderType, Following
<1>. QED
  BY <1>1, <1>2

\* A reader at the end holds the whole result.
LEMMA ReaderReads ==
    ASSUME QInv, ReaderOK
    PROVE  ReadsTheResult
<1>. SUFFICES ASSUME NEW c \in Starts, reader.phase = "done", db[reader.of] # None,
                     executorsOf(reader.of) = {c}
              PROVE  reader.got = <<Header>> \o [k \in 1..trino[c].sent |-> <<c, k>>]
  BY DEF ReadsTheResult
<1>1. PICK id \in Starts : reader.of = id
  BY DEF ReaderOK, Following
<1>2. executorsOf(id) = {c}
  BY <1>1 DEF executorsOf
<1>3. reader.got = resultRows(id) /\ db[id].state = "SUCCEEDED"
  BY <1>1, <1>2 DEF ReaderOK, Following
<1>4. db[id].result = [k \in 1..trino[c].sent |-> <<c, k>>]
  BY <1>1, <1>2, <1>3 DEF QInv, ResultIsTheQuerys
<1>. QED
  BY <1>3, <1>4 DEF resultRows

(***************************************************************************)
(* The command.                                                            *)
(***************************************************************************)
Asked == {"polling", "fetching", "printed", "FAILED", "CANCELLED", "late"}

\* The command's execution is its own: no other call works on it, because no
\* other call has its token; and the command goes on only when it has been
\* answered 200.
OwnOK ==
    /\ \A d \in Starts : target[d] = Own => d = Own
    /\ pc[Own] # "idle" => target[Own] = Own
    /\ pc[Own] # "returned"
    /\ command = "idle" => pc[Own] = "idle"
    /\ command = "starting" => pc[Own] # "idle"
    /\ command \in Asked => pc[Own] = "ok"

\* What it has read of the row is the row's end.
OutcomeOK ==
    /\ command \in {"fetching", "printed"} /\ db[Own] # None => db[Own].state = "SUCCEEDED"
    /\ command \in {"FAILED", "CANCELLED"} /\ db[Own] # None => db[Own].state = command
    /\ command = "CANCELLED" => \E s \in Stops : pc[s] # "idle" /\ target[s] = Own
    /\ polls = 0

CommandInv ==
    /\ QInv /\ Creator /\ WorkOK /\ InterruptedIsReported /\ ReaderOK
    /\ OwnOK /\ OutcomeOK /\ PrintsItsResult

\* Steps around the command: they leave its state alone, and do not start its
\* request.
Aside ==
    /\ FacadeStep
    /\ pc[Own] = "idle" => pc'[Own] = "idle"
    /\ UNCHANGED <<command, polls, shown>>

\* While no other call has worked on the execution, none begins to.
LEMMA NobodyJoins ==
    ASSUME QInv, Creator, OwnOK, FacadeStep, QInv', Creator'
    PROVE  \A d \in Starts : target'[d] = Own => d = Own
<1>. SUFFICES ASSUME NEW d \in Starts, target'[d] = Own, d # Own PROVE FALSE
  OBVIOUS
<1>0. Own \in Starts /\ d \in Calls /\ Own \in Calls
  BY CommandAssumption DEF Calls
<1>1. target[d] # target'[d]
  BY DEF OwnOK
<1>2. pc[d] = "idle" /\ Advances(d)
  BY <1>0, <1>1, StepAdvances DEF QInv, Advances
<1>3. pc'[d] # "idle"
  BY <1>0, <1>1, <1>2 DEF QInv, Core, TargetOK
<1>4. db'[Own] # None
  BY <1>2, <1>3 DEF Advances
<1>5. target'[Own] = Own /\ pc'[Own] # "idle"
  BY <1>0, <1>4 DEF Creator, QInv, Core, TargetOK
<1>6. db'[Own].token = TokenOf[d] /\ db'[Own].token = TokenOf[Own]
  BY <1>0, <1>3, <1>4, <1>5 DEF QInv, Core, TokenNamesOneRow
<1>. QED
  BY <1>6, CommandAssumption

LEMMA AsideKeepsOwn ==
    ASSUME QInv, Creator, OwnOK, Aside, QInv', Creator'
    PROVE  OwnOK'
<1>0. Own \in Starts /\ Own \in Calls
  BY CommandAssumption DEF Calls
<1>1. \A d \in Starts : target'[d] = Own => d = Own
  BY NobodyJoins DEF Aside
<1>2. Advances(Own)
  BY <1>0, StepAdvances DEF Aside, QInv
<1>. QED
  BY <1>1, <1>2 DEF OwnOK, Aside, Advances, Answered, Asked

LEMMA AsideKeepsOutcome ==
    ASSUME QInv, Creator, OwnOK, OutcomeOK, PrintsItsResult, Aside
    PROVE  OutcomeOK' /\ PrintsItsResult'
<1>0. Own \in Starts /\ Own \in Calls /\ Stops \subseteq Calls
  BY CommandAssumption DEF Calls
<1>1. Core /\ FacadeStep /\ command' = command /\ polls' = polls /\ shown' = shown
  BY DEF QInv, Aside
<1>2. ASSUME command \in Asked
      PROVE  /\ db'[Own] # None => db[Own] # None
             /\ trino'[Own].sent = trino[Own].sent
             /\ trino[Own].state = "finished" => trino'[Own].state = "finished"
  <2>1. pc[Own] = "ok"
    BY <1>2 DEF OwnOK
  <2>. QED
    BY <1>0, <1>1, <2>1, StepAdvances DEF RowIsOld, QueryStands, Answered
<1>3. command \in {"fetching", "printed"} /\ db'[Own] # None => db'[Own].state = "SUCCEEDED"
  BY <1>0, <1>1, <1>2, EndStays DEF OutcomeOK, Asked, terminalQueryStates
<1>4. command \in {"FAILED", "CANCELLED"} /\ db'[Own] # None => db'[Own].state = command
  BY <1>0, <1>1, <1>2, EndStays DEF OutcomeOK, Asked, terminalQueryStates
<1>5. command = "CANCELLED" => \E s \in Stops : pc'[s] # "idle" /\ target'[s] = Own
  BY <1>0, <1>1, StepAdvances DEF OutcomeOK, Advances
<1>6. command = "printed" => OwnRows' = OwnRows /\ trino'[Own].state = "finished"
  BY <1>2 DEF PrintsItsResult, OwnRows, Asked
<1>7. PrintsItsResult'
  BY <1>1, <1>6 DEF PrintsItsResult
<1>. QED
  BY <1>1, <1>3, <1>4, <1>5, <1>7 DEF OutcomeOK

(***************************************************************************)
(* The command's own steps.                                                *)
(***************************************************************************)

\* No row holds the command's token yet: its Start makes one.
LEMMA SendMakesARow ==
    ASSUME QInv, Creator, StartQueryExecution(Own)
    PROVE  /\ db[Own] = None /\ target'[Own] = Own /\ pc'[Own] = "submit"
<1>0. /\ Own \in Starts /\ Own \in Calls /\ Starts \subseteq Calls
      /\ pc \in [Calls -> Control] /\ target \in [Calls -> Starts \cup {None}]
  BY CommandAssumption DEF Calls, QInv, Core, TypeOK
<1>1. pc[Own] = "idle" /\ db[Own] = None
  BY <1>0 DEF StartQueryExecution, QInv, Core, TargetOK
<1>2. ASSUME NEW id \in holdersOf(TokenOf[Own]) PROVE FALSE
  <2>1. id \in Starts /\ db[id] # None /\ db[id].token = TokenOf[Own]
    BY DEF holdersOf
  <2>2. pc[id] # "idle" /\ target[id] = id
    BY <2>1 DEF QInv, Core, TargetOK, Creator
  <2>3. db[id].token = TokenOf[id]
    BY <2>1, <2>2 DEF QInv, Core, TokenNamesOneRow
  <2>. QED
    BY <1>1, <2>1, <2>3, CommandAssumption
<1>3. holdersOf(TokenOf[Own]) = {}
  BY <1>2
<1>. QED
  BY <1>0, <1>1, <1>3 DEF StartQueryExecution

LEMMA SendKeepsCommand ==
    ASSUME CommandInv, SendStart, QInv', Creator'
    PROVE  OwnOK' /\ OutcomeOK' /\ PrintsItsResult'
<1>1. CASE open /\ StartQueryExecution(Own) /\ command' = "starting"
  <2>1. FacadeStep
    BY <1>1, CommandAssumption DEF FacadeStep, Next, StartStep
  <2>2. \A d \in Starts : target'[d] = Own => d = Own
    BY <2>1, NobodyJoins DEF CommandInv
  <2>3. target'[Own] = Own /\ pc'[Own] = "submit"
    BY <1>1, SendMakesARow DEF CommandInv
  <2>. QED
    BY <1>1, <2>2, <2>3 DEF SendStart, CommandInv, OwnOK, OutcomeOK, PrintsItsResult, Asked
<1>2. CASE UNCHANGED facadeVars /\ command' = "unreachable"
  BY <1>2 DEF SendStart, facadeVars, CommandInv, OwnOK, OutcomeOK, PrintsItsResult, Asked
<1>. QED
  BY <1>1, <1>2 DEF SendStart

LEMMA AnswerKeepsCommand ==
    ASSUME CommandInv, StartAnswered
    PROVE  OwnOK' /\ OutcomeOK' /\ PrintsItsResult'
<1>1. /\ command = "starting" /\ UNCHANGED <<db, pc, target, trino, polls>>
      /\ command' \in {"polling", "refused", "unreachable"}
      /\ command' = "polling" => pc[Own] = "ok"
  BY DEF StartAnswered, facadeVars, CommandInv, OwnOK
<1>. QED
  BY <1>1 DEF CommandInv, OwnOK, OutcomeOK, PrintsItsResult, Asked

LEMMA PollKeepsCommand ==
    ASSUME CommandInv, Poll
    PROVE  OwnOK' /\ OutcomeOK' /\ PrintsItsResult'
<1>0. Own \in Starts
  BY CommandAssumption
<1>1. /\ command = "polling" /\ pc[Own] = "ok" /\ target[Own] = Own /\ db[Own] # None
      /\ UNCHANGED <<db, pc, target, trino>>
  BY DEF Poll, facadeVars, CommandInv, OwnOK, Asked
<1>2. db[Own].state \in terminalQueryStates
  <2>1. ~Live(target[Own])
    BY <1>0, <1>1 DEF CommandInv, QInv, Core, OkOK
  <2>. QED
    BY <1>1, <2>1 DEF Live
<1>3. /\ polls' = polls
      /\ command' = IF db[Own].state = "SUCCEEDED" THEN "fetching" ELSE db[Own].state
  BY <1>1, <1>2 DEF Poll, afterPoll
<1>4. command' = "CANCELLED" => \E s \in Stops : pc[s] # "idle" /\ target[s] = Own
  <2>1. /\ db[Own].completedAt # None =>
              pc[db[Own].completedAt] = "ok" /\ target[db[Own].completedAt] = Own
        /\ db[Own].state = "CANCELLED" => db[Own].completedAt \in Stops
    BY <1>0, <1>1, <1>2 DEF CommandInv, QInv, Core, EndOK, Terminal
  <2>2. None \notin Stops
    BY NoneAssumption DEF Calls
  <2>. QED
    BY <1>3, <2>1, <2>2
<1>. QED
  BY <1>1, <1>2, <1>3, <1>4
     DEF CommandInv, OwnOK, OutcomeOK, PrintsItsResult, Asked, terminalQueryStates

LEMMA FailKeepsCommand ==
    ASSUME CommandInv, RequestFails
    PROVE  OwnOK' /\ OutcomeOK' /\ PrintsItsResult'
<1>1. /\ command \in {"polling", "fetching"} /\ command' \in {"unreachable", "refused"}
      /\ UNCHANGED <<db, pc, target, trino, polls>>
  BY DEF RequestFails, facadeVars
<1>. QED
  BY <1>1 DEF CommandInv, OwnOK, OutcomeOK, PrintsItsResult, Asked

LEMMA PrintKeepsCommand ==
    ASSUME CommandInv, PrintResult
    PROVE  OwnOK' /\ OutcomeOK' /\ PrintsItsResult'
<1>0. Own \in Starts
  BY CommandAssumption
<1>1. /\ command = "fetching" /\ pc[Own] = "ok" /\ target[Own] = Own /\ db[Own] # None
      /\ UNCHANGED <<db, pc, target, trino, polls>>
  BY DEF PrintResult, facadeVars, CommandInv, OwnOK, Asked
<1>2. db[Own].state = "SUCCEEDED"
  BY <1>1 DEF CommandInv, OutcomeOK
<1>3. command' = "printed" /\ shown' = firstPage(Own)
  BY <1>1, <1>2 DEF PrintResult
<1>4. executorsOf(Own) = {Own}
  BY <1>0, <1>1 DEF CommandInv, OwnOK, executorsOf
<1>5. trino[Own].state = "finished" /\ resultRows(Own) = OwnRows
  BY <1>0, <1>1, <1>2, <1>4 DEF CommandInv, QInv, ResultIsTheQuerys, resultRows, OwnRows
<1>6. OwnRows' = OwnRows
  BY <1>1 DEF OwnRows
<1>7. PrintsItsResult'
  BY <1>1, <1>3, <1>5, <1>6 DEF PrintsItsResult, firstPage
<1>. QED
  BY <1>1, <1>2, <1>3, <1>7 DEF CommandInv, OwnOK, OutcomeOK, Asked

LEMMA InitCommandInv == CommandInit => CommandInv
<1>. SUFFICES ASSUME CommandInit PROVE CommandInv
  OBVIOUS
<1>1. /\ Init /\ QInv /\ LiveRowHasAHandler
      /\ command = "idle" /\ polls = 0
      /\ reader = [phase |-> "idle", of |-> None, token |-> NoToken, got |-> <<>>]
  BY InitQInv, InitIInv DEF CommandInit, ShutdownInit, ReaderInit, IInv
<1>2. /\ \A id \in Starts : db[id] = None /\ pc[id] = "idle" /\ target[id] = None
      /\ Own \in Starts /\ None \notin Starts
  BY <1>1, CommandAssumption, NoneAssumption DEF Init, Calls
<1>3. Creator /\ WorkOK /\ InterruptedIsReported
  BY <1>1, <1>2, OpenIsReported DEF Creator, WorkOK, QInv
<1>4. ReaderOK
  BY <1>1 DEF ReaderOK, ReaderType, Following
<1>5. OwnOK /\ OutcomeOK /\ PrintsItsResult
  BY <1>1, <1>2 DEF OwnOK, OutcomeOK, PrintsItsResult, Asked
<1>. QED
  BY <1>1, <1>3, <1>4, <1>5 DEF CommandInv

LEMMA StutterKeepsCommand ==
    ASSUME CommandInv, UNCHANGED commandVars
    PROVE  CommandInv'
<1>1. UNCHANGED <<vars, open, reader, command, polls, shown>>
  BY DEF commandVars, vars
<1>2. FacadeStep
  BY <1>1 DEF FacadeStep
<1>3. QInv' /\ Creator'
  BY <1>2, StepKeepsQInv, StepKeepsCreator DEF CommandInv, QInv
<1>4. WorkOK' /\ InterruptedIsReported'
  BY <1>1, <1>3, StepKeepsShutdown DEF CommandInv, ShutdownInv, ShutdownStep, QInv
<1>5. ReaderOK'
  BY <1>1, <1>2, StepKeepsReader DEF CommandInv
<1>6. Aside
  BY <1>1, <1>2 DEF Aside, vars
<1>. QED
  BY <1>3, <1>4, <1>5, <1>6, AsideKeepsOwn, AsideKeepsOutcome DEF CommandInv

LEMMA NextKeepsCommand == CommandInv /\ [CommandNext]_commandVars => CommandInv'
<1>. SUFFICES ASSUME CommandInv, CommandNext PROVE CommandInv'
  BY StutterKeepsCommand
<1>1. FacadeStep
  BY CommandIsFacadeStep
<1>2. QInv' /\ Creator'
  BY <1>1, StepKeepsQInv, StepKeepsCreator DEF CommandInv, QInv
<1>3. CommandStep \/ ReadElsewhere \/ Around
  BY DEF CommandNext
<1>4. ShutdownStep
  <2>1. CASE CommandStep
    <3>1. UNCHANGED <<vars, open>> \/ (open /\ StartQueryExecution(Own) /\ open' = open)
      BY <2>1 DEF CommandStep, SendStart, StartAnswered, Poll, RequestFails, PrintResult,
                  facadeVars, vars
    <3>. QED
      BY <3>1, CommandAssumption DEF ShutdownStep, HandlerStep, OpenStep, StartStep, Calls
  <2>2. CASE ReadElsewhere
    BY <2>2 DEF ReadElsewhere, GetQueryResults, ShutdownStep
  <2>3. CASE Around
    BY <2>3 DEF Around, ShutdownStep
  <2>. QED
    BY <1>3, <2>1, <2>2, <2>3
<1>5. WorkOK' /\ InterruptedIsReported'
  BY <1>2, <1>4, StepKeepsShutdown DEF CommandInv, ShutdownInv, QInv
<1>6. ReaderOK'
  <2>1. CASE ReadElsewhere
    BY <2>1, ReadKeepsReader DEF ReadElsewhere, CommandInv
  <2>2. CASE CommandStep \/ Around
    <3>1. reader' = reader
      BY <2>2 DEF CommandStep, SendStart, StartAnswered, Poll, RequestFails, PrintResult, Around
    <3>. QED
      BY <1>1, <3>1, StepKeepsReader DEF CommandInv
  <2>. QED
    BY <1>3, <2>1, <2>2
<1>7. OwnOK' /\ OutcomeOK' /\ PrintsItsResult'
  <2>1. CASE CommandStep
    BY <1>2, <2>1, SendKeepsCommand, AnswerKeepsCommand, PollKeepsCommand, FailKeepsCommand,
       PrintKeepsCommand DEF CommandStep
  <2>2. CASE ReadElsewhere \/ Around
    <3>1. Aside
      <4>1. CASE ReadElsewhere
        BY <1>1, <4>1 DEF ReadElsewhere, GetQueryResults, Aside, vars
      <4>2. CASE Around
        <5>1. pc[Own] = "idle" => pc'[Own] = "idle"
          BY <4>2, CommandAssumption DEF Around, CloseAndStop, StartAgain, Restart, vars, Calls,
             Executing, Stopping
        <5>. QED
          BY <1>1, <4>2, <5>1 DEF Around, Aside
      <4>. QED
        BY <2>2, <4>1, <4>2
    <3>. QED
      BY <1>2, <3>1, AsideKeepsOwn, AsideKeepsOutcome DEF CommandInv
  <2>. QED
    BY <1>3, <2>1, <2>2
<1>. QED
  BY <1>2, <1>5, <1>6, <1>7 DEF CommandInv

(***************************************************************************)
(* The theorems.                                                           *)
(***************************************************************************)

\* The inductive invariant of the command, the reader and the shutdown around
\* the facade.
THEOREM CommandInvariance == CommandSpec => []CommandInv
  BY InitCommandInv, NextKeepsCommand, PTL DEF CommandSpec

\* A client that followed the tokens to the end holds the header and exactly
\* the rows of the execution's query, for any page sizes, any result, and
\* whatever other requests, Stops, shutdowns and restarts came between.
THEOREM PagesAreTheResult == CommandSpec => []ReadsTheResult
<1>1. CommandInv => ReadsTheResult
  BY ReaderReads DEF CommandInv
<1>. QED
  BY <1>1, CommandInvariance, PTL

\* A facade that is shut down answers no Start 200 whose row is still live,
\* and a row it leaves live belongs to a Start that it answered 500.
THEOREM ShutdownIsReported == CommandSpec => []InterruptedIsReported
<1>1. CommandInv => InterruptedIsReported
  BY DEF CommandInv
<1>. QED
  BY <1>1, CommandInvariance, PTL

\* `athena-local query` prints the beginning of the result of its own
\* statement, of a query that has finished, and nothing else.
THEOREM PrintsItsOwn == CommandSpec => []PrintsItsResult
<1>1. CommandInv => PrintsItsResult
  BY DEF CommandInv
<1>. QED
  BY <1>1, CommandInvariance, PTL

\* It ends with the state the execution has for good; CANCELLED is a Stop's;
\* and the first poll decides.
THEOREM ExitIsTheOutcome == CommandSpec => []ExitTellsTheOutcome
<1>1. CommandInv => ExitTellsTheOutcome
  BY DEF CommandInv, OutcomeOK, ExitTellsTheOutcome
<1>. QED
  BY <1>1, CommandInvariance, PTL

=============================================================================
