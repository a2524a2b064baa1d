-------------------------------- MODULE Seed --------------------------------
(***************************************************************************)
(* The seed command (src/cli/run.ts, src/seed/seed.ts,                     *)
(* src/storage/buckets.ts): it creates the buckets that are missing, then  *)
(* has Trino create the schema and the smoke table, following each         *)
(* statement to its last page. Several runs may overlap, be killed halfway *)
(* or meet a service that fails; a destroy may wipe what they made.        *)
(***************************************************************************)
EXTENDS Integers

CONSTANTS
    Run,            \* the runs of the command
    N,              \* how many buckets it ensures, in order; none without MinIO
    Warehouse       \* the buckets the warehouse of the schema is in

ASSUME SeedAssumption == Run # {} /\ N \in Nat /\ Warehouse \subseteq 1 .. N

\* What a seed makes, in order: the buckets, then by a statement each the
\* schema and the table.
Schema == N + 1
Table == N + 2
Item == 1 .. Table

VARIABLES
    there,          \* the items that exist
    pc,             \* where each run is
    at,             \* the item it is at
    stmt,           \* how far Trino is with its statement
    page,           \* the page of the statement that it has in hand
    overlapped,     \* ghost: runs that others ran beside
    faulted,        \* ghost: runs that a service failed, that were killed or
                    \*        that were configured with a name that is none
    wiped           \* ghost: runs during or after which everything was wiped

vars == <<there, pc, at, stmt, page, overlapped, faulted, wiped>>

Ended == {"ok", "failed", "killed"}
Going == {r \in Run : pc[r] \notin Ended \cup {"idle"}}
AtWork == Going \cup {r \in Run : stmt[r] \in {"queued", "planned"}}

\* What has to exist before an item can be made.
Needs(item) == IF item < Schema THEN {}
               ELSE Warehouse \cup (IF item = Table THEN {Schema} ELSE {})

\* Earlier seeds and whoever else uses the stack left anything that can be.
Init ==
    /\ there \in SUBSET Item
    /\ \A item \in there : Needs(item) \subseteq there
    /\ pc = [r \in Run |-> "idle"]
    /\ at = [r \in Run |-> 1]
    /\ stmt = [r \in Run |-> "none"]
    /\ page = [r \in Run |-> "none"]
    /\ overlapped = {} /\ faulted = {} /\ wiped = {}

\* The run comes to an item: a bucket to look at, a statement to submit, or
\* the end.
GoTo(r, item) ==
    /\ at' = [at EXCEPT ![r] = item]
    /\ pc' = [pc EXCEPT ![r] = IF item < Schema THEN "head"
                               ELSE IF item <= Table THEN "submit" ELSE "ok"]

Fail(r) == pc' = [pc EXCEPT ![r] = "failed"] /\ UNCHANGED at

\* runSeed: buckets first, then the statements.
Begin(r) ==
    /\ pc[r] = "idle"
    /\ GoTo(r, 1)
    /\ overlapped' = IF AtWork = {} THEN overlapped ELSE overlapped \cup AtWork \cup {r}
    /\ UNCHANGED <<there, stmt, page, faulted, wiped>>

\* ensureBucket: validateBucketName refuses the name before any request. A name
\* is good or not by the configuration of the run, which is left open.
RefuseName(r) ==
    /\ pc[r] = "head"
    /\ Fail(r)
    /\ faulted' = faulted \cup {r}
    /\ UNCHANGED <<there, stmt, page, overlapped, wiped>>

\* Mutant: every bucket is put, there or not.
HeadBucketBlind(r) ==
    /\ pc[r] = "head"
    /\ pc' = [pc EXCEPT ![r] = "put"]
    /\ UNCHANGED <<there, at, stmt, page, overlapped, faulted, wiped>>

\* ensureBucket: HEAD; a bucket that is there is left alone, 404 leads to PUT.
HeadBucket(r) ==
    /\ pc[r] = "head"
    /\ IF at[r] \in there THEN GoTo(r, at[r] + 1)
       ELSE pc' = [pc EXCEPT ![r] = "put"] /\ UNCHANGED at
    /\ UNCHANGED <<there, stmt, page, overlapped, faulted, wiped>>

\* Mutant: a conflict is passed over, and the rest of the buckets with it.
PutBucketSkips(r) ==
    /\ pc[r] = "put"
    /\ GoTo(r, IF at[r] \in there THEN Schema ELSE at[r] + 1)
    /\ there' = there \cup {at[r]}
    /\ UNCHANGED <<stmt, page, overlapped, faulted, wiped>>

\* ensureBucket: PUT; a bucket that came in between is a conflict, and thrown.
PutBucket(r) ==
    /\ pc[r] = "put"
    /\ IF at[r] \in there THEN Fail(r) ELSE GoTo(r, at[r] + 1)
    /\ there' = there \cup {at[r]}
    /\ UNCHANGED <<stmt, page, overlapped, faulted, wiped>>

\* trino.submit: the first page says that there is more.
Submit(r) ==
    /\ pc[r] = "submit"
    /\ pc' = [pc EXCEPT ![r] = "wait"]
    /\ stmt' = [stmt EXCEPT ![r] = "queued"]
    /\ page' = [page EXCEPT ![r] = "more"]
    /\ UNCHANGED <<there, at, overlapped, faulted, wiped>>

\* Mutant: the first page is looked at again and again.
FetchFirst(r) ==
    /\ pc[r] = "wait" /\ page[r] = "more"
    /\ UNCHANGED vars

\* trino.fetchNext: where the statement is now.
FetchNext(r) ==
    /\ pc[r] = "wait" /\ page[r] = "more"
    /\ page' = [page EXCEPT ![r] = IF stmt[r] \in {"finished", "failed"} THEN stmt[r] ELSE "more"]
    /\ UNCHANGED <<there, pc, at, stmt, overlapped, faulted, wiped>>

\* waitForTrinoCompletion: the last page is a success, or it throws.
Complete(r) ==
    /\ pc[r] = "wait" /\ page[r] # "more"
    /\ IF page[r] = "finished" THEN GoTo(r, at[r] + 1) ELSE Fail(r)
    /\ UNCHANGED <<there, stmt, page, overlapped, faulted, wiped>>

\* A request fails: the run reports it and leaves the rest undone.
RequestFails(r) ==
    /\ r \in Going
    /\ Fail(r)
    /\ faulted' = faulted \cup {r}
    /\ UNCHANGED <<there, stmt, page, overlapped, wiped>>

\* The run is interrupted; Trino may still carry out its statement.
Kill(r) ==
    /\ r \in Going
    /\ pc' = [pc EXCEPT ![r] = "killed"]
    /\ faulted' = faulted \cup {r}
    /\ UNCHANGED <<there, at, stmt, page, overlapped, wiped>>

-----------------------------------------------------------------------------
(* Trino, as the code uses it: CREATE ... IF NOT EXISTS looks first and    *)
(* creates later, and fails when the thing has come in between.            *)

Look(r) ==
    /\ stmt[r] = "queued"
    /\ stmt' = [stmt EXCEPT ![r] = IF at[r] \in there THEN "finished"
                                   ELSE IF Needs(at[r]) \subseteq there THEN "planned"
                                   ELSE "failed"]
    /\ UNCHANGED <<there, pc, at, page, overlapped, faulted, wiped>>

Create(r) ==
    /\ stmt[r] = "planned"
    /\ IF Needs(at[r]) \subseteq there /\ at[r] \notin there
       THEN there' = there \cup {at[r]} /\ stmt' = [stmt EXCEPT ![r] = "finished"]
       ELSE stmt' = [stmt EXCEPT ![r] = "failed"] /\ UNCHANGED there
    /\ UNCHANGED <<pc, at, page, overlapped, faulted, wiped>>

\* Trino fails a statement for a reason of its own.
Break(r) ==
    /\ stmt[r] \in {"queued", "planned"}
    /\ stmt' = [stmt EXCEPT ![r] = "failed"]
    /\ faulted' = faulted \cup {r}
    /\ UNCHANGED <<there, pc, at, page, overlapped, wiped>>

\* The stack is destroyed with its data.
Wipe ==
    /\ there' = {}
    /\ stmt' = [r \in Run |-> IF stmt[r] \in {"queued", "planned"} THEN "failed" ELSE stmt[r]]
    /\ faulted' = faulted \cup Going
    /\ wiped' = {r \in Run : pc[r] # "idle"}
    /\ UNCHANGED <<pc, at, page, overlapped>>

RunStep(r) ==
    HeadBucket(r) \/ PutBucket(r) \/ Submit(r) \/ FetchNext(r) \/ Complete(r)

Next ==
    \/ \E r \in Run : \/ Begin(r) \/ RunStep(r) \/ RefuseName(r) \/ RequestFails(r) \/ Kill(r)
                      \/ Look(r) \/ Create(r) \/ Break(r)
    \/ Wipe

Spec == Init /\ [][Next]_vars

\* A run that goes on takes its steps, and Trino works on its statement.
FairSpec ==
    /\ Spec
    /\ \A r \in Run : WF_vars(RunStep(r)) /\ WF_vars(Look(r) \/ Create(r))

-----------------------------------------------------------------------------
(* Properties                                                              *)

\* Every variable keeps its type.
TypeOK ==
    /\ there \subseteq Item
    /\ pc \in [Run -> {"idle", "head", "put", "submit", "wait"} \cup Ended]
    /\ at \in [Run -> 1 .. Table + 1]
    /\ stmt \in [Run -> {"none", "queued", "planned", "finished", "failed"}]
    /\ page \in [Run -> {"none", "more", "finished", "failed"}]
    /\ overlapped \subseteq Run /\ faulted \subseteq Run /\ wiped \subseteq Run

\* A seed that reports success has left every bucket, the schema and the
\* table in place, unless the stack was destroyed since it began.
SeededIsComplete ==
    \A r \in Run : pc[r] = "ok" /\ r \notin wiped => there = Item

\* Seeding can be repeated: whatever earlier runs left, complete or not, a run
\* that no other overlaps fails only when a service does, or when it is given a
\* bucket name that is none.
SeedCanBeRepeated == \A r \in Run : pc[r] = "failed" => r \in overlapped \cup faulted

\* Runs that overlap do not all lose: of runs that failed only against each
\* other (no service, no kill, no bad name), one came through.
OneSeedWins ==
    (\A r \in Run : pc[r] \in Ended) /\ faulted = {} => \E r \in Run : pc[r] = "ok"

\* A run comes to an end: the wait for the last page does not go on for ever.
SeedEnds == \A r \in Run : r \in Going ~> r \notin Going
=============================================================================
