------------------------------- MODULE Listing -------------------------------
(***************************************************************************)
(* A client pages through ListQueryExecutions (src/facade/service.ts) by   *)
(* following its NextToken while other clients submit executions.  Every   *)
(* page is cut from the table as it is then (listAll, filtered, sliced at  *)
(* an offset): the token remembers a number, not a place in the list.      *)
(***************************************************************************)
EXTENDS FiniteSets, Paging

CONSTANTS
    Ids,          \* execution ids, ordered as their UUIDs are
    Workgroups,   \* work groups
    WorkgroupOf,  \* the work group each execution is recorded with
    Anything,     \* a request without the WorkGroup filter
    MaxTime,      \* bound: readings of the clock
    MaxPage,      \* bound: MaxResults of a request
    MaxLosses     \* bound: restarts that lose a table in memory

ASSUME ListingAssumption ==
    /\ Ids \subseteq Nat /\ IsFiniteSet(Ids)
    /\ WorkgroupOf \in [Ids -> Workgroups]
    /\ Anything \notin Workgroups
    /\ MaxTime \in Nat /\ MaxPage \in Nat /\ MaxLosses \in Nat
    /\ NoToken \notin Nat

Times   == 0..MaxTime
Filters == Workgroups \cup {Anything}

VARIABLES
    submittedAt,  \* the table: id -> when it was submitted; -1: no such row
    filter,       \* the WorkGroup the client's walk asks for
    token,        \* the NextToken it holds
    walk,         \* "idle", "walking" or "done"
    listed,       \* the ids it has been given
    there,        \* the rows that were there when the walk began and still are
    losses        \* restarts so far

listingVars == <<submittedAt, filter, token, walk, listed, there, losses>>

Absent == -1
Table == {id \in Ids : submittedAt[id] # Absent}

-----------------------------------------------------------------------------
(***************************************************************************)
(* listAll and the filter, as positions: ORDER BY submitted_at DESC,       *)
(* query_execution_id DESC.                                                *)
(***************************************************************************)
before(x, y) ==
    \/ submittedAt[x] > submittedAt[y]
    \/ submittedAt[x] = submittedAt[y] /\ x > y

\* The rows the filter lets through.
matching(f) == {id \in Table : f = Anything \/ WorkgroupOf[id] = f}

\* The rows ahead of one in a filtered list, and so its index in the list.
ahead(id, f) == {x \in matching(f) : before(x, id)}
indexOf(id, f) == Cardinality(ahead(id, f))

\* The ids of items.slice(offset, offset + maxResults).
page(f, offset, maxResults) ==
    {id \in matching(f) : indexOf(id, f) >= offset /\ indexOf(id, f) < offset + maxResults}

-----------------------------------------------------------------------------
\* Another client's StartQueryExecution inserts a row, stamped by the wall
\* clock: several rows may have one stamp, and the clock may be set back.
Submit(id) ==
    /\ submittedAt[id] = Absent
    /\ \E now \in Times : submittedAt' = [submittedAt EXCEPT ![id] = now]
    /\ UNCHANGED <<filter, token, walk, listed, there, losses>>

\* The client decides what to list.
BeginWalk ==
    /\ walk = "idle"
    /\ walk' = "walking"
    /\ filter' \in Filters
    /\ there' = matching(filter')
    /\ UNCHANGED <<submittedAt, token, listed, losses>>

\* One ListQueryExecutions request and its answer.
ListQueryExecutions ==
    /\ walk = "walking"
    /\ \E maxResults \in 1..MaxPage :
       LET offset == offsetOf(token)
           length == Cardinality(matching(filter))
       IN  /\ listed' = listed \cup page(filter, offset, maxResults)
           /\ token' = tokenAfter(offset, sliceSize(offset, maxResults, length), length)
    /\ walk' = IF token' = NoToken THEN "done" ELSE "walking"
    /\ UNCHANGED <<submittedAt, filter, there, losses>>

\* The process restarts and its table in memory is gone.
LoseTable ==
    /\ losses < MaxLosses
    /\ losses' = losses + 1
    /\ submittedAt' = [id \in Ids |-> Absent]
    /\ there' = {}
    /\ UNCHANGED <<filter, token, walk, listed>>

Init ==
    /\ submittedAt = [id \in Ids |-> Absent]
    /\ filter = Anything /\ token = NoToken /\ walk = "idle"
    /\ listed = {} /\ there = {} /\ losses = 0

Next == (\E id \in Ids : Submit(id)) \/ BeginWalk \/ ListQueryExecutions \/ LoseTable

Spec == Init /\ [][Next]_listingVars

\* A client that keeps asking.
FairSpec == Spec /\ WF_listingVars(ListQueryExecutions)

-----------------------------------------------------------------------------
(***************************************************************************)
(* Properties.                                                             *)
(***************************************************************************)

\* Every variable has its type.
TypeOK ==
    /\ submittedAt \in [Ids -> Times \cup {Absent}]
    /\ filter \in Filters
    /\ token \in Nat \cup {NoToken}
    /\ walk \in {"idle", "walking", "done"}
    /\ listed \subseteq Ids
    /\ there \subseteq Ids
    /\ losses \in Nat

\* However many executions are submitted between two pages, and wherever they
\* land in the list, a walk that has ended gave every execution that was there
\* when it began.
NothingMissed == walk = "done" => there \subseteq listed

SubmissionsStop == <>[][\A id \in Ids : ~Submit(id)]_listingVars

\* Once submissions have stopped, a walk by a client that keeps asking ends, from
\* whatever offset they and a lost table have left it at. The premise is needed
\* of any Ids that are not used up: the token is an offset from the head, and a
\* page or more submitted between every two requests keeps the end away for ever.
WalkEnds == SubmissionsStop => (walk = "walking" ~> walk = "done")

=============================================================================
