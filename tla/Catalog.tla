------------------------------- MODULE Catalog -------------------------------
(***************************************************************************)
(* The catalog operations of the facade (GetDatabase, ListDatabases,       *)
(* GetTableMetadata, ListTableMetadata and #runMetadataQuery of            *)
(* src/facade/service.ts) and its work groups.  Each request runs one      *)
(* statement over a view of Trino's information_schema, follows its pages  *)
(* and answers from the rows; lists are paged by an offset into the list   *)
(* of that moment, while others create and drop tables.                    *)
(*                                                                         *)
(* A behaviour is about one view.  A name stands for a schema or a table,  *)
(* and the view has a row per schema or per column of a table.  A client   *)
(* sends single requests, malformed ones too, or walks a list.             *)
(***************************************************************************)
EXTENDS FiniteSets, Paging, Protocol

CONSTANTS
    Names,        \* names of schemas or tables, in their order
    Hidden,       \* the name of information_schema among them
    MaxColumns,   \* bound: columns of a table
    Expressions,  \* what an Expression can select: sets of names
    Requests,     \* the single requests that a client may send
    MaxPage,      \* bound: MaxResults of a request
    MaxChanges,   \* bound: schemas or tables created, altered or dropped
    MaxTries,     \* how often a client sends a request that fails
    None          \* no answer

\* What a list token is good for: "none" is one that a client made up.
Scopes == {"ListDatabases", "ListTableMetadata", "ListWorkGroups", "none"}

ASSUME CatalogAssumption ==
    /\ Names \subseteq Nat /\ IsFiniteSet(Names) /\ Hidden \in Names
    /\ MaxColumns \in Nat \ {0} /\ MaxPage \in Nat \ {0}
    /\ MaxChanges \in Nat /\ MaxTries \in Nat
    /\ Expressions \subseteq SUBSET Names
    /\ NoToken \notin Nat \cup [scope : Scopes, offset : Nat]

VARIABLES
    view,      \* what the behaviour is about: "schemata", "columns", "work groups"
    items,     \* external: how many rows the view has for each name
    changes,   \* changes of it so far
    asked,     \* the request under way: its operation and arguments, or None
    handler,   \* where its handler is suspended
    left,      \* external: the rows of its statement not sent yet
    rows,      \* the rows the handler has collected
    reply,     \* the answer on its way to the client, or None
    walk,      \* the client's walk
    there,     \* the names it is to list and that were there throughout
    since,     \* what happened to the names since it began
    moments,   \* the catalogs since the request under way was sent
    broken     \* whether an exchange with Trino failed meanwhile

catalogVars == <<view, items, changes, asked, handler, left, rows, reply,
                 walk, there, since, moments, broken>>
clientVars  == <<walk, there, since>>

Views == {"schemata", "columns", "work groups"}
listOp(v) == IF v = "schemata" THEN "ListDatabases"
             ELSE IF v = "columns" THEN "ListTableMetadata" ELSE "ListWorkGroups"
getOp(v)  == IF v = "schemata" THEN "GetDatabase"
             ELSE IF v = "columns" THEN "GetTableMetadata" ELSE "GetWorkGroup"
Getting   == {"GetDatabase", "GetTableMetadata", "GetWorkGroup"}

-----------------------------------------------------------------------------
(***************************************************************************)
(* Statements and answers.                                                 *)
(***************************************************************************)

ViewRows == Names \X (1..MaxColumns)

\* The rows of the request's statement over a catalog: all, or those of the
\* one name it is about.
selected(a, catalog) ==
    {r \in ViewRows :
        r[2] <= catalog[r[1]] /\ (a.op \in Getting => r[1] = a.name)}

precedes(r, s) == r[1] < s[1] \/ (r[1] = s[1] /\ r[2] < s[2])

\* The names that a list operation makes of the rows, filtered.
listed(a, collected) ==
    {n \in Names :
        /\ \E r \in collected : r[1] = n
        /\ a.op = "ListDatabases" => n # Hidden
        /\ a.op = "ListTableMetadata" => n \in a.expression}

\* The index of a name in such a list.
indexIn(n, list) == Cardinality({x \in list : x < n})

\* Mutant: the token is written for another operation.
encodeToken(op, next) ==
    IF next = NoToken THEN NoToken ELSE [scope |-> "ListQueryExecutions", offset |-> next]

\* The token of a list: it is good for its operation only.
listToken(op, next) ==
    IF next = NoToken THEN NoToken ELSE [scope |-> op, offset |-> next]

decodes(a) == a.token = NoToken \/ a.token.scope = a.op
startOf(a) == IF a.token = NoToken THEN 0 ELSE a.token.offset

Refusal(kind) == [kind |-> kind, page |-> {}, next |-> NoToken]

\* paginateList: the rows of the page's names, and the next token.
listPage(a, collected) ==
    LET list == listed(a, collected)
        size == sliceSize(startOf(a), a.size, Cardinality(list))
        next == tokenAfter(startOf(a), size, Cardinality(list))
    IN  [kind |-> "given",
         page |-> {r \in collected :
                     /\ r[1] \in list
                     /\ indexIn(r[1], list) >= startOf(a)
                     /\ indexIn(r[1], list) < startOf(a) + size},
         next |-> listToken(a.op, next)]

\* What a request is answered once its rows are there: a name without rows
\* does not exist; a token that does not decode is an exception like any other.
answer(a, collected) ==
    IF a.op \in Getting
    THEN IF collected = {} THEN Refusal("missing")
         ELSE [kind |-> "given", page |-> collected, next |-> NoToken]
    ELSE IF decodes(a) THEN listPage(a, collected)
         ELSE Refusal("internal")

-----------------------------------------------------------------------------
(***************************************************************************)
(* The handler.                                                            *)
(***************************************************************************)

\* GetWorkGroup reports the work group under whatever name it was asked for.
workGroupRows(a) ==
    IF a.op = "GetWorkGroup" THEN {<<a.name, 1>>} ELSE selected(a, items)

\* A request arrives, with what becomes of it: it is refused, answered at
\* once, or its statement is submitted.
Receive(verdict, a) ==
    /\ handler = "idle" /\ reply = None
    /\ asked' = a /\ rows' = {} /\ left' = {}
    /\ moments' = {items} /\ broken' = FALSE
    /\ \/ /\ verdict # "dispatched"
          /\ reply' = Refusal(verdict) /\ handler' = "idle"
       \/ /\ verdict = "dispatched" /\ view = "work groups"
          /\ reply' = answer(a, workGroupRows(a)) /\ handler' = "idle"
       \/ /\ verdict = "dispatched" /\ view # "work groups"
          /\ handler' = "submit" /\ reply' = None
    /\ UNCHANGED <<view, items, changes>>

\* External: Trino takes the statement; its rows are those of the catalog now.
TrinoAccepts ==
    /\ handler = "submit"
    /\ handler' = "accepted"
    /\ left' = selected(asked, items)
    /\ UNCHANGED <<view, items, changes, asked, rows, reply, moments, broken, clientVars>>

\* Mutant: the loop is left before the rows of the last page are collected.
collectLate(chunk, kind) == IF kind = "last" THEN rows ELSE rows \cup chunk

\* rows.push(...page.data), first of all.
collect(chunk, kind) == rows \cup chunk

\* submit or fetchNext returns a page with the next rows: an error, more to
\* come, or the last one.
PageReturns(chunk, kind) ==
    /\ handler \in {"accepted", "fetch"}
    /\ \A r \in chunk, s \in left \ chunk : precedes(r, s)
    /\ rows' = collect(chunk, kind)
    /\ left' = left \ chunk
    /\ \/ /\ kind = "error"
          /\ reply' = Refusal("failed") /\ handler' = "idle"
       \/ /\ kind = "more"
          /\ handler' = "fetch" /\ reply' = reply
       \/ /\ kind = "last" /\ chunk = left
          /\ reply' = answer(asked, rows') /\ handler' = "idle"
    /\ UNCHANGED <<view, items, changes, asked, moments, broken, clientVars>>

\* submit or fetchNext throws: 500.
ExchangeFails ==
    /\ handler \in {"submit", "accepted", "fetch"}
    /\ reply' = Refusal("internal") /\ handler' = "idle" /\ broken' = TRUE
    /\ UNCHANGED <<view, items, changes, asked, left, rows, moments, clientVars>>

-----------------------------------------------------------------------------
(***************************************************************************)
(* External: the catalog and the client.                                   *)
(***************************************************************************)

\* A schema or a table is created, altered or dropped.
Change(n) ==
    /\ changes < MaxChanges /\ changes' = changes + 1
    /\ view # "work groups" /\ (view = "schemata" => n # Hidden)
    /\ \E k \in 0..(IF view = "columns" THEN MaxColumns ELSE 1) :
       /\ k # items[n]
       /\ items' = [items EXCEPT ![n] = k]
       /\ since' = IF k = 0 THEN "drops"
                   ELSE IF items[n] = 0 /\ since = "nothing" THEN "growth" ELSE since
       /\ there' = IF k = 0 THEN there \ {n} ELSE there
    /\ moments' = IF handler = "idle" THEN moments ELSE moments \cup {items'}
    /\ UNCHANGED <<view, asked, handler, left, rows, reply, walk, broken>>

\* A request with all its members, the token if there is one.
fullRequest(op, token) ==
    [method |-> "POST", path |-> "/", json |-> TRUE, object |-> TRUE, target |-> op,
     body |-> [m \in DOMAIN inputs[op] |->
                IF m = "NextToken" /\ token = NoToken THEN "absent"
                ELSE CHOOSE kind \in accepted[inputs[op][m]] : kind # "absent"]]

\* What a list can be filtered by; the other lists have no Expression.
Filters == IF view = "columns" THEN Expressions ELSE {Names}

\* What the handlers take from a request.
getRequest(n) == [op |-> getOp(view), name |-> n]
listRequest(expression, size, token) ==
    [op |-> listOp(view), expression |-> expression, size |-> size, token |-> token]

\* How far the single requests get.
Refusals   == {routed(r) : r \in Requests} \ {"dispatched"}
Dispatched == {r \in Requests : routed(r) = "dispatched"}

\* A request that gets no further than the router.
AskInVain ==
    /\ walk.phase = "idle"
    /\ \E verdict \in Refusals : Receive(verdict, None)
    /\ UNCHANGED clientVars

\* A list request of its own; its token is of the client's making.
ownList(r, expression) ==
    listRequest(expression, MaxPage,
                IF r.body.NextToken = "absent" THEN NoToken
                ELSE [scope |-> "none", offset |-> 0])

\* A request of its own.
AskOnce ==
    /\ walk.phase = "idle"
    /\ \E r \in Dispatched :
       \/ /\ r.target = getOp(view)
          /\ \E n \in Names : Receive("dispatched", getRequest(n))
       \/ /\ r.target = listOp(view)
          /\ \E expression \in Filters : Receive("dispatched", ownList(r, expression))
    /\ UNCHANGED clientVars

BeginWalk ==
    /\ walk.phase = "idle" /\ handler = "idle" /\ reply = None
    /\ \E expression \in Filters :
       LET all == listRequest(expression, MaxPage, NoToken)
       IN  /\ walk'  = [walk EXCEPT !.phase = "walking", !.expression = expression]
           /\ there' = listed(all, selected(all, items))
    /\ since' = "nothing"
    /\ UNCHANGED <<view, items, changes, asked, handler, left, rows, reply, moments, broken>>

AskForPage ==
    /\ walk.phase = "walking"
    /\ \E size \in 1..MaxPage :
       Receive(routed(fullRequest(listOp(view), walk.token)),
               listRequest(walk.expression, size, walk.token))
    /\ UNCHANGED clientVars

namesIn(page) == {r[1] : r \in page}

\* The client takes the answer: a page of its walk, an error that it answers
\* with the same request again or by giving up.
TakeAnswer ==
    /\ reply # None /\ reply' = None
    /\ \/ /\ walk.phase # "walking" /\ walk' = walk
       \/ /\ walk.phase = "walking" /\ reply.kind = "given"
          /\ walk' = [walk EXCEPT
                !.phase = IF reply.next = NoToken THEN "done" ELSE "walking",
                !.token = reply.next, !.tries = 0,
                !.given = @ \cup namesIn(reply.page),
                !.taken = @ + Cardinality(namesIn(reply.page))]
       \/ /\ walk.phase = "walking" /\ reply.kind # "given"
          /\ walk' = [walk EXCEPT
                !.phase = IF walk.tries + 1 < MaxTries THEN "walking" ELSE "given up",
                !.tries = @ + 1]
    /\ asked' = None /\ left' = {} /\ rows' = {} /\ moments' = {} /\ broken' = FALSE
    /\ UNCHANGED <<view, items, changes, handler, there, since>>

-----------------------------------------------------------------------------
\* A schema information_schema is always there; there is one work group.
Init ==
    /\ view \in Views
    /\ items \in [Names -> 0..(IF view = "columns" THEN MaxColumns ELSE 1)]
    /\ view = "schemata" => items[Hidden] = 1
    /\ view = "work groups" => Cardinality({n \in Names : items[n] = 1}) = 1
    /\ changes = 0
    /\ asked = None /\ handler = "idle" /\ left = {} /\ rows = {} /\ reply = None
    /\ walk = [phase |-> "idle", expression |-> {}, token |-> NoToken,
               given |-> {}, taken |-> 0, tries |-> 0]
    /\ there = {} /\ since = "nothing" /\ moments = {} /\ broken = FALSE

ReturnsPage == \E chunk \in SUBSET left, kind \in {"error", "more", "last"} :
                   PageReturns(chunk, kind)

Next ==
    \/ TrinoAccepts \/ ReturnsPage \/ ExchangeFails
    \/ \E n \in Names : Change(n)
    \/ AskInVain \/ AskOnce \/ BeginWalk \/ AskForPage \/ TakeAnswer

Spec == Init /\ [][Next]_catalogVars

(***************************************************************************)
(* Fairness: a client that has begun goes on, and an exchange with Trino   *)
(* ends, with an error or with its query further on.                       *)
(***************************************************************************)
FairSpec ==
    /\ Spec
    /\ WF_catalogVars(AskForPage) /\ WF_catalogVars(TakeAnswer)
    /\ WF_catalogVars(TrinoAccepts \/ ReturnsPage \/ ExchangeFails)

-----------------------------------------------------------------------------
(***************************************************************************)
(* Properties.                                                             *)
(***************************************************************************)

ListTokens == [scope : Scopes, offset : Nat] \cup {NoToken}
Answers    == [kind : {"healthy", "invalid", "not found", "given", "missing", "failed",
                       "internal"},
               page : SUBSET ViewRows, next : ListTokens]
Asked      == [op : Getting, name : Names]
              \cup [op : {listOp(v) : v \in Views}, expression : SUBSET Names,
                    size : Nat \ {0}, token : ListTokens]

\* Every variable has its type.
TypeOK ==
    /\ view \in Views
    /\ items \in [Names -> 0..MaxColumns]
    /\ changes \in Nat
    /\ asked \in Asked \cup {None}
    /\ handler \in {"idle", "submit", "accepted", "fetch"}
    /\ left \subseteq ViewRows /\ rows \subseteq ViewRows
    /\ reply \in Answers \cup {None}
    /\ walk \in [phase : {"idle", "walking", "done", "given up"}, expression : SUBSET Names,
                 token : ListTokens, given : SUBSET Names, taken : Nat, tries : Nat]
    /\ there \subseteq Names
    /\ since \in {"nothing", "growth", "drops"}
    /\ moments \subseteq [Names -> 0..MaxColumns]
    /\ broken \in BOOLEAN

\* An answer shows the catalog as it was at one moment between the request
\* and the answer: a table with all of its columns, no name left out of a
\* page, and a name called missing only if it was (#runMetadataQuery collects
\* the rows of every page).
AnswerIsOfOneMoment ==
    (view # "work groups" /\ reply # None /\ reply.kind \in {"given", "missing"}) =>
        \E moment \in moments : reply = answer(asked, selected(asked, moment))

\* A client that walks a list with the tokens it is given is told that its
\* request is at fault by nobody, and that the facade is only when an exchange
\* with Trino failed.
OnlyTrinoFailsAWalk ==
    walk.phase = "walking" /\ reply # None =>
        \/ reply.kind \in {"given", "failed"}
        \/ reply.kind = "internal" /\ broken

\* In a walk during which no name came or went, the offset counts what was
\* given: nothing is given twice or passed over, in the end all of it is.
QuietCatalogWalkIsExact ==
    walk.phase # "idle" /\ since = "nothing" =>
        /\ walk.given \subseteq there /\ walk.taken = Cardinality(walk.given)
        /\ walk.token # NoToken => walk.taken = walk.token.offset
        /\ walk.phase = "done" => walk.given = there

\* A walk during which names only came, anywhere in the list, gives all that
\* were there when it began.  (A drop moves the names behind it forward, over
\* the offset that the token remembers.)
GrowthMissesNothing ==
    walk.phase = "done" /\ since # "drops" => there \subseteq walk.given

\* A walk ends, at its end or because Trino keeps failing.
CatalogWalkEnds == walk.phase = "walking" ~> walk.phase \in {"done", "given up"}

=============================================================================
