---------------------------- MODULE CatalogProofs ----------------------------
(***************************************************************************)
(* Proofs about Catalog, for any names, columns, changes, requests, page   *)
(* sizes and retries: an answer is of one moment, a walk under growth      *)
(* misses nothing, a quiet one is exact, and none is refused.              *)
(*                                                                         *)
(* The rows a handler has and those Trino still has to send make up the    *)
(* statement's result over a catalog of some moment since the request      *)
(* (OneMoment).  Growth moves no name to a lower index, so what a walk has *)
(* not given yet stays at or behind its offset (RestIsAhead).              *)
(*                                                                         *)
(* A second invariant (WInv) rests on the first.  A walk has the tokens of *)
(* its own list; and while the names stay the same, what it has been given *)
(* is the list up to the offset, since indices number a list without gaps  *)
(* (IndexNumbers).                                                         *)
(***************************************************************************)
EXTENDS Catalog, FiniteSetTheorems, TLAPS

Busy == handler # "idle"

\* The list that a request with the expression would be given of a catalog,
\* and the one that the walk would.
nameList(expression, catalog) ==
    {n \in Names :
        /\ catalog[n] >= 1
        /\ view = "schemata" => n # Hidden
        /\ view = "columns" => n \in expression}
walkList(catalog) == nameList(walk.expression, catalog)

offsetIn(token) == IF token = NoToken THEN 0 ELSE token.offset

(***************************************************************************)
(* The inductive invariant.                                                *)
(***************************************************************************)

\* A suspended handler has a request, which began in one of the moments, and
\* no answer yet; the rows there are, here and at Trino, are of one moment.
OneMoment ==
    /\ Busy => /\ reply = None /\ asked \in Asked /\ view # "work groups"
               /\ items \in moments
    /\ handler = "submit" => rows = {}
    /\ handler \in {"accepted", "fetch"} =>
          \E moment \in moments : rows \cup left = selected(asked, moment)

\* The request under way during a walk is the walk's.
AsksForWalk ==
    (walk.phase = "walking" /\ Busy) =>
        /\ asked.op = listOp(view)
        /\ asked.expression = walk.expression /\ asked.token = walk.token

\* What the walk began with is still listed.
ThereIsListed ==
    walk.phase = "walking" =>
        /\ there \subseteq walkList(items)
        /\ Busy => \A m \in moments : there \subseteq walkList(m)

\* Without a drop, what was listed in one of the moments is listed now.
MomentsGrow ==
    (walk.phase = "walking" /\ since # "drops" /\ Busy) =>
        \A m \in moments : walkList(m) \subseteq walkList(items)

\* What has not been given lies at or behind the offset, in every moment that
\* the answer may be of.
IsAhead(x, token) ==
    /\ indexIn(x, walkList(items)) >= offsetIn(token)
    /\ Busy => \A m \in moments : indexIn(x, walkList(m)) >= offsetIn(token)

\* ... also once a page is on its way: then it lies behind the page.
RestIsAhead ==
    (walk.phase = "walking" /\ since # "drops") =>
        /\ \A x \in there \ walk.given : IsAhead(x, walk.token)
        /\ reply # None /\ reply.kind = "given" =>
              \A x \in (there \ walk.given) \ namesIn(reply.page) :
                  reply.next # NoToken /\ IsAhead(x, reply.next)

\* A walk begins with the first page.
WalkFromStart == walk.phase = "idle" => walk.token = NoToken

CInv ==
    /\ TypeOK /\ WalkFromStart /\ OneMoment /\ AnswerIsOfOneMoment
    /\ AsksForWalk /\ ThereIsListed /\ MomentsGrow /\ RestIsAhead /\ GrowthMissesNothing

-----------------------------------------------------------------------------
(***************************************************************************)
(* Lists, indices and pages.                                               *)
(***************************************************************************)

\* A list operation of the view is no Get, and its two filters are the view's.
LEMMA ListOps ==
    ASSUME view \in Views
    PROVE  /\ listOp(view) \notin Getting /\ listOp(view) \in Scopes
           /\ getOp(view) \in Getting
           /\ listOp(view) = "ListDatabases" <=> view = "schemata"
           /\ listOp(view) = "ListTableMetadata" <=> view = "columns"
<1>1. CASE view = "schemata"
  BY <1>1 DEF listOp, getOp, Getting, Scopes
<1>2. CASE view = "columns"
  BY <1>2 DEF listOp, getOp, Getting, Scopes
<1>3. CASE view = "work groups"
  BY <1>3 DEF listOp, getOp, Getting, Scopes
<1>. QED
  BY <1>1, <1>2, <1>3 DEF Views

\* The rows of a catalog list the names that have a row and pass the filter.
LEMMA ListOfCatalog ==
    ASSUME view \in Views, NEW a, a.op = listOp(view),
           NEW catalog \in [Names -> 0..MaxColumns]
    PROVE  listed(a, selected(a, catalog)) = nameList(a.expression, catalog)
<1>1. a.op \notin Getting
  BY ListOps
<1>2. \A n \in Names : (\E r \in selected(a, catalog) : r[1] = n) <=> catalog[n] >= 1
  <2>. TAKE n \in Names
  <2>1. ASSUME catalog[n] >= 1
        PROVE  \E r \in selected(a, catalog) : r[1] = n
    <3>1. <<n, 1>> \in ViewRows
      BY CatalogAssumption DEF ViewRows
    <3>2. <<n, 1>> \in selected(a, catalog)
      BY <1>1, <2>1, <3>1 DEF selected
    <3>. QED
      BY <3>2
  <2>2. ASSUME NEW r \in selected(a, catalog), r[1] = n
        PROVE  catalog[n] >= 1
    BY <2>2, CatalogAssumption DEF selected, ViewRows
  <2>. QED
    BY <2>1, <2>2
<1>. QED
  BY <1>2, ListOps DEF listed, nameList

\* Indices are natural numbers, below the length for what is in the list, and
\* a longer list has no lower ones.
LEMMA Indices ==
    ASSUME NEW list, list \subseteq Names
    PROVE  /\ IsFiniteSet(list) /\ Cardinality(list) \in Nat
           /\ \A x : indexIn(x, list) \in Nat
           /\ \A x \in list : indexIn(x, list) < Cardinality(list)
<1>1. IsFiniteSet(list) /\ Cardinality(list) \in Nat
  BY CatalogAssumption, FS_Subset, FS_CardinalityType
<1>2. ASSUME NEW x
      PROVE  indexIn(x, list) \in Nat
  <2>1. IsFiniteSet({y \in list : y < x})
    BY <1>1, FS_Subset
  <2>. QED
    BY <2>1, FS_CardinalityType DEF indexIn
<1>3. ASSUME NEW x \in list
      PROVE  indexIn(x, list) < Cardinality(list)
  <2>1. ~(x < x)
    BY CatalogAssumption
  <2>2. {y \in list : y < x} \subseteq list /\ {y \in list : y < x} # list
    BY <2>1
  <2>3. Cardinality({y \in list : y < x}) < Cardinality(list)
    BY <1>1, <2>2, FS_Subset, FS_CardinalityType
  <2>. QED
    BY <2>3 DEF indexIn
<1>. QED
  BY <1>1, <1>2, <1>3

LEMMA LongerList ==
    ASSUME NEW list, NEW longer, list \subseteq longer, longer \subseteq Names, NEW x
    PROVE  indexIn(x, list) <= indexIn(x, longer)
<1>1. IsFiniteSet({y \in longer : y < x})
  BY CatalogAssumption, FS_Subset
<1>2. {y \in list : y < x} \subseteq {y \in longer : y < x}
  OBVIOUS
<1>. QED
  BY <1>1, <1>2, FS_Subset DEF indexIn

\* What is in the list at or behind the page's offset and not on the page is
\* at or behind the next page's offset, and there is a next page.
LEMMA BehindThePage ==
    ASSUME NEW a, NEW collected \in SUBSET ViewRows,
           a.op \in Scopes \ Getting, a.size \in Nat, a.token \in ListTokens,
           NEW given, given = answer(a, collected), given.kind = "given",
           NEW x \in listed(a, collected),
           indexIn(x, listed(a, collected)) >= offsetIn(a.token),
           x \notin namesIn(given.page)
    PROVE  /\ given.next # NoToken
           /\ indexIn(x, listed(a, collected)) >= offsetIn(given.next)
<1>. DEFINE list  == listed(a, collected)
            start == startOf(a)
            size  == sliceSize(start, a.size, Cardinality(list))
            next  == tokenAfter(start, size, Cardinality(list))
<1>1. given = listPage(a, collected)
  BY DEF answer, Refusal
<1>2. /\ list \subseteq Names /\ Cardinality(list) \in Nat
      /\ indexIn(x, list) \in Nat /\ indexIn(x, list) < Cardinality(list)
  BY Indices DEF listed
<1>3. start \in Nat /\ start = offsetIn(a.token)
  BY DEF startOf, offsetIn, ListTokens
<1>4. given.next = listToken(a.op, next)
  BY <1>1 DEF listPage
<1>5. size \in Nat
  BY <1>2, <1>3 DEF sliceSize
<1>6. indexIn(x, list) >= start + size
  <2>1. PICK r \in collected : r[1] = x
    BY DEF listed
  <2>2. r \notin given.page
    BY <2>1 DEF namesIn
  <2>3. ~(indexIn(x, list) >= start /\ indexIn(x, list) < start + size)
    BY <1>1, <2>1, <2>2 DEF listPage
  <2>. QED
    BY <1>2, <1>3, <1>5, <2>3
<1>7. next = start + size /\ next \in Nat /\ next # NoToken
  BY <1>2, <1>3, <1>5, <1>6, CatalogAssumption DEF tokenAfter, nextOffset, isLastPage
<1>8. given.next = [scope |-> a.op, offset |-> next]
  BY <1>4, <1>7 DEF listToken
<1>9. given.next \in [scope : Scopes, offset : Nat]
  BY <1>7, <1>8
<1>. QED
  BY <1>6, <1>7, <1>8, <1>9, CatalogAssumption DEF offsetIn

-----------------------------------------------------------------------------
(***************************************************************************)
(* Requests and answers have their types.                                  *)
(***************************************************************************)

Verdicts == {"healthy", "invalid", "not found", "dispatched"}

LEMMA RoutedType == \A request : routed(request) \in Verdicts
  BY DEF routed, Verdicts

LEMMA SelectedType ==
    ASSUME NEW a, NEW catalog
    PROVE  selected(a, catalog) \subseteq ViewRows
  BY DEF selected

LEMMA RefusalType ==
    ASSUME NEW kind \in (Verdicts \ {"dispatched"}) \cup {"missing", "failed", "internal"}
    PROVE  /\ Refusal(kind) \in Answers /\ Refusal(kind).kind = kind
           /\ Refusal(kind).kind # "given"
<1>1. {} \in SUBSET ViewRows /\ NoToken \in ListTokens
  BY DEF ListTokens
<1>. QED
  BY <1>1 DEF Refusal, Answers, Verdicts

LEMMA AnswerType ==
    ASSUME NEW a \in Asked, NEW collected \in SUBSET ViewRows
    PROVE  answer(a, collected) \in Answers
<1>1. CASE a.op \in Getting
  <2>1. NoToken \in ListTokens
    BY DEF ListTokens
  <2>. QED
    BY <1>1, <2>1, RefusalType DEF answer, Answers
<1>2. CASE a.op \notin Getting /\ ~decodes(a)
  BY <1>2, RefusalType DEF answer
<1>3. CASE a.op \notin Getting /\ decodes(a)
  <2>. DEFINE list == listed(a, collected)
              size == sliceSize(startOf(a), a.size, Cardinality(list))
              next == tokenAfter(startOf(a), size, Cardinality(list))
  <2>1. /\ a.op \in {listOp(v) : v \in Views} /\ a.size \in Nat /\ a.token \in ListTokens
    BY <1>3 DEF Asked
  <2>2. a.op \in Scopes
    BY <2>1 DEF Scopes, listOp
  <2>3. Cardinality(list) \in Nat
    BY Indices DEF listed
  <2>4. startOf(a) \in Nat
    BY <2>1 DEF startOf, ListTokens
  <2>5. size \in Nat
    BY <2>1, <2>3, <2>4 DEF sliceSize
  <2>6. next \in Nat \cup {NoToken}
    BY <2>4, <2>5 DEF tokenAfter, nextOffset
  <2>7. listToken(a.op, next) \in ListTokens
    BY <2>2, <2>6 DEF listToken, ListTokens
  <2>. DEFINE page == {r \in collected : /\ r[1] \in list
                                          /\ indexIn(r[1], list) >= startOf(a)
                                          /\ indexIn(r[1], list) < startOf(a) + size}
  <2>8. listPage(a, collected) =
            [kind |-> "given", page |-> page, next |-> listToken(a.op, next)]
    BY DEF listPage
  <2>9. listPage(a, collected) \in Answers
    <3>1. page \in SUBSET ViewRows
      OBVIOUS
    <3>. HIDE DEF page, next
    <3>. QED
      BY <2>7, <2>8, <3>1 DEF Answers
  <2>. QED
    BY <1>3, <2>9 DEF answer
<1>. QED
  BY <1>1, <1>2, <1>3

\* What a request's arrival does, whichever way it goes.
LEMMA Received ==
    ASSUME TypeOK, NEW verdict \in Verdicts, NEW a \in Asked \cup {None},
           verdict = "dispatched" => a \in Asked,
           Receive(verdict, a), UNCHANGED clientVars
    PROVE  TypeOK' /\ OneMoment' /\ AnswerIsOfOneMoment'
<1>1. /\ handler = "idle" /\ reply = None
      /\ asked' = a /\ rows' = {} /\ left' = {} /\ moments' = {items} /\ broken' = FALSE
      /\ UNCHANGED <<view, items, changes, walk, there, since>>
  BY DEF Receive, clientVars
<1>2. CASE verdict # "dispatched" /\ reply' = Refusal(verdict) /\ handler' = "idle"
  <2>1. /\ reply' \in Answers /\ reply'.kind \notin {"given", "missing"}
    BY <1>2, RefusalType DEF Verdicts
  <2>. QED
    BY <1>1, <1>2, <2>1 DEF TypeOK, OneMoment, AnswerIsOfOneMoment, Busy
<1>3. CASE /\ verdict = "dispatched" /\ view = "work groups"
           /\ reply' = answer(a, workGroupRows(a)) /\ handler' = "idle"
  <2>1. workGroupRows(a) \in SUBSET ViewRows
    <3>1. CASE a.op = "GetWorkGroup"
      <4>1. a.name \in Names
        BY <1>3, <3>1 DEF Asked, listOp
      <4>. QED
        BY <3>1, <4>1, CatalogAssumption DEF workGroupRows, ViewRows
    <3>2. CASE a.op # "GetWorkGroup"
      BY <3>2, SelectedType DEF workGroupRows
    <3>. QED
      BY <3>1, <3>2
  <2>2. reply' \in Answers
    BY <1>3, <2>1, AnswerType
  <2>. QED
    BY <1>1, <1>3, <2>2 DEF TypeOK, OneMoment, AnswerIsOfOneMoment, Busy
<1>4. CASE /\ verdict = "dispatched" /\ view # "work groups"
           /\ handler' = "submit" /\ reply' = None
  BY <1>1, <1>4 DEF TypeOK, OneMoment, AnswerIsOfOneMoment, Busy
<1>. QED
  BY <1>2, <1>3, <1>4 DEF Receive

\* The page that a walk is given of one moment, and what is behind it then.
LEMMA WalkPage ==
    ASSUME CInv, walk.phase = "walking", since # "drops",
           NEW a \in Asked, a.op = listOp(view), a.expression = walk.expression,
           a.token = walk.token,
           NEW m \in [Names -> 0..MaxColumns], there \subseteq walkList(m),
           \A x \in there \ walk.given : indexIn(x, walkList(m)) >= offsetIn(walk.token),
           walkList(m) \subseteq walkList(items),
           NEW given, given = answer(a, selected(a, m)), given.kind = "given",
           NEW x \in (there \ walk.given) \ namesIn(given.page)
    PROVE  /\ given.next # NoToken
           /\ indexIn(x, walkList(items)) >= offsetIn(given.next)
<1>1. view \in Views
  BY DEF CInv, TypeOK
<1>2. a.op \in Scopes \ Getting /\ a.size \in Nat /\ a.token \in ListTokens
  BY <1>1, ListOps DEF Asked
<1>3. listed(a, selected(a, m)) = walkList(m)
  BY <1>1, ListOfCatalog DEF walkList
<1>4. /\ given.next # NoToken
      /\ indexIn(x, walkList(m)) >= offsetIn(given.next)
  BY <1>2, <1>3, SelectedType, BehindThePage
<1>5. given.next \in ListTokens
  BY SelectedType, AnswerType DEF Answers
<1>6. offsetIn(given.next) \in Nat
  BY <1>5 DEF offsetIn, ListTokens
<1>7. /\ walkList(m) \subseteq Names /\ walkList(items) \subseteq Names
  BY DEF walkList, nameList
<1>8. /\ indexIn(x, walkList(m)) <= indexIn(x, walkList(items))
      /\ indexIn(x, walkList(m)) \in Nat /\ indexIn(x, walkList(items)) \in Nat
  BY <1>7, Indices, LongerList
<1>. QED
  BY <1>4, <1>6, <1>8

-----------------------------------------------------------------------------
(***************************************************************************)
(* Every step keeps the invariant.                                         *)
(***************************************************************************)

LEMMA InitHolds == Init => CInv
<1>. SUFFICES ASSUME Init PROVE CInv
  OBVIOUS
<1>1. TypeOK
  <2>1. items \in [Names -> 0..MaxColumns]
    <3>1. MaxColumns \in Nat /\ 1 <= MaxColumns
      BY CatalogAssumption
    <3>2. items \in [Names -> 0..1] \/ items \in [Names -> 0..MaxColumns]
      BY DEF Init
    <3>3. 0..1 \subseteq 0..MaxColumns
      BY <3>1
    <3>. QED
      BY <3>2, <3>3
  <2>2. walk \in [phase : {"idle", "walking", "done", "given up"}, expression : SUBSET Names,
                  token : ListTokens, given : SUBSET Names, taken : Nat, tries : Nat]
    BY DEF Init, ListTokens
  <2>. QED
    BY <2>1, <2>2 DEF Init, TypeOK
<1>. QED
  BY <1>1 DEF Init, CInv, WalkFromStart, OneMoment, AnswerIsOfOneMoment, AsksForWalk,
              ThereIsListed, MomentsGrow, RestIsAhead, GrowthMissesNothing, Busy

LEMMA AskInVainKeeps ==
    ASSUME CInv, AskInVain
    PROVE  CInv'
<1>1. PICK verdict \in Refusals : Receive(verdict, None)
  BY DEF AskInVain
<1>2. verdict \in Verdicts /\ verdict # "dispatched"
  BY <1>1, RoutedType DEF Refusals
<1>3. TypeOK' /\ OneMoment' /\ AnswerIsOfOneMoment'
  BY <1>1, <1>2, Received DEF CInv, AskInVain
<1>4. walk.phase = "idle" /\ walk' = walk
  BY DEF AskInVain, clientVars
<1>. QED
  BY <1>3, <1>4 DEF CInv, WalkFromStart, AsksForWalk, ThereIsListed, MomentsGrow,
                    RestIsAhead, GrowthMissesNothing

LEMMA AskOnceKeeps ==
    ASSUME CInv, AskOnce
    PROVE  CInv'
<1>1. walk.phase = "idle" /\ walk' = walk /\ UNCHANGED clientVars
  BY DEF AskOnce, clientVars
<1>2. PICK a \in Asked : Receive("dispatched", a)
  <2>0. view \in Views
    BY DEF CInv, TypeOK
  <2>1. \A n \in Names : getRequest(n) \in Asked
    BY <2>0, ListOps DEF getRequest, Asked
  <2>2. \A r, expression : expression \in Filters => ownList(r, expression) \in Asked
    <3>. SUFFICES ASSUME NEW r, NEW expression, expression \in Filters
                  PROVE  ownList(r, expression) \in Asked
      OBVIOUS
    <3>1. expression \in SUBSET Names
      BY CatalogAssumption DEF Filters
    <3>2. [scope |-> "none", offset |-> 0] \in ListTokens /\ NoToken \in ListTokens
      BY DEF ListTokens, Scopes
    <3>3. MaxPage \in Nat \ {0}
      BY CatalogAssumption
    <3>. QED
      BY <2>0, <3>1, <3>2, <3>3 DEF ownList, listRequest, Asked
  <2>. QED
    BY <2>1, <2>2 DEF AskOnce
<1>3. "dispatched" \in Verdicts
  BY DEF Verdicts
<1>4. TypeOK' /\ OneMoment' /\ AnswerIsOfOneMoment'
  BY <1>1, <1>2, <1>3, Received DEF CInv
<1>. QED
  BY <1>1, <1>4 DEF CInv, WalkFromStart, AsksForWalk, ThereIsListed, MomentsGrow,
                    RestIsAhead, GrowthMissesNothing

LEMMA BeginWalkKeeps ==
    ASSUME CInv, BeginWalk
    PROVE  CInv'
<1>1. PICK expression \in Filters :
        /\ walk' = [walk EXCEPT !.phase = "walking", !.expression = expression]
        /\ there' = listed(listRequest(expression, MaxPage, NoToken),
                          selected(listRequest(expression, MaxPage, NoToken), items))
  BY DEF BeginWalk
<1>2. /\ walk.phase = "idle" /\ handler = "idle" /\ reply = None /\ since' = "nothing"
      /\ UNCHANGED <<view, items, changes, asked, handler, left, rows, reply, moments, broken>>
  BY DEF BeginWalk
<1>3. /\ walk'.phase = "walking" /\ walk'.expression = expression
      /\ walk'.token = NoToken /\ walk'.given = walk.given
  BY <1>1, <1>2 DEF CInv, TypeOK, WalkFromStart
<1>4. there' = walkList(items)'
  <2>1. /\ listRequest(expression, MaxPage, NoToken).op = listOp(view)
        /\ listRequest(expression, MaxPage, NoToken).expression = expression
    BY DEF listRequest
  <2>2. there' = nameList(expression, items)
    BY <1>1, <2>1, ListOfCatalog DEF CInv, TypeOK
  <2>. QED
    BY <1>2, <1>3, <2>2 DEF walkList, nameList
<1>5. TypeOK'
  <2>1. expression \in SUBSET Names
    BY CatalogAssumption DEF Filters
  <2>2. there' \subseteq Names
    BY <1>4 DEF walkList, nameList
  <2>. QED
    BY <1>1, <1>2, <2>1, <2>2 DEF CInv, TypeOK
<1>6. RestIsAhead'
  <2>1. walkList(items)' \subseteq Names
    BY DEF walkList, nameList
  <2>2. \A x : indexIn(x, walkList(items)') >= 0
    BY <2>1, Indices
  <2>. QED
    BY <1>2, <1>3, <2>2 DEF RestIsAhead, IsAhead, indexIn, offsetIn, Busy
<1>. QED
  BY <1>2, <1>3, <1>4, <1>5, <1>6
     DEF CInv, WalkFromStart, OneMoment, AnswerIsOfOneMoment, AsksForWalk, ThereIsListed,
         MomentsGrow, GrowthMissesNothing, Busy

\* Growth keeps what is listed and what is behind: the lists get longer.
LEMMA ListsGrow ==
    ASSUME NEW n \in Names, NEW k \in Nat \ {0}, items \in [Names -> 0..MaxColumns],
           NEW expression
    PROVE  nameList(expression, items) \subseteq nameList(expression, [items EXCEPT ![n] = k])
  BY DEF nameList

LEMMA TrinoAcceptsKeeps ==
    ASSUME CInv, TrinoAccepts
    PROVE  CInv'
<1>1. /\ handler = "submit" /\ handler' = "accepted" /\ left' = selected(asked, items)
      /\ UNCHANGED <<view, items, changes, asked, rows, reply, moments, broken,
                     walk, there, since>>
  BY DEF TrinoAccepts, clientVars
<1>2. /\ reply = None /\ rows = {} /\ items \in moments /\ asked \in Asked
      /\ view # "work groups"
  BY <1>1 DEF CInv, OneMoment, Busy
<1>3. TypeOK'
  BY <1>1, SelectedType DEF CInv, TypeOK
<1>4. OneMoment'
  <2>1. rows' \cup left' = selected(asked', items')
    BY <1>1, <1>2
  <2>. QED
    BY <1>1, <1>2, <2>1 DEF OneMoment, Busy
<1>5. \A m : walkList(m)' = walkList(m)
  BY <1>1 DEF walkList, nameList
<1>. QED
  BY <1>1, <1>2, <1>3, <1>4, <1>5
     DEF CInv, WalkFromStart, AnswerIsOfOneMoment, AsksForWalk, ThereIsListed, MomentsGrow,
         RestIsAhead, IsAhead, GrowthMissesNothing, Busy

LEMMA ExchangeFailsKeeps ==
    ASSUME CInv, ExchangeFails
    PROVE  CInv'
<1>1. /\ handler \in {"submit", "accepted", "fetch"} /\ handler' = "idle"
      /\ reply' = Refusal("internal") /\ broken' = TRUE
      /\ UNCHANGED <<view, items, changes, asked, left, rows, moments, walk, there, since>>
  BY DEF ExchangeFails, clientVars
<1>2. reply' \in Answers /\ reply'.kind = "internal"
  BY <1>1, RefusalType
<1>3. TypeOK'
  BY <1>1, <1>2 DEF CInv, TypeOK
<1>. QED
  BY <1>1, <1>2, <1>3
     DEF CInv, WalkFromStart, OneMoment, AnswerIsOfOneMoment, AsksForWalk, ThereIsListed,
         MomentsGrow, RestIsAhead, IsAhead, walkList, nameList, GrowthMissesNothing, Busy

LEMMA PageReturnsKeeps ==
    ASSUME CInv, NEW chunk \in SUBSET left, NEW kind, PageReturns(chunk, kind)
    PROVE  CInv'
<1>1. /\ handler \in {"accepted", "fetch"}
      /\ rows' = rows \cup chunk /\ left' = left \ chunk
      /\ UNCHANGED <<view, items, changes, asked, moments, broken, walk, there, since>>
  BY DEF PageReturns, collect, clientVars
<1>2. /\ reply = None /\ asked \in Asked /\ view # "work groups" /\ items \in moments
  BY <1>1 DEF CInv, OneMoment, Busy
<1>3. PICK m \in moments : rows \cup left = selected(asked, m)
  BY <1>1 DEF CInv, OneMoment
<1>4. rows' \in SUBSET ViewRows /\ left' \in SUBSET ViewRows
  BY <1>1 DEF CInv, TypeOK
<1>5. \A c : walkList(c)' = walkList(c)
  BY <1>1 DEF walkList, nameList
<1>6. CASE kind = "error" /\ reply' = Refusal("failed") /\ handler' = "idle"
  <2>1. reply' \in Answers /\ reply'.kind = "failed"
    BY <1>6, RefusalType
  <2>2. TypeOK'
    BY <1>1, <1>4, <1>6, <2>1 DEF CInv, TypeOK
  <2>. QED
    BY <1>1, <1>5, <1>6, <2>1, <2>2
       DEF CInv, WalkFromStart, OneMoment, AnswerIsOfOneMoment, AsksForWalk, ThereIsListed,
           MomentsGrow, RestIsAhead, IsAhead, GrowthMissesNothing, Busy
<1>7. CASE kind = "more" /\ handler' = "fetch" /\ reply' = reply
  <2>1. TypeOK'
    BY <1>1, <1>4, <1>7 DEF CInv, TypeOK
  <2>2. rows' \cup left' = selected(asked', m)
    BY <1>1, <1>3
  <2>3. OneMoment'
    BY <1>1, <1>2, <1>7, <2>2 DEF OneMoment, Busy
  <2>. QED
    BY <1>1, <1>2, <1>5, <1>7, <2>1, <2>3
       DEF CInv, WalkFromStart, AnswerIsOfOneMoment, AsksForWalk, ThereIsListed,
           MomentsGrow, RestIsAhead, IsAhead, GrowthMissesNothing, Busy
<1>8. CASE kind = "last" /\ chunk = left /\ reply' = answer(asked, rows') /\ handler' = "idle"
  <2>1. rows' = selected(asked, m)
    BY <1>1, <1>3, <1>8
  <2>2. reply' = answer(asked, selected(asked, m)) /\ reply' \in Answers
    BY <1>2, <1>4, <1>8, <2>1, AnswerType
  <2>3. TypeOK'
    BY <1>1, <1>4, <1>8, <2>2 DEF CInv, TypeOK
  <2>4. AnswerIsOfOneMoment'
    <3>1. reply' = answer(asked', selected(asked', m))
      BY <1>1, <2>2
    <3>. QED
      BY <1>1, <3>1 DEF AnswerIsOfOneMoment
  <2>5. RestIsAhead'
    <3>. SUFFICES ASSUME walk.phase = "walking", since # "drops"
                  PROVE  RestIsAhead'
      BY <1>1 DEF RestIsAhead
    <3>1. /\ asked.op = listOp(view)
          /\ asked.expression = walk.expression /\ asked.token = walk.token
      BY <1>1 DEF CInv, AsksForWalk, Busy
    <3>2. /\ m \in [Names -> 0..MaxColumns] /\ there \subseteq walkList(m)
          /\ walkList(m) \subseteq walkList(items)
          /\ \A x \in there \ walk.given : indexIn(x, walkList(m)) >= offsetIn(walk.token)
      BY <1>1, <1>3 DEF CInv, TypeOK, ThereIsListed, MomentsGrow, RestIsAhead, IsAhead, Busy
    <3>3. ASSUME reply'.kind = "given",
                 NEW x \in (there \ walk.given) \ namesIn(reply'.page)
          PROVE  /\ reply'.next # NoToken
                 /\ indexIn(x, walkList(items)) >= offsetIn(reply'.next)
      BY <1>2, <2>2, <3>1, <3>2, <3>3, WalkPage
    <3>. QED
      BY <1>1, <1>5, <1>8, <3>3 DEF CInv, RestIsAhead, IsAhead, Busy
  <2>. QED
    BY <1>1, <1>5, <1>8, <2>3, <2>4, <2>5
       DEF CInv, WalkFromStart, OneMoment, AsksForWalk, ThereIsListed, MomentsGrow,
           GrowthMissesNothing, Busy
<1>. QED
  BY <1>6, <1>7, <1>8 DEF PageReturns

LEMMA AskForPageKeeps ==
    ASSUME CInv, AskForPage
    PROVE  CInv'
<1>1. PICK size \in 1..MaxPage :
          Receive(routed(fullRequest(listOp(view), walk.token)),
                  listRequest(walk.expression, size, walk.token))
  BY DEF AskForPage
<1>. DEFINE a       == listRequest(walk.expression, size, walk.token)
            verdict == routed(fullRequest(listOp(view), walk.token))
<1>2. walk.phase = "walking" /\ UNCHANGED <<walk, there, since>> /\ UNCHANGED clientVars
  BY DEF AskForPage, clientVars
<1>3. /\ handler = "idle" /\ reply = None /\ moments' = {items} /\ asked' = a
      /\ UNCHANGED <<view, items, changes>>
  BY <1>1 DEF Receive
<1>4. /\ a.op = listOp(view) /\ a.expression = walk.expression
      /\ a.size = size /\ a.token = walk.token
  BY DEF listRequest
<1>5. a \in Asked
  <2>1. size \in Nat \ {0}
    BY CatalogAssumption
  <2>2. walk.expression \in SUBSET Names /\ walk.token \in ListTokens /\ view \in Views
    BY DEF CInv, TypeOK
  <2>. QED
    BY <2>1, <2>2 DEF listRequest, Asked
<1>6. verdict \in Verdicts
  BY RoutedType
<1>7. TypeOK' /\ OneMoment' /\ AnswerIsOfOneMoment'
  <2>. HIDE DEF a, verdict
  <2>1. Receive(verdict, a)
    BY <1>1 DEF a, verdict
  <2>. QED
    BY <1>2, <1>5, <1>6, <2>1, Received DEF CInv
<1>8. \A c : walkList(c)' = walkList(c)
  BY <1>2, <1>3 DEF walkList, nameList
<1>9. RestIsAhead'
  <2>. SUFFICES ASSUME since # "drops"
                PROVE  RestIsAhead'
    BY <1>2 DEF RestIsAhead
  <2>1. ASSUME NEW x \in there \ walk.given
        PROVE  IsAhead(x, walk.token)'
    BY <1>2, <1>3, <1>8 DEF CInv, RestIsAhead, IsAhead
  <2>2. ASSUME reply' # None, reply'.kind = "given",
               NEW x \in (there \ walk.given) \ namesIn(reply'.page)
        PROVE  /\ reply'.next # NoToken
               /\ indexIn(x, walkList(items)) >= offsetIn(reply'.next)
               /\ handler' = "idle"
    <3>1. /\ verdict = "dispatched" /\ view = "work groups"
          /\ reply' = answer(a, workGroupRows(a)) /\ handler' = "idle"
      <4>1. ~(verdict # "dispatched" /\ reply' = Refusal(verdict))
        BY <1>6, <2>2, RefusalType
      <4>. HIDE DEF a, verdict
      <4>. QED
        BY <1>1, <2>2, <4>1 DEF Receive, a, verdict
    <3>2. reply' = answer(a, selected(a, items))
      <4>1. a.op # "GetWorkGroup"
        BY <1>4, ListOps DEF CInv, TypeOK, Getting
      <4>. QED
        BY <3>1, <4>1 DEF workGroupRows
    <3>3. /\ items \in [Names -> 0..MaxColumns] /\ there \subseteq walkList(items)
          /\ \A y \in there \ walk.given :
                indexIn(y, walkList(items)) >= offsetIn(walk.token)
      BY <1>2 DEF CInv, TypeOK, ThereIsListed, RestIsAhead, IsAhead
    <3>. HIDE DEF a
    <3>. QED
      BY <1>2, <1>4, <1>5, <2>2, <3>1, <3>2, <3>3, WalkPage
  <2>. QED
    BY <1>2, <1>3, <1>8, <2>1, <2>2 DEF RestIsAhead, IsAhead, Busy
<1>. QED
  BY <1>2, <1>3, <1>4, <1>7, <1>8, <1>9
     DEF CInv, WalkFromStart, AsksForWalk, ThereIsListed, MomentsGrow, GrowthMissesNothing

Phases == {"idle", "walking", "done", "given up"}
Walks  == [phase : Phases, expression : SUBSET Names,
           token : ListTokens, given : SUBSET Names, taken : Nat, tries : Nat]

LEMMA WalkType ==
    ASSUME NEW w \in Walks, NEW phase \in Phases, NEW token \in ListTokens,
           NEW tries \in Nat, NEW given \in SUBSET Names, NEW taken \in Nat
    PROVE  [w EXCEPT !.phase = phase, !.token = token, !.tries = tries,
                     !.given = given, !.taken = taken] \in Walks
  BY DEF Walks

LEMMA TakeAnswerKeeps ==
    ASSUME CInv, TakeAnswer
    PROVE  CInv'
<1>1. /\ reply # None /\ reply' = None /\ asked' = None /\ left' = {} /\ rows' = {}
      /\ moments' = {} /\ broken' = FALSE
      /\ UNCHANGED <<view, items, changes, handler, there, since>>
  BY DEF TakeAnswer
<1>2. ~Busy /\ ~Busy'
  BY <1>1 DEF CInv, OneMoment, Busy
<1>3. reply \in Answers
  BY <1>1 DEF CInv, TypeOK
<1>4. OneMoment' /\ AnswerIsOfOneMoment' /\ AsksForWalk' /\ MomentsGrow'
  BY <1>1, <1>2 DEF OneMoment, AnswerIsOfOneMoment, AsksForWalk, MomentsGrow, Busy
<1>5. walk \in Walks
  BY DEF CInv, TypeOK, Walks, Phases
<1>6. CASE walk.phase # "walking" /\ walk' = walk
  <2>1. TypeOK'
    BY <1>1, <1>6 DEF CInv, TypeOK
  <2>. QED
    BY <1>1, <1>4, <1>6, <2>1
       DEF CInv, WalkFromStart, ThereIsListed, RestIsAhead, GrowthMissesNothing
<1>7. CASE walk.phase = "walking" /\ reply.kind = "given"
  <2>1. walk' = [walk EXCEPT
                !.phase = IF reply.next = NoToken THEN "done" ELSE "walking",
                !.token = reply.next, !.tries = 0,
                !.given = @ \cup namesIn(reply.page),
                !.taken = @ + Cardinality(namesIn(reply.page))]
    BY <1>7 DEF TakeAnswer
  <2>2. namesIn(reply.page) \subseteq Names /\ Cardinality(namesIn(reply.page)) \in Nat
    <3>1. namesIn(reply.page) \subseteq Names
      BY <1>3 DEF Answers, ViewRows, namesIn
    <3>. QED
      BY <3>1, Indices
  <2>3. reply.next \in ListTokens
    BY <1>3 DEF Answers
  <2>4. TypeOK'
    <3>. DEFINE found == namesIn(reply.page)
                count == Cardinality(namesIn(reply.page))
    <3>1. found \subseteq Names /\ count \in Nat
      BY <2>2
    <3>. HIDE DEF found, count
    <3>2. walk' = [walk EXCEPT
              !.phase = IF reply.next = NoToken THEN "done" ELSE "walking",
              !.token = reply.next, !.tries = 0,
              !.given = walk.given \cup found, !.taken = walk.taken + count]
      BY <2>1 DEF found, count
    <3>3. walk.given \cup found \in SUBSET Names /\ walk.taken + count \in Nat
      BY <3>1, <1>5 DEF Walks
    <3>4. walk' \in Walks
      <4>1. PICK phase \in Phases :
                walk' = [walk EXCEPT
                    !.phase = phase, !.token = reply.next, !.tries = 0,
                    !.given = walk.given \cup found, !.taken = walk.taken + count]
        BY <3>2 DEF Phases
      <4>. QED
        BY <1>5, <2>3, <3>3, <4>1, WalkType
    <3>. QED
      BY <1>1, <3>4 DEF CInv, TypeOK, Walks, Phases
  <2>5. /\ walk'.phase = IF reply.next = NoToken THEN "done" ELSE "walking"
        /\ walk'.token = reply.next /\ walk'.expression = walk.expression
        /\ walk'.given = walk.given \cup namesIn(reply.page)
    BY <2>1 DEF CInv, TypeOK
  <2>6. \A c : walkList(c)' = walkList(c)
    BY <1>1, <2>5 DEF walkList, nameList
  <2>7. WalkFromStart' /\ ThereIsListed'
    BY <1>1, <1>2, <1>7, <2>5, <2>6 DEF CInv, WalkFromStart, ThereIsListed
  <2>8. since # "drops" =>
          \A x \in there \ walk'.given : reply.next # NoToken /\ IsAhead(x, reply.next)
    BY <1>1, <1>7, <2>5 DEF CInv, RestIsAhead
  <2>9. RestIsAhead'
    BY <1>1, <1>2, <2>5, <2>6, <2>8 DEF RestIsAhead, IsAhead
  <2>10. GrowthMissesNothing'
    <3>. SUFFICES ASSUME walk'.phase = "done", since # "drops"
                  PROVE  there \subseteq walk'.given
      BY <1>1 DEF GrowthMissesNothing
    <3>1. reply.next = NoToken
      BY <2>5
    <3>. QED
      BY <2>8, <3>1
  <2>. QED
    BY <1>4, <2>4, <2>7, <2>9, <2>10 DEF CInv
<1>8. CASE walk.phase = "walking" /\ reply.kind # "given"
  <2>1. walk' = [walk EXCEPT
                !.phase = IF walk.tries + 1 < MaxTries THEN "walking" ELSE "given up",
                !.tries = @ + 1]
    BY <1>8 DEF TakeAnswer
  <2>2. TypeOK'
    <3>1. walk' = [walk EXCEPT
              !.phase = IF walk.tries + 1 < MaxTries THEN "walking" ELSE "given up",
              !.token = walk.token, !.tries = walk.tries + 1,
              !.given = walk.given, !.taken = walk.taken]
      BY <2>1, <1>5 DEF Walks
    <3>2. walk' \in Walks
      <4>1. PICK phase \in Phases :
                walk' = [walk EXCEPT
                    !.phase = phase, !.token = walk.token, !.tries = walk.tries + 1,
                    !.given = walk.given, !.taken = walk.taken]
        BY <3>1 DEF Phases
      <4>2. /\ walk.token \in ListTokens /\ walk.tries + 1 \in Nat
            /\ walk.given \in SUBSET Names /\ walk.taken \in Nat
        BY <1>5 DEF Walks
      <4>. QED
        BY <1>5, <4>1, <4>2, WalkType
    <3>. QED
      BY <1>1, <3>2 DEF CInv, TypeOK, Walks, Phases
  <2>3. /\ walk'.phase \in {"walking", "given up"}
        /\ walk'.token = walk.token /\ walk'.expression = walk.expression
        /\ walk'.given = walk.given
    BY <2>1 DEF CInv, TypeOK
  <2>4. \A c : walkList(c)' = walkList(c)
    BY <1>1, <2>3 DEF walkList, nameList
  <2>. QED
    BY <1>1, <1>2, <1>4, <1>8, <2>2, <2>3, <2>4
       DEF CInv, WalkFromStart, ThereIsListed, RestIsAhead, IsAhead, GrowthMissesNothing
<1>. QED
  BY <1>6, <1>7, <1>8 DEF TakeAnswer

\* A drop only takes the name from what is to be listed; any other change makes
\* the lists longer, and what is behind stays behind.
LEMMA ChangeKeeps ==
    ASSUME CInv, NEW n \in Names, Change(n)
    PROVE  CInv'
<1>1. /\ view # "work groups" /\ changes' = changes + 1
      /\ moments' = (IF handler = "idle" THEN moments ELSE moments \cup {items'})
      /\ UNCHANGED <<view, asked, handler, left, rows, reply, walk, broken>>
  BY DEF Change
<1>2. PICK k \in 0..(IF view = "columns" THEN MaxColumns ELSE 1) :
        /\ items' = [items EXCEPT ![n] = k]
        /\ since' = (IF k = 0 THEN "drops"
                     ELSE IF items[n] = 0 /\ since = "nothing" THEN "growth" ELSE since)
        /\ there' = IF k = 0 THEN there \ {n} ELSE there
  BY DEF Change
<1>3. k \in 0..MaxColumns
  BY CatalogAssumption
<1>4. /\ items \in [Names -> 0..MaxColumns] /\ items' \in [Names -> 0..MaxColumns]
      /\ moments' \subseteq [Names -> 0..MaxColumns]
  BY <1>1, <1>2, <1>3 DEF CInv, TypeOK
<1>5. TypeOK'
  <2>1. since' \in {"nothing", "growth", "drops"} /\ there' \subseteq Names
    <3>1. CASE k = 0
      BY <1>2, <3>1 DEF CInv, TypeOK
    <3>2. CASE k # 0
      BY <1>2, <3>2 DEF CInv, TypeOK
    <3>. QED
      BY <3>1, <3>2
  <2>2. changes' \in Nat
    <3>1. changes \in Nat
      BY DEF CInv, TypeOK
    <3>2. changes' = changes + 1
      BY DEF Change
    <3>. QED
      BY <3>1, <3>2
  <2>. QED
    BY <1>1, <1>4, <2>1, <2>2 DEF CInv, TypeOK
<1>6. OneMoment'
  BY <1>1 DEF CInv, OneMoment, Busy
<1>7. reply # None => moments' = moments
  BY <1>1 DEF CInv, OneMoment, Busy
<1>8. AnswerIsOfOneMoment'
  BY <1>1, <1>7 DEF CInv, AnswerIsOfOneMoment
<1>9. \A c : walkList(c)' = walkList(c)
  BY <1>1 DEF walkList, nameList
<1>10. Busy' = Busy
  BY <1>1 DEF Busy
<1>11. ThereIsListed'
  <2>. SUFFICES ASSUME walk.phase = "walking"
                PROVE  ThereIsListed'
    BY <1>1 DEF ThereIsListed
  <2>1. there \subseteq walkList(items) /\ (Busy => \A m \in moments : there \subseteq walkList(m))
    BY DEF CInv, ThereIsListed
  <2>2. there' \subseteq walkList(items')
    <3>1. CASE k = 0
      BY <1>2, <1>4, <2>1, <3>1 DEF walkList, nameList
    <3>2. CASE k # 0
      <4>1. walkList(items) \subseteq walkList(items')
        <5>1. k \in Nat \ {0} /\ items' = [items EXCEPT ![n] = k]
          BY <1>2, <1>3, <3>2, CatalogAssumption
        <5>2. nameList(walk.expression, items)
                  \subseteq nameList(walk.expression, [items EXCEPT ![n] = k])
          BY <1>4, <5>1, ListsGrow
        <5>. QED
          BY <5>1, <5>2 DEF walkList
      <4>. QED
        BY <1>2, <2>1, <3>2, <4>1
    <3>. QED
      BY <3>1, <3>2
  <2>3. there' \subseteq there
    BY <1>2
  <2>4. walkList(items)' = walkList(items')
    BY <1>1 DEF walkList, nameList
  <2>. QED
    BY <1>1, <1>9, <1>10, <2>1, <2>2, <2>3, <2>4 DEF ThereIsListed
<1>12. MomentsGrow' /\ RestIsAhead'
  <2>. SUFFICES ASSUME walk.phase = "walking", since' # "drops"
                PROVE  MomentsGrow' /\ RestIsAhead'
    BY <1>1 DEF MomentsGrow, RestIsAhead
  <2>1. k # 0 /\ since # "drops" /\ there' = there
    BY <1>2
  <2>2. walkList(items) \subseteq walkList(items') /\ walkList(items') \subseteq Names
    BY <1>2, <1>3, <1>4, <2>1, ListsGrow DEF walkList, nameList
  <2>3. walkList(items)' = walkList(items')
    BY <1>1 DEF walkList, nameList
  <2>4. MomentsGrow'
    BY <1>1, <1>9, <1>10, <2>1, <2>2, <2>3 DEF CInv, MomentsGrow
  <2>. DEFINE StaysAhead(x, token) ==
          /\ indexIn(x, walkList(items')) >= offsetIn(token)
          /\ Busy => \A m \in moments' : indexIn(x, walkList(m)) >= offsetIn(token)
  <2>5. ASSUME NEW x, NEW token \in ListTokens, IsAhead(x, token)
        PROVE  StaysAhead(x, token)
    <3>1. indexIn(x, walkList(items)) <= indexIn(x, walkList(items'))
      BY <2>2, LongerList
    <3>2. /\ indexIn(x, walkList(items)) \in Nat /\ indexIn(x, walkList(items')) \in Nat
          /\ offsetIn(token) \in Nat
      BY <2>2, Indices DEF offsetIn, ListTokens
    <3>3. indexIn(x, walkList(items')) >= offsetIn(token)
      BY <2>5, <3>1, <3>2 DEF IsAhead
    <3>. QED
      BY <1>1, <2>5, <3>3 DEF IsAhead, Busy
  <2>6. walk.token \in ListTokens /\ (reply # None => reply.next \in ListTokens)
    BY DEF CInv, TypeOK, Answers
  <2>7. RestIsAhead
    BY DEF CInv
  <2>8. \A x \in there \ walk.given : StaysAhead(x, walk.token)
    BY <2>1, <2>5, <2>6, <2>7 DEF RestIsAhead
  <2>9. ASSUME reply # None, reply.kind = "given",
               NEW x \in (there \ walk.given) \ namesIn(reply.page)
        PROVE  reply.next # NoToken /\ StaysAhead(x, reply.next)
    BY <2>1, <2>5, <2>6, <2>7, <2>9 DEF RestIsAhead
  <2>10. RestIsAhead'
    BY <1>1, <1>9, <1>10, <2>1, <2>3, <2>8, <2>9 DEF RestIsAhead, IsAhead
  <2>. QED
    BY <2>4, <2>10
<1>13. GrowthMissesNothing'
  <2>. SUFFICES ASSUME walk.phase = "done", since' # "drops"
                PROVE  there' \subseteq walk.given
    BY <1>1 DEF GrowthMissesNothing
  <2>1. since # "drops" /\ there' = there
    BY <1>2
  <2>. QED
    BY <2>1 DEF CInv, GrowthMissesNothing
<1>. QED
  BY <1>1, <1>5, <1>6, <1>8, <1>10, <1>11, <1>12, <1>13 DEF CInv, WalkFromStart, AsksForWalk

-----------------------------------------------------------------------------
LEMMA NextKeeps == CInv /\ [Next]_catalogVars => CInv'
<1>. SUFFICES ASSUME CInv, [Next]_catalogVars PROVE CInv'
  OBVIOUS
<1>1. CASE ReturnsPage
  BY <1>1, PageReturnsKeeps DEF ReturnsPage
<1>2. CASE \E n \in Names : Change(n)
  BY <1>2, ChangeKeeps
<1>3. CASE UNCHANGED catalogVars
  <2>1. \A c : walkList(c)' = walkList(c)
    BY <1>3 DEF catalogVars, walkList, nameList
  <2>2. TypeOK'
    BY <1>3 DEF CInv, TypeOK, catalogVars
  <2>. QED
    BY <1>3, <2>1, <2>2
       DEF catalogVars, CInv, WalkFromStart, OneMoment, AnswerIsOfOneMoment, AsksForWalk,
           ThereIsListed, MomentsGrow, RestIsAhead, IsAhead, GrowthMissesNothing, Busy
<1>. QED
  BY <1>1, <1>2, <1>3, TrinoAcceptsKeeps, ExchangeFailsKeeps, AskInVainKeeps, AskOnceKeeps,
     BeginWalkKeeps, AskForPageKeeps, TakeAnswerKeeps DEF Next

THEOREM CatalogInvariant == Spec => []CInv
  BY InitHolds, NextKeeps, PTL DEF Spec

\* Whatever changes while a request's pages are fetched, and however they are
\* cut, its answer is the one that the catalog of a single moment since the
\* request has, for every catalog, page size and number of changes
\* (#runMetadataQuery collects all pages before anything is answered).
THEOREM AnswersAreOfOneMoment == Spec => []AnswerIsOfOneMoment
<1>1. CInv => AnswerIsOfOneMoment
  BY DEF CInv
<1>. QED
  BY <1>1, CatalogInvariant, PTL

\* A finished walk has given every name that was there when it began, as long
\* as names were only created, for every list and page size, though the token
\* is an offset into a list that has changed since (paginateList).
THEOREM GrowthIsNotMissed == Spec => []GrowthMissesNothing
<1>1. CInv => GrowthMissesNothing
  BY DEF CInv
<1>. QED
  BY <1>1, CatalogInvariant, PTL

(***************************************************************************)
(* A walk's requests are well formed, and its tokens are its own.          *)
(***************************************************************************)

\* Every validator lets through some kind of value that is given.
LEMMA SomeKindIsAccepted ==
    \A v \in DOMAIN accepted : \E kind \in accepted[v] : kind # "absent"
<1>1. DOMAIN accepted = {"text", "identifier", "someTexts", "optionalText", "optionalTexts",
                         "optionalCount", "optionalObject"}
  BY DEF accepted
<1>2. /\ accepted["text"] = {"identifier", "text"}
      /\ accepted["identifier"] = {"identifier"}
      /\ accepted["someTexts"] = {"texts"}
      /\ accepted["optionalText"] = {"absent", "identifier", "text"}
      /\ accepted["optionalTexts"] = {"absent", "no texts", "texts", "blank texts"}
      /\ accepted["optionalCount"] = {"absent", "count"}
      /\ accepted["optionalObject"] = {"absent", "object"}
  BY DEF accepted
<1>. QED
  BY <1>1, <1>2

LEMMA ListInputs ==
    ASSUME NEW op \in {"ListDatabases", "ListTableMetadata", "ListWorkGroups"}
    PROVE  /\ op \in Operation
           /\ \A m \in DOMAIN inputs[op] : inputs[op][m] \in DOMAIN accepted
           /\ "NextToken" \in DOMAIN inputs[op] => inputs[op]["NextToken"] = "optionalText"
<1>1. op \in Operation
  BY DEF Operation, inputs
<1>2. CASE op = "ListDatabases"
  <2>1. inputs[op] = [CatalogName |-> "text", MaxResults |-> "optionalCount",
                      NextToken |-> "optionalText"]
    BY <1>2 DEF inputs
  <2>. QED
    BY <1>1, <2>1 DEF accepted
<1>3. CASE op = "ListTableMetadata"
  <2>1. inputs[op] = [CatalogName |-> "text", DatabaseName |-> "identifier",
                      Expression |-> "optionalText",
                      MaxResults |-> "optionalCount", NextToken |-> "optionalText"]
    BY <1>3 DEF inputs
  <2>. QED
    BY <1>1, <2>1 DEF accepted
<1>4. CASE op = "ListWorkGroups"
  <2>1. inputs[op] = [MaxResults |-> "optionalCount", NextToken |-> "optionalText"]
    BY <1>4 DEF inputs
  <2>. QED
    BY <1>1, <2>1 DEF accepted
<1>. QED
  BY <1>2, <1>3, <1>4

\* The router lets the requests of a walk through, whatever their token.
LEMMA WalkIsRouted ==
    ASSUME view \in Views, NEW token
    PROVE  routed(fullRequest(listOp(view), token)) = "dispatched"
<1>. DEFINE op   == listOp(view)
            body == [m \in DOMAIN inputs[op] |->
                        IF m = "NextToken" /\ token = NoToken THEN "absent"
                        ELSE CHOOSE kind \in accepted[inputs[op][m]] : kind # "absent"]
            r    == fullRequest(op, token)
<1>1. op \in {"ListDatabases", "ListTableMetadata", "ListWorkGroups"}
  BY DEF listOp
<1>2. /\ op \in Operation
      /\ \A m \in DOMAIN inputs[op] : inputs[op][m] \in DOMAIN accepted
      /\ "NextToken" \in DOMAIN inputs[op] => inputs[op]["NextToken"] = "optionalText"
  BY <1>1, ListInputs
<1>3. r = [method |-> "POST", path |-> "/", json |-> TRUE, object |-> TRUE, target |-> op,
           body |-> body]
  BY DEF fullRequest
<1>. HIDE DEF op
<1>4. \A m \in DOMAIN inputs[op] : body[m] \in accepted[inputs[op][m]]
  <2>. TAKE m \in DOMAIN inputs[op]
  <2>1. CASE m = "NextToken" /\ token = NoToken
    <3>1. body[m] = "absent"
      BY <2>1
    <3>2. "absent" \in accepted["optionalText"]
      BY DEF accepted
    <3>. QED
      BY <1>2, <2>1, <3>1, <3>2
  <2>2. CASE ~(m = "NextToken" /\ token = NoToken)
    <3>1. body[m] = CHOOSE kind \in accepted[inputs[op][m]] : kind # "absent"
      BY <2>2
    <3>2. \E kind \in accepted[inputs[op][m]] : kind # "absent"
      BY <1>2, SomeKindIsAccepted
    <3>. QED
      BY <3>1, <3>2
  <2>. QED
    BY <2>1, <2>2
<1>. HIDE DEF body
<1>5. /\ r.method = "POST" /\ r.path = "/" /\ r.json = TRUE /\ r.object = TRUE
      /\ r.target = op /\ r.body = body
  BY <1>3
<1>6. valid(r.target, r.body)
  BY <1>4, <1>5 DEF valid
<1>. HIDE DEF r
<1>7. routed(r) = "dispatched"
  BY <1>2, <1>5, <1>6 DEF routed
<1>. QED
  BY <1>7 DEF r, op

-----------------------------------------------------------------------------
(***************************************************************************)
(* How many names a page has.                                              *)
(***************************************************************************)

\* The index counts: it numbers a list from 0 on, leaving out nothing.
LEMMA IndexNumbers ==
    ASSUME NEW list, list \subseteq Names
    PROVE  [x \in list |-> indexIn(x, list)] \in Bijection(list, 0..(Cardinality(list) - 1))
<1>. DEFINE n == Cardinality(list)
            f == [x \in list |-> indexIn(x, list)]
            T == 0..(n - 1)
<1>1. IsFiniteSet(list) /\ n \in Nat
  BY Indices
<1>2. f \in [list -> T]
  <2>1. \A x \in list : indexIn(x, list) \in Nat /\ indexIn(x, list) < n
    BY Indices
  <2>2. \A x \in list : indexIn(x, list) \in T
    BY <1>1, <2>1
  <2>. HIDE DEF T
  <2>. QED
    BY <2>2
<1>3. ASSUME NEW x \in list, NEW y \in list, x < y
      PROVE  f[x] # f[y]
  <2>. DEFINE X == {z \in list : z < x}
              Y == {z \in list : z < y}
  <2>0. list \subseteq Nat
    BY CatalogAssumption
  <2>1. X \subseteq Y
    <3>1. \A z \in list : z < x => z < y
      BY <1>3, <2>0
    <3>. QED
      BY <3>1
  <2>2. x \in Y /\ x \notin X
    BY <1>3, <2>0
  <2>3. IsFiniteSet(Y)
    BY <1>1, FS_Subset
  <2>. HIDE DEF X, Y
  <2>4. Cardinality(X) # Cardinality(Y)
    BY <2>1, <2>2, <2>3, FS_Subset
  <2>. QED
    BY <2>4 DEF indexIn, X, Y
<1>4. f \in Injection(list, T)
  <2>1. \A x, y \in list : f[x] = f[y] => x = y
    <3>. SUFFICES ASSUME NEW x \in list, NEW y \in list, f[x] = f[y], x # y PROVE FALSE
      OBVIOUS
    <3>1. x < y \/ y < x
      BY CatalogAssumption
    <3>. HIDE DEF f
    <3>. QED
      BY <1>3, <3>1
  <2>. HIDE DEF f, T
  <2>. QED
    BY <1>2, <2>1 DEF Injection, IsInjective
<1>5. IsFiniteSet(T) /\ Cardinality(T) = n
  BY <1>1, FS_Interval
<1>. HIDE DEF f, T
<1>6. f \in Surjection(list, T)
  BY <1>4, <1>5, FS_Injection DEF n
<1>7. f \in Bijection(list, T)
  BY <1>4, <1>6 DEF Bijection
<1>. QED
  BY <1>7 DEF f, T, n

\* So a stretch of indices within the list holds as many names as it is long.
LEMMA StretchOfList ==
    ASSUME NEW list, list \subseteq Names, NEW from \in Nat, NEW size \in Nat,
           size = 0 \/ from + size <= Cardinality(list)
    PROVE  Cardinality({x \in list : /\ indexIn(x, list) >= from
                                     /\ indexIn(x, list) < from + size}) = size
<1>. DEFINE n == Cardinality(list)
            S == {x \in list : indexIn(x, list) >= from /\ indexIn(x, list) < from + size}
            T == from..(from + size - 1)
            f == [x \in list |-> indexIn(x, list)]
            g == [x \in S |-> indexIn(x, list)]
<1>0. n \in Nat /\ \A x \in list : indexIn(x, list) \in Nat /\ f[x] = indexIn(x, list)
  BY Indices
<1>1. CASE size = 0
  <2>1. S = {}
    BY <1>0, <1>1
  <2>. QED
    BY <1>1, <2>1, FS_EmptySet
<1>2. CASE from + size <= n
  <2>1. f \in Bijection(list, 0..(n - 1))
    BY IndexNumbers
  <2>2. \A x, y \in list : f[x] = f[y] => x = y
    BY <2>1, <1>0 DEF Bijection, Injection, IsInjective
  <2>3. ASSUME NEW j \in 0..(n - 1)
        PROVE  \E x \in list : f[x] = j
    <3>. HIDE DEF f
    <3>. QED
      BY <2>1 DEF Bijection, Surjection
  <2>4. g \in [S -> T]
    BY <1>0
  <2>5. g \in Injection(S, T)
    <3>1. \A x, y \in S : g[x] = g[y] => x = y
      BY <1>0, <2>2
    <3>. HIDE DEF g, S, T
    <3>. QED
      BY <2>4, <3>1 DEF Injection, IsInjective
  <2>6. g \in Surjection(S, T)
    <3>1. ASSUME NEW j \in T
          PROVE  \E x \in S : g[x] = j
      <4>1. j \in 0..(n - 1)
        BY <1>0, <1>2
      <4>2. PICK x \in list : f[x] = j
        BY <2>3, <4>1
      <4>3. x \in S /\ g[x] = j
        BY <1>0, <4>2
      <4>. QED
        BY <4>3
    <3>. HIDE DEF g, S, T
    <3>. QED
      BY <2>4, <3>1 DEF Surjection
  <2>7. ExistsBijection(S, T)
    BY <2>5, <2>6 DEF ExistsBijection, Bijection
  <2>8. IsFiniteSet(S)
    BY Indices, FS_Subset
  <2>9. Cardinality(T) = Cardinality(S)
    BY <2>7, <2>8, FS_Bijection
  <2>10. Cardinality(T) = size
    BY FS_Interval
  <2>. QED
    BY <2>9, <2>10
<1>. QED
  BY <1>1, <1>2

-----------------------------------------------------------------------------
(***************************************************************************)
(* The second invariant: of a walk's tokens, and of a quiet walk.          *)
(***************************************************************************)

\* A walk has the tokens of its own list, and what fails it is Trino's fault.
TokensAreOwn ==
    walk.phase = "walking" =>
        /\ walk.token # NoToken => walk.token.scope = listOp(view)
        /\ reply # None => reply.kind \in {"given", "failed"} \/ (reply.kind = "internal" /\ broken)
        /\ reply # None /\ reply.kind = "given" /\ reply.next # NoToken =>
              reply.next.scope = listOp(view)

\* The names of a list up to an index.
Firsts(list, k) == {x \in list : indexIn(x, list) < k}

NothingTaken == walk.phase = "idle" => walk.given = {} /\ walk.taken = 0

\* What a page adds to what a walk has been given, in a quiet catalog.
PageIsNext(given) ==
    LET found == namesIn(given.page)
    IN  /\ found \subseteq there /\ found \cap walk.given = {}
        /\ given.next = NoToken => walk.given \cup found = there
        /\ given.next # NoToken =>
              /\ offsetIn(given.next) = walk.taken + Cardinality(found)
              /\ walk.given \cup found = Firsts(there, offsetIn(given.next))

QuietWalk ==
    (walk.phase = "walking" /\ since = "nothing") =>
        /\ there = walkList(items)
        /\ Busy => \A m \in moments : walkList(m) = there
        /\ walk.taken = offsetIn(walk.token)
        /\ walk.given = Firsts(there, offsetIn(walk.token))
        /\ reply # None /\ reply.kind = "given" => PageIsNext(reply)

WInv == TokensAreOwn /\ NothingTaken /\ QuietWalk /\ QuietCatalogWalkIsExact

\* The page of a list that is quiet: the names behind the offset.
LEMMA QuietPage ==
    ASSUME CInv, QuietWalk, walk.phase = "walking", since = "nothing",
           NEW a \in Asked, a.op = listOp(view), a.expression = walk.expression,
           a.token = walk.token,
           NEW m \in [Names -> 0..MaxColumns], walkList(m) = there,
           NEW given, given = answer(a, selected(a, m)), given.kind = "given"
    PROVE  PageIsNext(given)
<1>. DEFINE collected == selected(a, m)
            start == startOf(a)
            n     == Cardinality(there)
            size  == sliceSize(start, a.size, n)
            next  == tokenAfter(start, size, n)
            found == {x \in there : indexIn(x, there) >= start /\ indexIn(x, there) < start + size}
<1>1. view \in Views /\ there \subseteq Names
  BY DEF CInv, TypeOK
<1>2. a.op \in Scopes \ Getting /\ a.size \in Nat /\ a.token \in ListTokens
  BY <1>1, ListOps DEF Asked
<1>3. listed(a, collected) = there
  BY <1>1, ListOfCatalog DEF walkList
<1>4. given = listPage(a, collected)
  BY <1>2 DEF answer, Refusal
<1>5. /\ n \in Nat /\ \A x : indexIn(x, there) \in Nat
      /\ \A x \in there : indexIn(x, there) < n
  BY <1>1, Indices
<1>6. start \in Nat /\ start = offsetIn(walk.token)
  BY <1>2 DEF startOf, offsetIn, ListTokens
<1>7. size \in Nat /\ (size = 0 \/ start + size <= n)
  BY <1>2, <1>5, <1>6 DEF sliceSize
<1>8. namesIn(given.page) = found
  <2>1. given.page = {r \in collected : /\ r[1] \in there
                                        /\ indexIn(r[1], there) >= start
                                        /\ indexIn(r[1], there) < start + size}
    BY <1>3, <1>4 DEF listPage
  <2>2. \A x \in there : \E r \in collected : r[1] = x
    BY <1>3 DEF listed
  <2>. HIDE DEF collected, start, size
  <2>. QED
    BY <2>1, <2>2 DEF namesIn
<1>9. Cardinality(found) = size
  BY <1>1, <1>6, <1>7, StretchOfList
<1>10. walk.given = Firsts(there, start) /\ walk.taken = start
  BY <1>6 DEF QuietWalk
<1>11. walk.given \cup found = Firsts(there, start + size) /\ found \cap walk.given = {}
  BY <1>5, <1>6, <1>7, <1>10 DEF Firsts
<1>12. given.next = listToken(a.op, next)
  BY <1>3, <1>4 DEF listPage
<1>13. CASE start + size >= n
  <2>1. next = NoToken
    BY <1>13 DEF tokenAfter, nextOffset, isLastPage
  <2>2. given.next = NoToken
    BY <1>12, <2>1 DEF listToken
  <2>3. Firsts(there, start + size) = there
    BY <1>5, <1>6, <1>7, <1>13 DEF Firsts
  <2>. QED
    BY <1>8, <1>11, <2>2, <2>3 DEF PageIsNext
<1>14. CASE ~(start + size >= n)
  <2>1. next = start + size /\ next \in Nat /\ next # NoToken
    BY <1>6, <1>7, <1>14, CatalogAssumption DEF tokenAfter, nextOffset, isLastPage
  <2>2. given.next = [scope |-> a.op, offset |-> next]
    BY <1>12, <2>1 DEF listToken
  <2>3. given.next # NoToken
    <3>1. given.next \in [scope : Scopes, offset : Nat]
      BY <1>2, <2>1, <2>2
    <3>. QED
      BY <3>1, CatalogAssumption
  <2>4. offsetIn(given.next) = start + size
    BY <2>1, <2>2, <2>3 DEF offsetIn
  <2>. HIDE DEF found, start, size, next
  <2>. QED
    BY <1>8, <1>9, <1>10, <1>11, <2>3, <2>4 DEF PageIsNext, found
<1>. QED
  BY <1>13, <1>14

\* The answer that a walk is given is a page with a token of its own.
LEMMA WalkAnswer ==
    ASSUME CInv, TokensAreOwn, walk.phase = "walking",
           NEW a \in Asked, a.op = listOp(view), a.token = walk.token,
           NEW collected \in SUBSET ViewRows
    PROVE  /\ answer(a, collected).kind = "given"
           /\ answer(a, collected).next # NoToken =>
                answer(a, collected).next.scope = listOp(view)
<1>1. a.op \notin Getting
  BY ListOps DEF CInv, TypeOK
<1>2. decodes(a)
  BY DEF TokensAreOwn, decodes
<1>3. answer(a, collected) = listPage(a, collected)
  BY <1>1, <1>2 DEF answer
<1>. DEFINE next == tokenAfter(startOf(a), sliceSize(startOf(a), a.size, Cardinality(listed(a, collected))),
                               Cardinality(listed(a, collected)))
<1>4. listPage(a, collected).kind = "given" /\ listPage(a, collected).next = listToken(a.op, next)
  BY DEF listPage
<1>. HIDE DEF next
<1>. QED
  BY <1>3, <1>4 DEF listToken

LEMMA WInvInit == Init => WInv
<1>. SUFFICES ASSUME Init PROVE WInv
  OBVIOUS
<1>1. walk.phase = "idle" /\ walk.given = {} /\ walk.taken = 0
  BY DEF Init
<1>. QED
  BY <1>1 DEF WInv, TokensAreOwn, NothingTaken, QuietWalk, QuietCatalogWalkIsExact

\* Single requests are sent before the walk.
LEMMA AskKeepsWalk ==
    ASSUME WInv, AskInVain \/ AskOnce
    PROVE  WInv'
<1>1. walk.phase = "idle" /\ walk' = walk
  BY DEF AskInVain, AskOnce, clientVars
<1>. QED
  BY <1>1 DEF WInv, TokensAreOwn, NothingTaken, QuietWalk, QuietCatalogWalkIsExact

LEMMA BeginWalkKeepsWalk ==
    ASSUME CInv, WInv, BeginWalk
    PROVE  WInv'
<1>1. PICK expression \in Filters :
        /\ walk' = [walk EXCEPT !.phase = "walking", !.expression = expression]
        /\ there' = listed(listRequest(expression, MaxPage, NoToken),
                          selected(listRequest(expression, MaxPage, NoToken), items))
  BY DEF BeginWalk
<1>2. /\ walk.phase = "idle" /\ handler' = "idle" /\ reply' = None
      /\ UNCHANGED <<view, items>>
  BY DEF BeginWalk
<1>3. /\ walk'.phase = "walking" /\ walk'.expression = expression
      /\ walk'.token = NoToken /\ walk'.given = {} /\ walk'.taken = 0
  BY <1>1, <1>2 DEF CInv, TypeOK, WalkFromStart, WInv, NothingTaken
<1>4. there' = walkList(items)'
  <2>1. /\ listRequest(expression, MaxPage, NoToken).op = listOp(view)
        /\ listRequest(expression, MaxPage, NoToken).expression = expression
    BY DEF listRequest
  <2>2. there' = nameList(expression, items)
    BY <1>1, <2>1, ListOfCatalog DEF CInv, TypeOK
  <2>. QED
    BY <1>2, <1>3, <2>2 DEF walkList, nameList
<1>5. Firsts(there', 0) = {}
  <2>1. there' \subseteq Names
    BY <1>4 DEF walkList, nameList
  <2>2. \A x : indexIn(x, there') \in Nat
    BY <2>1, Indices
  <2>. QED
    BY <2>2 DEF Firsts
<1>6. Cardinality({}) = 0
  BY FS_EmptySet
<1>. QED
  BY <1>2, <1>3, <1>4, <1>5, <1>6
     DEF WInv, TokensAreOwn, NothingTaken, QuietWalk, QuietCatalogWalkIsExact, offsetIn, Busy

LEMMA TrinoAcceptsKeepsWalk ==
    ASSUME CInv, WInv, TrinoAccepts
    PROVE  WInv'
<1>1. /\ handler = "submit" /\ handler' = "accepted"
      /\ UNCHANGED <<view, items, reply, moments, broken, walk, there, since>>
  BY DEF TrinoAccepts, clientVars
<1>2. \A m : walkList(m)' = walkList(m)
  BY <1>1 DEF walkList, nameList
<1>. QED
  BY <1>1, <1>2 DEF WInv, TokensAreOwn, NothingTaken, QuietWalk, PageIsNext,
                    QuietCatalogWalkIsExact, Busy

LEMMA ExchangeFailsKeepsWalk ==
    ASSUME CInv, WInv, ExchangeFails
    PROVE  WInv'
<1>1. /\ handler' = "idle" /\ reply' = Refusal("internal") /\ broken' = TRUE
      /\ UNCHANGED <<view, items, moments, walk, there, since>>
  BY DEF ExchangeFails, clientVars
<1>2. reply'.kind = "internal"
  BY <1>1, RefusalType
<1>3. \A m : walkList(m)' = walkList(m)
  BY <1>1 DEF walkList, nameList
<1>. QED
  BY <1>1, <1>2, <1>3 DEF WInv, TokensAreOwn, NothingTaken, QuietWalk,
                          QuietCatalogWalkIsExact, Busy

LEMMA PageReturnsKeepsWalk ==
    ASSUME CInv, WInv, NEW chunk \in SUBSET left, NEW kind, PageReturns(chunk, kind)
    PROVE  WInv'
<1>1. /\ handler \in {"accepted", "fetch"}
      /\ rows' = rows \cup chunk
      /\ UNCHANGED <<view, items, asked, moments, broken, walk, there, since>>
  BY DEF PageReturns, collect, clientVars
<1>2. reply = None /\ asked \in Asked
  BY <1>1 DEF CInv, OneMoment, Busy
<1>3. PICK m \in moments : rows \cup left = selected(asked, m)
  BY <1>1 DEF CInv, OneMoment
<1>4. \A c : walkList(c)' = walkList(c)
  BY <1>1 DEF walkList, nameList
<1>5. NothingTaken' /\ QuietCatalogWalkIsExact'
  BY <1>1 DEF WInv, NothingTaken, QuietCatalogWalkIsExact
<1>6. CASE reply' = Refusal("failed") /\ handler' = "idle"
  <2>1. reply'.kind = "failed"
    BY <1>6, RefusalType
  <2>. QED
    BY <1>1, <1>4, <1>5, <1>6, <2>1 DEF WInv, TokensAreOwn, QuietWalk, Busy
<1>7. CASE reply' = reply /\ handler' = "fetch"
  BY <1>1, <1>2, <1>4, <1>5, <1>7 DEF WInv, TokensAreOwn, QuietWalk, Busy
<1>8. CASE chunk = left /\ reply' = answer(asked, rows') /\ handler' = "idle"
  <2>. SUFFICES ASSUME walk.phase = "walking" PROVE WInv'
    BY <1>1, <1>5 DEF WInv, TokensAreOwn, QuietWalk
  <2>1. /\ asked.op = listOp(view)
        /\ asked.expression = walk.expression /\ asked.token = walk.token
    BY <1>1 DEF CInv, AsksForWalk, Busy
  <2>2. reply' = answer(asked, selected(asked, m))
    BY <1>1, <1>3, <1>8
  <2>3. /\ reply'.kind = "given"
        /\ reply'.next # NoToken => reply'.next.scope = listOp(view)
    BY <1>2, <2>1, <2>2, SelectedType, WalkAnswer DEF WInv
  <2>4. TokensAreOwn'
    BY <1>1, <2>3 DEF WInv, TokensAreOwn, listOp
  <2>5. ASSUME since = "nothing"
        PROVE  PageIsNext(reply')
    <3>1. walkList(m) = there /\ m \in [Names -> 0..MaxColumns]
      BY <1>1, <2>5 DEF WInv, QuietWalk, Busy, CInv, TypeOK
    <3>. QED
      BY <1>2, <2>1, <2>2, <2>3, <2>5, <3>1, QuietPage DEF WInv
  <2>6. QuietWalk'
    BY <1>1, <1>4, <1>8, <2>5 DEF WInv, QuietWalk, PageIsNext, Busy
  <2>. QED
    BY <1>5, <2>4, <2>6 DEF WInv
<1>. QED
  BY <1>6, <1>7, <1>8 DEF PageReturns

LEMMA AskForPageKeepsWalk ==
    ASSUME CInv, WInv, AskForPage
    PROVE  WInv'
<1>1. PICK size \in 1..MaxPage :
          Receive(routed(fullRequest(listOp(view), walk.token)),
                  listRequest(walk.expression, size, walk.token))
  BY DEF AskForPage
<1>. DEFINE a == listRequest(walk.expression, size, walk.token)
<1>2. walk.phase = "walking" /\ UNCHANGED <<walk, there, since>>
  BY DEF AskForPage, clientVars
<1>3. view \in Views
  BY DEF CInv, TypeOK
<1>4. Receive("dispatched", a)
  BY <1>1, <1>3, WalkIsRouted
<1>5. moments' = {items} /\ UNCHANGED <<view, items>>
  BY <1>4 DEF Receive
<1>6. /\ a.op = listOp(view) /\ a.expression = walk.expression /\ a.token = walk.token
  BY DEF listRequest
<1>7. a \in Asked
  <2>1. size \in Nat \ {0}
    BY CatalogAssumption
  <2>2. walk.expression \in SUBSET Names /\ walk.token \in ListTokens
    BY DEF CInv, TypeOK
  <2>. QED
    BY <1>3, <2>1, <2>2 DEF listRequest, Asked
<1>8. \A c : walkList(c)' = walkList(c)
  BY <1>2, <1>5 DEF walkList, nameList
<1>9. NothingTaken' /\ QuietCatalogWalkIsExact'
  BY <1>2 DEF WInv, NothingTaken, QuietCatalogWalkIsExact
<1>. HIDE DEF a
<1>10. CASE view # "work groups"
  <2>1. reply' = None
    BY <1>4, <1>10 DEF Receive
  <2>2. TokensAreOwn'
    BY <1>2, <1>5, <2>1 DEF WInv, TokensAreOwn, listOp
  <2>3. QuietWalk'
    BY <1>2, <1>5, <1>8, <2>1 DEF WInv, QuietWalk
  <2>. QED
    BY <1>9, <2>2, <2>3 DEF WInv
<1>11. CASE view = "work groups"
  <2>1. reply' = answer(a, workGroupRows(a)) /\ handler' = "idle"
    BY <1>4, <1>11 DEF Receive
  <2>2. workGroupRows(a) = selected(a, items)
    BY <1>3, <1>6, ListOps DEF workGroupRows, Getting
  <2>3. /\ reply'.kind = "given"
        /\ reply'.next # NoToken => reply'.next.scope = listOp(view)
    BY <1>2, <1>6, <1>7, <2>1, <2>2, SelectedType, WalkAnswer DEF WInv
  <2>4. TokensAreOwn'
    BY <1>2, <1>5, <2>3 DEF WInv, TokensAreOwn, listOp
  <2>5. ASSUME since = "nothing"
        PROVE  PageIsNext(reply')
    <3>1. walkList(items) = there /\ items \in [Names -> 0..MaxColumns]
      BY <1>2, <2>5 DEF WInv, QuietWalk, CInv, TypeOK
    <3>. QED
      BY <1>2, <1>6, <1>7, <2>1, <2>2, <2>3, <2>5, <3>1, QuietPage DEF WInv
  <2>6. QuietWalk'
    BY <1>2, <1>5, <1>8, <2>1, <2>5 DEF WInv, QuietWalk, PageIsNext, Busy
  <2>. QED
    BY <1>9, <2>4, <2>6 DEF WInv
<1>. QED
  BY <1>10, <1>11

LEMMA TakeAnswerKeepsWalk ==
    ASSUME CInv, WInv, TakeAnswer
    PROVE  WInv'
<1>1. /\ reply # None /\ reply' = None
      /\ UNCHANGED <<view, items, handler, there, since>>
  BY DEF TakeAnswer
<1>2. ~Busy /\ ~Busy'
  BY <1>1 DEF CInv, OneMoment, Busy
<1>3. reply \in Answers /\ walk \in Walks
  BY <1>1 DEF CInv, TypeOK, Walks, Phases
<1>4. CASE walk.phase # "walking" /\ walk' = walk
  BY <1>1, <1>4 DEF WInv, TokensAreOwn, NothingTaken, QuietWalk, QuietCatalogWalkIsExact
<1>5. CASE walk.phase = "walking" /\ reply.kind = "given"
  <2>. DEFINE found == namesIn(reply.page)
              count == Cardinality(found)
  <2>1. walk' = [walk EXCEPT
                !.phase = IF reply.next = NoToken THEN "done" ELSE "walking",
                !.token = reply.next, !.tries = 0,
                !.given = walk.given \cup found,
                !.taken = walk.taken + count]
    BY <1>5 DEF TakeAnswer
  <2>. HIDE DEF found, count
  <2>2. /\ walk'.phase = IF reply.next = NoToken THEN "done" ELSE "walking"
        /\ walk'.token = reply.next /\ walk'.expression = walk.expression
        /\ walk'.given = walk.given \cup found /\ walk'.taken = walk.taken + count
    BY <1>3, <2>1 DEF Walks
  <2>3. \A c : walkList(c)' = walkList(c)
    BY <1>1, <2>2 DEF walkList, nameList
  <2>4. TokensAreOwn' /\ NothingTaken'
    BY <1>1, <1>5, <2>2 DEF WInv, TokensAreOwn, NothingTaken, listOp
  <2>5. ASSUME since = "nothing"
        PROVE  /\ walk'.given \subseteq there
               /\ walk'.taken = Cardinality(walk'.given)
               /\ walk'.phase = "done" => walk'.given = there
               /\ reply.next # NoToken => /\ walk'.taken = offsetIn(reply.next)
                                          /\ walk'.given = Firsts(there, offsetIn(reply.next))
    <3>1. /\ found \subseteq there /\ found \cap walk.given = {}
          /\ reply.next = NoToken => walk.given \cup found = there
          /\ reply.next # NoToken =>
                /\ offsetIn(reply.next) = walk.taken + count
                /\ walk.given \cup found = Firsts(there, offsetIn(reply.next))
      BY <1>1, <1>5, <2>5 DEF WInv, QuietWalk, PageIsNext, found, count
    <3>2. walk.given \subseteq there /\ walk.taken = Cardinality(walk.given)
      BY <1>5, <2>5 DEF WInv, QuietCatalogWalkIsExact
    <3>3. there \subseteq Names
      BY DEF CInv, TypeOK
    <3>4. /\ IsFiniteSet(found) /\ IsFiniteSet(walk.given)
          /\ Cardinality(found) \in Nat /\ Cardinality(walk.given) \in Nat
      BY <3>1, <3>2, <3>3, Indices
    <3>5. Cardinality(walk.given \cup found) =
              Cardinality(walk.given) + Cardinality(found) - Cardinality(walk.given \cap found)
      BY <3>4, FS_Union
    <3>6. Cardinality(walk.given \cap found) = 0
      <4>1. walk.given \cap found = {}
        BY <3>1
      <4>2. Cardinality({}) = 0
        BY FS_EmptySet
      <4>. QED
        BY <4>1, <4>2
    <3>7. Cardinality(walk.given \cup found) = Cardinality(walk.given) + Cardinality(found)
      BY <3>4, <3>5, <3>6
    <3>8. Cardinality(walk.given \cup found) = walk.taken + count
      BY <3>2, <3>7 DEF count
    <3>. QED
      BY <2>2, <3>1, <3>2, <3>8
  <2>6. QuietWalk'
    <3>. SUFFICES ASSUME walk'.phase = "walking", since = "nothing" PROVE QuietWalk'
      BY <1>1 DEF QuietWalk
    <3>1. reply.next # NoToken
      BY <2>2
    <3>2. there' = walkList(items)'
      BY <1>1, <1>5, <2>3 DEF WInv, QuietWalk
    <3>. QED
      BY <1>1, <1>2, <2>2, <2>5, <3>1, <3>2 DEF QuietWalk, Firsts
  <2>7. QuietCatalogWalkIsExact'
    <3>. SUFFICES ASSUME since = "nothing" PROVE QuietCatalogWalkIsExact'
      BY <1>1 DEF QuietCatalogWalkIsExact
    <3>. QED
      BY <1>1, <2>2, <2>5 DEF QuietCatalogWalkIsExact, offsetIn
  <2>. QED
    BY <2>4, <2>6, <2>7 DEF WInv
<1>6. CASE walk.phase = "walking" /\ reply.kind # "given"
  <2>1. walk' = [walk EXCEPT
                !.phase = IF walk.tries + 1 < MaxTries THEN "walking" ELSE "given up",
                !.tries = @ + 1]
    BY <1>6 DEF TakeAnswer
  <2>2. /\ walk'.phase \in {"walking", "given up"}
        /\ walk'.token = walk.token /\ walk'.expression = walk.expression
        /\ walk'.given = walk.given /\ walk'.taken = walk.taken
    BY <1>3, <2>1 DEF Walks
  <2>3. \A c : walkList(c)' = walkList(c)
    BY <1>1, <2>2 DEF walkList, nameList
  <2>4. TokensAreOwn' /\ NothingTaken' /\ QuietCatalogWalkIsExact'
    BY <1>1, <1>6, <2>2
       DEF WInv, TokensAreOwn, NothingTaken, QuietCatalogWalkIsExact, listOp
  <2>5. QuietWalk'
    BY <1>1, <1>2, <1>6, <2>2, <2>3 DEF WInv, QuietWalk, Firsts
  <2>. QED
    BY <2>4, <2>5 DEF WInv
<1>. QED
  BY <1>4, <1>5, <1>6 DEF TakeAnswer

\* While nothing comes or goes the lists stay as they are.
LEMMA ChangeKeepsWalk ==
    ASSUME CInv, WInv, NEW n \in Names, Change(n)
    PROVE  WInv'
<1>1. PICK k \in 0..(IF view = "columns" THEN MaxColumns ELSE 1) :
        /\ items' = [items EXCEPT ![n] = k]
        /\ since' = IF k = 0 THEN "drops"
                    ELSE IF items[n] = 0 /\ since = "nothing" THEN "growth" ELSE since
        /\ there' = IF k = 0 THEN there \ {n} ELSE there
  BY DEF Change
<1>2. /\ moments' = IF handler = "idle" THEN moments ELSE moments \cup {items'}
      /\ UNCHANGED <<view, handler, reply, walk, broken>>
  BY DEF Change
<1>3. TokensAreOwn' /\ NothingTaken'
  BY <1>2 DEF WInv, TokensAreOwn, NothingTaken, listOp
<1>4. CASE since' # "nothing"
  BY <1>3, <1>4 DEF WInv, QuietWalk, QuietCatalogWalkIsExact
<1>5. CASE since' = "nothing"
  <2>1. k # 0 /\ items[n] # 0 /\ since = "nothing" /\ there' = there
    BY <1>1, <1>5
  <2>2. items \in [Names -> 0..MaxColumns] /\ k \in Nat
    <3>1. MaxColumns \in Nat
      BY CatalogAssumption
    <3>2. k \in Nat
      BY <3>1
    <3>. QED
      BY <3>2 DEF CInv, TypeOK
  <2>3. \A x \in Names : items'[x] >= 1 <=> items[x] >= 1
    BY <1>1, <2>1, <2>2
  <2>4. nameList(walk.expression, items') = nameList(walk.expression, items)
    BY <2>3 DEF nameList
  <2>5. /\ walkList(items)' = walkList(items) /\ walkList(items') = walkList(items)
        /\ \A c : nameList(walk.expression, c)' = nameList(walk.expression, c)
    BY <1>2, <2>4 DEF walkList, nameList
  <2>6. \A c : walkList(c)' = walkList(c)
    BY <1>2 DEF walkList, nameList
  <2>7. QuietWalk'
    <3>. SUFFICES ASSUME walk.phase = "walking" PROVE QuietWalk'
      BY <1>2 DEF QuietWalk
    <3>1. /\ there = walkList(items)
          /\ Busy => \A m \in moments : walkList(m) = there
          /\ walk.taken = offsetIn(walk.token)
          /\ walk.given = Firsts(there, offsetIn(walk.token))
          /\ reply # None /\ reply.kind = "given" => PageIsNext(reply)
      BY <2>1 DEF WInv, QuietWalk
    <3>2. Busy => \A m \in moments' : walkList(m) = there
      BY <1>2, <2>5, <3>1
    <3>3. reply # None /\ reply.kind = "given" => PageIsNext(reply)'
      BY <1>2, <2>1, <3>1 DEF PageIsNext, Firsts
    <3>4. there' = walkList(items)'
      BY <2>1, <2>5, <3>1
    <3>5. Busy' => \A m \in moments' : walkList(m)' = there'
      BY <1>2, <2>1, <2>6, <3>2 DEF Busy
    <3>. QED
      BY <1>2, <2>1, <3>1, <3>3, <3>4, <3>5 DEF QuietWalk, Firsts
  <2>8. QuietCatalogWalkIsExact'
    BY <1>2, <2>1 DEF WInv, QuietCatalogWalkIsExact
  <2>. QED
    BY <1>3, <2>7, <2>8 DEF WInv
<1>. QED
  BY <1>4, <1>5

LEMMA NextKeepsWalk == CInv /\ WInv /\ [Next]_catalogVars => WInv'
<1>. SUFFICES ASSUME CInv, WInv, [Next]_catalogVars PROVE WInv'
  OBVIOUS
<1>1. CASE ReturnsPage
  BY <1>1, PageReturnsKeepsWalk DEF ReturnsPage
<1>2. CASE \E n \in Names : Change(n)
  BY <1>2, ChangeKeepsWalk
<1>3. CASE UNCHANGED catalogVars
  <2>1. \A c : walkList(c)' = walkList(c)
    BY <1>3 DEF catalogVars, walkList, nameList
  <2>. QED
    BY <1>3, <2>1
       DEF catalogVars, WInv, TokensAreOwn, NothingTaken, QuietWalk, PageIsNext, Firsts,
           QuietCatalogWalkIsExact, Busy, listOp
<1>. QED
  BY <1>1, <1>2, <1>3, TrinoAcceptsKeepsWalk, ExchangeFailsKeepsWalk, AskKeepsWalk,
     BeginWalkKeepsWalk, AskForPageKeepsWalk, TakeAnswerKeepsWalk DEF Next

LEMMA WalkInvariant == Spec => []WInv
  BY InitHolds, NextKeeps, WInvInit, NextKeepsWalk, PTL DEF Spec

\* Of a walk with its own tokens no request is refused, for any list and any
\* change of it, and an internal error is one of an exchange with Trino
\* (listToken's scope, and the validators).
THEOREM WalksAreAnswered == Spec => []OnlyTrinoFailsAWalk
<1>1. WInv => OnlyTrinoFailsAWalk
  BY DEF WInv, TokensAreOwn, OnlyTrinoFailsAWalk
<1>. QED
  BY <1>1, WalkInvariant, PTL

\* A walk of any list that stays the same, with pages of any sizes, is given
\* every name of it once: the offset of its token is the number of names it
\* has been given (paginateList).
THEOREM QuietWalksAreExact == Spec => []QuietCatalogWalkIsExact
<1>1. WInv => QuietCatalogWalkIsExact
  BY DEF WInv
<1>. QED
  BY <1>1, WalkInvariant, PTL

=============================================================================
