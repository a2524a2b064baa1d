---------------------------- MODULE ResultReading ----------------------------
(***************************************************************************)
(* A client reads an execution's result with GetQueryResults               *)
(* (src/facade/service.ts), page by page along its NextToken, while the    *)
(* facade goes on: the reader's side, over the variables of Facade it      *)
(* reads and with Paging.  QueryCommand composes it with the rest.         *)
(***************************************************************************)
EXTENDS Facade, Paging

CONSTANT MaxPage    \* bound: MaxResults of a request

ASSUME ReadingAssumption == MaxPage \in Nat \ {0} /\ NoToken \notin Nat

VARIABLE
    reader    \* the client: the execution it reads, its token and its rows

\* The row of column names that buildAthenaResultSet puts first.
Header == <<None, 0>>

\* result_rows_json: the header and the data.
resultRows(id) == <<Header>> \o db[id].result

-----------------------------------------------------------------------------
\* One GetQueryResults request and its answer: refused for an execution that
\* is unknown or has not succeeded.
GetQueryResults(id) ==
    /\ \/ reader.phase = "idle"
       \/ reader.phase = "reading" /\ reader.of = id
    /\ \/ /\ db[id] = None \/ (db[id] # None /\ db[id].state # "SUCCEEDED")
          /\ reader' = [reader EXCEPT !.phase = "refused", !.of = id]
       \/ /\ db[id] # None /\ db[id].state = "SUCCEEDED"
          /\ \E maxResults \in 1..MaxPage :
             LET all    == resultRows(id)
                 offset == offsetOf(reader.token)
                 size   == sliceSize(offset, maxResults, Len(all))
                 next   == tokenAfter(offset, size, Len(all))
             IN  reader' = [phase |-> IF next = NoToken THEN "done" ELSE "reading",
                            of    |-> id,
                            token |-> next,
                            got   |-> reader.got \o SubSeq(all, offset + 1, offset + size)]
    /\ UNCHANGED vars

ReaderInit == reader = [phase |-> "idle", of |-> None, token |-> NoToken, got |-> <<>>]

-----------------------------------------------------------------------------
(***************************************************************************)
(* Properties.                                                             *)
(***************************************************************************)

\* A client that has followed the tokens to the end holds, for an execution
\* run by one call, the header and exactly the rows of its Trino query, once
\* each and in order, whatever page sizes it asked for and whatever else the
\* facade did between the pages.
ReadsTheResult ==
    \A c \in Starts :
        (reader.phase = "done" /\ db[reader.of] # None /\ executorsOf(reader.of) = {c}) =>
            reader.got = <<Header>> \o [k \in 1..trino[c].sent |-> <<c, k>>]

=============================================================================
