------------------------------ MODULE Protocol ------------------------------
(***************************************************************************)
(* From an HTTP request to the operation that handles it: the order of the *)
(* checks in src/server/http.ts and src/protocol/router.ts, and the shapes *)
(* of the twelve inputs that src/protocol/validate.ts lets through.  A     *)
(* JSON value is known by what the validators tell apart.                  *)
(***************************************************************************)

\* "text": not empty and no identifier; "texts": a list of non-empty strings;
\* "object": its members are as the operation wants them.
JsonKind == {"absent", "null", "empty text", "identifier", "text",
             "count", "zero", "fraction",
             "no texts", "texts", "blank texts", "mixed list",
             "object", "bad object"}

\* The kinds that each validator of a member accepts.
accepted ==
    [text           |-> {"identifier", "text"},
     identifier     |-> {"identifier"},
     someTexts      |-> {"texts"},
     optionalText   |-> {"absent", "identifier", "text"},
     optionalTexts  |-> {"absent", "no texts", "texts", "blank texts"},
     optionalCount  |-> {"absent", "count"},
     optionalObject |-> {"absent", "object"}]

\* The members of each operation's input and their validators.
inputs ==
    [StartQueryExecution |->
        [QueryString |-> "text", ClientRequestToken |-> "optionalText",
         QueryExecutionContext |-> "optionalObject",
         ResultConfiguration |-> "optionalObject",
         WorkGroup |-> "optionalText", ExecutionParameters |-> "optionalTexts"],
     GetQueryExecution      |-> [QueryExecutionId |-> "text"],
     GetQueryResults        |-> [QueryExecutionId |-> "text",
                                 NextToken |-> "optionalText", MaxResults |-> "optionalCount"],
     StopQueryExecution     |-> [QueryExecutionId |-> "text"],
     BatchGetQueryExecution |-> [QueryExecutionIds |-> "someTexts"],
     ListQueryExecutions    |-> [MaxResults |-> "optionalCount",
                                 NextToken |-> "optionalText", WorkGroup |-> "optionalText"],
     GetWorkGroup           |-> [WorkGroup |-> "text"],
     ListWorkGroups         |-> [MaxResults |-> "optionalCount", NextToken |-> "optionalText"],
     GetDatabase            |-> [CatalogName |-> "text", DatabaseName |-> "identifier"],
     ListDatabases          |-> [CatalogName |-> "text",
                                 MaxResults |-> "optionalCount", NextToken |-> "optionalText"],
     GetTableMetadata       |-> [CatalogName |-> "text", DatabaseName |-> "identifier",
                                 TableName |-> "identifier"],
     ListTableMetadata      |-> [CatalogName |-> "text", DatabaseName |-> "identifier",
                                 Expression |-> "optionalText",
                                 MaxResults |-> "optionalCount", NextToken |-> "optionalText"]]

Operation == DOMAIN inputs

\* A body that the validator of the operation lets through.
valid(op, body) ==
    \A member \in DOMAIN inputs[op] : body[member] \in accepted[inputs[op][member]]

\* What becomes of a request: an answer of the HTTP handler or the router, or
\* "dispatched" to its operation.  `json`: the body parses; `object`: to an
\* object.
routed(request) ==
    IF request.method = "GET" /\ request.path = "/health" THEN "healthy"
    ELSE IF ~request.json                                 THEN "invalid"
    ELSE IF request.method # "POST"                       THEN "not found"
    ELSE IF request.target \notin Operation               THEN "invalid"
    ELSE IF ~request.object                               THEN "invalid"
    ELSE IF valid(request.target, request.body)           THEN "dispatched"
    ELSE "invalid"

=============================================================================
