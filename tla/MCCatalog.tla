------------------------------ MODULE MCCatalog ------------------------------
(***************************************************************************)
(* Instances of Catalog for TLC.                                           *)
(***************************************************************************)
EXTENDS Catalog

CatalogOps == {"GetDatabase", "ListDatabases", "GetTableMetadata", "ListTableMetadata",
               "GetWorkGroup", "ListWorkGroups"}

\* A request with a good body: with all its members, or without the optional.
full(op)  == fullRequest(op, [scope |-> "none", offset |-> 0])
plain(op) == [full(op) EXCEPT !.body =
                [m \in DOMAIN inputs[op] |->
                    IF "absent" \in accepted[inputs[op][m]] THEN "absent" ELSE @[m]]]

\* Every operation with one member of any kind.
OneMemberOff(op) ==
    {[full(op) EXCEPT !.body[m] = kind] : m \in DOMAIN inputs[op], kind \in JsonKind}

\* Requests that do not get as far as a body.
Strange ==
    {[full("GetDatabase") EXCEPT !.method = method, !.path = path, !.json = json, !.target = target] :
        method \in {"GET", "POST"}, path \in {"/", "/health"}, json \in BOOLEAN,
        target \in {"none", "CreateNamedQuery", "GetDatabase"}}
    \cup {[full(op) EXCEPT !.object = FALSE] : op \in Operation}

\* Those that are let through, for the operations of Catalog only.
ManyRequests ==
    {r \in Strange \cup {plain(op) : op \in Operation}
           \cup UNION {OneMemberOff(op) : op \in Operation} :
        routed(r) = "dispatched" => r.target \in CatalogOps}

ThreeNames == 1..3
TwoExpressions == {{1, 3}, {1, 2, 3}}

=============================================================================
