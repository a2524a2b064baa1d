\* Two Starts race with one token, a third has its own; one Stop; a restart.
CONSTANTS
    c1 = c1  c2 = c2  c3 = c3  s1 = s1  s2 = s2  t1 = t1  t2 = t2
    None = None
    Starts <- ThreeStarts
    Stops <- OneStop
    Tokens <- BothTokens
    TokenOf <- SharedToken
    BadOutput <- LastIsBad
    Persistent = TRUE
    MaxPages = 1
    MaxCrashes = 1
SPECIFICATION Spec
INVARIANTS
    TokenNamesOneRow
    SucceededIsReadable
    CancelHitsOwnQuery
    LiveRowHasAHandler
    StartAnswer
    EndedBy
    ResultIsTheQuerys
PROPERTIES
    RefinesLifecycle
CHECK_DEADLOCK FALSE
