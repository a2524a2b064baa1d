\* Two Starts against two Stops; fair handlers, queries that get on, no restart.
CONSTANTS
    c1 = c1  c2 = c2  c3 = c3  s1 = s1  s2 = s2  t1 = t1  t2 = t2
    None = None
    Starts <- TwoStarts
    Stops <- TwoStops
    Tokens <- BothTokens
    TokenOf <- SharedToken
    BadOutput <- LastIsBad
    Persistent = TRUE
    MaxPages = 1
    MaxCrashes = 0
SPECIFICATION FairSpec
INVARIANTS
    StopAnswer
PROPERTIES
    CallsAreAnswered
    StateIsFinal
    RefinesFairLifecycle
CHECK_DEADLOCK FALSE
