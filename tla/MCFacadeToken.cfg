\* Two Starts with one token: does Trino see one query?
CONSTANTS
    c1 = c1  c2 = c2  c3 = c3  s1 = s1  s2 = s2  t1 = t1  t2 = t2
    None = None
    Starts <- TwoStarts
    Stops <- NoCalls
    Tokens <- BothTokens
    TokenOf <- SharedToken
    BadOutput <- LastIsBad
    Persistent = TRUE
    MaxPages = 1
    MaxCrashes = 0
SPECIFICATION Spec
INVARIANT TokenStartsOneQuery
CHECK_DEADLOCK FALSE
