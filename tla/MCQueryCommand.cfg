\* One query command, two Stops, another reader, three Trino pages, client pages of up to three rows, a shutdown or
\* a kill at any time, twice; the table is in memory.
CONSTANTS
    c1 = c1  s1 = s1  s2 = s2  t1 = t1
    None = None
    NoToken = NoToken
    Own = c1
    Starts <- OneStart
    Stops <- TwoStops
    Tokens <- OneToken
    TokenOf <- OwnToken
    BadOutput <- NoneBad
    Persistent = FALSE
    MaxPages = 3
    MaxCrashes = 2
    MaxPage = 3
    DefaultPage = 2
    MaxPolls = 2
SPECIFICATION FairCommandSpec
INVARIANTS
    ReadsTheResult
    InterruptedIsReported
    PrintsItsResult
    ExitTellsTheOutcome
PROPERTIES
    CommandEnds
CHECK_DEADLOCK FALSE
