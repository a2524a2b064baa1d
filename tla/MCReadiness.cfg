CONSTANTS
    Service = {"tcp", "http"}
    Timeout <- MCTimeout
    MaxProbe <- MCMaxProbe
    Interval = 2
SPECIFICATION FairSpec
INVARIANTS WaitIsBounded UpInTimeIsReady
PROPERTY WaitEnds
