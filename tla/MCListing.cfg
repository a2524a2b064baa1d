\* Four executions in two work groups, three clock readings, pages of up to two.
CONSTANTS
    NoToken = NoToken
    Anything = Anything
    Ids <- FourIds
    Workgroups <- BothGroups
    WorkgroupOf <- OneIsOther
    MaxTime = 2
    MaxPage = 2
    MaxLosses = 1
SPECIFICATION FairSpec
INVARIANTS
    NothingMissed
PROPERTIES
    WalkEnds
CHECK_DEADLOCK FALSE
