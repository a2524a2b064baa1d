\* Three schemata or tables of up to two columns, one of them changed at any time; malformed and other single
\* requests; a walk with pages of one or two, its requests tried twice.
CONSTANTS
    None = None
    NoToken = NoToken
    Names <- ThreeNames
    Hidden = 2
    MaxColumns = 2
    Expressions <- TwoExpressions
    Requests <- ManyRequests
    MaxPage = 2
    MaxChanges = 1
    MaxTries = 2
SPECIFICATION FairSpec
INVARIANTS
    AnswerIsOfOneMoment
    OnlyTrinoFailsAWalk
    QuietCatalogWalkIsExact
    GrowthMissesNothing
PROPERTIES
    CatalogWalkEnds
CHECK_DEADLOCK FALSE
