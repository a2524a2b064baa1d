CONSTANTS
    Name <- MCName
    Unsafe <- MCUnsafe
    Port <- MCPort
    Projects <- MCProjects
    MaxSettings = 2
SPECIFICATION Spec
INVARIANTS PostgresStaysClear ResultsHaveABucket
PROPERTY HigherSourceWins
