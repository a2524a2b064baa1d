CONSTANTS
    Run = {s1, s2}
    N = 2
    Warehouse <- MCWarehouse
SPECIFICATION FairSpec
INVARIANTS SeededIsComplete SeedCanBeRepeated OneSeedWins
PROPERTY SeedEnds
