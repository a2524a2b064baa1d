\* Either runtime, two services, both backends; three runs, two at a time, one killed.
CONSTANTS
    NoCli = NoCli
    Cli = {c1, c2, c3}
    Runtimes = {"docker", "apple-container"}
    Services <- TwoServices
    Service <- TwoNames
    HasVolume <- TwoNames
    InitTasks <- MetastoreOnly
    Minio = "minio"
    Configs <- BothBackends
    MaxActive = 2
    MaxKills = 1
SYMMETRY CliSymmetry
VIEW StackView
SPECIFICATION Spec
INVARIANTS
    ResetIsNotBlocked
PROPERTIES
    FailureLeavesNothing
    DestroyLeavesNothing
    ResetIsFresh
