CONSTANTS
    NoCli = NoCli
    Cli = {c1, c2, c3}
    Runtimes = {"docker"}
    Services <- TwoServices
    Service <- TwoNames
    HasVolume <- TwoNames
    InitTasks <- MetastoreOnly
    Minio = "minio"
    Configs <- OneConfig
    MaxActive = 1
    MaxKills = 0
SYMMETRY CliSymmetry
SPECIFICATION Spec
PROPERTY StoppedDataSurvives
