CONSTANTS
    None = mvNone
    NotANumber = mvNotANumber
    Malformed = mvMalformed
    Absent = mvAbsent
    Dir = mvDir
    mvNone = mvNone
    mvNotANumber = mvNotANumber
    mvMalformed = mvMalformed
    mvAbsent = mvAbsent
    mvDir = mvDir
    mvUserData = mvUserData
    FeatureTags = {"domain", "clustered", "bogus"}
    HostFqdn = "node1.example.com"
    DaemonName = "smb.tank.node1.xkvjod"
    SmbPort = 445
    MetricsPort = 9922
    Engine = "podman"
    CtxImage <- MCCtxImage
    RemoteSchemes = {"rados:"}
    RawConfigs <- MCRawConfigs
    RankInfos <- MCRankInfos
    HostInventories <- MCHostInventories
    InitialEndpoints <- MCInitialEndpoints
    UserFilePaths <- MCUserFilePaths

SPECIFICATION Spec

INVARIANT
    ClusteredInitHasNodeNumber
