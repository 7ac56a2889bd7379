CONSTANTS
    None = mvNone
    NotANumber = mvNotANumber
    Malformed = mvMalformed
    mvNone = mvNone
    mvNotANumber = mvNotANumber
    mvMalformed = mvMalformed
    FeatureTags = {"domain", "clustered", "bogus"}
    HostFqdn = "node1.example.com"
    DaemonName = "smb.tank.node1.xkvjod"
    SmbPort = 445
    Engine = "docker"
    CtxImage <- MCCtxImage

SPECIFICATION Spec

INVARIANTS
    InvLayoutOrder
    InvCtdbDependenciesMet
    InvMetricsPortPublished
