CONSTANTS
    s1 = s1
    s2 = s2
    a1 = a1
    a2 = a2
    Servers = {s1, s2}
    Addrs = {a1, a2}
    NoAddr = NoAddr
    SSIDs = {"home", "none"}
    NoSSID = "none"
    IfType = "wireless"
    INFINITE = 99
    Advertises <- MCAdvertises
    Replies <- MCReplies
    ReqMaxRC = 2
    DecMaxRC = 2
    CnfMaxRD = 2
    MaxDelay = 1
    MaxRT = 2
    BoundRetry = 1
    WakeSkew = 1
    MaxSleep = 1
    ElapsedCap = 1
    AgeCap = 6
    MaxLife = 4
    NetCap = 1
    MaxEnv = 2
    EnvEvents = {"renew"}
    StartModes = {TRUE}
    KernelOutcomes = {"ok"}
SPECIFICATION Spec
INVARIANT
    NoCrash
