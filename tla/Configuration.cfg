\* Thirteen keys of every kind, two requests at a time, two PATCH or install
\* requests and one restart; two presets, three requests and one failure; three
\* jobs of the compose projects on three sets of parameters, one change and
\* one failure or stop.
CONSTANTS
    EP = EP
    LEP = LEP
    SEQ = SEQ
    LSEQ = LSEQ
    IMG = IMG
    LIMG = LIMG
    PORT = PORT
    LITE = LITE
    HF = HF
    TP = TP
    DEV = DEV
    APORT = APORT
    SPORT = SPORT
    t2 = t2
    g2 = g2
    v1 = v1
    v2 = v2
    Empty = Empty
    Mask = Mask
    Absent = Absent
    Keys <- mcKeys
    VllmChains <- mcVllm
    ImageChains <- mcImages
    PresetOnly = {EP, TP}
    Required = {TP}
    TpKey = TP
    DeviceKey = DEV
    PortKey = APORT
    SglangPort = SPORT
    GpuLists <- mcGpuLists
    Dropped = {PORT}
    SecretKeys = {LITE, HF}
    LiteKey = LITE
    Values = {v1, v2, t2, g2}
    Olds <- mcOlds
    MainEnvs <- mcMainEnvs
    Presets <- mcPresets
    PatchKeys = {EP, LEP, SEQ, LSEQ, IMG, LIMG, PORT, LITE, HF}
    PatchValues = {v2}
    Requests = {r1, r2}
    MaxOps = 2
    MaxRestarts = 1
    Names = {a, b}
    Reqs = {r1, r2}
    NoPreset = NoPreset
    NoFile = NoFile
    Unset = Unset
    MaxRequests = 3
    MaxFailures = 1
    c1 = c1
    c2 = c2
    c3 = c3
    d1 = d1
    d2 = d2
    Configs = {c1, c2, c3}
    Complete = {c1, c2}
    Dirs = {d1, d2}
    DirOf <- mcDirOf
    p1 = p1
    p2 = p2
    p3 = p3
    Places = {p1, p2, p3}
    PlaceOf <- mcPlaceOf
    MaxJobs = 3
    MaxTroubles = 1
    MaxChanges = 1
SPECIFICATION MCSpec
INVARIANTS SecretsAreFlagged PresetDecides
           SyncedMatchesFile  
           OneConfig BootstrapDone
PROPERTY WritesOnlyWhatIsAsked
SYMMETRY Symmetry
CHECK_DEADLOCK FALSE
