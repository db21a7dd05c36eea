\* One caller of three tools and windows of up to three minutes for the limiter;
\* three devices through two slots; three sets against a budget of four elements;
\* two manifests, and one elsewhere, with two daemon.yml; every report; two lines
\* of input for the plugin.
CONSTANTS
    Callers = {c1}
    Global = global
    global = global
    dear = dear
    exempt = exempt
    cheap = cheap
    Tools = {dear, exempt, cheap}
    Expensive = {dear, exempt}
    Disabled = {exempt}
    Minute = 2
    Rate <- RateNarrow
    Burst <- BurstNarrow
    IdleLimit = 2
    SweepEvery = 1
    IdleCap = 3
    MaxWindow = 6
    Devices <- MCDevices
    Ops <- MCOps
    Fanout = 2
    SetKeys <- MCSetKeys
    TableOf <- MCTableOf
    BanLists <- MCBanLists
    Sizes = {1, 3}
    Asked = {0, 1, 4}
    ElemDefault = 2
    HardElemCap = 3
    ElemBudget = 4
    Manifests <- MCManifestsFew
    DaemonYmls <- MCYmlsFew
    Elsewhere <- MCElsewhere
    Compiled = {"wireguard", "nginx_apache"}
    Width = 2
    ValueLists <- MCValueLists
    AideCounts = {1, 3}
    AideDirs <- MCAideDirs
    Now = 6
    Window = 4
    Tolerance = 1
    Clock = 3
    WindowMin = 1
    MaxLogLines = 3
    Spellings <- MCSpellings
    NoHost = NoHost
    Suffix = TRUE
    MaxLines = 2
SPECIFICATION Spec
INVARIANTS
    TypeOK
    WindowBound
    NothingMissing
    ElementsAccounted
    CapsFitCalls
    FiguresExplained
    AideHeedsNewest
    LookupFindsOverlaps
    AccessCountsTrue
    GateFollowsAnswers
PROPERTY IsTokenBucket
CHECK_DEADLOCK FALSE
