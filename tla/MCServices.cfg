SPECIFICATION ServicesSpec
CONSTANTS
    Requests = {r1, r2}
    Shards = 1
    Chunks = 2
    Inodes = {1, 2, 3, 4, 5}
    MaxStarts = 2
    MaxFaults = 1
    AuthThreads = {t1, t2}
    Passwords = {1, 2}
    Tokens = {1}
    Timeouts = {1, 2}
    MaxFailures = 1
    Cooldown = 1
    MaxTime = 2
    MaxRequests = 3
    MaxRestarts = 1
    MaxSaveErrors = 1
    ChatThreads = {h1, h2}
    Conversations = {c1, c2}
    Questions = {1, 2}
    MaxRounds = 2
    MaxCalls = 2
    CacheTTL = 0
    CacheEntries = 1
    MaxChats = 2
    ChatEnd = 1
    InstallRequests = {q1, q2}
    Disks = {sda, sdb, nvme}
    Roomy = {sda, sdb}
    BootDisk = sda
    ImageChunks = 2
    MaxInstalls = 2
    MaxDiskFaults = 2
    dA = dA
    dB = dB
    NumParts = 3
    NumCandidates = 2
    DataDisks = {dA, dB}
    DiskOf <- MCDiskOf
    LastPart <- MCLastPart
    DiskEnd = 2
    MaxBoots = 2
    MaxMountFaults = 2
    MaxKeys = 3
    McpSessions = {m1, m2}
    SessionLimit = 1
    McpEnd = 3
    MaxMcpCrashes = 1
    MaxKeyErrors = 1
    WifiCallers = {w1}
    Ssids = {1, 2}
    MaxNetId = 1
    MaxWifiCalls = 2
    MaxUpsets = 2
INVARIANTS
    ServicesTypeOK
    WorkersAccountedFor
    GuessesBounded
    AnswersStayTrue
    DisksKept
    DataKept
    GrowthIsSafe
    ConnectHonest
PROPERTIES
    ImplementsModelStore
    UpgradeGetsTheModel
    ChatSound
    CredentialsHold
CHECK_DEADLOCK FALSE
