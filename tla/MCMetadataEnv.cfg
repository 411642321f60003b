CONSTANTS
    GracePeriod = 3
    PollInterval = 2
    MaxLines = 2
    PipeSize = 2
    MaxWrites = 4
    Addrs <- MCAddrs
    c1 = c1
    c2 = c2
    VCpus <- MCVCpus
    Ballooned = {2}
    PageSize = 2
    Regions <- MCRegions
    MemSize = 4
    None = None
    Zero = Zero
    Documents <- MCDocuments
    MiB = 4
    MaxU64 = 9
    MaxDocs = 2
    Helpers = {{"metadata"}}
    Bodies <- MCBodies
    Names = {"s"}
    h1 = h1
    h2 = h2
    Clients <- MCClients
    Pushes <- MCPushes
    Links = {l1, l2}
    ValidKeys = {"A", "B"}
    MaxRequests = 2
    Responses <- MCResponses
    ChunkSize = 3
    MaxHeader = 5
SPECIFICATION Spec
CHECK_DEADLOCK FALSE
PROPERTY EnvKeepsOtherKeys
