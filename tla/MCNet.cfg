CONSTANTS
    Msg = {m1, m2}
    NoMsg = NoMsg
    DEFAULT_QUEUE_SIZE = 2
    MQ_OVERLOAD = 1
    MaxLength = 4
    MAX_SOCKET = 2
    Op = {"O", "L", "S", "K", "D", "P", "U", "A", "C", "B", "T", "X"}
    MaxId = 3
    MaxReq = 5
    MaxPipe = 2
    MaxReserving = 1
    GateId = {1, 2, 3}
    max_connection = 2
    hashcap = 2
    GateBase = 4
    header_size = 2
    GateMax = 3
    Streams <- MCStreams
    watchdog = TRUE
    NetFd = {1, 2, 3}
    maxclient = 2
    QUEUESIZE = 2
    NetBase = 4
    NetStream <- MCNetStream
    Peer = {1, 2}
    GlobalName = {"g"}
    RemoteHandle = {1, 2}
    HARBOR_QUEUE_SIZE = 2
    MaxSent = 2
    Sender = {1}
    AnyId = TRUE
    PAGE = 4
    chunk_npages = 6
    map_bias = 1
    SizeClasses <- MCSizes
    NBINS = 3
    NSTEPS = 2
    NodeInd = 1
    nhbins = 4
    TCACHE_NSLOTS_SMALL_MIN = 2
    TCACHE_NSLOTS_SMALL_MAX = 4
    TCACHE_NSLOTS_LARGE = 2
    TCACHE_GC_INCR = 1
    MaxSteps = 16
    DECAY_NTICKS_PER_UPDATE = 2
    Chunks = {1, 2, 3, 4, 5}
    Arenas = {1, 2}
    HeapSettings <- MCHeapSettings
SPECIFICATION MCSpec
INVARIANTS
    GateServes
    PackagesServed
    HarborServes
    HeapKept
    CallsReturn
PROPERTIES
    RingIsFifo
    SocketsServe
CHECK_DEADLOCK FALSE
