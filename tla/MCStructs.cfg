CONSTANTS
    Service = {h1, h2}
    Msg = {m1}
    Boot = {h1}
    MaxQueued = 2
    Ctx = {c1, c2, c3}
    NoCtx = NoCtx
    Launcher = {l1, l2}
    ServiceName = {1, 2, 3}
    NamedHandle = {4, 5, 6}
    DEFAULT_SLOT_SIZE = 2
    HANDLE_MASK = 3
    Harbor = 4
    TIME_NEAR_SHIFT = 1
    TIME_LEVEL_SHIFT = 1
    TimerNode = {x1, x2}
    MaxDiff = 2
    Piece <- MCPiece
    Sep <- MCSep
    MaxBytes = 4
    PoolBase = 1
    LARGE_PAGE_NODE = 4
    ReadSize = {1, 2}
    buffer_limit = 3
    NObj = 3
    Root = {1, 2}
    Heaps <- MCHeaps
    MaxOps = 2
    MaxFin = 1
    GCSWEEPMAX = 1
    TreeNode = {1, 2, 3, 4, 5, 6, 7, 8, 9}
    HeapNode = {1, 2, 3, 4, 5}
    PhKey <- MCPhKey
    NBits = 7
    GroupBits = 2
    CkhKey = {1, 2, 3, 4, 5, 6}
    CkhHash <- MCCkhHash
    CkhCells = 2
    CkhMinLg = 1
    CkhMaxLg = 3
    RtThread = {1, 2}
    RtKey = {2, 20, 22}
    RtWidth = 6
    RtUsed = 5
    RTREE_BITS_PER_LEVEL = 2
SPECIFICATION MCSpec
INVARIANTS
    QueuesKept
    TimersFire
    SocketReads
    CollectsGarbage
    ContainersKept
PROPERTIES
    HandlesServe
CHECK_DEADLOCK FALSE
