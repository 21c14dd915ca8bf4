CONSTANTS
    Values = {2, 3, 4, 7, 10}
    MaxHand = 8
    GameTimes = 4
    Lianzhong = TRUE
    TestZhuang = 0
    Letters <- MCLetters
    Subjects <- MCSubjects
    MaxCalls = 3
    MAXBACK = 20
    MAXRULES = 4
    MAXBEHIND = 2
    MAXOFF = 3
    Fuel = 200
    SEG = 4
    RUN = 2
    ENCODE_BUFFERSIZE = 20
    ENCODE_MAXSIZE = 320
    ENCODE_DEEPLEVEL = 3
    Schema <- MCSchema
    Objects <- MCObjects
    NextObjects <- MCNextObjects
    Reader <- MCReader
    PackBits = {0, 1, 3, 4, 7, 8, 9, 11, 12}
    CHUNK_SIZE = 32
    PoolSizes = {1, 8, 12, 24, 32, 40}
    PoolCalls = 4
    MAX_COOKIE = 4
    BLOCK_SIZE = 5
    SERI_DEPTH = 2
    Messages <- MCMessages
    MULTI_PART = 3
    Calls <- MCCalls
    Documents <- MCDocuments
    BSON_DEPTH = 2
    Replacement <- MCReplacement
    DES_BLOCK = 3
    TextBytes = {0, 128, 255}
    TextLength = 5
    U = 4
    DH_P = 61
    DH_G = 2
    DH_MOD = 64
SPECIFICATION AlgoSpec
INVARIANTS
    WinsOnlySplit
    ZeroSum
    StreakIsOnePlayers
    PatternsMatch
    RoundTrips
    RequestsServed
CHECK_DEADLOCK FALSE
