CONSTANTS
    Ctx = {c1, c2, c3}
    NoCtx = NoCtx
    Launcher = {l1, l2}
    ServiceName = {1}
    NamedHandle = {}
    DEFAULT_SLOT_SIZE = 2
    HANDLE_MASK = 7
    Harbor = 8
SPECIFICATION HandlesSpec
INVARIANT HandleAsserts
CHECK_DEADLOCK FALSE
