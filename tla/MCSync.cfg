CONSTANTS
    Thread = {t1, t2, t3}
    NoThread = NoThread
    MaxDepth = 2
    Locker = {l1, l2, l3}
SPECIFICATION MCSpec
INVARIANTS
    MutualExclusion
    LockExcludes
PROPERTIES
    WaiterEnters
    WriterEnters
