CONSTANTS
    w1 = w1
    w2 = w2
    timer = timer
    a = a
    b = b
    c = c
    NoService = NoService
    Worker = {w1, w2}
    Outside = {timer}
    Service = {a, b, c}
    Boot = {a}
    Weight <- MCWeight
    BootMsgs = 2
    MaxMsgs = 3
SPECIFICATION MCSpec
INVARIANTS
    ContextsSafe
PROPERTIES
    QueuesUsedWell
    ServiceIsActor
    MessagesServed
    WorkersEnd
