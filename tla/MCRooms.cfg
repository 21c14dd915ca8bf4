CONSTANTS
    a = a
    b = b
    a1 = a1
    a2 = a2
    b1 = b1
    r1 = r1
    None = None
    Pid = {a, b}
    Agent = {a1, a2, b1}
    Room = {r1}
    PidOf <- MCPidOf
    Leavers = {a1}
    MaxSeats = 1
    Ops = {"join", "rejoin"}
SPECIFICATION MCSpec
INVARIANTS
    SeatsKept
PROPERTIES
    DeclineEndsVote
    RequestsEndLive
CHECK_DEADLOCK FALSE
