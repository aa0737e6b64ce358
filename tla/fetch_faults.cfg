SPECIFICATION Spec
CONSTANTS
    Defs = {d1, d2}
    Requests = {q1, q2}
    Routed = {q1}
    Workers = {w1, w2}
    RunIds = {r1, r2}
    Operators = {}
    MaxDay = 2
    MaxFaults = 1
    None = None
SYMMETRY Symmetry
INVARIANTS
    TypeOK
    AnswerMatchesRequest
    BilledAtMostOncePerSlot
    LedgerWithinCalls
    FreshSuccessIsBilled
    FreshSuccessIsIngested
CHECK_DEADLOCK FALSE
