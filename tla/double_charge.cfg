SPECIFICATION Spec
CONSTANTS
    Defs = {d1, d2}
    Requests = {q1}
    Routed = {q1}
    Workers = {w1, w2}
    RunIds = {r1, r2}
    Operators = {}
    MaxDay = 1
    MaxFaults = 0
    None = None
INVARIANT
    NoDoubleCharge
CHECK_DEADLOCK FALSE
