SPECIFICATION Spec
CONSTANTS
    Defs = {d1, d2}
    Variants = {v1, v2}
    Crons = {c1}
    Schedules = {s1, s2}
    Patches = {}
    Deletes = {}
    Executions = {}
    Keyed = TRUE
    KeyPreserved = FALSE
    MaxFaults = 0
    None = None
INVARIANT
    VariantsDoNotCollide
CHECK_DEADLOCK FALSE
