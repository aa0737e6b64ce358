SPECIFICATION Spec
CONSTANTS
    Defs = {d1, d2}
    Variants = {v1, v2}
    Crons = {c1, c2}
    Schedules = {s1}
    Patches = {p1}
    Deletes = {x1}
    Executions = {}
    Keyed = FALSE
    KeyPreserved = TRUE
    MaxFaults = 1
    None = None
SYMMETRY Symmetry
INVARIANTS
    TypeOK
    EnabledIsScheduled
    DeletedIsUnscheduled
CHECK_DEADLOCK FALSE
