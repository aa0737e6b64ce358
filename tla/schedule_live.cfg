SPECIFICATION FairSpec
CONSTANTS
    Defs = {d1, d2}
    Variants = {v1}
    Crons = {c1, c2}
    Schedules = {s1, s2}
    Patches = {p1}
    Deletes = {}
    Executions = {e1}
    Keyed = TRUE
    KeyPreserved = FALSE
    MaxFaults = 0
    None = None
INVARIANT
    OneSchedulePerLink
PROPERTY
    EventuallyScheduled
CHECK_DEADLOCK FALSE
