CONSTANTS
    p1 = p1
    p2 = p2
    text = text
    Prompts = {p1, p2}
    TextOf <- MCTextOf
    Providers = {openai}
    Toggles = {toggle}
    Deletes = {delete}
    Executions = {worker1, worker2}
    MaxTriggers = 1
    MaxFaults = 1
    None = None
SPECIFICATION FairSpec
CONSTRAINT FirstIsDeleted
INVARIANTS
    TypeOK
    OrphansAreRaces
    OneWastedCall
PROPERTY OrphansGoQuiet
