SPECIFICATION SerpFairSpec
CONSTANTS
    Defs = {d1}
    Requests = {q1}
    Routed = {q1}
    Workers = {w1, w2}
    RunIds = {r1, r2}
    Operators = {o1}
    MaxDay = 1
    MaxFaults = 0
    None = None
    Keywords = {k1, k2}
    Hits = {h1, h2, h3}
    Promotes = {p1}
    Dismisses = {x1}
    MaxSuggestionFaults = 1
    NoSuggestion = NoSuggestion
INVARIANTS
    CacheHitIsFree
    SuggestionTypeOK
    TallyIsEarned
PROPERTIES
    RunsFinish
    ContractSpec
    PromotedIsTracked
    LifecycleSpec
CHECK_DEADLOCK FALSE
