SPECIFICATION Spec
CONSTANTS
    Requests = {r1, r2}
    MaxRevision = 2
    Nobody = nobody
    DecisionIds = {d1, d2, d3}
    Drafted = {d1, d2}
    Options = {o1, o2}
    Unacceptable = {o2}
    Baseline = 1
    NoOption = noOption
    NoDecision = noDecision
    PlanIds = {p1}
    MaxVersions = 2
    MaxModels = 2
    NoPlan = noPlan
    Analyzed = {"capacity", "cost", "reliability", "security", "observability", "simulation",
                "evolution", "validation"}
    MaxAnalyses = 3
    Found = 2
    MaxTime = 1
    PageSize = 1
    USABLE_LOOKBACK = 2
INVARIANTS  PlansSound ListingExact EvidenceHolds
PROPERTIES PlansKept StoredWhileActive
CHECK_DEADLOCK FALSE
