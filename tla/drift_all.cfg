SPECIFICATION Spec
CONSTANTS
    Requests = {r1, r2}
    MaxRevision = 2
    Nobody = nobody
    RunIds = {i1, i2}
    Stored = {i1}
    Candidates = {c1}
    MaxDecisions = 1
    NoRun = noRun
    Keys = {k1}
    Artifacts = {a1}
    MaxAnalyses = 3
    MAX_HISTORY = 3
    NoKey = noKey
 
PROPERTIES AcceptedAsDecided HistoryKept Answered
CHECK_DEADLOCK FALSE
