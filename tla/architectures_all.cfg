SPECIFICATION FairSpec
CONSTANTS
    r1 = r1  r2 = r2  r3 = r3  a1 = a1  a2 = a2  n1 = n1  n2 = n2  x = x  y = y
    Requests = {r1, r2}
    ArchitectureIds = {a1, a2}
    Seeded = {a1}
    Nodes = {n1, n2}
    Names = {x, y}
    Operations <- AllOps
    Nobody = Nobody
INVARIANTS HistoryIntact AnsweredRevisions
PROPERTIES ArchiveFreezes ProjectFreezes  ImplementsRevisionLog
