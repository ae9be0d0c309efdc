SPECIFICATION FairSpec
CONSTANTS
    r1 = r1  r2 = r2  r3 = r3  i1 = i1  i2 = i2  i3 = i3
    c1 = c1  c2 = c2  k1 = k1  k2 = k2
    Requests = {r1, r2}
    RequirementIds = {i1, i2, i3}
    Seeded = {i1}
    Contents = {c1, c2}
    Candidates = {k1}
    Operations <- AllOps
    Nobody = Nobody
INVARIANTS RegisterSound AcceptedUpdatesKept
PROPERTIES SetsPinCurrent EveryRequestAnswered
