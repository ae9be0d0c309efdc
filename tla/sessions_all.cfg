SPECIFICATION FairSpec
CONSTANTS
    r1 = r1  r2 = r2  r3 = r3  p1 = p1  p2 = p2  s1 = s1  s2 = s2
    l1 = l1  l2 = l2  l3 = l3  l4 = l4
    Requests = {r1, r2}
    Passwords = {p1, p2}
    SessionIds = {s1, s2}
    Links = {l1, l2, l3, l4}
    VerifyLinks = {l3, l4}
    MaxSecrets = 4
    Operations <- AllOps
    Nobody = Nobody
INVARIANTS ExchangedOnce OneLinkOutstanding
PROPERTIES EndedForGood EveryRequestAnswered
