SPECIFICATION Spec
CONSTANTS
    r1 = r1  r2 = r2  r3 = r3  p1 = p1  p2 = p2  s1 = s1  s2 = s2
    l1 = l1  l2 = l2  l3 = l3  l4 = l4
    Requests = {r1, r2}
    Passwords = {p1, p2}
    SessionIds = {s1, s2}
    Links = {l1}
    VerifyLinks = {}
    MaxSecrets = 4
    Operations <- PasswordOperations
    Nobody = Nobody
INVARIANTS OldPasswordSignedOut
