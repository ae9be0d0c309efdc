SPECIFICATION Spec
CONSTANTS
    r1 = r1  r2 = r2  r3 = r3  u1 = u1  u2 = u2  u3 = u3  i1 = i1  i2 = i2
    Requests = {r1, r2}
    Users = {u1, u2, u3}
    Organizations = {1}
    Founded = {1}
    Invitations = {i1}
    Sent = {}
    Roles = {"owner", "member"}
    Operations <- OwnerOperations
    Nobody = Nobody
SYMMETRY Symmetry
INVARIANTS OwnerKept
