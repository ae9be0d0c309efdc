SPECIFICATION FairSpec
CONSTANTS
    r1 = r1  r2 = r2  r3 = r3  u1 = u1  u2 = u2  u3 = u3  i1 = i1  i2 = i2
    Requests = {r1, r2}
    Users = {u1, u2}
    Organizations = {1, 2, 3}
    Founded = {1, 2}
    Invitations = {i1, i2}
    Sent = {i1}
    Roles = {"owner", "admin", "viewer"}
    Operations <- AllOps
    Nobody = Nobody
INVARIANT OnlyAcceptDeadlocks
PROPERTIES OwnerGoesWithAccount InvitationUsedOnce ChangedByRight EveryRequestAnswered
