--------------------------- MODULE MCMemberships ---------------------------
(* Instances of Memberships for TLC. *)
EXTENDS Memberships, TLC

CONSTANTS r1, r2, r3, u1, u2, u3, i1, i2

OwnerOperations == {"delete_account", "remove"}

Symmetry == Permutations(Requests) \cup Permutations(Users)

=============================================================================
