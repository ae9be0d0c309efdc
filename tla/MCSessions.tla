----------------------------- MODULE MCSessions -----------------------------
(* Instances of Sessions for TLC. *)
EXTENDS Sessions, TLC

CONSTANTS r1, r2, r3, p1, p2, s1, s2, l1, l2, l3, l4

PasswordOperations == {"login", "reset"}

Symmetry == Permutations(Requests)

=============================================================================
