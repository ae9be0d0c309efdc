--------------------------- MODULE MCRequirements ---------------------------
(* Instances of Requirements for TLC. *)
EXTENDS Requirements, TLC

CONSTANTS r1, r2, r3, i1, i2, i3, c1, c2, k1, k2

=============================================================================
