-------------------------- MODULE MCArchitectures --------------------------
(* Instances of Architectures for TLC. *)
EXTENDS Architectures, TLC

CONSTANTS r1, r2, r3, a1, a2, n1, n2, x, y


=============================================================================
