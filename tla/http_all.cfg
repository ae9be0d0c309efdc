SPECIFICATION Spec
CONSTANTS
 None = None
 Requests = {q1, q2}
 Probed = {"login"}
 MAX_CHANGES = 3
 MAX_WITHDRAWN = 1
 Mixed = FALSE
 Pauses = {3}
SYMMETRY Symmetry
INVARIANTS  AdmittedWithinLimits
