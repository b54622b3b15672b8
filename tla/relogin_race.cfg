CONSTANTS
  Callers = {p1, p2}
  Sessions = {s1, s2, s3}
  Naming = {s1, s2, s3}
  None = None
SPECIFICATION Spec
INVARIANTS TransparentRelogin
SYMMETRY Symmetry
