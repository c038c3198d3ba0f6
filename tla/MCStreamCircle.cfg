SPECIFICATION Spec
CONSTANTS
  Thread = {t1, t2}
  Stream = {s1, s2}
  Nobody = Nobody
  None = None
  Fds = {}
INVARIANTS
  NoCircle
SYMMETRY Symmetry
CHECK_DEADLOCK FALSE
