SPECIFICATION Spec
CONSTANTS
  Thread = {t1, t2}
  Stream = {s1, s2, s3}
  Nobody = Nobody
  None = None
  Fds = {1}
INVARIANTS
  TypeOK
  NoUseAfterFree
  OneAtATime
  FlushAllFlushes
  StdUnique
  CircleIsGetline
SYMMETRY Symmetry
CHECK_DEADLOCK FALSE
