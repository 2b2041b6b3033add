\* Three threads take the mutexes of one manager and of two of its clients.
SPECIFICATION Spec
CONSTANTS
  Threads = {t1, t2, t3}
  Sids = {c1, c2}
SYMMETRY Symmetry
INVARIANTS
  NoDeadlock
