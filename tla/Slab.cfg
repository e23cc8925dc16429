SPECIFICATION Spec
CONSTANTS
  Threads = {t1, t2}
  Slabs = {p1, p2, p3}
  ObjPerSlab = 2
  NULL = NULL
  Preemptible = FALSE
INVARIANTS
  ObjectsConserved
  InuseExact
  PartialExact
  FailsOnlyWhenExhausted
