SPECIFICATION Spec
CONSTANTS
  s1 = s1  s2 = s2  c1 = c1  c2 = c2
  Sessions = {s1, s2}
  Requests = {c1, c2}
  RunIds = {}
  NoRun = NoRun
  Sizes = {1}
  Policies = {"enqueue_if_busy", "enqueue_coalescing", "supersede_session"}
  Capacity = 2
  MaxQueueBytes = 3
  MaxRequestBytes = 2
  MaxCount = 3
  MaxBytes = 3
  AckLimit = 1
  MaxSequence = 3
SYMMETRY SessionSymmetry
INVARIANTS
  TypeOK
  Accounted
  RetryFindsItsRun
  AcceptanceOrder
PROPERTIES
  BudgetExact
CHECK_DEADLOCK FALSE
