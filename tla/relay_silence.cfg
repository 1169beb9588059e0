SPECIFICATION Spec
CONSTANTS
  Last = 3
  Threads = {t1}
  Budgets <- Silences
  BufferSize = 1
INVARIANTS SuspensionIsSurvived
CHECK_DEADLOCK FALSE
