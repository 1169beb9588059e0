SPECIFICATION FairSpec
CONSTANTS
  Last = 3
  Threads = {t1}
  Budgets <- MCBudgets
  BufferSize = 1
INVARIANTS RelayIsReliable OneFarewell SocketFollowsLink
PROPERTIES LinkIsTornDown
CHECK_DEADLOCK FALSE
