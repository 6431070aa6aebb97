CONSTANTS
  Threads = {t1, t2}
  Contexts = {c1, c2, c3}
  None = None
  Programs <- MCPrograms
  ExitCodes = {"exit 0", "exit 1"}
SPECIFICATION Spec
INVARIANTS TypeOK SingletonRegistered CleanedUp ReturnedInitialized
PROPERTY LockReleased
CHECK_DEADLOCK FALSE
