SPECIFICATION Spec
CONSTANTS
  Threads = {t1, t2, t3}
  NoThread = NoThread
  Value = 0
  MaxCount = 2
  Pointers = {8, 16}
CHECK_DEADLOCK FALSE
INVARIANTS NoLostUnlock NoLostPost
PROPERTIES
  ImplementsMutex ImplementsSemaphore ImplementsPublishOnce CallersGoOn
