\* Two worker threads beside main and idle: the lock can have two waiters, the
\* sleep list three entries.  No symmetry: liveness needs every behaviour.
CONSTANTS
  Boot = main
  Idle = idle
  Thread = {main, idle, a, b}
  Mutex = {fs_lock}
  None = None
  MaxSleep = 3
SPECIFICATION FairSpec
INVARIANTS OnOneList NoLostThread NoDanglingThread
PROPERTIES RoundRobin ReadyRuns MutexIsFifoLock
