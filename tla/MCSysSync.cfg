SPECIFICATION MCSpec
CONSTANTS
  Threads = {t1, t2, t3}
  Rechecks = TRUE
  Producers = {p1, p2}
  Consumers = {c1, c2}
  Timed = {c2}
  NotifyAll = {p2}
  Unparkers = {u1, u2, u3}
  Callers = {k1, k2}
  Waiters = {w1}
  Nobody = nobody
INVARIANTS
  AllTyped
  SleepersCovered
  SleepersWoken
  NoLostNotify
  NodesLive
PROPERTIES
  ImplementsLock
  LockProgress
  ImplementsPark
  UnparkWakes
  ImplementsOnce
  AllReturn
CHECK_DEADLOCK FALSE
