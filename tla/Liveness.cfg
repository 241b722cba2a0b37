SPECIFICATION CondFairSpec
CONSTANTS
  Threads = {t1, t2, t3}
  Main = Main
  m1 = m1
  m2 = m2
  Mutexes = {m1, m2}
  Conds = {c1}
  Recursive = {}
  CountMod = 4
  NULL = NULL
  MaxDepth = 1
  LockAfter <- OrderedM1M2
  DetachLive = FALSE
  HoldToSignal = TRUE
  HeldAsleep <- NothingElse
  OneSleeper = TRUE
PROPERTIES ReadyThreadsRun WaitersAreServed
