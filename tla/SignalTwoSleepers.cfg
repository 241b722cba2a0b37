SPECIFICATION CondSpec
CONSTANTS
  Threads = {t1, t2, t3, t4}
  Main = Main
  m1 = m1
  m2 = m2
  Mutexes = {m1, m2}
  Conds = {c1}
  Recursive = {m2}
  CountMod = 4
  NULL = NULL
  MaxDepth = 2
  LockAfter <- OrderedM1M2
  DetachLive = FALSE
  HoldToSignal = TRUE
  HeldAsleep <- OrderedM1M2
  OneSleeper = FALSE
SYMMETRY Symmetry
INVARIANTS MutualExclusion
