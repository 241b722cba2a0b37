SPECIFICATION Spec
CONSTANTS
  Threads = {t1, t2, t3, t4}
  Main = Main
  m1 = m1
  m2 = m2
  Mutexes = {m1, m2}
  Conds = {}
  Recursive = {m2}
  CountMod = 4
  NULL = NULL
  MaxDepth = 3
  LockAfter <- AnyOrder
  DetachLive = FALSE
SYMMETRY Symmetry
INVARIANTS IInv MutualExclusion NoThreadLost NoDanglingThread WaitersHaveAnOwner CountIsDepth
PROPERTIES OnlyTheOwnerReleases ImplementsMonitor
