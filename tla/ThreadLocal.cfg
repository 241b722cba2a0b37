SPECIFICATION ThreadLocalSpec
CONSTANTS
  Threads = {t1, t2}
  Storages = {s1, s2}
  Data = {d1, d2, d3}
  Values = {v1, v2}
  Unset = Unset
  NULL = NULL
  Disciplined = TRUE
INVARIANTS ThreadLocalInv
PROPERTIES ActsAsTable
SYMMETRY DataSymmetry
