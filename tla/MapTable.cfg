SPECIFICATION Spec
CONSTANTS
  Threads = {t1, t2}
  None = none
  Keys = {k1, k2, k3, k4, k5}
  Values = {v1, v2}
  Null = null
  Error = error
  Hashes = {17, 18}
  Capacities <- Ranks
SYMMETRY Symmetry
VIEW View
INVARIANT TypeOK
INVARIANT Exclusive
INVARIANT GapsTrue
PROPERTY OwnerStable
PROPERTY AbstractSpec
