SPECIFICATION PausedSpec
CONSTANTS
  Objects = {obj1, obj2, obj3}
  Symbols = {}
  o1 = obj1
  o2 = obj2
  o3 = obj3
  Null = null
  Roots = roots
  Slots = 2
  Threads = 1
  Stack = 1
  MaxOps = 1
  Listed = 1
SYMMETRY Symmetry
INVARIANT FiveWaitsSuffice
INVARIANT ScannedOnce
