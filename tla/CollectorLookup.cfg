SPECIFICATION Spec
CONSTANTS
  Objects = {obj1, obj2}
  Symbols = {obj1}
  o1 = obj1
  o2 = obj2
  o3 = obj3
  Null = null
  Roots = roots
  Slots = 1
  Threads = 1
  Stack = 2
  MaxOps = 4
  Listed = 2
INVARIANT QueuedAlive
