SPECIFICATION PromptSpec
CONSTANTS
  Objects = {obj1, obj2}
  Symbols = {obj1}
  o1 = obj1
  o2 = obj2
  o3 = obj3
  Null = null
  Roots = roots
  Slots = 1
  Threads = 2
  Stack = 1
  MaxOps = 3
  Listed = 2
INVARIANT ReachableAlive
INVARIANT QueuedAlive

