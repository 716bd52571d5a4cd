CONSTANTS
  Posters = {p1, p2}
  Runners = {r1}
  Priorities <- MCPriorities
  PriorityCount = 2
  Sizes = {1, 2}
  MaxEvents = 3
  Nil = Nil
SPECIFICATION FairSpec
INVARIANTS QueueExact NoLostWakeup
PROPERTIES ServedInOrder CloseDrains
CHECK_DEADLOCK FALSE
