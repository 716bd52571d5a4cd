CONSTANTS
  Producers = {p1, p2}
  Consumers = {c1, c2}
  Controllers = {k1}
  Sizes = {1, 2}
  InitialSize = 1
SPECIFICATION Spec
CHECK_DEADLOCK FALSE
INVARIANTS WaitersCounted NoLostWakeup CapacityBound
PROPERTIES ClosedRefusesItems Progress
