CONSTANTS
  Callers = {p1, p2}
  Routines = {r1, r2, r3}
  Tasks = {t1, t2, t3, t4}
  Options <- MCOptions
  Users = {u1, u2}
  Calls = {c1, c2, c3}
  GoTimers = {x1, x2, x3}
  Repeats = {TRUE, FALSE}
  None = None
  Nil = Nil
  Parts = {"pool", "timer"}
SPECIFICATION MCSpec
INVARIANTS RoutinesUsed TaskOnce CallbacksExclusive
PROPERTIES PoolProgress CancelStops TimerFires
CHECK_DEADLOCK FALSE
