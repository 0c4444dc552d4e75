SPECIFICATION Spec
CONSTANTS
  t1 = t1
  t2 = t2
  Tabs <- MCTabs
  Habits <- MCHabits
  MaxToken = 3
  FailLimit = 1
  MaxEvents = 1
CHECK_DEADLOCK FALSE
INVARIANTS OneLiveTokenPerLogin NoSelfReuse WaitersHaveRefresh
