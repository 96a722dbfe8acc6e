CONSTANTS
  Capacity = 2
  Intervals = {1, 2}
  Asked = {1, 3}
  MaxCount = 2
  Frame = 2
  Grace = 1
  Late = 4
  Slow = 1
SPECIFICATION FairSpec
INVARIANT ScheduleExact
PROPERTIES ServedOnTime WaitsEnd
CHECK_DEADLOCK FALSE
