SPECIFICATION FairSpec
CONSTANTS
  Types = {"RTC_WAKEUP", "ELAPSED_REALTIME_WAKEUP"}
  None = None
  MaxTime = 3
  AlarmTimes = {1, 3}
  WallTimes = {0, 2}
  RefusedTime = FALSE
  SlowDevices = FALSE
INVARIANT AlarmsCovered
INVARIANT LockForUser
PROPERTY WakeupDelivered
