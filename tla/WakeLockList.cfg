CONSTANTS
  main = main
  unknown = unknown
  usb = usb
  alarm = alarm
  idle = idle
  Lock = {main, unknown, usb, alarm, idle}
  IdleLock = {idle}
  TimerLock = {alarm}
  MaxTimeout = 2
  UnknownTimeout = 1
SPECIFICATION ListSpec
INVARIANT SleepTimeCharged
PROPERTY ImplementsWakeLock
