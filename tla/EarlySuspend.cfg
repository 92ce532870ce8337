CONSTANTS
  main = main
  unknown = unknown
  evdev = evdev
  Lock = {main, unknown, evdev}
  IdleLock = {}
  TimerLock = {}
  MaxTimeout = 1
  UnknownTimeout = 1
  fb = fb
  disable = disable
  Handler = {fb, disable}
  Level <- MCLevel
SPECIFICATION FbFairSpec
INVARIANTS MainReleasedOnlyDown SettledAgrees CallbacksAlternate LevelOrder AsleepAllDown DrawingStopped
PROPERTY SettlesAtLast
