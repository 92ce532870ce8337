CONSTANTS
  host = host
  card = card
  disk = disk
  keypad = keypad
  NoDevice = NoDevice
  Device = {host, card, disk, keypad}
  Parent <- MCParent
  MaxCycle = 2
SPECIFICATION Spec
INVARIANTS CallbacksPaired NoneLeftBehind AsleepAllOff ChildrenFirst OrderKept
