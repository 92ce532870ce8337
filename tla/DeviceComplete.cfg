CONSTANTS
  host = host
  card = card
  disk = disk
  keypad = keypad
  NoDevice = NoDevice
  Device = {host, card, disk, keypad}
  Parent <- MCParent
  MaxCycle = 1
SPECIFICATION Spec
INVARIANT DepthFirst
