CONSTANTS
  User = {u1, u2}
  Kthread = {k1, k2}
SPECIFICATION SeqFairSpec
INVARIANTS KernelThreadsLast NobodyLeftFrozen BackToNormal NoTaskWithoutDevices
PROPERTY TasksThawed
