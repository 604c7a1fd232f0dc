\* Three threads: any of them allocate, or one allocates and all free.
SPECIFICATION FairSpec
CONSTANTS
  Threads = {t1, t2, t3}
  Size = 3
  Clients <- SafeClients
INVARIANTS OneOwner ServedOnce
PROPERTIES RunsOut SpinEnds
