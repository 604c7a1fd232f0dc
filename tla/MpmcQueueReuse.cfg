\* Two threads that both allocate and free.
SPECIFICATION Spec
CONSTANTS
  Threads = {t1, t2}
  Size = 3
  Clients <- FreeingClients
INVARIANTS OneOwner
