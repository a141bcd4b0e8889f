CONSTANTS
  a1 = a1
  a2 = a2
  b1 = b1
  a = a
  b = b
  NoSocket = NoSocket
  Sockets = {a1, a2}
  Sessions = {a, b}
  SessionOf <- SessionOfSocket
  Tasks = {t1}
  Stored = 1
  MaxTransactions = 1
  Faults = {"api", "redis", "crash"}
  MaxFaults = 1
SPECIFICATION FairSpec
INVARIANT TypeOK
INVARIANT BroadcastIsStored
INVARIANT NoGhostUsers
INVARIANT EmptyRoomsGoAway
PROPERTY CutOffReconnects
CHECK_DEADLOCK FALSE
