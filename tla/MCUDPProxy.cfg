\* One local client and one foreign one, two sessions, tunnels of two writes.
\* CHECK_DEADLOCK is off: a closed proxy stops.
CONSTANTS
  Addr = {a1, a2}
  Foreign = {a2}
  Empty = {1}
  MaxSess = 2
  MaxIn = 2
  MaxOut = 1
  Cap = 2
SPECIFICATION Spec
CHECK_DEADLOCK FALSE
INVARIANTS
  TypeOK
  NoTunnelLeaks
  DatagramsWhole
PROPERTIES
  OnlyDeadOrIdleClosed
  LoopReturns
  SessionsEnd
