\* One container with one listen, two watcher slots: liveness.
\* CHECK_DEADLOCK is off: a killed client stops.
CONSTANTS
  l1 = l1
  l2 = l2
  p1 = p1
  Container = {c1}
  Listen = {l1}
  Port = {p1}
  PortOf <- OnePort
  W = {w1, w2}
  OutBuf = 1
  MaxStream = 1
  MaxHeld = 1
SPECIFICATION Spec
CHECK_DEADLOCK FALSE
PROPERTIES
  KillTerminates
  SnapshotIsSent
