\* A container that answers after the startup timeout.
\* CHECK_DEADLOCK is off: a killed client stops.
CONSTANTS
  l1 = l1
  l2 = l2
  p1 = p1
  Container = {c1}
  Listen = {l1}
  Port = {p1}
  PortOf <- OnePort
  W = {w1}
  OutBuf = 1
  MaxStream = 1
  MaxHeld = 1
SPECIFICATION SafetySpec
CHECK_DEADLOCK FALSE
INVARIANT LateStartupReported
