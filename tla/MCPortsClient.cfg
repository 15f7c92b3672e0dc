\* One container with two listens of one port, two watcher slots.
\* CHECK_DEADLOCK is off: a killed client stops.
CONSTANTS
  l1 = l1
  l2 = l2
  p1 = p1
  Container = {c1}
  Listen = {l1, l2}
  Port = {p1}
  PortOf <- SamePort
  W = {w1, w2}
  OutBuf = 1
  MaxStream = 1
  MaxHeld = 1
SYMMETRY Symmetry
SPECIFICATION SafetySpec
CHECK_DEADLOCK FALSE
INVARIANTS
  TypeOK
  CountsMatch
  ConsumerInStep
  ChangesAreNews
