\* Two pieces from the client, two from the service, connections of two pieces.
\* CHECK_DEADLOCK is off: a connection that has ended stops.
CONSTANTS
  MaxUp = 2
  MaxDown = 2
  Cap = 2
SPECIFICATION Spec
CHECK_DEADLOCK FALSE
INVARIANTS
  TypeOK
  Faithful
PROPERTIES
  EndsTogether
  DeliveredToReader
