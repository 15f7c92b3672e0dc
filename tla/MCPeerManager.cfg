\* One peer, one listen that the container also uses itself, two managers that
\* may overlap.
CONSTANTS
  Peer = {p1}
  Listen = {l1}
  M = {m1, m2}
  MaxStream = 1
SPECIFICATION Spec
INVARIANTS
  TypeOK
  AddressesOwned
  NoStaleProxy
  ManagersAreKnown
PROPERTIES
  ProxiesEnd
  RefusedIsRetried
