\* One listen, two peers and one subscriber, channels of two events.
CONSTANTS
  Listen = {l1}
  Peer = {p1, p2}
  Sub = {s1}
  BufSize = 2
SPECIFICATION Spec
INVARIANTS
  TypeOK
  ProxiesHidden
  StreamExact
PROPERTIES
  FeedImplemented
  ViewConverges
