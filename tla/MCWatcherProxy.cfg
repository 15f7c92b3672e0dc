\* One peer whose proxy for a listen is started and closed while scans run.
CONSTANTS
  Listen = {l1}
  Peer = {p1}
  Sub = {s1}
  BufSize = 2
SPECIFICATION Spec
PROPERTY NeverReadvertised
