\* Four images that contradict each other.
\* CHECK_DEADLOCK stays on: a stopped container can be started.
CONSTANTS
  a = a
  b = b
  c = c
  d = d
  Peel = "peel"
  Cut = "cut"
  ByPeel = "bypeel"
  Path <- Paths
  Content <- Contents
  Image = {a, b, c, d}
  Entries <- Images
  MaxLinks = 3
SPECIFICATION Spec
INVARIANTS
  TypeOK
  EntrypointReady
  PeelSurvives
  NoNeedlessPull
