\* The entrypoint and two processes; a channel of one signal, which drops the others.
CONSTANTS
  Proc = {m, a, b}
  Main = m
  Cap = 1
SPECIFICATION Spec
CHECK_DEADLOCK FALSE
INVARIANTS
  TypeOK
  NoLostWakeup
  MainNoticed
  TreeEmptyAtReboot
PROPERTIES
  SupervisorProgresses
