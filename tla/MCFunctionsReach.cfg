\* The inputs of MCFunctions, and what package.go says of reachability.
\* CHECK_DEADLOCK is off: a state is one input.
CONSTANTS
  Width = 2
  Value <- Values
  DefaultPath <- BinOnly
  EnvEntry <- SomeEntries
  Env <- Envs
  Commands <- SomeCommands
  Tree <- Trees
  UserSpec <- Specs
  File <- Files
  Socket <- Sockets
  Container <- Pairs
  Client <- Clients
  Dst <- Dsts
SPECIFICATION Spec
CHECK_DEADLOCK FALSE
INVARIANT SameReach
