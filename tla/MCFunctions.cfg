\* Every combination of the inputs that MCFunctions defines.
\* CHECK_DEADLOCK is off: a state is one input.
CONSTANTS
  Width = 2
  Value <- Values
  DefaultPath <- BinOnly
  EnvEntry <- SomeEntries
  Env <- Envs
  Commands <- SomeCommands
  Tree <- Trees
  UserSpec <- Specs
  File <- Files
  Socket <- Sockets
  Container <- Pairs
  Client <- Clients
  Dst <- Dsts
SPECIFICATION Spec
CHECK_DEADLOCK FALSE
INVARIANTS
  CommandAsConfigured
  IdsAsAsked
  ScanIsExact
  ForwardedToService
