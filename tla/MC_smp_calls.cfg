\* Two processors send each other callbacks through a pool of one message; either may halt the machine.
SPECIFICATION FairSpec
CONSTANTS
  NumCPU = 2
  PoolSize = 1
  MaxCalls = 2
  Kinds = {"sync", "async"}
  MayHalt = TRUE
INVARIANTS
  NoMessageLeaked
PROPERTIES
  CallsReturn
  HaltStopsAll
CHECK_DEADLOCK FALSE
