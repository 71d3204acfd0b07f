\* A synchronous unicast, as in capture_stack_trace, beside two broadcasts.
SPECIFICATION Spec
CONSTANTS
  NumCPU = 3
  PoolSize = 2
  MaxCalls = 1
  Kinds = {"flush", "sync"}
  MayHalt = FALSE
INVARIANTS
  ExclusiveOwnership
