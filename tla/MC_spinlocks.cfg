\* Two processors, each with a thread and a handler, three locks deep.
SPECIFICATION FairSpec
CONSTANTS
  CPU = {c1, c2}
  NoCPU = none
  MaxNesting = 3
INVARIANTS
  MutualExclusion
  NotInterruptedWhileHolding
  LeavesAsFound
  UnlockVerifies
PROPERTIES
  FreeLockIsTaken
