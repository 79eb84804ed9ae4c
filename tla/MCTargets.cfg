SPECIFICATION Spec
CONSTANTS
  Functions <- MCFunctions
  MaxLabels = 128
  Capacity = 16384
  Memory <- Granted
  Outcomes <- MCOutcomes
  alloc_obj_helper <- AllocAt
  popcnt_fn <- PopcntAt
  VFuel = 12
  Fuel = 200
  ChunkAt <- MCChunkAt
  EmptyAt <- MCEmptyAt
  StringLen <- MCStringLen
  StringHash <- MCStringHash
INVARIANTS
  SlotsAgree
  CallerRestored
  BlocksStay
  SameTrace
