CONSTANTS
  Broadcasts = {b1, b2}
  gpu = gpu
  fpga = fpga
  Resources <- MCResources
  MaxTasks = 3
SPECIFICATION Spec
INVARIANTS BroadcastsOfTask ContextOfTask AccumulatorsOfTask ReusedAtEndOfStream
CHECK_DEADLOCK FALSE
