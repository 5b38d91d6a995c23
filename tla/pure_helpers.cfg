CONSTANT BufSize <- MCBufSize
SPECIFICATION Spec

INVARIANTS
  MoveFollowsPolicy
  UnmountFollowsPolicy
  SparseStreamDelivered
  SparseWriterInBounds
  RequirementsGuardWrites
  CompletedQueueTookEffect
