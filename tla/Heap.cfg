SPECIFICATION HeapSpec
CONSTANTS
  HeapBlocks = 6
  KMEM_BLOCK_SIZE = 4
  HeaderSize = 1
  SizeMod = 32
  NULL = NULL
  Requests = {3, 4}
  ThreadSize = 1
  StackSize = 4
  TdataSize = 2
  Disciplined = TRUE
INVARIANTS Partition FirstFit LargeEnough
PROPERTIES SizeIsKept
