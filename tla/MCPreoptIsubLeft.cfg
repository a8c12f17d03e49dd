CONSTANTS
  W = 3
  ImmW = 6
  x = x
  Params = {x}
  NumBlocks = 1
  Functions <- MCFunctions

SPECIFICATION Spec

\* do_preopt returns once it has examined the last block.
CHECK_DEADLOCK FALSE

INVARIANT
  IsubOfConstantFolded
