CONSTANTS
  W = 2
  ImmW = 4
  x = x
  y = y
  Params = {x, y}
  NumBlocks = 3
  Functions <- MCFunctions

SPECIFICATION Spec

\* do_preopt returns once it has examined the last block.
CHECK_DEADLOCK FALSE

INVARIANTS
  CfgMatchesLayout
  ExitsPreserved
