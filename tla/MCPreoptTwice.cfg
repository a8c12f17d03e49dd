CONSTANTS
  W = 2
  ImmW = 4
  x = x
  Params = {x}
  NumBlocks = 3
  Functions <- MCFunctions

SPECIFICATION TwiceSpec

\* do_preopt returns once it has examined the last block of its second run.
CHECK_DEADLOCK FALSE

PROPERTY
  SecondRunChangesNothing
