CONSTANTS
  NarrowW = 4
  WideW = 8
  Imms <- MCImms
SPECIFICATION Spec
CHECK_DEADLOCK FALSE
INVARIANTS
  TypeOK
  RewritePreservesSemantics
  TrapsPreserved
  NoAssertionFailure
