CONSTANTS
  Bytes = {1}
  SrcLocs = {5}
  FuncIndices = {3}
  TrapCodes = {2}
  Syms = {4}
  FrameSizes = {8}
  MaxLen = 2
  NumFuncs = 2
  MinCap = 1
  ModuleBytes <- MCModuleBytes
  FuncRanges <- MCFuncRanges
  Bodies <- MCBodies
  Null = Null
  Dangling = Dangling
  Uninit = Uninit
SPECIFICATION Spec
CHECK_DEADLOCK FALSE
INVARIANTS
  TypeOK
PROPERTIES
  ImplementsHandoff
