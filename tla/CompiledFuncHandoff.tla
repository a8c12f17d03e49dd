------------------------- MODULE CompiledFuncHandoff -------------------------
(***************************************************************************)
(* What the Rust side of the Baldr API promises the C++ side, with no     *)
(* pointers: functions are compiled one at a time into `pending` (its     *)
(* metadata as a sequence of events, its machine code, its frame size,   *)
(* whether it makes calls, and the wasm body it was compiled from, which  *)
(* is the i-th body of the batch for the i-th function); publishing hands *)
(* a copy of it to C++, which reads exactly that copy until the next      *)
(* function is started.                                                   *)
(*                                                                         *)
(* An event is a record [kind, offset, loc, arg]; a field the kind does   *)
(* not carry (the argument of an indirect call or a memory access, the    *)
(* source location of a symbolic access) is 0.                           *)
(***************************************************************************)
EXTENDS Naturals, Sequences

CONSTANTS
  Bytes,         \* values of a byte of machine code
  SrcLocs,       \* wasm bytecode offsets (SourceLoc::bits)
  FuncIndices,   \* callee indices of direct calls
  TrapCodes,     \* discriminants of Trap
  Syms,          \* discriminants of BD_SymbolicAddress
  FrameSizes,    \* frame sizes the compiler may report
  MaxLen,        \* the most metadata entries and code bytes per function
  NumFuncs,      \* the number of functions compiled in a batch
  Bodies,        \* Bodies[i]: the wasm bytecode of the i-th function
  None           \* no function handed over

Kinds == {"DirectCall", "IndirectCall", "Trap", "MemoryAccess", "SymbolicAccess"}

\* The events a function may record at a code offset in 0 .. n.
Events(n) ==
  LET offs == 0 .. n IN
       [kind : {"DirectCall"}, offset : offs, loc : SrcLocs, arg : FuncIndices]
  \cup [kind : {"IndirectCall", "MemoryAccess"}, offset : offs, loc : SrcLocs, arg : {0}]
  \cup [kind : {"Trap"}, offset : offs, loc : SrcLocs, arg : TrapCodes]
  \cup [kind : {"SymbolicAccess"}, offset : offs, loc : {0}, arg : Syms]

EmptyFunc(src) == [source |-> src, metadata |-> <<>>, code |-> <<>>, frame |-> 0, calls |-> FALSE]

VARIABLES pending, published, compiled

vars == <<pending, published, compiled>>

Init ==
  /\ pending = EmptyFunc(<<>>)
  /\ published = None
  /\ compiled = 0

StartFunction ==
  /\ published = None
  /\ compiled < NumFuncs
  /\ pending' = EmptyFunc(Bodies[compiled + 1])
  /\ UNCHANGED <<published, compiled>>

AddCode ==
  /\ Len(pending.code) < MaxLen
  /\ \E b \in Bytes : pending' = [pending EXCEPT !.code = Append(@, b)]
  /\ UNCHANGED <<published, compiled>>

AddMetadata ==
  /\ Len(pending.metadata) < MaxLen
  /\ \E ev \in Events(Len(pending.code)) :
       pending' = [pending EXCEPT !.metadata = Append(@, ev)]
  /\ UNCHANGED <<published, compiled>>

SetFrame ==
  /\ \E fp \in FrameSizes, calls \in BOOLEAN :
       pending' = [pending EXCEPT !.frame = fp, !.calls = calls]
  /\ UNCHANGED <<published, compiled>>

Publish ==
  /\ published = None
  /\ published' = pending
  /\ UNCHANGED <<pending, compiled>>

\* The C++ side is done with the published function.
Consume ==
  /\ published # None
  /\ published' = None
  /\ compiled' = compiled + 1
  /\ UNCHANGED pending

Next == StartFunction \/ AddCode \/ AddMetadata \/ SetFrame \/ Publish \/ Consume

Spec == Init /\ [][Next]_vars
=============================================================================
