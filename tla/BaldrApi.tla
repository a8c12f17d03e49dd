------------------------------ MODULE BaldrApi ------------------------------
(***************************************************************************)
(* The Rust half of the Baldr API (baldrapi.rs) between the Cranelift     *)
(* wasm compiler and SpiderMonkey's C++.  The compiler keeps one          *)
(* CompiledFunc and reuses it for every function of a batch: its metadata *)
(* and code are Rust Vecs.  CraneliftCompiledFunc::reset hands C++ a      *)
(* view of it: raw pointers into the two Vecs' heap buffers, their        *)
(* lengths, the frame size and whether the function makes calls.  C++    *)
(* reads the view before the next function is compiled.                   *)
(* Each function arrives as a CraneliftFuncCompileInput whose bytecode()  *)
(* is a slice of the module's bytes; a pointer into them is an offset.    *)
(*                                                                         *)
(* The heap holds two arenas, one per element type (metadata entries and  *)
(* code bytes), each a function from its live allocation ids to their     *)
(* slots; ids come from one allocator and are never reused.  A Vec        *)
(* is [buf, len, cap].  A push into a full Vec moves the contents to a    *)
(* new allocation and frees the old one, as RawVec does; clear keeps the  *)
(* buffer.  The Vec operations and the compile loop that drives reset are *)
(* not in these sources: they are modelled from the Rust standard library *)
(* and from the order BatchCompiler calls them in.                       *)
(***************************************************************************)
EXTENDS Naturals, Sequences, Functions, TLC

CONSTANTS
  Bytes, SrcLocs, FuncIndices, TrapCodes, Syms, FrameSizes, MaxLen, NumFuncs,
  ModuleBytes,  \* the wasm module's bytecode, which C++ owns
  FuncRanges,   \* FuncRanges[i]: [start, size] of the i-th function's body in it
  Bodies,       \* Bodies[i]: the bytes of the i-th function's body
  MinCap,    \* the capacity of a Vec's first allocation
  Null,      \* the null pointer the C struct starts with
  Dangling,  \* NonNull::dangling(), the buffer of a Vec that never allocated
  Uninit     \* an allocated slot not written yet

ASSUME MinCap \in Nat \ {0}

-----------------------------------------------------------------------------
(***************************************************************************)
(* CraneliftMetadataEntry and its constructors.  `which as usize` and     *)
(* `sym as usize` are the enum discriminants, which TrapCodes and Syms    *)
(* are; srcloc.bits() is the location itself.                             *)
(***************************************************************************)
MetadataEntry(which, codeOffset, moduleBytecodeOffset, extra) ==
  [which |-> which, codeOffset |-> codeOffset,
   moduleBytecodeOffset |-> moduleBytecodeOffset, extra |-> extra]

DirectCall(codeOffset, funcIndex, srcloc) ==
  MetadataEntry("DirectCall", codeOffset, srcloc, funcIndex)

IndirectCall(codeOffset, srcloc) == MetadataEntry("IndirectCall", codeOffset, srcloc, 0)

TrapEntry(codeOffset, srcloc, which) == MetadataEntry("Trap", codeOffset, srcloc, which)

MemoryAccess(codeOffset, srcloc) == MetadataEntry("MemoryAccess", codeOffset, srcloc, 0)

SymbolicAccess(codeOffset, sym) == MetadataEntry("SymbolicAccess", codeOffset, 0, sym)

\* The constructor the compiler's relocation and trap sinks call for an event.
Encode(ev) ==
  CASE ev.kind = "DirectCall"     -> DirectCall(ev.offset, ev.arg, ev.loc)
    [] ev.kind = "IndirectCall"   -> IndirectCall(ev.offset, ev.loc)
    [] ev.kind = "Trap"           -> TrapEntry(ev.offset, ev.loc, ev.arg)
    [] ev.kind = "MemoryAccess"   -> MemoryAccess(ev.offset, ev.loc)
    [] ev.kind = "SymbolicAccess" -> SymbolicAccess(ev.offset, ev.arg)

\* How the C++ side reads an entry back.
Decode(e) == [kind |-> e.which, offset |-> e.codeOffset, loc |-> e.moduleBytecodeOffset, arg |-> e.extra]

\* CraneliftFuncCompileInput::bytecode: slice::from_raw_parts(bytecode, bytecodeSize)
\* over the module's bytes (a pointer is an offset into ModuleBytes).
Bytecode(in) == SubSeq(ModuleBytes, in.bytecode + 1, in.bytecode + in.bytecodeSize)

-----------------------------------------------------------------------------
(* Vec<T> over its arena of the heap. *)
NewVec == [buf |-> Dangling, len |-> 0, cap |-> 0]

\* Mutant: a full Vec is moved to a buffer of the same capacity.
PushNoGrowth(heap, nextAlloc, v, x) ==
  IF v.len < v.cap
  THEN <<[heap EXCEPT ![v.buf][v.len + 1] = x], nextAlloc, [v EXCEPT !.len = @ + 1]>>
  ELSE LET cap == IF v.cap = 0 THEN MinCap ELSE v.cap
           moved == [i \in 1 .. cap |-> IF i <= v.len THEN heap[v.buf][i]
                                        ELSE IF i = v.len + 1 THEN x ELSE Uninit]
       IN <<[a \in (DOMAIN heap \ {v.buf}) \cup {nextAlloc} |->
               IF a = nextAlloc THEN moved ELSE heap[a]],
            nextAlloc + 1, [buf |-> nextAlloc, len |-> v.len + 1, cap |-> cap]>>

\* <<heap, nextAlloc, vec>> after vec.push(x).
Push(heap, nextAlloc, v, x) ==
  IF v.len < v.cap
  THEN <<[heap EXCEPT ![v.buf][v.len + 1] = x], nextAlloc, [v EXCEPT !.len = @ + 1]>>
  ELSE LET cap == IF v.cap = 0 THEN MinCap ELSE 2 * v.cap
           moved == [i \in 1 .. cap |-> IF i <= v.len THEN heap[v.buf][i]
                                        ELSE IF i = v.len + 1 THEN x ELSE Uninit]
       IN <<[a \in (DOMAIN heap \ {v.buf}) \cup {nextAlloc} |->
               IF a = nextAlloc THEN moved ELSE heap[a]],
            nextAlloc + 1, [buf |-> nextAlloc, len |-> v.len + 1, cap |-> cap]>>

\* The slots ptr[0 .. n - 1] as C++ reads them, if they lie in a live allocation.
Readable(heap, ptr, n) == n = 0 \/ (ptr \in DOMAIN heap /\ n <= Len(heap[ptr]))
Deref(heap, ptr, n) == [i \in 1 .. n |-> heap[ptr][i]]

-----------------------------------------------------------------------------
VARIABLES
  heap, nextAlloc,
  metadata, codeBuffer, framePushed, containsCalls,   \* the CompiledFunc
  cfunc,                                              \* the CraneliftCompiledFunc
  input,     \* the CraneliftFuncCompileInput C++ passes in
  source,    \* the body the compiler read through input.bytecode()
  phase,     \* "compiling", "finished", "published" (C++ holds the view) or "idle"
  compiled

vars == <<heap, nextAlloc, metadata, codeBuffer, framePushed, containsCalls, cfunc, input, source, phase, compiled>>

(***************************************************************************)
(* The refinement mapping: the function being compiled is what the two   *)
(* Vecs hold, decoded; the function handed over is what C++ finds behind *)
(* the view's pointers while it holds the view (Dangling if a pointer    *)
(* does not reach live memory).                                          *)
(***************************************************************************)
DecodeAll(h, ptr, n) == [i \in 1 .. n |-> Decode(h[ptr][i])]

PendingFunc ==
  [source |-> source, metadata |-> DecodeAll(heap.meta, metadata.buf, metadata.len),
   code |-> Deref(heap.code, codeBuffer.buf, codeBuffer.len),
   frame |-> framePushed, calls |-> containsCalls]

ViewReadable ==
  Readable(heap.meta, cfunc.metadatas, cfunc.numMetadata)
  /\ Readable(heap.code, cfunc.code, cfunc.codeSize)

PublishedFunc ==
  IF phase # "published" THEN Null
  ELSE IF ViewReadable
       THEN [source |-> source, metadata |-> DecodeAll(heap.meta, cfunc.metadatas, cfunc.numMetadata),
             code |-> Deref(heap.code, cfunc.code, cfunc.codeSize),
             frame |-> cfunc.framePushed, calls |-> cfunc.containsCalls]
       ELSE Dangling

Abs == INSTANCE CompiledFuncHandoff
         WITH None <- Null,
              pending <- PendingFunc, published <- PublishedFunc

CStruct(numMetadata, metadatas, fp, calls, code, codeSize) ==
  [numMetadata |-> numMetadata, metadatas |-> metadatas, framePushed |-> fp,
   containsCalls |-> calls, code |-> code, codeSize |-> codeSize]

Init ==
  /\ heap = [meta |-> <<>>, code |-> <<>>]
  /\ nextAlloc = 1
  /\ metadata = NewVec /\ codeBuffer = NewVec
  /\ framePushed = 0 /\ containsCalls = FALSE
  /\ cfunc = CStruct(0, Null, 0, FALSE, Null, 0)
  /\ input = [bytecode |-> Null, bytecodeSize |-> 0]
  /\ source = <<>>
  /\ phase = "idle"
  /\ compiled = 0

\* C++ passes the next function's input; the compiler reads its bytecode
\* and clears the CompiledFunc (CompiledFunc::reset) to compile into it.
StartFunction ==
  /\ phase = "idle"
  /\ compiled < NumFuncs
  /\ input' = [bytecode |-> FuncRanges[compiled + 1].start,
               bytecodeSize |-> FuncRanges[compiled + 1].size]
  /\ source' = Bytecode(input')
  /\ metadata' = [metadata EXCEPT !.len = 0]
  /\ codeBuffer' = [codeBuffer EXCEPT !.len = 0]
  /\ framePushed' = 0 /\ containsCalls' = FALSE
  /\ phase' = "compiling"
  /\ UNCHANGED <<heap, nextAlloc, cfunc, compiled>>

\* The code sink appends a byte.
EmitCode ==
  /\ phase = "compiling"
  /\ codeBuffer.len < MaxLen
  /\ \E b \in Bytes :
       LET r == Push(heap.code, nextAlloc, codeBuffer, b)
       IN heap' = [heap EXCEPT !.code = r[1]] /\ nextAlloc' = r[2] /\ codeBuffer' = r[3]
  /\ UNCHANGED <<metadata, framePushed, containsCalls, cfunc, input, source, phase, compiled>>

\* A relocation or trap sink records a metadata entry at an emitted offset.
EmitMetadata ==
  /\ phase = "compiling"
  /\ metadata.len < MaxLen
  /\ \E ev \in Abs!Events(codeBuffer.len) :
       LET r == Push(heap.meta, nextAlloc, metadata, Encode(ev))
       IN heap' = [heap EXCEPT !.meta = r[1]] /\ nextAlloc' = r[2] /\ metadata' = r[3]
  /\ UNCHANGED <<codeBuffer, framePushed, containsCalls, cfunc, input, source, phase, compiled>>

\* Once the code is emitted, the compiler records the frame size and calls.
SetFrame ==
  /\ phase = "compiling"
  /\ \E fp \in FrameSizes, calls \in BOOLEAN :
       framePushed' = fp /\ containsCalls' = calls
  /\ phase' = "finished"
  /\ UNCHANGED <<heap, nextAlloc, metadata, codeBuffer, cfunc, input, source, compiled>>

\* Mutant: the code size is not refreshed.
ResetKeepsCodeSize(c, f) ==
  CStruct(f.metadata.len, f.metadata.buf, f.framePushed, f.containsCalls,
          f.codeBuffer.buf, c.codeSize)

\* CraneliftCompiledFunc::reset(&mut self c, compiled_func f).
Reset(c, f) ==
  CStruct(f.metadata.len, f.metadata.buf, f.framePushed, f.containsCalls,
          f.codeBuffer.buf, f.codeBuffer.len)

\* The compiler publishes the finished function to C++.
Publish ==
  /\ phase = "finished"
  /\ cfunc' = Reset(cfunc, [metadata |-> metadata, codeBuffer |-> codeBuffer,
                            framePushed |-> framePushed, containsCalls |-> containsCalls])
  /\ phase' = "published"
  /\ UNCHANGED <<heap, nextAlloc, metadata, codeBuffer, framePushed, containsCalls, input, source, compiled>>

\* C++ copies the code and metadata out of the view and returns.
Consume ==
  /\ phase = "published"
  /\ phase' = "idle"
  /\ compiled' = compiled + 1
  /\ UNCHANGED <<heap, nextAlloc, metadata, codeBuffer, framePushed, containsCalls, cfunc, input, source>>

Next == StartFunction \/ EmitCode \/ EmitMetadata \/ SetFrame \/ Publish \/ Consume

Spec == Init /\ [][Next]_vars

-----------------------------------------------------------------------------
Pointers == {Null, Dangling} \cup Nat

\* A Vec's header agrees with its allocation in arena h.
VecOK(v, h) ==
  /\ v.len <= v.cap
  /\ v.buf = Dangling <=> v.cap = 0
  /\ v.cap > 0 => v.buf \in DOMAIN h /\ Len(h[v.buf]) = v.cap

TypeOK ==
  /\ \A a \in DOMAIN heap.meta \cup DOMAIN heap.code : a < nextAlloc
  /\ DOMAIN heap.meta \cap DOMAIN heap.code = {}
  /\ VecOK(metadata, heap.meta) /\ VecOK(codeBuffer, heap.code)
  /\ framePushed \in FrameSizes \cup {0} /\ containsCalls \in BOOLEAN
  /\ cfunc.numMetadata \in 0 .. MaxLen /\ cfunc.codeSize \in 0 .. MaxLen
  /\ cfunc.metadatas \in Pointers /\ cfunc.code \in Pointers
  /\ cfunc.framePushed \in FrameSizes \cup {0} /\ cfunc.containsCalls \in BOOLEAN
  /\ phase \in {"idle", "compiling", "finished", "published"}
  /\ input.bytecode \in {Null} \cup Nat /\ input.bytecodeSize \in Nat
  /\ compiled \in 0 .. NumFuncs

(***************************************************************************)
(* The handover implements CompiledFuncHandoff: what C++ reads behind the *)
(* view, decoded entry by entry, is exactly the function the compiler     *)
(* built (every metadata event, the code bytes, frame size, calls) from  *)
(* the body bytecode() gave it, for every function of the batch, the      *)
(* reused buffers notwithstanding.  A view that reaches freed memory maps *)
(* to Dangling, which no abstract step produces.                          *)
(***************************************************************************)
ImplementsHandoff == Abs!Spec

=============================================================================
