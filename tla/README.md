# TLA+ models of mozjs's Cranelift glue and pre-legalization pass

This directory checks two source files with TLC:
- `src/third_party/rust/cranelift-codegen/src/simple_preopt.rs`, the
  pre-optimization pass `do_preopt` of the Cranelift code generator vendored in
  mozjs;
- `src/js/src/wasm/cranelift/src/baldrapi.rs`, the Rust half of the Baldr API
  through which compiled functions are handed to SpiderMonkey's C++.

## The system

`do_preopt(func, cfg)` walks a cursor over the function's blocks ("ebbs") in
layout order, and over each block's instructions in order. For each instruction
`inst` it runs these steps:

1. **simplify** folds a constant operand into an immediate opcode:
   - `op x, (iconst C)` becomes `op_imm x, C`; `isub` becomes `iadd_imm` with `-C`;
   - `isub (iconst C), x` becomes `irsub_imm x, C`, but only in the `else` branch
     (the right operand is a block parameter);
   - `icmp cc x, (iconst C)` becomes `icmp_imm`;
   - under `brz`/`brnz`/`select`/`cond_trap`, a `bint` condition is replaced by its
     boolean.
2. **get_div_info / package_up_divrem_info** classify `udiv_imm`, `urem_imm`,
   `sdiv_imm` and `srem_imm` by signedness, type and divisor. I32 immediates are
   range-checked.
3. **do_divrem_transformation** expands a classified division. It inserts
   instructions before the cursor and replaces `inst` in place:
   - division by 0 (and, signed, by -1) is left alone;
   - division by 1 becomes a copy, or 0 for a remainder;
   - a power of two becomes shifts and masks, with a rounding bias when signed;
   - anything else becomes a magic-number multiply from `magic_u*` / `magic_s*`.

   The driver then `continue`s.
4. **branch_opt** turns `brz/brnz (icmp_imm cc a, 0)` with `cc` eq/ne into
   `brz/brnz a`. The condition is inverted for `brz`.
5. **branch_order** handles a jump to a block other than the next one that
   follows a conditional branch to the next block. It swaps the two destinations,
   inverting the branch, so the jump becomes a fallthrough. Block arguments move
   with their destination: `[1..]` of a brz/brnz, `[2..]` of a br_icmp. It then
   calls `cfg.recompute_ebb`.

The pass is single-threaded and synchronous. The hard parts are therefore not
interleavings. They are these:
- bit-level arithmetic at the edges (MinSigned, shifts of W-1, `as i64` casts,
  range checks);
- the composition of rewrites in one walk: the cursor with insertions, a branch
  rewritten by `branch_opt` and then re-read by `branch_order`, and the CFG kept
  in step;
- the meaning of the function being kept for every input.

## The Baldr API handover

The compiler keeps one `CompiledFunc` for a whole batch and reuses it for every
function. Its metadata and machine code live in two Rust `Vec`s. After a function
is compiled, `CraneliftCompiledFunc::reset` (baldrapi.rs 44-53) fills a C struct
with raw pointers into those Vecs, their lengths, the frame size and whether the
function makes calls. C++ then reads the function through the struct. Each
metadata entry is built by one of the `CraneliftMetadataEntry` constructors
(57-100): a `which` tag, the code offset, the wasm bytecode offset, and an
`extra` word whose meaning depends on the tag. The function to compile arrives as
a `CraneliftFuncCompileInput`, and `bytecode()` (36-41) gives its wasm body as a
slice of the module's bytes, which C++ owns.

`BaldrApi` models this:
- the heap has two arenas, one for metadata entries and one for code bytes.
  Each is a function from live allocation ids to slots, and the ids come from one
  allocator that never reuses them. Keeping the element types apart lets TLC
  compare any two heaps: with one mixed heap, the same id can hold entries in
  one state and bytes in another, and TLC stops when it compares them. A stale
  pointer is unreadable in either form, because an id is never reused;
- a Vec is `[buf, len, cap]`, and `Push` moves a full Vec to a buffer of twice
  the capacity and frees the old one, as RawVec does;
- the actions are:
  - `StartFunction`: the next input arrives, the compiler reads its body through
    `Bytecode`, and the Vecs are cleared with their buffers kept;
  - `EmitCode` and `EmitMetadata` (an event encoded by its constructor);
  - `SetFrame`, which ends the compile (phase `finished`);
  - `Publish` (`reset`);
  - `Consume` (C++ is done with the view).

The compile loop, the Vec operations and the C++ reader are not in the sources.
They are modelled from the Rust standard library and from the call order, and are
marked spec_modelled in `PROJECT.json`. `CompiledFuncHandoff` is the promise
without pointers:
- functions are built into `pending`, the i-th from the i-th body of the batch;
- `Publish` hands a copy over;
- `Consume` takes it back.

`BaldrApi` instantiates it with a refinement mapping. `pending` is the decoded
contents of the two Vecs. `published` is what C++ finds behind the view's
pointers while it holds the view, or `Dangling` if a pointer does not reach live
memory. `Bodies`, the bytes of each function's body, is a constant of its
own. `MCBaldrApi` lays the bodies out one after another in the module's bytes and
derives the ranges C++ passes from their lengths. The refinement therefore checks
`Bytecode`'s pointer arithmetic against a reference that does not use it.

## Modules

| Module | Models | Source |
|---|---|---|
| `IrSemantics` | The integer meaning of the IR opcodes, including traps; an interpreter of the straight-line code the div/rem rewriter emits | spec (the IR is not in the sources) |
| `DivConstMagic` | `magic_u32/64`, `magic_s32/64` (Hacker's Delight), RECURSIVE, generic in the width | spec (`divconst_magic_numbers.rs` is not in the sources) |
| `DivRemRewrite` | `i32/i64_is_power_of_two`, `package_up_divrem_info`, `get_div_info`, every arm of `do_divrem_transformation` as pure operators | `simple_preopt.rs` 25-449 |
| `DivRemByConst` | One division instruction under the div/rem step of the driver | 777-781 |
| `IrFunction` | A function: `dfg` (id to `[op, args, imm, cond, dest]`), `layout` (block to instruction sequence), CFG edges `<<block, branch, dest>>`, `Eval` of values, `Exit` of a block, `recompute_ebb` | spec (Function, Layout, ControlFlowGraph) |
| `Simplify` | `simplify`, arm by arm, with the else-if of line 493 kept | 457-547 |
| `BranchOpt` | `branch_opt` | 561-624 |
| `BranchOrder` | `branch_order` with the CFG recompute | 637-766 |
| `CompiledFuncHandoff` | The handover of compiled functions to C++, without pointers (abstract) | - |
| `BaldrApi` | `CraneliftCompiledFunc::reset`, the `CraneliftMetadataEntry` constructors, the reused Vecs on a heap, the compile loop and the C++ reader | baldrapi.rs 34-100 |
| `Preopt` | `do_preopt`: the cursor, the loop body, the insertion before the cursor, the return | 769-786 |

Widths: TLC integers are 32 bits, so I32 and I64 are scaled. In `DivRemByConst`
they become 4 and 8 bits (`NarrowW`, `WideW`), and Imm64 is the 8-bit
immediate. In the `Preopt` models the value width is `W` (2 or 3 bits) and the
immediate width is `ImmW` = 2W. `DivRemRewrite` is instantiated with
`NarrowW <- W, WideW <- ImmW`. Every wrap-around, sign reading and `as i64` cast
is kept at the scaled width: `x % 2^w` and the two's-complement reading
`Signed`.

`DivRemRewrite` computes the magic numbers once per width and divisor
(`MagicUTable`, `MagicSTable`). The emitted sequences are built by small operators
that take the magic pair as an argument (`SignedMagicWith` and its helpers), so
each value is evaluated once.

`Preopt`'s state:
- `dfg`, `layout` and `cfg`;
- the cursor, `ebb` and `pos` (0 = top of the block);
- `done`.

Two history variables serve the properties: `orig`, the function as given, and
`visited`, the instructions the cursor stopped at. The actions are:
- `NextEbb` (`pos.next_ebb()`);
- `VisitInst`, the whole loop body in one step: simplify, then either the div/rem
  expansion with `continue`, or branch_opt followed by branch_order and its CFG
  recompute;
- `Finish`, the return.

## Runs

| Run | Expect | Checks |
|---|---|---|
| `divrem_rewrite` | pass | Every div/rem opcode, both types, every 8-bit immediate (4096 states). `RewritePreservesSemantics`: on every numerator where the original does not trap, the expansion computes its result. `TrapsPreserved`: a division that can trap is never rewritten. `NoAssertionFailure`: no `debug_assert` on `shift_by` fires. `TypeOK`, including that the expansion is straight-line code reading only earlier results. |
| `preopt_branches` | pass | 224 three-block functions (`MCPreoptBranches`): iconst 0/1; icmp eq/ne/slt/ugt; a bint; brz/brnz on the compare, the bint or a parameter, or br_icmp; a jump, each with block arguments, to block 2 or 3. `ExitsPreserved`: for every input, every block exits to the same place with the same arguments as before the pass. `CfgMatchesLayout`: the CFG is always that of the branches. |
| `preopt_arith` | pass | 816 functions `i1 = iconst K; i2 = op x,i1 / op i1,x; i3 = op i2,i1 / op i1,i2`, for all 17 binary opcodes and K in -4..7 (W = 3). `ValuesPreserved`: each defined value is unchanged, and each own trap is still a trap. `OperandsDefinedBeforeUse`: the expansion goes before its user. `VisitsOriginalsInOrder`: the cursor never visits inserted instructions or revisits replaced ones. `PassCompletes`: although the rewrite inserts into the block being walked, the pass returns having visited every original instruction. |
| `baldr_handoff` | pass | Two functions compiled into one `CompiledFunc`. Each has up to two code bytes and two metadata entries of every kind. The first allocation has one slot, so Vecs move to new buffers mid-function. `ImplementsHandoff`: `Spec => CompiledFuncHandoff!Spec` under the mapping above, so C++ reads exactly the compiled function, entry by entry, along with the body it was compiled from. A view into freed memory maps to `Dangling`, which no abstract step produces, so this is also memory safety. `TypeOK`: each Vec header agrees with its allocation. |
| `branch_opt_table` | violation | `BranchOptFollowsSpecTable`: the table in spec section 4.5. |
| `simplify_left_const` | violation | `IsubOfConstantFolded`: spec section 4.2 on `isub (iconst C), v`. |
| `preopt_idempotence` | violation | `SecondRunChangesNothing`: spec section 8, idempotence. `MCPreoptTwice` reruns the pass on its output. |

Each property of a passing run has a mutant in `PROJECT.json`: a plausible bug
in the mapped definition that TLC catches. The mutants are:
- an off-by-one quotient reference;
- the remainder's `isub` operands swapped;
- the -1 arm or the by-one arm dropped;
- the CFG recompute dropped;
- the brz condition not inverted (which is exactly the spec's table);
- `isub`'s constant not negated;
- the expansion inserted after the instruction;
- a Vec that does not grow when full;
- `reset` keeping the old code size.

The insert-after mutant also breaks `PassCompletes`: the cursor then visits the
inserted instructions.

### Findings

- **branch_opt table (spec 4.5)**: the spec's table is inverted on every row. It
  says `brz (icmp_imm eq a,0)` becomes `brz a`. The code (line 594) gives
  `brnz a`, which is the correct semantics: `ExitsPreserved` holds. Example 5
  follows the table, not the code: for `brz (icmp_imm ne v1,0)` the code gives
  `brz v1`, where the example says `brnz v1`. The spec is consistently wrong,
  and the code is right.
- **simplify's left constant (line 493)**: `isub (iconst C), v` is folded only
  when `v` is a block parameter, because the case sits in the `else` of
  "right operand is a Result". The spec promises the fold for any `v`. This is a
  missed optimisation, not a miscompilation: `ValuesPreserved` holds.
- **Idempotence (spec 8)** does not hold. Take `a = icmp_imm eq x,0; t = bint a;
  c = icmp_imm eq t,0; brz c`:
  - run one gives `brnz t`;
  - run two folds the bint (`brnz a`) and then the compare (`brz x`).

## Bounds and why they are enough

- **Div/rem.** At 4/8 bits every case of the rewriter occurs: MinSigned, k = 1 and
  k = W-1 powers of two, both magic corrections, the `do_add` path with its
  largest shifts, the -1 encodings, and immediates outside the I32 range. The
  magic tables were also compared exhaustively against division for every divisor
  at 8 bits.
- **Branches.** Two-bit values give every condition code both outcomes. Each
  branch kind meets both a swap and a non-swap, and jumps to the next block and
  past it occur.
- **Arithmetic.** K spans 0, ±1, powers of two of both signs, MinSigned (-4),
  non-powers of two and values beyond the unsigned 3-bit range. Both operand
  orders occur, and an instruction uses a rewritten result.
- **Block shape.** The functions are straight-line within a block, with forward
  edges. `OperandsDefinedBeforeUse` uses layout order as the approximation of
  dominance, which is exact for these shapes.

- **Baldr handover.** Two functions are needed for a stale pointer or length
  to matter. A one-slot first allocation makes the second push of a Vec
  reallocate, so the second function's buffers can differ from the first's. Bytes
  are a single value (1) against `Uninit`, which is enough to tell a read of a
  written slot from a read of an unwritten one. The module has two bodies of
  distinct bytes and a trailing byte, so a slice off by one at either end
  yields different bytes.

## Fairness

`Spec` has weak fairness on `Next`. `do_preopt` is one sequential loop with no
waits, so whenever a step is enabled the program takes it. `PassCompletes` relies
on nothing else.

`BaldrApi` has no fairness and no liveness property. Whether a batch completes
is decided by the compile loop and the C++ caller, which are not in the sources.
`reset` and the constructors have no say in it.

## Not modelled, and why

- The rest of `baldrapi.rs` (lines 1-33, 35, 42, 55-56, 101-102) is the
  license header, `use` lines and closing braces. It has no behaviour to model.

- `bytecode()` on a null pointer with length 0 is undefined behaviour in
  `from_raw_parts`. The model's inputs are offsets into the module's bytes and
  are never null. The C++ code that could pass null is not in the sources.
- The guard that the next function starts only after C++ consumes the view
  (`StartFunction` requires phase `idle`) is modelled from the call order,
  because the driving code is not in the sources. It is an assumption of
  `baldr_handoff`, not a checked property.
- The I32 range checks of `package_up_divrem_info` (lines 81 and 102) and the
  width of the remainder mask's cast (line 332) cannot be observed. The IR
  semantics the model takes reads an immediate at the instruction's type width,
  as the casts do, so a truncated immediate means the same operation. A dropped
  check or a wrong cast would pass every run.
- `cond_trap` under simplify's bint fold: the functions contain no trapping
  conditionals. The fold is the same code as for `brz`/`brnz`/`select`.
- Types other than I32 in the `Preopt` models. I64 divisions are checked in
  `divrem_rewrite`.
- The `debug_assert` outcome inside the driver. The driver takes the expansion
  as emitted. That the asserts never fire is `NoAssertionFailure`.
- Dominance across loops: the model functions have no back edges.

## Plan for later work

- An abstract specification of the pass: "each original instruction is replaced
  by an equivalent one, and exits are preserved". `Preopt` would be shown to
  refine it through a refinement mapping that hides the cursor and the inserted
  instructions.
- Functions with loops (back edges) and several conditional branches per block.
- I64 values in the driver model.
