---------------------------- MODULE IrFunction ----------------------------
(***************************************************************************)
(* The function the pass rewrites (spec sections 3 and 6): its data-flow  *)
(* graph, its layout and its control-flow graph, with the meaning against *)
(* which rewrites are judged.  These are external services of the pass    *)
(* (Function, DataFlowGraph, Layout, ControlFlowGraph).                   *)
(*                                                                         *)
(*  - a value is a parameter (a member of Params: ValueDef::Param) or the  *)
(*    result of an instruction, named by the instruction's id (a Nat:      *)
(*    ValueDef::Result);                                                   *)
(*  - dfg maps an instruction id to its data [op, args, imm, cond, dest]:  *)
(*    args is the value list (for a branch, its condition operands         *)
(*    followed by the block arguments), cond an IntCC, dest a block;       *)
(*  - blocks are 1 .. NumBlocks in layout order, layout[b] the sequence of *)
(*    instructions of block b;                                             *)
(*  - cfg is the set of edges <<b, i, d>>: branch i of block b may go to d *)
(*    (the predecessor and successor lists of ControlFlowGraph).           *)
(* Every value has one integer type of W bits; booleans are 0 and 1.      *)
(***************************************************************************)
EXTENDS IrSemantics, FiniteSets

CONSTANTS
  W,          \* width of the integer type
  Params,     \* the function's parameters
  NumBlocks   \* number of blocks

Blocks == 1 .. NumBlocks

IsResult(v) == v \notin Params

NoCond == "none"
NoDest == 0

Data(op, args, imm, cond, dest) ==
  [op |-> op, args |-> args, imm |-> imm, cond |-> cond, dest |-> dest]

Op(op, args) == Data(op, args, 0, NoCond, NoDest)

BranchOps == {"brz", "brnz", "br_icmp", "jump"}

\* The integer condition codes and IntCC::inverse (InverseCC).
InverseCC == [eq  |-> "ne",  ne  |-> "eq",  slt |-> "sge", sge |-> "slt",
            sgt |-> "sle", sle |-> "sgt", ult |-> "uge", uge |-> "ult",
            ugt |-> "ule", ule |-> "ugt"]

CondHolds(cc, a, b) ==
  LET sa == Signed(a, W)
      sb == Signed(b, W)
  IN CASE cc = "eq"  -> a = b     [] cc = "ne"  -> a # b
       [] cc = "slt" -> sa < sb   [] cc = "sge" -> sa >= sb
       [] cc = "sgt" -> sa > sb   [] cc = "sle" -> sa <= sb
       [] cc = "ult" -> a < b     [] cc = "uge" -> a >= b
       [] cc = "ugt" -> a > b     [] cc = "ule" -> a <= b

Bool(p) == IF p THEN 1 ELSE 0

\* The result of a trapping computation.
Trap == -1

Envs == [Params -> 0 .. 2^W - 1]

(***************************************************************************)
(* The value v computes when the parameters have the values env.          *)
(***************************************************************************)
RECURSIVE Eval(_, _, _)
Eval(dfg, v, env) ==
  IF v \in Params THEN env[v]
  ELSE LET d == dfg[v]
           a == Eval(dfg, d.args[1], env)
           b == Eval(dfg, d.args[2], env)
       IN CASE d.op = "iconst"   -> Wrap(d.imm, W)
            [] a = Trap          -> Trap
            [] d.op = "bint"     -> a
            [] d.op = "icmp_imm" -> Bool(CondHolds(d.cond, a, Wrap(d.imm, W)))
            [] d.op = "select"   -> IF a # 0 THEN b ELSE Eval(dfg, d.args[3], env)
            [] Len(d.args) = 1   -> IF ApplyTraps(d.op, d.imm, a, 0, W) THEN Trap
                                    ELSE Apply(d.op, d.imm, a, 0, W)
            [] b = Trap          -> Trap
            [] d.op = "icmp"     -> Bool(CondHolds(d.cond, a, b))
            [] OTHER             -> IF ApplyTraps(d.op, d.imm, a, b, W) THEN Trap
                                    ELSE Apply(d.op, d.imm, a, b, W)

\* How many leading operands of a branch are not block arguments.
CondOperands(d) ==
  CASE d.op = "br_icmp" -> 2 [] d.op \in {"brz", "brnz"} -> 1 [] OTHER -> 0

BlockArgs(d) == SubSeq(d.args, CondOperands(d) + 1, Len(d.args))

\* Whether branch d is taken (1) or not (0); Trap if its condition traps.
Taken(dfg, d, env) ==
  LET a == Eval(dfg, d.args[1], env)
      b == Eval(dfg, d.args[2], env)
  IN CASE d.op = "jump" -> 1
       [] a = Trap -> Trap
       [] d.op = "brz"  -> Bool(a = 0)
       [] d.op = "brnz" -> Bool(a # 0)
       [] b = Trap -> Trap
       [] d.op = "br_icmp" -> Bool(CondHolds(d.cond, a, b))

(***************************************************************************)
(* Where block b leaves to: the first of its branches that is taken, as   *)
(* <<destination, block arguments>>, <<"trap">> when a condition traps   *)
(* first, and <<"return">> when no branch is taken.                        *)
(***************************************************************************)
Exit(dfg, layout, b, env) ==
  LET brs == SelectSeq(layout[b], LAMBDA i : dfg[i].op \in BranchOps)
      RECURSIVE First(_)
      First(k) ==
        IF k > Len(brs) THEN <<"return">>
        ELSE LET d == dfg[brs[k]]
                 t == Taken(dfg, d, env)
             IN IF t = Trap THEN <<"trap">>
                ELSE IF t = 1 THEN <<d.dest, BlockArgs(d)>> ELSE First(k + 1)
  IN First(1)

(***************************************************************************)
(* Layout navigation.                                                     *)
(***************************************************************************)
IndexIn(s, i) == CHOOSE k \in 1 .. Len(s) : s[k] = i

\* layout.prev_inst(i) within block b, as a set holding it or empty.
PrevInst(layout, b, i) ==
  LET k == IndexIn(layout[b], i) IN IF k = 1 THEN {} ELSE {layout[b][k - 1]}

\* The edges the branches of block b contribute to the CFG.
EbbEdges(dfg, layout, b) ==
  {<<b, i, dfg[i].dest>> : i \in {j \in Range(layout[b]) : dfg[j].op \in BranchOps}}

ComputeCfg(dfg, layout) == UNION {EbbEdges(dfg, layout, b) : b \in Blocks}

\* ControlFlowGraph::recompute_ebb: drop b's edges, add them from its branches.
RecomputeEbb(cfg, dfg, layout, b) ==
  {e \in cfg : e[1] # b} \cup EbbEdges(dfg, layout, b)
=============================================================================
