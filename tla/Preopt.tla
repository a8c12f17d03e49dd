------------------------------ MODULE Preopt ------------------------------
(***************************************************************************)
(* do_preopt (simple_preopt.rs): a cursor walks the blocks in layout      *)
(* order and the instructions of each block in order; on each it runs     *)
(* simplify, then the div/rem rewrite (skipping the rest when the         *)
(* instruction is a division by a constant), then branch_opt and          *)
(* branch_order.  The div/rem rewrite inserts instructions before the     *)
(* cursor; branch_order rewrites the instruction before it and recomputes *)
(* the block's CFG edges.                                                 *)
(*                                                                         *)
(* Functions is the set of functions the pass may be given; orig keeps    *)
(* the one it was given, visited the instructions the cursor stopped at.  *)
(***************************************************************************)
EXTENDS Simplify, BranchOpt, BranchOrder

CONSTANT Functions   \* a set of records [dfg, layout]

VARIABLES
  dfg,       \* instruction id -> instruction data
  layout,    \* block -> sequence of instruction ids
  cfg,       \* the control-flow graph, a set of edges <<block, branch, dest>>
  ebb,       \* the cursor's block, 0 before the first
  pos,       \* the cursor's instruction, 0 at the top of the block
  done,      \* do_preopt has returned
  orig,      \* the function as given to the pass
  visited    \* the instructions the cursor has stopped at, in order

vars == <<dfg, layout, cfg, ebb, pos, done, orig, visited>>

DR == INSTANCE DivRemRewrite WITH NarrowW <- W, WideW <- ImmW

\* pos.next_inst(): the instruction after the cursor in its block, if any
\* (none before the first block).
NextInst(lay, b, p) ==
  IF b \notin DOMAIN lay THEN {}
  ELSE IF p = 0 THEN {lay[b][k] : k \in (1 .. Len(lay[b])) \cap {1}}
  ELSE LET k == IndexIn(lay[b], p)
       IN IF k = Len(lay[b]) THEN {} ELSE {lay[b][k + 1]}

(***************************************************************************)
(* The div/rem rewrite of inst at the cursor: the expansion's             *)
(* instructions get fresh ids and are inserted before inst (pos.ins()),   *)
(* then inst is replaced by the final operation (dfg.replace(inst)).      *)
(* Reference 0 of the expansion is the numerator, reference r its r-th    *)
(* instruction.                                                            *)
(***************************************************************************)
\* Mutant: the expansion is inserted after inst instead of before it.
DivremRewriteAfter(df, lay, b, inst, info) ==
  LET t == DR!DoDivremTransformation(info)
      base == Cardinality(DOMAIN df) + 1
      n1 == df[inst].args[1]
      Ref(r) == IF r = DR!N1 THEN n1 ELSE base + r - 1
      ToData(i) == Data(i.op, [k \in DOMAIN i.args |-> Ref(i.args[k])], i.imm, NoCond, NoDest)
      new == [j \in base .. base + Len(t.ins) - 1 |-> ToData(t.ins[j - base + 1])]
      df2 == [j \in DOMAIN df \cup DOMAIN new |-> IF j \in DOMAIN new THEN new[j] ELSE df[j]]
      k == IndexIn(lay[b], inst)
      ids == [j \in 1 .. Len(t.ins) |-> base + j - 1]
  IN <<IF t.repl = DR!NoRepl THEN df2 ELSE [df2 EXCEPT ![inst] = ToData(t.repl)],
       [lay EXCEPT ![b] = SubSeq(lay[b], 1, k) \o ids \o SubSeq(lay[b], k + 1, Len(lay[b]))]>>

DivremRewrite(df, lay, b, inst, info) ==
  LET t == DR!DoDivremTransformation(info)
      base == Cardinality(DOMAIN df) + 1
      n1 == df[inst].args[1]
      Ref(r) == IF r = DR!N1 THEN n1 ELSE base + r - 1
      ToData(i) == Data(i.op, [k \in DOMAIN i.args |-> Ref(i.args[k])], i.imm, NoCond, NoDest)
      new == [j \in base .. base + Len(t.ins) - 1 |-> ToData(t.ins[j - base + 1])]
      df2 == [j \in DOMAIN df \cup DOMAIN new |-> IF j \in DOMAIN new THEN new[j] ELSE df[j]]
      k == IndexIn(lay[b], inst)
      ids == [j \in 1 .. Len(t.ins) |-> base + j - 1]
  IN <<IF t.repl = DR!NoRepl THEN df2 ELSE [df2 EXCEPT ![inst] = ToData(t.repl)],
       [lay EXCEPT ![b] = SubSeq(lay[b], 1, k - 1) \o ids \o SubSeq(lay[b], k, Len(lay[b]))]>>

Init ==
  /\ \E f \in Functions : dfg = f.dfg /\ layout = f.layout
  /\ cfg = ComputeCfg(dfg, layout)
  /\ ebb = 0
  /\ pos = 0
  /\ done = FALSE
  /\ orig = [dfg |-> dfg, layout |-> layout]
  /\ visited = <<>>

\* pos.next_ebb(): no instruction is left in the cursor's block, or no block yet.
NextEbb ==
  /\ ~done
  /\ NextInst(layout, ebb, pos) = {}
  /\ ebb + 1 \in Blocks
  /\ ebb' = ebb + 1
  /\ pos' = 0
  /\ UNCHANGED <<dfg, layout, cfg, done, orig, visited>>

\* The body of the instruction loop of do_preopt, on the next instruction.
VisitInst ==
  /\ ~done
  /\ ebb \in Blocks
  /\ \E inst \in NextInst(layout, ebb, pos) :
       LET dfg1 == Simplify(dfg, inst)
           info == DR!GetDivInfo(dfg1[inst], "I32")
       IN /\ pos' = inst
          /\ visited' = Append(visited, inst)
          /\ IF info # DR!None
             THEN LET r == DivremRewrite(dfg1, layout, ebb, inst, DR!The(info))
                  IN /\ dfg' = r[1]
                     /\ layout' = r[2]
                     /\ UNCHANGED cfg
             ELSE LET r == BranchOrder(BranchOpt(dfg1, inst), layout, cfg, ebb, inst)
                  IN /\ dfg' = r[1]
                     /\ cfg' = r[2]
                     /\ UNCHANGED layout
  /\ UNCHANGED <<ebb, done, orig>>

\* The block loop ends after the last block: do_preopt returns.
Finish ==
  /\ ~done
  /\ ebb = NumBlocks
  /\ NextInst(layout, ebb, pos) = {}
  /\ done' = TRUE
  /\ UNCHANGED <<dfg, layout, cfg, ebb, pos, orig, visited>>

Next == NextEbb \/ VisitInst \/ Finish

\* The pass is one sequential loop: it always takes its next step.
Spec == Init /\ [][Next]_vars /\ WF_vars(Next)

-----------------------------------------------------------------------------
\* The instructions in layout order, as the pass was given them.
OrigOrder == FlattenSeq(orig.layout)


(***************************************************************************)
(* SSA def-before-use: every operand an instruction reads is a parameter  *)
(* or the result of an instruction placed before it (earlier in its block *)
(* or in an earlier block: the functions checked are straight-line in     *)
(* layout order).  The div/rem rewrite inserts the expansion at the       *)
(* cursor (pos.ins()), which must be before the replaced instruction.     *)
(***************************************************************************)
OperandsDefinedBeforeUse ==
  \A b \in Blocks : \A k \in DOMAIN layout[b] :
    \A v \in Range(dfg[layout[b][k]].args) :
      \/ v \in Params
      \/ \E c \in 1 .. b : \E j \in DOMAIN layout[c] :
           layout[c][j] = v /\ (c < b \/ j < k)

(***************************************************************************)
(* After every step the CFG edges are those of the branches in the        *)
(* function: branch_order changes two branches' destinations and must     *)
(* call cfg.recompute_ebb for the block.                                   *)
(***************************************************************************)
CfgMatchesLayout == cfg = ComputeCfg(dfg, layout)

(***************************************************************************)
(* Control-flow equivalence: for every input, every block leaves to the   *)
(* same destination with the same block arguments as before the pass      *)
(* (branch_opt's condition folding and branch_order's swap of a           *)
(* conditional branch with the jump after it, arguments included).        *)
(***************************************************************************)
ExitsPreserved ==
  \A b \in Blocks, env \in Envs :
    Exit(dfg, layout, b, env) = Exit(orig.dfg, orig.layout, b, env)

\* An operand of instruction i traps: i is never reached.
OperandTraps(df, i, env) ==
  \E v \in Range(df[i].args) : IsResult(v) /\ Eval(df, v, env) = Trap

(***************************************************************************)
(* Semantic equivalence: every instruction of the original function that  *)
(* produces a value produces, for every input for which it is defined,    *)
(* the same value after simplify and the div/rem rewrite replaced it; and *)
(* where it traps itself (a division by zero, MinSigned / -1) it still    *)
(* traps.                                                                  *)
(***************************************************************************)
ValuesPreserved ==
  \A i \in DOMAIN orig.dfg :
    orig.dfg[i].op \notin BranchOps =>
      \A env \in Envs :
        LET o == Eval(orig.dfg, i, env)
        IN \/ o # Trap /\ Eval(dfg, i, env) = o
           \/ o = Trap /\ (Eval(dfg, i, env) = Trap \/ OperandTraps(orig.dfg, i, env))

(***************************************************************************)
(* The cursor stops at the original instructions only, each once, in      *)
(* layout order: instructions the div/rem rewrite inserts are not         *)
(* revisited, and a replaced instruction is not visited again.            *)
(***************************************************************************)
VisitsOriginalsInOrder == IsPrefix(visited, OrigOrder)

(***************************************************************************)
(* do_preopt returns, and by then it has examined every original          *)
(* instruction, although the div/rem rewrite keeps inserting instructions *)
(* into the block the cursor walks.                                       *)
(***************************************************************************)
PassCompletes == <>(done /\ visited = OrigOrder)

-----------------------------------------------------------------------------
(***************************************************************************)
(* Statements of spec.md that the code does not meet (violation runs).    *)
(***************************************************************************)

\* The table of spec section 4.5: the opcode branch_opt gives a brz/brnz
\* whose condition is icmp_imm cc, a, 0.
SpecBranchOptTable == [brz  |-> [eq |-> "brz",  ne |-> "brnz"],
                       brnz |-> [eq |-> "brnz", ne |-> "brz"]]

\* Step s folds icmp_imm c into branch i: i's condition operand becomes c's operand.
FoldsCompare(i, c) ==
  /\ dfg[i].op \in {"brz", "brnz"}
  /\ dfg[i].args[1] = c
  /\ IsResult(c) /\ c \in DOMAIN dfg
  /\ dfg[c].op = "icmp_imm" /\ dfg[c].imm = 0 /\ dfg[c].cond \in {"eq", "ne"}
  /\ i \in DOMAIN dfg' /\ dfg'[i].args[1] = dfg[c].args[1]

(***************************************************************************)
(* branch_opt rewrites a brz/brnz on icmp_imm cc, a, 0 (cc Equal or       *)
(* NotEqual) into the opcode the table of spec section 4.5 gives.         *)
(***************************************************************************)
BranchOptFollowsSpecTable ==
  [][\A i \in DOMAIN dfg : \A c \in Range(dfg[i].args) :
       FoldsCompare(i, c) => dfg'[i].op = SpecBranchOptTable[dfg[i].op][dfg[c].cond]]_vars

(***************************************************************************)
(* Spec section 4.2: simplify rewrites an isub whose left operand is an   *)
(* iconst C into irsub_imm C of the right operand, whatever the right     *)
(* operand is.                                                             *)
(***************************************************************************)
IsubOfConstantFolded ==
  \A i \in Range(visited) :
    orig.dfg[i].op = "isub" /\ IsIconst(orig.dfg, orig.dfg[i].args[1])
      => dfg[i].op = "irsub_imm"
=============================================================================
