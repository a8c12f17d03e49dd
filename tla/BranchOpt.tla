----------------------------- MODULE BranchOpt -----------------------------
(***************************************************************************)
(* branch_opt (simple_preopt.rs): a brz or brnz whose condition is an     *)
(* icmp_imm against 0 with an Equal or NotEqual result branches on the    *)
(* compared value directly.  BranchOpt(dfg, inst) is the data-flow graph  *)
(* after the call; the icmp_imm is left for dead-code elimination.        *)
(***************************************************************************)
EXTENDS IrFunction

\* Mutant: the condition taken as it is for brz too.
FoldedCondUninverted(brOp, cmpCond) == cmpCond

\* The condition the branch tests, once the icmp_imm is folded into it.
FoldedCond(brOp, cmpCond) == IF brOp = "brz" THEN InverseCC[cmpCond] ELSE cmpCond

BranchOpt(dfg, inst) ==
  LET d == dfg[inst]
      c == d.args[1]
      cmp == dfg[c]
      cond == FoldedCond(d.op, cmp.cond)
  IN IF /\ d.op \in {"brz", "brnz"}
        /\ IsResult(c)
        /\ cmp.op = "icmp_imm"
        /\ cmp.imm = 0
        /\ cond \in {"eq", "ne"}
     THEN [dfg EXCEPT ![inst].args[1] = cmp.args[1],
                      ![inst].op = IF cond = "eq" THEN "brz" ELSE "brnz"]
     ELSE dfg
=============================================================================
