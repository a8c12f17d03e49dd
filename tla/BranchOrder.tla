---------------------------- MODULE BranchOrder ----------------------------
(***************************************************************************)
(* branch_order (simple_preopt.rs): when block ebb ends with a            *)
(* conditional branch to the next block in layout followed by a jump      *)
(* elsewhere, invert the branch towards the jump's destination and jump   *)
(* to the next block, so that the jump can become a fallthrough; then     *)
(* recompute the block's CFG edges.  Block arguments travel with their    *)
(* destination: they are the operands after the first one (brz, brnz) or  *)
(* the first two (br_icmp).                                                *)
(***************************************************************************)
EXTENDS IrFunction

\* The instruction data branch_order puts in place of the pair (cond, term).
SwappedCond(cd, td) ==
  CASE cd.op = "brz"  -> Data("brnz", <<cd.args[1]>> \o td.args, 0, NoCond, td.dest)
    [] cd.op = "brnz" -> Data("brz", <<cd.args[1]>> \o td.args, 0, NoCond, td.dest)
    [] cd.op = "br_icmp" ->
         Data("br_icmp", <<cd.args[1], cd.args[2]>> \o td.args, 0, InverseCC[cd.cond], td.dest)

SwappedTerm(cd) ==
  Data("jump", SubSeq(cd.args, IF cd.op = "br_icmp" THEN 3 ELSE 2, Len(cd.args)),
       0, NoCond, cd.dest)

\* Whether branch_order rewrites jump inst of block ebb, and the branch it pairs with.
Reorderable(dfg, layout, ebb, inst) ==
  LET d == dfg[inst]
      prev == PrevInst(layout, ebb, inst)
  IN /\ d.op = "jump"
     /\ ebb + 1 \in Blocks
     /\ d.dest # ebb + 1
     /\ prev # {}
     /\ \A p \in prev : dfg[p].op \in {"brz", "brnz", "br_icmp"} /\ dfg[p].dest = ebb + 1

\* Mutant: the CFG is not recomputed after the swap.
BranchOrderNoRecompute(dfg, layout, cfg, ebb, inst) ==
  IF Reorderable(dfg, layout, ebb, inst)
  THEN LET p == CHOOSE q \in PrevInst(layout, ebb, inst) : TRUE
       IN <<[dfg EXCEPT ![inst] = SwappedTerm(dfg[p]),
                        ![p] = SwappedCond(dfg[p], dfg[inst])], cfg>>
  ELSE <<dfg, cfg>>

\* <<dfg, cfg>> after branch_order(pos, cfg, ebb, inst).
BranchOrder(dfg, layout, cfg, ebb, inst) ==
  IF Reorderable(dfg, layout, ebb, inst)
  THEN LET p == CHOOSE q \in PrevInst(layout, ebb, inst) : TRUE
           dfg2 == [dfg EXCEPT ![inst] = SwappedTerm(dfg[p]),
                               ![p] = SwappedCond(dfg[p], dfg[inst])]
       IN <<dfg2, RecomputeEbb(cfg, dfg2, layout, ebb)>>
  ELSE <<dfg, cfg>>
=============================================================================
