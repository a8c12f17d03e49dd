----------------------------- MODULE Simplify -----------------------------
(***************************************************************************)
(* simplify (simple_preopt.rs): fold a constant operand into the          *)
(* immediate form of a binary or compare instruction, and take the        *)
(* boolean under a `bint` as the condition of a branch or select.         *)
(* Simplify(dfg, inst) is the data-flow graph after the call.             *)
(***************************************************************************)
EXTENDS IrFunction

CONSTANT ImmW   \* width of the Imm64 immediate

\* The opcodes of InstructionData::Binary that the functions use.
BinaryFormat == {"iadd", "isub", "imul", "udiv", "sdiv", "urem", "srem",
                 "band", "bor", "bxor", "rotl", "rotr", "ishl", "ushr",
                 "sshr", "umulhi", "smulhi"}

\* The match on the opcode of a Binary whose right operand is an iconst.
ImmOpcode == [iadd |-> "iadd_imm", imul |-> "imul_imm", sdiv |-> "sdiv_imm",
              udiv |-> "udiv_imm", srem |-> "srem_imm", urem |-> "urem_imm",
              band |-> "band_imm", bor |-> "bor_imm", bxor |-> "bxor_imm",
              rotl |-> "rotl_imm", rotr |-> "rotr_imm", ishl |-> "ishl_imm",
              ushr |-> "ushr_imm", sshr |-> "sshr_imm", isub |-> "iadd_imm"]

\* Imm64::wrapping_neg.
WrappingNeg(imm) == Signed(Wrap(-imm, ImmW), ImmW)

IsIconst(dfg, v) == IsResult(v) /\ dfg[v].op = "iconst"

\* replace(inst).BinaryImm(opcode, ty, imm, arg)
BinaryImm(op, imm, arg) == Data(op, <<arg>>, imm, NoCond, NoDest)

\* Mutant: isub x, C becomes iadd_imm x, C without negating C.
SimplifyBinaryNoNeg(dfg, inst) ==
  LET d == dfg[inst]
      x == d.args[1]
      y == d.args[2]
  IN IF IsResult(y)
     THEN IF IsIconst(dfg, y) /\ d.op \in DOMAIN ImmOpcode
          THEN [dfg EXCEPT ![inst] = BinaryImm(ImmOpcode[d.op], dfg[y].imm, x)]
          ELSE dfg
     ELSE IF IsIconst(dfg, x) /\ d.op = "isub"
          THEN [dfg EXCEPT ![inst] = BinaryImm("irsub_imm", dfg[x].imm, y)]
          ELSE dfg

SimplifyBinary(dfg, inst) ==
  LET d == dfg[inst]
      x == d.args[1]
      y == d.args[2]
  IN IF IsResult(y)
     THEN IF IsIconst(dfg, y) /\ d.op \in DOMAIN ImmOpcode
          THEN [dfg EXCEPT ![inst] =
                  BinaryImm(ImmOpcode[d.op],
                            IF d.op = "isub" THEN WrappingNeg(dfg[y].imm) ELSE dfg[y].imm,
                            x)]
          ELSE dfg
     ELSE IF IsIconst(dfg, x) /\ d.op = "isub"
          THEN [dfg EXCEPT ![inst] = BinaryImm("irsub_imm", dfg[x].imm, y)]
          ELSE dfg

SimplifyIcmp(dfg, inst) ==
  LET d == dfg[inst]
  IN IF IsIconst(dfg, d.args[2])
     THEN [dfg EXCEPT ![inst] = Data("icmp_imm", <<d.args[1]>>, dfg[d.args[2]].imm,
                                     d.cond, NoDest)]
     ELSE dfg

\* Fold away a redundant bint under the first operand.
SimplifyBint(dfg, inst) ==
  LET c == dfg[inst].args[1]
  IN IF IsResult(c) /\ dfg[c].op = "bint"
     THEN [dfg EXCEPT ![inst].args[1] = dfg[c].args[1]]
     ELSE dfg

Simplify(dfg, inst) ==
  CASE dfg[inst].op \in BinaryFormat              -> SimplifyBinary(dfg, inst)
    [] dfg[inst].op = "icmp"                      -> SimplifyIcmp(dfg, inst)
    [] dfg[inst].op \in {"brz", "brnz", "select"} -> SimplifyBint(dfg, inst)
    [] OTHER                                      -> dfg
=============================================================================
