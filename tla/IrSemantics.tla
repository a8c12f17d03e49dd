---------------------------- MODULE IrSemantics ----------------------------
(***************************************************************************)
(* Integer semantics of the IR instructions that the pre-legalization     *)
(* pass reads and emits (spec section 3 and the glossary).  The IR itself *)
(* is not part of the repository's sources: these operators are the      *)
(* reference against which the rewrites of simple_preopt.rs are judged.   *)
(*                                                                         *)
(* A value of a w-bit integer type is its bit pattern, an integer in      *)
(* 0 .. 2^w - 1; signed opcodes read it in two's complement.  Shift and   *)
(* rotate amounts are taken modulo the width.                             *)
(***************************************************************************)
EXTENDS Integers, Sequences, SequencesExt, Bitwise

\* Truncation of any integer to the bit pattern of a w-bit value.
Wrap(x, w) == x % 2^w

\* Two's-complement reading of a w-bit bit pattern.
Signed(x, w) == IF x >= 2^(w - 1) THEN x - 2^w ELSE x

MinSigned(w) == -(2^(w - 1))

TruncDiv(a, b) ==
  LET q == (IF a < 0 THEN -a ELSE a) \div (IF b < 0 THEN -b ELSE b)
  IN IF (a < 0) = (b < 0) THEN q ELSE -q

\* The opcode an immediate form computes, with the immediate as operand b.
ImmBase == [iadd_imm |-> "iadd", imul_imm |-> "imul", udiv_imm |-> "udiv",
            urem_imm |-> "urem", sdiv_imm |-> "sdiv", srem_imm |-> "srem",
            band_imm |-> "band", bor_imm |-> "bor", bxor_imm |-> "bxor",
            ishl_imm |-> "ishl", ushr_imm |-> "ushr", sshr_imm |-> "sshr",
            rotl_imm |-> "rotl", rotr_imm |-> "rotr"]

DivOpcodes == {"udiv", "urem", "sdiv", "srem"}

\* A division traps on a zero divisor and on the overflowing MinSigned / -1.
ArithTraps(op, a, b, w) ==
  /\ op \in DivOpcodes
  /\ \/ b = 0
     \/ op = "sdiv" /\ Signed(b, w) = -1 /\ Signed(a, w) = MinSigned(w)

(***************************************************************************)
(* The binary integer opcodes on w-bit bit patterns a and b.               *)
(***************************************************************************)
Arith(op, a, b, w) ==
  LET sa == Signed(a, w)
      sb == Signed(b, w)
      sh == b % w
  IN CASE op = "iadd"   -> Wrap(a + b, w)
       [] op = "isub"   -> Wrap(a - b, w)
       [] op = "imul"   -> Wrap(a * b, w)
       [] op = "udiv"   -> a \div b
       [] op = "urem"   -> a % b
       [] op = "sdiv"   -> Wrap(TruncDiv(sa, sb), w)
       [] op = "srem"   -> Wrap(sa - TruncDiv(sa, sb) * sb, w)
       [] op = "band"   -> a & b
       [] op = "bor"    -> a | b
       [] op = "bxor"   -> a ^^ b
       [] op = "ishl"   -> Wrap(a * 2^sh, w)
       [] op = "ushr"   -> a \div 2^sh
       [] op = "sshr"   -> Wrap(sa \div 2^sh, w)
       [] op = "rotl"   -> Wrap(a * 2^sh + a \div 2^(w - sh), w)
       [] op = "rotr"   -> Wrap(a \div 2^sh + a * 2^(w - sh), w)
       [] op = "umulhi" -> (a * b) \div 2^w
       [] op = "smulhi" -> Wrap((sa * sb) \div 2^w, w)

(***************************************************************************)
(* A non-branching instruction [op, imm] applied to its operand values a  *)
(* and b (b unused by unary and immediate forms).                         *)
(***************************************************************************)
Apply(op, imm, a, b, w) ==
  CASE op = "iconst"         -> Wrap(imm, w)
    [] op = "copy"           -> a
    [] op = "irsub_imm"      -> Wrap(imm - a, w)
    [] op \in DOMAIN ImmBase -> Arith(ImmBase[op], a, Wrap(imm, w), w)
    [] OTHER                 -> Arith(op, a, b, w)

ApplyTraps(op, imm, a, b, w) ==
  IF op \in DOMAIN ImmBase THEN ArithTraps(ImmBase[op], a, Wrap(imm, w), w)
  ELSE ArithTraps(op, a, b, w)

(***************************************************************************)
(* Straight-line code as the div/rem rewriter emits it: a sequence of      *)
(* records [op, args, imm] where a reference 0 in args is the numerator    *)
(* n1 and a reference i >= 1 the result of the i-th inserted instruction.  *)
(***************************************************************************)
N1 == 0

Val(env, r) == env[r + 1]

Exec(i, env, w) ==
  Apply(i.op, i.imm,
        IF i.args = <<>> THEN 0 ELSE Val(env, i.args[1]),
        IF Len(i.args) > 1 THEN Val(env, i.args[2]) ELSE 0, w)

\* The environment <<n1, v1, v2, ...>> after running prog on input n1.
Run(prog, n1, w) ==
  FoldLeft(LAMBDA env, i : Append(env, Exec(i, env, w)), <<n1>>, prog)

\* The value the replaced instruction produces after the inserted ones.
Result(prog, repl, n1, w) == Exec(repl, Run(prog, n1, w), w)
=============================================================================
