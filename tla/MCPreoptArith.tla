---------------------------- MODULE MCPreoptArith ----------------------------
(***************************************************************************)
(* do_preopt on one-block functions of one parameter x:                   *)
(*                                                                         *)
(*   i1 = iconst K;  i2 = op x, i1  or  op i1, x;                         *)
(*   i3 = op i2, i1  or  op i1, i2                                         *)
(*                                                                         *)
(* for every binary opcode op and every K in -4 .. 7.  simplify folds the *)
(* constant into an immediate form (or irsub_imm when it is on the left   *)
(* of an isub); a division by a constant then goes through the div/rem    *)
(* rewrite, which inserts its expansion before the instruction.  i3 with  *)
(* the constant on the left of a computed value is the case simplify's    *)
(* else-if does not reach.  With                                           *)
(* 3-bit values and a 6-bit immediate, K covers 0, 1, -1, powers of two   *)
(* of both signs, the minimum signed value -4 and constants that do not   *)
(* fit the unsigned range.                                                 *)
(***************************************************************************)
EXTENDS Preopt

CONSTANT x   \* the parameter, a model value

MCKs == -4 .. 7

MCFunction(op, k, left2, left3) ==
  [dfg |-> <<Data("iconst", <<>>, k, NoCond, NoDest),
             Op(op, IF left2 THEN <<1, x>> ELSE <<x, 1>>),
             Op(op, IF left3 THEN <<1, 2>> ELSE <<2, 1>>)>>,
   layout |-> <<<<1, 2, 3>>>>]

MCFunctions ==
  {MCFunction(op, k, l2, l3) : op \in BinaryFormat, k \in MCKs, l2, l3 \in BOOLEAN}
=============================================================================
