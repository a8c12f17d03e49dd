-------------------------- MODULE MCPreoptBranches --------------------------
(***************************************************************************)
(* do_preopt on functions of three blocks whose first block computes a    *)
(* condition and ends with a conditional branch and a jump:               *)
(*                                                                         *)
(*   b1: i1 = iconst K; i2 = icmp cc x, i1; i3 = bint i2;                 *)
(*       i4 = brz|brnz C, bd(y)  or  br_icmp cc x, y, bd(y);              *)
(*       i5 = jump jd(x)                                                   *)
(*   b2: i6 = jump b3()                                                    *)
(*   b3: i7 = iadd x, y (and returns)                                      *)
(*                                                                         *)
(* C is i2 (an icmp that simplify turns into icmp_imm), i3 (a bint that    *)
(* simplify folds away) or the parameter x; bd and jd are b2 or b3.  This *)
(* covers branch_opt with every kind of comparison against 0 and 1, and   *)
(* branch_order with and without a swap for each branch kind.             *)
(***************************************************************************)
EXTENDS Preopt

CONSTANTS x, y   \* the two parameters, model values

MCKs == {0, 1}
MCConds == {"eq", "ne", "slt", "ugt"}

MCBranch(brop, c, cc, bd) ==
  IF brop = "br_icmp" THEN Data("br_icmp", <<x, y, y>>, 0, cc, bd)
  ELSE Data(brop, <<c, y>>, 0, NoCond, bd)

MCFunction(k, cc, brop, c, bd, jd) ==
  [dfg |-> <<Data("iconst", <<>>, k, NoCond, NoDest),
             Data("icmp", <<x, 1>>, 0, cc, NoDest),
             Op("bint", <<2>>),
             MCBranch(brop, c, cc, bd),
             Data("jump", <<x>>, 0, NoCond, jd),
             Data("jump", <<>>, 0, NoCond, 3),
             Op("iadd", <<x, y>>)>>,
   layout |-> <<<<1, 2, 3, 4, 5>>, <<6>>, <<7>>>>]

MCFunctions ==
  {MCFunction(k, cc, brop, c, bd, jd) :
     k \in MCKs, cc \in MCConds, brop \in {"brz", "brnz", "br_icmp"},
     c \in {2, 3, x}, bd \in {2, 3}, jd \in {2, 3}}
=============================================================================
