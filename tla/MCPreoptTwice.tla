---------------------------- MODULE MCPreoptTwice ----------------------------
(***************************************************************************)
(* do_preopt run twice on the same function (spec section 8,              *)
(* Idempotence).  The functions test a condition built from a compare     *)
(* against 0 of a bint of a compare against 0:                             *)
(*                                                                         *)
(*   b1: i1 = iconst 0; i2 = icmp c1 x, i1; i3 = bint i2;                 *)
(*       i4 = icmp c2 i3, i1; i5 = brz|brnz i4, b2(); i6 = jump b3()      *)
(*   b2: i7 = jump b3()                                                    *)
(*   b3: (returns)                                                         *)
(***************************************************************************)
EXTENDS Preopt

CONSTANT x   \* the parameter, a model value

VARIABLE pass   \* 1 during the first run of do_preopt, 2 during the second

twiceVars == <<vars, pass>>

MCFunction(c1, c2, brop) ==
  [dfg |-> <<Data("iconst", <<>>, 0, NoCond, NoDest),
             Data("icmp", <<x, 1>>, 0, c1, NoDest),
             Op("bint", <<2>>),
             Data("icmp", <<3, 1>>, 0, c2, NoDest),
             Data(brop, <<4>>, 0, NoCond, 2),
             Data("jump", <<>>, 0, NoCond, 3),
             Data("jump", <<>>, 0, NoCond, 3)>>,
   layout |-> <<<<1, 2, 3, 4, 5, 6>>, <<7>>, <<>>>>]

MCFunctions == {MCFunction(c1, c2, brop) : c1, c2 \in {"eq", "ne"}, brop \in {"brz", "brnz"}}

TwiceInit == Init /\ pass = 1

\* The caller runs do_preopt again on the function the first run returned.
Rerun ==
  /\ done /\ pass = 1
  /\ pass' = 2
  /\ ebb' = 0 /\ pos' = 0 /\ done' = FALSE /\ visited' = <<>>
  /\ UNCHANGED <<dfg, layout, cfg, orig>>

TwiceNext == (Next /\ UNCHANGED pass) \/ Rerun

TwiceSpec == TwiceInit /\ [][TwiceNext]_twiceVars

(***************************************************************************)
(* Idempotence (spec section 8): the second run of do_preopt rewrites     *)
(* nothing, because no rewrite of simplify, branch_opt or branch_order    *)
(* triggers on the first run's output.                                     *)
(***************************************************************************)
SecondRunChangesNothing == [][pass = 2 => dfg' = dfg /\ layout' = layout]_twiceVars
=============================================================================
