--------------------------- MODULE DivRemByConst ---------------------------
(***************************************************************************)
(* The div/rem step of do_preopt applied to one instruction of every      *)
(* shape: a udiv_imm, urem_imm, sdiv_imm or srem_imm of type I32 or I64   *)
(* with an immediate from Imms.  The state is that instruction: its data  *)
(* before the pass (orig), its data now (cur), the instructions the pass  *)
(* inserted before it (inserted), and whether a debug_assert failed on    *)
(* the way (aborted: the compiler process would stop).                    *)
(***************************************************************************)
EXTENDS DivRemRewrite

CONSTANT Imms   \* the immediates tried, a set of WideW-bit signed integers

ASSUME Imms \subseteq MinSigned(WideW) .. 2^(WideW - 1) - 1

VARIABLES ty, orig, cur, inserted, visited, aborted

vars == <<ty, orig, cur, inserted, visited, aborted>>

-----------------------------------------------------------------------------
Init ==
  /\ ty \in Types
  /\ orig \in {Ins(op, <<N1>>, imm) : op \in DivOps, imm \in Imms}
  /\ cur = orig
  /\ inserted = <<>>
  /\ visited = FALSE
  /\ aborted = FALSE

(***************************************************************************)
(* The div/rem step of do_preopt on the instruction: classify it and, if  *)
(* it is a division by a constant, insert the expansion before it and     *)
(* replace it by the final operation (or leave it).                       *)
(***************************************************************************)
TryDivremRewrite ==
  /\ ~visited
  /\ visited' = TRUE
  /\ LET info == GetDivInfo(cur, ty)
         t == IF info = None THEN Leave ELSE DoDivremTransformation(The(info))
     IN /\ inserted' = inserted \o t.ins
        /\ cur' = IF t.repl = NoRepl THEN cur ELSE t.repl
        /\ aborted' = ~t.ok
  /\ UNCHANGED <<ty, orig>>

Next == TryDivremRewrite

Spec == Init /\ [][Next]_vars

-----------------------------------------------------------------------------
Inst == [op : STRING, args : Seq(Nat), imm : Int]

\* Besides the types: the expansion is straight-line code in which every
\* instruction reads the numerator (reference 0) or an earlier result.
TypeOK ==
  /\ ty \in Types
  /\ orig \in Inst /\ cur \in Inst
  /\ inserted \in Seq(Inst)
  /\ \A j \in DOMAIN inserted : Range(inserted[j].args) \subseteq 0 .. j - 1
  /\ Range(cur.args) \subseteq 0 .. Len(inserted)
  /\ visited \in BOOLEAN /\ aborted \in BOOLEAN

Values == 0 .. 2^Width(ty) - 1

(***************************************************************************)
(* Semantic equivalence (spec 3.3, 8): for every numerator on which the   *)
(* original division does not trap, the inserted instructions followed by *)
(* the replaced one compute what the original computed.  This covers the  *)
(* power-of-two shifts and masks, the rounding bias for negative          *)
(* numerators, the magic multiply and its add/sub corrections.            *)
(***************************************************************************)
RewritePreservesSemantics ==
  visited =>
    \A n \in Values :
      ~ApplyTraps(orig.op, orig.imm, n, 0, Width(ty)) =>
        Result(inserted, cur, n, Width(ty)) = Apply(orig.op, orig.imm, n, 0, Width(ty))

(***************************************************************************)
(* Trap preservation (spec 3.5): a division that can trap at run time,    *)
(* by 0 or, signed, by -1 read at the width of its type, is never         *)
(* rewritten, whatever immediate encodes that divisor.                    *)
(***************************************************************************)
TrapsPreserved ==
  (visited /\ \E n \in Values : ApplyTraps(orig.op, orig.imm, n, 0, Width(ty)))
    => cur = orig /\ inserted = <<>>

(***************************************************************************)
(* No debug_assert of do_divrem_transformation fails: the magic tables    *)
(* never return a shift outside the range the rewriter asserts, and the   *)
(* add path never needs a shift of 1 ("I never found any case where       *)
(* shift_by == 1 here").                                                   *)
(***************************************************************************)
NoAssertionFailure == ~aborted
=============================================================================
