--------------------------- MODULE DivRemRewrite  ---------------------------
(***************************************************************************)
(* Strength reduction of division and remainder by an immediate           *)
(* (simple_preopt.rs: get_div_info, package_up_divrem_info,               *)
(* do_divrem_transformation and the div/rem step of do_preopt).           *)
(*                                                                         *)
(* The types I32 and I64 are given the widths NarrowW and WideW, and the  *)
(* i64 immediate of an instruction is a WideW-bit signed integer, so that *)
(* every numerator can be enumerated.  Every constant of the code that is *)
(* written for 32 or 64 bits (31, 32 - k, 0x7fff_ffff, ...) is written    *)
(* here in terms of the width it stands for.                              *)
(*                                                                         *)
(* The operators here are the pure part; DivRemByConst and Preopt use    *)
(* them on one instruction and on a whole function.                       *)
(***************************************************************************)
EXTENDS Integers, Sequences, IrSemantics, DivConstMagic

CONSTANTS
  NarrowW,   \* bit width standing for I32
  WideW      \* bit width standing for I64 and for the i64 immediate

ASSUME NarrowW \in 2..WideW - 1


Types == {"I32", "I64"}
Width(t) == IF t = "I32" THEN NarrowW ELSE WideW
DivOps == {"udiv_imm", "urem_imm", "sdiv_imm", "srem_imm"}

Ins(op, args, imm) == [op |-> op, args |-> args, imm |-> imm]

\* `x as i64`: reinterpretation of a WideW-bit pattern as signed.
AsI64(x) == Signed(Wrap(x, WideW), WideW)

\* Option values: None, or Some(x) holding the single value x.
None == {}
Some(x) == {x}
The(o) == CHOOSE x \in o : TRUE

(***************************************************************************)
(* i32_is_power_of_two / i64_is_power_of_two: <<is_negative, k>> when x is *)
(* +/- 2^k, with the minimum value special-cased to <<TRUE, w - 1>>.       *)
(***************************************************************************)
IsPowerOfTwo(x, w) ==
  LET absX == IF x < 0 THEN -x ELSE x
  IN IF x = MinSigned(w) THEN Some(<<TRUE, w - 1>>)
     ELSE {<<x < 0, k>> : k \in {j \in 0 .. w - 1 : absX = 2^j}}

\* Unsigned u.is_power_of_two() and u.trailing_zeros() for a power of two.
IsPow2(u, w) == \E k \in 0 .. w - 1 : u = 2^k
Log2(u, w) == CHOOSE k \in 0 .. w - 1 : u = 2^k

\* magic_u32/magic_u64 and magic_s32/magic_s64 at both widths, computed once.
MagicUTable ==
  [w \in {NarrowW, WideW} |-> [d \in 2 .. 2^w - 1 |-> MagicU(d, w)]]
MagicSTable ==
  [w \in {NarrowW, WideW} |->
     [d \in (MinSigned(w) .. 2^(w - 1) - 1) \ {-1, 0, 1} |-> MagicS(d, w)]]

Info(isRem, isSigned, t, d) == [rem |-> isRem, signed |-> isSigned, ty |-> t, d |-> d]

(***************************************************************************)
(* package_up_divrem_info: the immediate is accepted for I32 only when it *)
(* lies in the 32-bit range of the signedness; I64 takes any immediate.   *)
(***************************************************************************)
PackageUpDivremInfo(t, imm, isSigned, isRem) ==
  LET u == Wrap(imm, WideW)
      half == 2^(NarrowW - 1)
  IN CASE ~isSigned /\ t = "I32" ->
            IF u < 2^NarrowW THEN Some(Info(isRem, FALSE, t, u)) ELSE None
       [] ~isSigned /\ t = "I64" -> Some(Info(isRem, FALSE, t, u))
       [] isSigned /\ t = "I32" ->
            IF u <= half - 1 \/ u >= 2^WideW - half
            THEN Some(Info(isRem, TRUE, t, Signed(Wrap(u, NarrowW), NarrowW)))
            ELSE None
       [] isSigned /\ t = "I64" -> Some(Info(isRem, TRUE, t, Signed(u, WideW)))

\* get_div_info: only the four *_imm division opcodes are candidates.
GetDivInfo(i, t) ==
  IF i.op \in DivOps
  THEN PackageUpDivremInfo(t, i.imm, i.op \in {"sdiv_imm", "srem_imm"},
                           i.op \in {"urem_imm", "srem_imm"})
  ELSE None

(***************************************************************************)
(* A transformation: the instructions inserted before the original one,   *)
(* its replacement (NoRepl when it is left alone) and whether every       *)
(* debug_assert on the way held.                                           *)
(***************************************************************************)
NoRepl == Ins("unchanged", <<>>, 0)
Leave == [ins |-> <<>>, repl |-> NoRepl, ok |-> TRUE]

\* Div by 1 is a copy of the numerator, rem by 1 is the constant 0.
ByOne(info) ==
  [ins |-> <<>>,
   repl |-> IF info.rem THEN Ins("iconst", <<>>, 0) ELSE Ins("copy", <<N1>>, 0),
   ok |-> TRUE]

\* Mutant: qf taken as the instruction after the last inserted one.
FromQuotientOffByOne(info, pre, ok) ==
  LET qf == Len(pre) + 1
  IN IF info.rem
     THEN [ins |-> Append(pre, Ins("imul_imm", <<qf>>, AsI64(info.d))),
           repl |-> Ins("isub", <<N1, qf + 1>>, 0), ok |-> ok]
     ELSE [ins |-> pre, repl |-> Ins("copy", <<qf>>, 0), ok |-> ok]

\* Mutant: the remainder computed as qf * d - n1 (operands of isub swapped).
FromQuotientSwappedSub(info, pre, ok) ==
  LET qf == Len(pre)
  IN IF info.rem
     THEN [ins |-> Append(pre, Ins("imul_imm", <<qf>>, AsI64(info.d))),
           repl |-> Ins("isub", <<qf + 1, N1>>, 0), ok |-> ok]
     ELSE [ins |-> pre, repl |-> Ins("copy", <<qf>>, 0), ok |-> ok]

\* The quotient is the last inserted value qf; the remainder is n1 - qf * d.
FromQuotient(info, pre, ok) ==
  LET qf == Len(pre)
  IN IF info.rem
     THEN [ins |-> Append(pre, Ins("imul_imm", <<qf>>, AsI64(info.d))),
           repl |-> Ins("isub", <<N1, qf + 1>>, 0), ok |-> ok]
     ELSE [ins |-> pre, repl |-> Ins("copy", <<qf>>, 0), ok |-> ok]

UnsignedPow2(info, w) ==
  LET k == Log2(info.d, w)
  IN [ins |-> <<>>,
      repl |-> IF info.rem THEN Ins("band_imm", <<N1>>, AsI64(2^k - 1))
                           ELSE Ins("ushr_imm", <<N1>>, k),
      ok |-> info.d >= 2 /\ k \in 1 .. w - 1]

UnsignedMagic(info, w) ==
  LET m == MagicUTable[w][info.d]
      head == << Ins("iconst", <<>>, AsI64(m.mul_by)), Ins("umulhi", <<N1, 1>>, 0) >>
      pre == IF m.do_add
             THEN head \o << Ins("isub", <<N1, 2>>, 0), Ins("ushr_imm", <<3>>, 1),
                             Ins("iadd", <<4, 2>>, 0), Ins("ushr_imm", <<5>>, m.shift_by - 1) >>
             ELSE IF m.shift_by > 0 THEN Append(head, Ins("ushr_imm", <<2>>, m.shift_by))
                                    ELSE head
      ok == /\ info.d >= 3
            /\ IF m.do_add THEN m.shift_by \in 1 .. w /\ m.shift_by # 1
                           ELSE m.shift_by \in 0 .. w - 1
  IN FromQuotient(info, pre, ok)

\* The U32 (and, at width WideW, U64) arm of do_divrem_transformation.
DivRemUnsigned(info, w) ==
  IF info.d = 0 THEN Leave
  ELSE IF info.d = 1 THEN ByOne(info)
  ELSE IF IsPow2(info.d, w) THEN UnsignedPow2(info, w)
  ELSE UnsignedMagic(info, w)

SignedPow2(info, w, isNegative, k) ==
  LET t1 == IF k - 1 = 0 THEN <<>> ELSE << Ins("sshr_imm", <<N1>>, k - 1) >>
      pre == t1 \o << Ins("ushr_imm", <<Len(t1)>>, w - k),
                      Ins("iadd", <<N1, Len(t1) + 1>>, 0) >>
      t3 == Len(pre)
      ok == k \in 1 .. w - 1
  IN IF info.rem
     THEN [ins |-> Append(pre, Ins("band_imm", <<t3>>, Signed(Wrap(-(2^k), w), w))),
           repl |-> Ins("isub", <<N1, t3 + 1>>, 0), ok |-> ok]
     ELSE [ins |-> Append(pre, Ins("sshr_imm", <<t3>>, k)),
           repl |-> IF isNegative THEN Ins("irsub_imm", <<t3 + 1>>, 0)
                                  ELSE Ins("copy", <<t3 + 1>>, 0),
           ok |-> ok]

\* The correction of the high product by the numerator, when the signs of
\* the divisor and of the magic multiplier differ.
SignedCorrection(d, mulBy) ==
  IF d > 0 /\ mulBy < 0 THEN << Ins("iadd", <<2, N1>>, 0) >>
  ELSE IF d < 0 /\ mulBy > 0 THEN << Ins("isub", <<2, N1>>, 0) >>
  ELSE <<>>

\* q3 = q2 >> shift_by, emitted only for a nonzero shift.
SignedShift(q2s, shiftBy) ==
  IF shiftBy = 0 THEN q2s ELSE Append(q2s, Ins("sshr_imm", <<Len(q2s)>>, shiftBy))

\* qf = q3 + (q3 >>u (w - 1)).
SignedRoundUp(q3s, w) ==
  q3s \o << Ins("ushr_imm", <<Len(q3s)>>, w - 1), Ins("iadd", <<Len(q3s), Len(q3s) + 1>>, 0) >>

SignedMagicWith(info, w, m) ==
  FromQuotient(info,
    SignedRoundUp(
      SignedShift(<< Ins("iconst", <<>>, m.mul_by), Ins("smulhi", <<N1, 1>>, 0) >>
                    \o SignedCorrection(info.d, m.mul_by), m.shift_by), w),
    (info.d < -2 \/ info.d > 2) /\ m.shift_by \in 0 .. w - 1)

SignedMagic(info, w) == SignedMagicWith(info, w, MagicSTable[w][info.d])

\* Mutant: the arm ignoring a divisor of -1 is missing.
DivRemSignedNoMinusOne(info, w) ==
  IF info.d = 0 THEN Leave
  ELSE IF info.d = 1 THEN ByOne(info)
  ELSE LET p2 == IsPowerOfTwo(info.d, w)
       IN IF p2 # None THEN SignedPow2(info, w, The(p2)[1], The(p2)[2])
                       ELSE SignedMagic(info, w)

\* Mutant: the arm for a divisor of 1 is missing.
DivRemSignedNoOne(info, w) ==
  IF info.d \in {-1, 0} THEN Leave
  ELSE LET p2 == IsPowerOfTwo(info.d, w)
       IN IF p2 # None THEN SignedPow2(info, w, The(p2)[1], The(p2)[2])
                       ELSE SignedMagic(info, w)

\* The S32 (and, at width WideW, S64) arm of do_divrem_transformation.
DivRemSigned(info, w) ==
  IF info.d \in {-1, 0} THEN Leave
  ELSE IF info.d = 1 THEN ByOne(info)
  ELSE LET p2 == IsPowerOfTwo(info.d, w)
       IN IF p2 # None THEN SignedPow2(info, w, The(p2)[1], The(p2)[2])
                       ELSE SignedMagic(info, w)

DivRemU32(info) == DivRemUnsigned(info, NarrowW)
DivRemU64(info) == DivRemUnsigned(info, WideW)
DivRemS32(info) == DivRemSigned(info, NarrowW)
DivRemS64(info) == DivRemSigned(info, WideW)

DoDivremTransformation(info) ==
  CASE ~info.signed /\ info.ty = "I32" -> DivRemU32(info)
    [] ~info.signed /\ info.ty = "I64" -> DivRemU64(info)
    [] info.signed /\ info.ty = "I32"  -> DivRemS32(info)
    [] info.signed /\ info.ty = "I64"  -> DivRemS64(info)
=============================================================================
