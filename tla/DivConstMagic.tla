--------------------------- MODULE DivConstMagic ---------------------------
(***************************************************************************)
(* The magic-number tables magic_u32/magic_u64 and magic_s32/magic_s64    *)
(* (crate::divconst_magic_numbers), for a w-bit integer type.  That file  *)
(* is not among the repository's sources; following spec section 4.4 it   *)
(* is the Hacker's Delight / Granlund-Montgomery derivation: the          *)
(* unsigned one with the "add" indicator (magicu2), the signed one        *)
(* (magic).  All unsigned arithmetic wraps modulo 2^w as in the u32/u64   *)
(* code; the loop counter p starts at w - 1.                               *)
(***************************************************************************)
EXTENDS Integers

RECURSIVE MagicULoop(_, _, _, _, _, _, _, _, _)
MagicULoop(d, w, nc, p, q1, r1, q2, r2, doAdd) ==
  LET M    == 2^w
      half == 2^(w - 1)
      p1   == p + 1
      up1  == r1 >= nc - r1
      q1n  == IF up1 THEN (2 * q1 + 1) % M ELSE (2 * q1) % M
      r1n  == IF up1 THEN (2 * r1 - nc) % M ELSE 2 * r1
      up2  == r2 + 1 >= d - r2
      addn == doAdd \/ (IF up2 THEN q2 >= half - 1 ELSE q2 >= half)
      q2n  == IF up2 THEN (2 * q2 + 1) % M ELSE (2 * q2) % M
      r2n  == IF up2 THEN (2 * r2 + 1 - d) % M ELSE 2 * r2 + 1
      delta == d - 1 - r2n
  IN IF p1 < 2 * w /\ (q1n < delta \/ (q1n = delta /\ r1n = 0))
     THEN MagicULoop(d, w, nc, p1, q1n, r1n, q2n, r2n, addn)
     ELSE [mul_by |-> (q2n + 1) % M, do_add |-> addn, shift_by |-> p1 - w]

\* magic_u{w}(d) for 2 <= d < 2^w: returns [mul_by, do_add, shift_by].
MagicU(d, w) ==
  LET M    == 2^w
      half == 2^(w - 1)
      nc   == (M - 1) - (((M - d) % M) % d)
      q1   == half \div nc
      q2   == (half - 1) \div d
  IN MagicULoop(d, w, nc, w - 1, q1, half - q1 * nc, q2, (half - 1) - q2 * d, FALSE)

RECURSIVE MagicSLoop(_, _, _, _, _, _, _, _)
MagicSLoop(ad, w, anc, p, q1, r1, q2, r2) ==
  LET M   == 2^w
      p1  == p + 1
      q1a == (2 * q1) % M
      r1a == (2 * r1) % M
      q1n == IF r1a >= anc THEN q1a + 1 ELSE q1a
      r1n == IF r1a >= anc THEN r1a - anc ELSE r1a
      q2a == (2 * q2) % M
      r2a == (2 * r2) % M
      q2n == IF r2a >= ad THEN q2a + 1 ELSE q2a
      r2n == IF r2a >= ad THEN r2a - ad ELSE r2a
      delta == ad - r2n
  IN IF q1n < delta \/ (q1n = delta /\ r1n = 0)
     THEN MagicSLoop(ad, w, anc, p1, q1n, r1n, q2n, r2n)
     ELSE [q2 |-> q2n, p |-> p1]

\* magic_s{w}(d) for d a signed w-bit value not in {-1, 0, 1}:
\* returns [mul_by, shift_by] with mul_by a signed w-bit value.
MagicS(d, w) ==
  LET M    == 2^w
      two  == 2^(w - 1)
      ad   == IF d < 0 THEN -d ELSE d
      t    == two + (IF d < 0 THEN 1 ELSE 0)
      anc  == (t - 1 - (t % ad)) % M
      q1   == two \div anc
      q2   == two \div ad
      last == MagicSLoop(ad, w, anc, w - 1, q1, two - q1 * anc, q2, two - q2 * ad)
      mul  == IF d < 0 THEN (M - (last.q2 + 1)) % M ELSE (last.q2 + 1) % M
  IN [mul_by   |-> IF mul >= two THEN mul - M ELSE mul,
      shift_by |-> last.p - w]
=============================================================================
