-------------------------- MODULE MCDivRemByConst --------------------------
(***************************************************************************)
(* I32 and I64 scaled to 4 and 8 bits; every 8-bit immediate is tried, so *)
(* every divisor of both types, every out-of-range I32 immediate and both *)
(* minimum values (the -2^(w-1) power-of-two special case) are covered.   *)
(***************************************************************************)
EXTENDS DivRemByConst

MCImms == MinSigned(8) .. 2^7 - 1
=============================================================================
