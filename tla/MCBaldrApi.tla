----------------------------- MODULE MCBaldrApi -----------------------------
(***************************************************************************)
(* Two functions compiled into the same CompiledFunc, each with up to two *)
(* code bytes and two metadata entries of every kind.  A first Vec        *)
(* allocation of one slot makes the second push of a function move its    *)
(* Vec to a new buffer, so the view of the first function and the        *)
(* buffers of the second are at different addresses.  The two bodies    *)
(* have distinct bytes and sizes two and one; the module lays them out   *)
(* one after the other with a trailing byte, so a slice off by one at     *)
(* either end yields other bytes than the body.                          *)
(***************************************************************************)
EXTENDS BaldrApi

LOCAL INSTANCE SequencesExt

MCBodies == <<<<7, 8>>, <<9>>>>

MCModuleBytes == FlattenSeq(MCBodies) \o <<6>>

\* Each body starts where the bodies before it end.
MCFuncRanges ==
  [i \in DOMAIN MCBodies |->
     [start |-> Len(FlattenSeq(SubSeq(MCBodies, 1, i - 1))), size |-> Len(MCBodies[i])]]
=============================================================================
