------------------------------ MODULE MCRunner ------------------------------
(***************************************************************************)
(* Instantiates Runner for TLC.  The values are 7 (scenario 6 of the spec, *)
(* whose derived word is 0) and 0xe000 (both flag bits set); the ops are   *)
(* FUTEX_WAIT, FUTEX_WAKE, FUTEX_WAIT | FUTEX_PRIVATE_FLAG and             *)
(* FUTEX_WAIT_BITSET, which sys_futex does not handle.                     *)
(***************************************************************************)
EXTENDS Runner

MCVals == {7, 57344}
MCOps == {0, 1, 128, 9}
=============================================================================
