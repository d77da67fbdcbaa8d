----------------------------- MODULE MCSigAction -----------------------------
(***************************************************************************)
(* Instantiates SigAction for TLC: two signals, two records, two mapped   *)
(* buffers (so act and oldact can be equal or distinct) and one unmapped. *)
(***************************************************************************)
EXTENDS SigAction

CONSTANTS r1, r2, zero

MCRecs == {r1, r2}
MCNull == 0
MCMapped == {16, 32}
MCUnmapped == {48}
=============================================================================
