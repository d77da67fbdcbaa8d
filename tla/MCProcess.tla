------------------------------ MODULE MCProcess ------------------------------
(***************************************************************************)
(* Instantiates ProcessCalls for TLC: the buffers of MCSigAction, 32      *)
(* bytes mapped after each mapped buffer, getrandom counts 0, 16 and 48   *)
(* (nothing, a count that fits and one that runs past the mapping), and   *)
(* sched_getscheduler pids 0, 1337 and 0xffff_ffff (pid_s = -1).        *)
(***************************************************************************)
EXTENDS ProcessCalls

CONSTANTS r1, r2, zero, tid_word, entropy, failed

MCRecs == {r1, r2}
MCNull == 0
MCMapped == {16, 32}
MCUnmapped == {48}
MCCounts == {0, 16, 48}
MCPids == {0, 1337, -1}
=============================================================================
