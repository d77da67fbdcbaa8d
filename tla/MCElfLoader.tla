----------------------------- MODULE MCElfLoader -----------------------------
(***************************************************************************)
(* ElfLoader with pages of 16 bytes: the [stack] at [512, 1024), ET_DYN    *)
(* images at 1152, the linker at 1536, ET_EXEC images below the stack.     *)
(***************************************************************************)
EXTENDS ElfLoader

Ph(off, v, f, m) == [off |-> off, v |-> v, p |-> v, f |-> f, m |-> m]

\* A PIE with text and data+BSS and a PT_INTERP, as the NDK links one.
PieElf   == [type |-> "dyn", segs |-> <<Ph(0, 0, 20, 20), Ph(24, 40, 4, 12)>>,
             phoff |-> 4, entry |-> 8, interp |-> TRUE]
\* A static ET_EXEC at a fixed address below the stack.
ExecElf  == [type |-> "exec", segs |-> <<Ph(0, 32, 20, 20), Ph(24, 72, 4, 4)>>,
             phoff |-> 4, entry |-> 40, interp |-> FALSE]
\* A text segment whose file image ends exactly on a page boundary, with
\* the next segment on the following page.
EdgeElf  == [type |-> "dyn", segs |-> <<Ph(0, 0, 16, 16), Ph(16, 16, 4, 4)>>,
             phoff |-> 4, entry |-> 8, interp |-> FALSE]
\* A first segment whose BSS runs two pages past its file bytes.
BssElf   == [type |-> "dyn", segs |-> <<Ph(0, 0, 4, 40), Ph(48, 48, 4, 4)>>,
             phoff |-> 2, entry |-> 2, interp |-> FALSE]

MCImages == {PieElf, ExecElf, EdgeElf, BssElf}

\* linker64: two PT_LOADs, the second with BSS.
MCLinker == [segs |-> <<Ph(0, 0, 12, 12), Ph(16, 32, 4, 20)>>, entry |-> 4]
=============================================================================
