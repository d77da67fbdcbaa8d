------------------------------- MODULE MCFileIO -------------------------------
(***************************************************************************)
(* Instantiates FileIO for TLC.  The guest buffer has two mapped bytes, so *)
(* a count of 1 fits it and a count of 3 runs into unmapped memory.  p1    *)
(* exists with two bytes, p2 does not until an O_CREAT open makes it, p3   *)
(* contains "..".  Two host descriptors let one file be open twice.        *)
(***************************************************************************)
EXTENDS FileIO

CONSTANTS p1, p2, p3

MCPaths == {p1, p2, p3}
MCTraversal == {p3}
MCPresent == {p1}
MCFileData == [p \in {p1} |-> <<5, 6>>]
MCAtFdcwd == -100
MCDirFds == {MCAtFdcwd}
\* last only records the step for the action properties and is never read
\* by a guard, so states that differ only in it behave alike.
MCView == <<fs_vars, io_vars, status>>
\* No guard and no property of the file_io run reads the stat and readlink
\* buffers.
MCIOView == <<fs_vars, files, offset, readable, writable, buf, status>>
=============================================================================
