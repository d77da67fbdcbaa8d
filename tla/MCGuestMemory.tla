---------------------------- MODULE MCGuestMemory ----------------------------
(***************************************************************************)
(* Instantiates GuestMemory for TLC.  A page is 2 bytes, so the lengths  *)
(* 0..3 cover an empty range, less than a page, exactly a page and a     *)
(* page and a half; the arena holds four pages.                          *)
(***************************************************************************)
EXTENDS GuestMemory

CONSTANTS p1, p2, p3

MCStack == [b |-> 2, e |-> 4]
MCElf   == [b |-> 4, e |-> 6]
\* p1 exists under the rootfs, p2 does not, p3 contains "..".
MCPaths == {p1, p2, p3}
MCTraversal == {p3}
MCPresent == {p1}
MCAtFdcwd == -100
MCDirFds == {MCAtFdcwd, 5}
\* last only records the step for the action properties and is never read
\* by a guard, so states that differ only in it behave alike.
MCView == <<regions, map_infos, mem, mmap_address, fs_vars, status, mremap_wired>>
\* No guard reads the page contents, and no property of the
\* memory_as_built run does, so that run may also merge states that differ
\* only in them.
MCArenaView == <<regions, map_infos, mmap_address, fs_vars, status, mremap_wired>>
=============================================================================
