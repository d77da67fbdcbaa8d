--------------------------- MODULE MemoryContract ---------------------------
(***************************************************************************)
(* What the memory manager promises the guest about the mmap arena (spec  *)
(* sections 4.1, 4.6 and 8), with no engine, bookkeeping or contents:     *)
(* the arena is handed out from a cursor that only moves up; what is       *)
(* handed out is mapped and was not mapped before; unmapping only takes    *)
(* pages away; mremap is an unmap and a fresh allocation in one call; an   *)
(* abort ends everything.                                                  *)
(*                                                                         *)
(* GuestMemory implements this specification under the mapping given     *)
(* there (GuestMemory!Contract).                                           *)
(***************************************************************************)
EXTENDS Integers

CONSTANTS
    PAGE,       \* the page size
    ARENA,      \* the first address of the arena, where the cursor starts
    ArenaLimit  \* the end of the arena

VARIABLES
    owned,      \* the arena pages the guest holds mapped
    cursor,     \* the next address handed out
    alive       \* FALSE once the emulator aborted

vars == <<owned, cursor, alive>>

\* The pages of [b, e), b page-aligned.
PagesIn(b, e) == {p \in b..(e - 1) : p % PAGE = 0}

\* The sizes that still fit the arena above the cursor.
Sizes == {k * PAGE : k \in 1..((ArenaLimit - cursor) \div PAGE)}

Init ==
    /\ owned = {}
    /\ cursor = ARENA
    /\ alive = TRUE

\* mmap(0, len): fresh pages at the cursor, which moves past them.
Alloc ==
    /\ alive
    /\ \E n \in Sizes :
          /\ PagesIn(cursor, cursor + n) \cap owned = {}
          /\ owned' = owned \cup PagesIn(cursor, cursor + n)
          /\ cursor' = cursor + n
    /\ UNCHANGED alive

\* munmap: some of the held pages go; the cursor stays.
Release ==
    /\ alive
    /\ owned' \subseteq owned
    /\ UNCHANGED <<cursor, alive>>

\* mremap: some held pages go and fresh ones come at the cursor.
Move ==
    /\ alive
    /\ \E n \in Sizes :
          LET fresh == PagesIn(cursor, cursor + n)
          IN  /\ fresh \cap owned = {}
              /\ fresh \subseteq owned'
              /\ owned' \ fresh \subseteq owned
              /\ cursor' = cursor + n
    /\ UNCHANGED alive

\* A fatal error aborts the process.
Abort ==
    /\ alive
    /\ alive' = FALSE
    /\ UNCHANGED <<owned, cursor>>

Next == Alloc \/ Release \/ Move \/ Abort

Spec == Init /\ [][Next]_vars
=============================================================================
