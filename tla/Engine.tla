------------------------------- MODULE Engine -------------------------------
(***************************************************************************)
(* The CPU engine's page-granular memory primitives as the Emulator wraps  *)
(* them (core/unicorn/mod.rs) and the MMU helpers built on them            *)
(* (core/mmu.rs): the mapped regions are a set of [b |-> , e |-> ] (end    *)
(* exclusive) and the bookkeeping map_infos a function from a start        *)
(* address to [end |-> , desc |-> ].  Both the loader (ElfLoader) and the  *)
(* syscall handlers (GuestMemory) act through these operators.             *)
(***************************************************************************)
EXTENDS Integers, FiniteSets, TLC

CONSTANT PAGE   \* the engine page size (0x1000), scaled

ASSUME PAGE > 0

\* The pages that hold at least one byte of [b, e).
PagesOver(b, e) == {p \in (b - (b % PAGE))..(e - 1) : p % PAGE = 0}

EnginePages(regs) == UNION {PagesOver(r.b, r.e) : r \in regs}

\* check_mem_area: every byte of [a, a + n) is mapped.
AreaMapped(regs, a, n) == PagesOver(a, a + n) \subseteq EnginePages(regs)

\* Emulator::mem_map: uc_mem_map fails with UC_ERR_ARG for a zero or
\* unaligned size or address and with UC_ERR_MAP on overlap.
UcMapFails(regs, a, s) ==
    \/ s = 0 \/ a % PAGE # 0 \/ s % PAGE # 0
    \/ PagesOver(a, a + s) \cap EnginePages(regs) # {}

\* Emulator::mem_unmap: uc_mem_unmap does nothing for size 0, for an
\* unaligned argument or when part of the range is unmapped; otherwise it
\* removes the range, splitting the regions it cuts.
UcUnmap(regs, a, s) ==
    IF s = 0 \/ a % PAGE # 0 \/ s % PAGE # 0 \/ ~AreaMapped(regs, a, s)
    THEN regs
    ELSE {r \in regs : r.e <= a \/ r.b >= a + s}
         \cup {[b |-> r.b, e |-> a] : r \in {q \in regs : q.b < a /\ q.e > a}}
         \cup {[b |-> a + s, e |-> r.e] : r \in {q \in regs : q.b < a + s /\ q.e > a + s}}

\* Emulator::align_len: round up to a page, 0 and aligned lengths unchanged.
AlignLen(len) == ((len + PAGE - 1) \div PAGE) * PAGE

\* Emulator::uc_align_down.
AlignDown(a) == (a \div PAGE) * PAGE

\* Emulator::uc_align_up: always the next page boundary above, so an
\* aligned address gains a whole page.
AlignUp(a) == (a \div PAGE + 1) * PAGE

-----------------------------------------------------------------------------
(* The MMU helpers of core/mmu.rs.                                         *)

\* Mutant: is_mapped asking only that the lowest region starts at or below
\* the address.
IsMappedLowerOnly(regs, a, s) ==
    LET lowest(S) == CHOOSE r \in S : \A q \in S : r.b <= q.b
    IN  Cardinality(regs) > 1 /\ lowest(regs).b <= a

\* Emulator::is_mapped: the engine's regions come back sorted by start,
\* and only the first two are compared with the requested range.
IsMapped(regs, a, s) ==
    LET lowest(S) == CHOOSE r \in S : \A q \in S : r.b <= q.b
        r0 == lowest(regs)
        r1 == lowest(regs \ {r0})
    IN  Cardinality(regs) > 1 /\ r0.b >= a /\ a + s - 1 <= r1.b

\* Emulator::mmu_map without a host pointer: nothing happens when
\* is_mapped says the range is mapped, otherwise mem_map(..).unwrap() and
\* a MapInfo keyed by the start.  The result is the new engine regions and
\* bookkeeping; ok is FALSE when the unwrap panics.
MmuMap(regs, infos, a, s, desc) ==
    IF IsMapped(regs, a, s) THEN [ok |-> TRUE, regs |-> regs, infos |-> infos]
    ELSE IF UcMapFails(regs, a, s) THEN [ok |-> FALSE, regs |-> regs, infos |-> infos]
    ELSE [ok    |-> TRUE,
          regs  |-> regs \cup {[b |-> a, e |-> a + s]},
          infos |-> (a :> [end |-> a + s, desc |-> desc]) @@ infos]

\* HashMap::remove_entry of map_infos.
RemoveInfo(infos, a) == [k \in DOMAIN infos \ {a} |-> infos[k]]
=============================================================================
