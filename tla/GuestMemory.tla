----------------------------- MODULE GuestMemory -----------------------------
(***************************************************************************)
(* The guest memory manager of rudroid and the syscalls that re-enter it: *)
(* mmap, munmap, mremap and mprotect (core/android/syscalls/mman.rs) over *)
(* the MMU helpers of core/mmu.rs, which drive the CPU engine's mapping   *)
(* primitives (core/unicorn/mod.rs), and openat/close of the guest file   *)
(* table (FsScheme), which a file-backed mmap reads.                      *)
(*                                                                         *)
(* Addresses are byte addresses scaled down: a page is PAGE bytes, the    *)
(* loader's stack and ELF image are two regions below the mmap arena,     *)
(* which starts at ARENA (OS64::mmap_address).  Memory contents are kept  *)
(* per arena page: 0 for a fresh page, a value of Vals for a guest store, *)
(* a path for bytes read from that file.                                  *)
(***************************************************************************)
EXTENDS Integers, FiniteSets, TLC, Engine

CONSTANTS
    ARENA,        \* OS64::mmap_address, the initial mmap cursor
    ArenaLimit,   \* bound: the cursor never passes this address
    StackRegion,  \* [b, e) of the "[stack]" mapping made by the loader
    ElfRegion,    \* [b, e) of the ELF image mapped by the loader
    Lens,         \* byte lengths the guest passes to mmap/munmap/mremap
    Addrs,        \* non-zero addresses the guest passes
    Vals,         \* values the guest stores into memory
    FdArgs,       \* descriptors the guest passes to mmap and close
    MAX_FDS,      \* fs::MAX_FDS
    MremapWired,  \* the builds checked: {FALSE} as built, {TRUE} with an mremap arm
    Paths, Traversal, Present, HostFds, AT_FDCWD, DirFds

ASSUME ARENA % PAGE = 0 /\ ArenaLimit % PAGE = 0
ASSUME StackRegion.e <= ElfRegion.b /\ ElfRegion.e <= ARENA
ASSUME 0 \notin Vals /\ MremapWired \subseteq BOOLEAN

VARIABLES
    regions,      \* the engine's mapped regions, each [b |-> , e |-> ] (end exclusive)
    map_infos,    \* Emulator.map_infos: start -> [end |-> , desc |-> ]
    mem,          \* contents of each arena page
    mmap_address, \* Emulator.mmap_address, the arena cursor
    open_files, host_fds, host_files,
    status,       \* "running", or "panic" once a Rust panic aborted the process
    mremap_wired, \* whether Emulator::syscall dispatches __NR_mremap to sys_mremap
    last          \* the syscall just handled: name, arguments, return value

fs_vars == <<open_files, host_fds, host_files>>
vars == <<regions, map_infos, mem, mmap_address, fs_vars, status, mremap_wired, last>>

FS == INSTANCE FsScheme

\* sys_mremap's failure return 0xffff_ffff; no arena base equals it.
MREMAP_FAILED == -1

-----------------------------------------------------------------------------
(* Arena contents.  The engine and the MMU helpers are Engine's.            *)

\* Pages that stay mapped keep their contents; pages mapped afresh read 0.
SyncMem(m, before, after) ==
    [p \in DOMAIN m |-> IF p \in EnginePages(before) \cap EnginePages(after)
                        THEN m[p] ELSE 0]

Content(p) == IF p \in DOMAIN mem THEN mem[p] ELSE 0

-----------------------------------------------------------------------------
(* The syscall handlers.                                                    *)

Record(sys, a, n1, n2, ret) ==
    [sys |-> sys, a |-> a, n1 |-> n1, n2 |-> n2, mm |-> FALSE, ret |-> ret]

MremapRecord(a, o, n, mm, ret) ==
    [sys |-> "mremap", a |-> a, n1 |-> o, n2 |-> n, mm |-> mm, ret |-> ret]

\* A Rust panic (panic!, a failed unwrap or expect) in the handler of the
\* call rec aborts the emulator; nothing after it happens.
Panic(rec) ==
    /\ status' = "panic"
    /\ last' = rec
    /\ UNCHANGED <<regions, map_infos, mem, mmap_address, fs_vars>>

\* Emulator::syscall's catch-all arm: a syscall without a handler arm
\* panics with "Syscall .. not implemented yet!".
SysUnimplemented(rec) ==
    /\ status = "running"
    /\ Panic(rec)

\* Mutant: need_map set on the wrong branch.
NeedMapInverted(addr) == addr # 0

\* sys_mmap maps only for addr == 0 (need_map).
NeedMap(addr) == addr = 0

\* Mutant: the cursor advanced as uc_align_up would, a page too far.
MmapCursorExtraPage(base, aligned) == base + aligned + PAGE

\* sys_mmap's new cursor after taking base for aligned bytes.
MmapCursor(base, aligned) == base + aligned

\* sys_mmap: a zero address takes the arena cursor and maps there; any
\* other address is used as is.  A file-backed call (not MAP_ANONYMOUS,
\* 0 < fd < MAX_FDS) reads the file into the range and records a MapInfo
\* named after the file's guest path.
SysMmap(addr, len, anon, fd) ==
    LET aligned == AlignLen(len)
        base    == IF addr = 0 THEN mmap_address ELSE addr
        mapped  == IF NeedMap(addr)
                   THEN MmuMap(regions, map_infos, base, aligned, "[syscall_mmap]")
                   ELSE [ok |-> TRUE, regs |-> regions, infos |-> map_infos]
        isFile  == ~anon /\ fd < MAX_FDS /\ fd > 0
        path    == FS!GetPath(fd)
    IN
    /\ status = "running"
    /\ addr = 0 => mmap_address + aligned <= ArenaLimit
    /\ IF ~mapped.ok \/ (isFile /\ path = FS!NoPath)
          \/ (isFile /\ ~AreaMapped(mapped.regs, base, len))
       THEN Panic(Record("mmap", addr, len, fd, 0))
       ELSE
       /\ regions' = mapped.regs
       /\ map_infos' = IF isFile
                       THEN (base :> [end |-> base + AlignLen(len), desc |-> path])
                            @@ mapped.infos
                       ELSE mapped.infos
       /\ mem' = LET m == SyncMem(mem, regions, mapped.regs)
                 IN  IF isFile
                     THEN [p \in DOMAIN m |-> IF p \in PagesOver(base, base + len)
                                             THEN path ELSE m[p]]
                     ELSE m
       /\ mmap_address' = IF addr = 0 THEN MmapCursor(mmap_address, aligned)
                                       ELSE mmap_address
       /\ last' = Record("mmap", addr, len, fd, base)
       /\ UNCHANGED <<fs_vars, status>>

\* sys_mprotect only logs and returns 0.
SysMprotect(addr, len) ==
    /\ status = "running"
    /\ last' = Record("mprotect", addr, len, 0, 0)
    /\ UNCHANGED <<regions, map_infos, mem, mmap_address, fs_vars, status>>

\* sys_munmap: mmu_unmap(address, align_len(len)) drops the MapInfo keyed
\* exactly by address and asks the engine to unmap, ignoring its error.
SysMunmap(address, len) ==
    LET regs == UcUnmap(regions, address, AlignLen(len))
    IN
    /\ status = "running"
    /\ map_infos' = RemoveInfo(map_infos, address)
    /\ regions' = regs
    /\ mem' = SyncMem(mem, regions, regs)
    /\ last' = Record("munmap", address, len, 0, 0)
    /\ UNCHANGED <<mmap_address, fs_vars, status>>

\* Mutant: the cursor is not advanced past the range just handed out.
MremapCursorStays(base, n) == base

\* Mutant: the cursor is rounded up with a page too many.
MremapCursorExtraPage(base, n) == AlignDown(base + n) + PAGE

\* sys_mremap's new cursor after taking base for a range of n bytes.
MremapCursor(base, n) == AlignDown(base + n)

\* sys_mremap: panics on old_len == 0 or without MREMAP_MAYMOVE; finds a
\* MapInfo enclosing [address, address + old_len) (the last one HashMap
\* iteration meets, so any of them); reads the whole region, unmaps
\* len(region) bytes at address, maps a fresh range at the cursor and
\* writes the region's bytes there, ignoring a failed write.
SysMremap(address, old_len, new_len, maymove) ==
    LET newAligned == AlignLen(new_len)
        base       == mmap_address
        enclosing  == {k \in DOMAIN map_infos :
                         address >= k /\ address + old_len <= map_infos[k].end}
    IN
    /\ status = "running"
    /\ base + newAligned <= ArenaLimit
    /\ IF old_len = 0 \/ ~maymove THEN Panic(MremapRecord(address, old_len, new_len, maymove, 0))
       ELSE IF enclosing = {}
       THEN /\ last' = MremapRecord(address, old_len, new_len, maymove, MREMAP_FAILED)
            /\ UNCHANGED <<regions, map_infos, mem, mmap_address, fs_vars, status>>
       ELSE \E k \in enclosing :
            LET len    == map_infos[k].end - k
                regs1  == UcUnmap(regions, address, len)
                mapped == MmuMap(regs1, RemoveInfo(map_infos, address),
                                 base, newAligned, "[syscall_mmap]")
            IN
            IF ~AreaMapped(regions, k, len) \/ ~mapped.ok
            THEN Panic(MremapRecord(address, old_len, new_len, maymove, 0))
            ELSE
            LET m       == SyncMem(mem, regions, mapped.regs)
                written == AreaMapped(mapped.regs, base, len)
            IN
            /\ regions' = mapped.regs
            /\ map_infos' = mapped.infos
            /\ mem' = [p \in DOMAIN m |->
                         IF written /\ p \in PagesOver(base, base + len)
                         THEN Content(k + (p - base)) ELSE m[p]]
            /\ mmap_address' = MremapCursor(base, newAligned)
            /\ last' = MremapRecord(address, old_len, new_len, maymove, base)
            /\ UNCHANGED <<fs_vars, status>>

\* sys_openat -> FsScheme::openat: check_for_traversal panics on "..";
\* a real dirfd goes to the host's openat, anything else to open().
SysOpenat(dirfd, path, creat) ==
    /\ status = "running"
    /\ IF path \in Traversal THEN Panic(Record("openat", dirfd, 0, 0, 0))
       ELSE
       /\ \E fd \in {-1} \cup HostFds :
            /\ IF FS!UsesHostDirFd(dirfd)
               THEN FS!OpenAtDirFd(path, fd)
               ELSE FS!Open(path, creat, fd)
            /\ last' = Record("openat", dirfd, 0, 0, fd)
       /\ UNCHANGED <<regions, map_infos, mem, mmap_address, status>>

\* sys_faccessat: FsScheme::open(path, O_RDONLY) and the descriptor (or
\* -1) is the return value; nothing closes it.
SysFaccessat(path) ==
    /\ status = "running"
    /\ IF path \in Traversal THEN Panic(Record("faccessat", 0, 0, 0, 0))
       ELSE /\ \E fd \in {-1} \cup HostFds :
                 /\ FS!Open(path, FALSE, fd)
                 /\ last' = Record("faccessat", 0, 0, 0, fd)
            /\ UNCHANGED <<regions, map_infos, mem, mmap_address, status>>

\* sys_close -> FsScheme::close, returns 0.
SysClose(fd) ==
    /\ status = "running"
    /\ FS!Close(fd)
    /\ last' = Record("close", fd, 0, 0, 0)
    /\ UNCHANGED <<regions, map_infos, mem, mmap_address, status>>

\* The guest's own code stores a value into a mapped arena page.
GuestStore(p, v) ==
    /\ status = "running"
    /\ p \in DOMAIN mem \cap EnginePages(regions)
    /\ mem' = [mem EXCEPT ![p] = v]
    /\ last' = Record("store", p, 0, 0, v)
    /\ UNCHANGED <<regions, map_infos, mmap_address, fs_vars, status>>

-----------------------------------------------------------------------------
ArenaPages == {p \in ARENA..(ArenaLimit - 1) : p % PAGE = 0}

\* The loader leaves the stack and the ELF image mapped and recorded.
Init ==
    /\ regions = {StackRegion, ElfRegion}
    /\ map_infos = (StackRegion.b :> [end |-> StackRegion.e, desc |-> "[stack]"])
                   @@ (ElfRegion.b :> [end |-> ElfRegion.e, desc |-> "elf"])
    /\ mem = [p \in ArenaPages |-> 0]
    /\ mmap_address = ARENA
    /\ FS!FsInit
    /\ status = "running"
    /\ mremap_wired \in MremapWired
    /\ last = Record("none", 0, 0, 0, 0)

Next ==
    /\ UNCHANGED mremap_wired
    /\ \/ \E a \in {0} \cup Addrs, n \in Lens, anon \in BOOLEAN, fd \in FdArgs :
             SysMmap(a, n, anon, fd)
       \/ \E a \in Addrs, n \in Lens : SysMprotect(a, n)
       \/ \E a \in Addrs, n \in Lens : SysMunmap(a, n)
       \/ mremap_wired /\ \E a \in Addrs, o, n \in Lens, mm \in BOOLEAN :
             SysMremap(a, o, n, mm)
       \/ ~mremap_wired /\ \E a \in Addrs, o, n \in Lens, mm \in BOOLEAN :
             SysUnimplemented(MremapRecord(a, o, n, mm, 0))
       \/ \E d \in DirFds, p \in Paths, c \in BOOLEAN : SysOpenat(d, p, c)
       \/ \E p \in Paths : SysFaccessat(p)
       \/ \E fd \in FdArgs : SysClose(fd)
       \/ \E p \in ArenaPages, v \in Vals : GuestStore(p, v)

Spec == Init /\ [][Next]_vars

-----------------------------------------------------------------------------
Contents == {0} \cup Vals \cup Paths

TypeOK ==
    /\ regions \subseteq [b : 0..ArenaLimit, e : 0..ArenaLimit]
    /\ \A k \in DOMAIN map_infos :
          map_infos[k] \in [end : 0..(ArenaLimit + PAGE),
                            desc : {"[stack]", "elf", "[syscall_mmap]"} \cup Paths]
    /\ mem \in [ArenaPages -> Contents]
    /\ mmap_address \in ARENA..ArenaLimit
    /\ FS!FsTypeOK
    /\ status \in {"running", "panic"}
    /\ mremap_wired \in BOOLEAN

-----------------------------------------------------------------------------
(* Properties.                                                              *)

MinLen(x, y) == IF x < y THEN x ELSE y

\* The arena allocator of sys_mmap and sys_mremap hands out the range at
\* mmap_address without asking the engine; mem_map's unwrap cannot panic
\* with UC_ERR_MAP only if nothing is ever mapped at or above the cursor,
\* whatever mix of mmap, munmap and mremap the guest issues.
NothingMappedAboveCursor ==
    \A p \in EnginePages(regions) : p < mmap_address

\* Spec section 8: after mmap(0, len) the returned base is the old cursor,
\* the cursor moved by align_up(len) and the engine maps [base, base+len).
\* This rests on Emulator::is_mapped answering "not mapped" for the fresh
\* range so that mmu_map really calls mem_map.
MmapMapsFreshRange ==
    [][ (last'.sys = "mmap" /\ last'.a = 0 /\ status' = "running")
        => /\ last'.ret = mmap_address
           /\ mmap_address' = mmap_address + AlignLen(last'.n1)
           /\ AreaMapped(regions', last'.ret, last'.n1) ]_vars

\* Spec section 8: after mremap the first min(old_len, new_len) bytes at
\* the returned base equal the bytes at the old address before the call.
MremapPreservesContents ==
    [][ (last'.sys = "mremap" /\ last'.ret # MREMAP_FAILED /\ status' = "running")
        => \A off \in PagesOver(0, MinLen(last'.n1, last'.n2)) :
              mem'[last'.ret + off] = Content(last'.a + off) ]_vars

\* Spec section 3: a FileTable entry is inserted on a successful open or
\* openat and removed on close, so every descriptor in FsScheme.open_files
\* is a host descriptor the emulator holds open.
FileTableOnlyOpen ==
    \A fd \in DOMAIN open_files : fd \in host_fds

\* The arena contract of spec sections 4.1, 4.6 and 8 seen through the
\* engine: the arena pages it has mapped, the cursor, and whether the
\* emulator still runs.
Contract == INSTANCE MemoryContract
                WITH owned  <- EnginePages(regions) \cap ArenaPages,
                     cursor <- mmap_address,
                     alive  <- status = "running"

\* sys_mmap, sys_munmap, sys_mremap (where wired) and every other syscall
\* implement MemoryContract: mmap(0, len) maps exactly the fresh pages at
\* the cursor and moves it past them, munmap only unmaps, mremap unmaps and
\* takes fresh pages at the cursor, and nothing else changes the arena.
MemoryContractSpec == Contract!Spec

\* Spec section 3: the regions of the bookkeeping map do not overlap.
RegionsDisjoint ==
    \A k1, k2 \in DOMAIN map_infos :
        k1 # k2 => map_infos[k1].end <= k2 \/ map_infos[k2].end <= k1

=============================================================================
