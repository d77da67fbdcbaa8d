# TLA+ models of rudroid

rudroid (`src/code/src`) runs an aarch64 Android ELF on the unicorn CPU
engine and emulates the Linux syscalls the guest makes. This directory holds
TLA+ models of the parts of that harness whose state a model checker can
explore. It also holds the TLC configurations that check them and
`PROJECT.json`, which maps every definition to the source lines it models.

## 1. The system

rudroid runs on a single thread. `main.rs` builds an `Emulator`
(`core/rudroid.rs`) and loads the ELF (`core/loaders/elfLoader.rs`). It then
runs the dynamic linker (`run_linker`) and, unconditionally after it, the
program's entry (`run_elf`). The guest executes inside unicorn. A guest `svc`
raises the interrupt hook (`core/hooks.rs` → `syscalls::hook_syscall`). The
hook reads X8 and dispatches in `Emulator::syscall`
(`core/android/syscalls/mod.rs`). The handler reads X0..X5 and writes its
result to X0. A Rust panic anywhere aborts the process.

### Components, their state, operations and interactions

| Component | Source | State | Operations |
|---|---|---|---|
| CPU engine wrapper | `core/unicorn/mod.rs` | the engine's mapped regions and their bytes | `mem_map`, `mem_unmap`, `mem_read`, `mem_write`, `mem_regions`, `align_len`, `uc_align_down` |
| Memory manager | `core/mmu.rs` | `map_infos: HashMap<start, MapInfo>` (the bookkeeping) | `mmu_map` (is_mapped, mem_map().unwrap(), add_mapinfo), `mmu_unmap` (remove_entry at the key, mem_unmap), `is_mapped` |
| Memory syscalls | `core/android/syscalls/mman.rs` | `mmap_address` (the arena cursor) | `sys_mmap`, `sys_mprotect`, `sys_munmap`, `sys_mremap` |
| Guest file table | `core/android/fs/mod.rs` | `open_files: HashMap<host fd, oFile>` | `open`, `openat`, `close`, `get_path`, `read`/`write`/`pread` |
| File syscalls | `syscalls/fnctl.rs`, `syscalls/unistd.rs` | none of their own; the host's file offsets and contents | `sys_openat`, `sys_close`, `sys_faccessat`, `sys_read`, `sys_pread64`, `sys_write`, `sys_readlinkat`, `sys_fcntl` |
| Stat syscalls | `syscalls/stat.rs` | none; they write the guest's stat buffer | `sys_fstatat`, `sys_fstat`, `sys_fstatfs` |
| Dispatcher | `syscalls/mod.rs` | none | `syscall` (one arm per handled syscall, a panic for the rest) |
| Signal table | `syscalls/signal.rs` | `sigmap: signum -> 20 bytes` | `sys_rt_sigaction` |
| Process syscalls | `syscalls/unistd.rs`, `random.rs`, `sched.rs`, `prctl.rs`, `ioctl.rs` | none; they write guest buffers and X0 | `sys_getpid`, `sys_getuid`, `sys_set_tid_address`, `sys_getrandom`, `sys_sched_getscheduler`, `prctl`, `sys_ioctl`, the `clock_gettime`/`madvise` stubs |
| Packing helpers | `core/mmu.rs` | none | `pack`, `pack_64`, `pack_32`, `unpack`, `unpack_64`, `unpack_32` in the ELF header's byte order |
| Futex | `syscalls/futex.rs` | the futex word in guest memory | `sys_futex` (WAIT stops the engine, WAKE returns 0) |
| ELF loader | `core/loaders/elfLoader.rs` | stack, image and linker regions; the initial stack contents | `load`, `load_with_ld`, the stack and auxv construction |
| Orchestrator | `main.rs`, `elfRunner.rs` | which program runs | `run_linker`, `run_elf`, `handle_emu_exception` |

How the parts interact:
- The loader seeds the memory manager with the stack, the ELF image and the
  linker, and sets `mmap_address` to `OS64::mmap_address`. That arena lies
  above every loader region (`core/mod.rs` 13-19).
- The memory syscalls re-enter the memory manager.
- A file-backed `mmap` reads the file table (`get_path`, `pread`) and writes
  guest memory.
- `faccessat` and `openat` both go through `FsScheme::open`.
- `read`, `pread64` and `write` pass the guest descriptor to the host as it
  is. Two descriptors of one file share its bytes but each has its own
  offset. The handlers copy between a host vector and guest memory with
  `mem_write`/`mem_read_as_vec`.
- `futex` can stop the engine. This ends the current `emu_start` run, after
  which `main` starts the next one.

### Hard behaviours of this code

The code has no threads. Its difficulty is in long sequences of calls whose
state carries over from one call to the next. Each item below is listed, at
its line, in `PROJECT.json` under "hazards".
- **The arena cursor.** mmap and mremap hand out `[mmap_address, +len)`
  without asking the engine whether it is free. The cursor must stay above
  everything mapped, or `mem_map(..).unwrap()` panics.
- **`is_mapped`.** It looks at only the two lowest engine regions. At
  mmap's call site the stack region stays lowest, so it never wrongly says
  "mapped" there; its reachable effect is that the loader's second
  `mmu_map` misses an overlap with the page `uc_align_up` added, and
  `mem_map` panics (the image_loaded run).
- **Bookkeeping versus engine.** munmap removes only the MapInfo keyed
  exactly at its address, while the engine splits regions. A file mmap at a
  hint records a region over existing ones. The bookkeeping and the engine
  therefore drift apart.
- **`sys_mremap`.**
  - It picks the enclosing region in HashMap order.
  - It unmaps `len(region)` bytes from the caller's address.
  - It writes the whole old region into the new range and ignores the write's
    failure.
  - The dispatcher has no arm for it.
- **The file table.**
  - openat with a real dirfd files the host's -1.
  - faccessat leaks a descriptor.
  - close always closes the host descriptor but removes the entry only when
    it finds one.
- **Futex.** FUTEX_WAIT stops the engine and then still writes 8 bytes at a
  4-byte word. Together with the orchestrator, a stop during the linker run
  still starts the ELF.
- **sigaction.** It writes `oldact` before it reads `act`.
- **Process syscalls.**
  - `getrandom` must report its count only when the single `mem_write`
    succeeded (`sys_read` gets the same thing wrong);
  - `set_tid_address` stores and returns the host's pid while `getpid`
    returns 1337;
  - `ioctl` hands the guest's pointer to the host kernel;
  - `sched_getscheduler` asks the host about whatever process has the
    guest's pid.
- **Byte order.** The engine is always opened little-endian, while `pack`
  and `unpack` follow the ELF header.
- **File I/O.**
  - `FsScheme::read` and `write` wrap the host result in `Ok`, so a failed
    read still writes `count` zero bytes to the guest.
  - `sys_read` ignores a failed `mem_write` and returns the host's count.
  - `pread` seeks, reads and seeks back; `sys_pread64` sends position 0 to
    `sys_read` instead, and for other positions never copies the bytes to
    the guest.

### Correctness properties per component

- **Memory manager and memory syscalls** (spec §3, §4.6, §8):
  - nothing is mapped at or above the cursor;
  - `mmap(0, len)` returns the old cursor, advances it by `align_len(len)`
    and leaves `[base, base+len)` mapped;
  - `mremap` preserves the first `min(old, new)` bytes;
  - bookkeeping regions do not overlap.
- **Arena contract** (§4.1, §4.6, §8): the engine's arena pages and the
  cursor behave as `MemoryContract`, an allocator that hands out fresh
  pages from a cursor that only moves up.
- **File I/O** (§5): a read gives the file's bytes from the descriptor's
  offset and moves it, including bytes written through another descriptor
  of the same file; a reported count has reached the guest (§7: an engine
  failure aborts).
- **File table** (§3): every entry is a descriptor the emulator holds open.
- **Futex** (§4.7, §8): a matching `futex_wait` is terminal; the word
  becomes `(val & 0xc000) | (val & 0x2000)` and nothing else is written.
- **Signal table** (§4.5): `oldact` receives the record stored before the
  call.
- **Process syscalls** (§4.4): `getrandom` returns `n` exactly when the
  `n` bytes reached the buffer.
- **Loader** (§8 scenario 2): `SP` is 16-byte aligned, `argc` is at `SP`,
  the argv pointers are in order and the first auxv key is `AT_PHDR`.

## 2. Modules

| Module | Models | Composition |
|---|---|---|
| `FsScheme` | `FsScheme::open/openat/close/get_path` and the host's descriptor allocation | instantiated by `GuestMemory` and `FileIO` as `FS` |
| `MemoryContract` | the arena allocator the spec promises (§4.1, §4.6, §8): owned pages, a cursor, abort | abstract; `GuestMemory` instantiates it as `Contract` with a refinement mapping |
| `GuestMemory` | the engine's memory primitives, `mmu.rs`, the memory syscalls, `sys_openat`, `sys_faccessat`, `sys_close`, the dispatcher's arms for them and its catch-all arm, and the loader's final layout as `Init` | composes `FsScheme` |
| `MCGuestMemory` | constants and views for TLC | extends `GuestMemory` |
| `FileIO` | `sys_openat` (AT_FDCWD), `sys_close`, `sys_read`, `sys_pread64`, `sys_write`, `sys_readlinkat` (unistd.rs, fnctl.rs), `FsScheme::read/write/pread`, `sys_fstatat`, `sys_fstat`, `sys_fstatfs` (stat.rs), `mem_write` | composes `FsScheme` with the host's file offsets and contents and a guest buffer |
| `MCFileIO` | constants and views for TLC | extends `FileIO` |
| `SigAction` | `Emulator.sigmap` and `sys_rt_sigaction`/`sigaction`, `sys_sigaltstack`, `sys_rt_sigprocmask`, `sys_exit_group` (signal.rs) | stands alone: no other handler reads `sigmap` |
| `MCSigAction` | constants for TLC | extends `SigAction` |
| `ProcessCalls` | `sys_getpid`, `sys_getuid`, `sys_set_tid_address` (unistd.rs), `sys_getrandom` (random.rs), `sys_sched_getscheduler` (sched.rs), `prctl`, `sys_ioctl`, the dispatcher's stubs, and X0 | extends `SigAction`: the new handlers write the same guest buffers, and its `ProcNext` contains every `SigAction` handler |
| `MCProcess` | constants for TLC | extends `ProcessCalls` |
| `Codec` | `pack`, `pack_64`, `pack_32`, `unpack`, `unpack_64`, `unpack_32` (mmu.rs 222-349) as recursive operators | extended by `Runner` |
| `Runner` | `main`'s `run_linker` then `run_elf`, `emu_start`/`emu_stop`, `handle_emu_exception`, `sys_futex` and `sys_exit_group` | extends `Codec`: the futex word is read with `unpack` and written with `pack`, byte by byte |
| `MCRunner` | constants for TLC | extends `Runner` |
| `Engine` | the engine's page-granular primitives (`mem_map`, `mem_unmap`, `align_len`, `uc_align_down`, `uc_align_up`) and `mmu.rs`'s `is_mapped` and `mmu_map` as operators over a set of regions and the MapInfo bookkeeping | extended by `GuestMemory` and `ElfLoader`, which both map through it |
| `ElfLoader` | `Emulator::load` and the whole of `load_with_ld` (elfLoader.rs 42-322): the `[stack]` mapping, both walks of the PT_LOAD headers, the BSS tail, the dynamic linker, then the initial stack: `copy_str`, the argv/envp loops, `alignment`, the aux vector, padding, the table write | extends `Engine`; its final layout is what `GuestMemory`'s `Init` starts from |
| `MCElfLoader` | four ELF layouts and the linker for TLC | extends `ElfLoader` |

### GuestMemory, state and actions against the code

**Scaling.** Addresses are scaled down. A page is `PAGE` (2) units, the
loader's stack and image are at `[2,4)` and `[4,6)`, and the arena starts
at `ARENA` (8). The real layout has the same order: stack, image and linker
all lie below the arena.

**Variables:**
- `regions` are unicorn's mapped regions. Map and unmap follow
  `uc_mem_map`/`uc_mem_unmap`: a zero or unaligned size is an error, overlap
  is an error, and an unmap of a range that is not wholly mapped changes
  nothing, while an unmap inside a region splits it.
- `map_infos` is `Emulator.map_infos`, a function from start to
  `[end, desc]`.
- `mem` is one content per arena page: 0, a stored value, or the path of the
  file it was read from.
- `mmap_address` is the arena cursor.
- `open_files`, `host_fds` and `host_files` belong to `FsScheme`.
- `status` becomes `"panic"` at a Rust panic, which is terminal.
- `last` is the syscall just handled (name, arguments and X0). It serves
  the action properties only, and `MCView` leaves it out of state identity
  because no guard reads it.

**Actions** (the disjuncts of `Next`, each the whole handler):
- `SysMmap` (mman.rs 14-63):
  - `need_map` only for `addr == 0`;
  - `mmu_map` with `is_mapped`;
  - the file branch: `get_path(..).unwrap()`, the MapInfo and
    `write(..).expect`;
  - return `base`.
- `SysMprotect` only returns 0.
- `SysMunmap`: `mmu_unmap(address, align(len))`, with the engine's error
  ignored.
- `SysMremap` (mman.rs 171-230):
  - it panics when `old_len == 0` or `MREMAP_MAYMOVE` is missing;
  - it takes any enclosing MapInfo, because HashMap order is
    unspecified;
  - it reads the region with `unwrap`, then calls
    `mmu_unmap(address, len)`;
  - it advances the cursor to `align_down(base + align(new_len))` and calls
    `mmu_map`;
  - its `mem_write` is all-or-nothing, and a failure is ignored;
  - it returns 0xffff_ffff when no region encloses the range.

  `SysMremap` is enabled only when the variable `mremap_wired` is TRUE.
  `Init` picks it from the constant set `MremapWired` and no step changes
  it. The code as built has no `__NR_mremap` arm, which is
  `mremap_wired = FALSE`: a guest mremap then takes `SysUnimplemented`, the
  dispatcher's panic arm. `mremap_wired = TRUE` checks `sys_mremap` as the
  spec wires it. The memory_as_built run explores both builds.
- `SysOpenat`, `SysFaccessat` and `SysClose` call `FsScheme`:
  - `check_for_traversal` panics on a path with `..`;
  - `0 < dirfd < 256` goes to the host's `openat` with a path that has no
    NUL terminator. What the host then opens is undefined, so the result is
    any free descriptor or -1, and it is inserted unchecked;
  - otherwise the call goes to `open`, where the host returns the lowest
    free descriptor when the file exists or `O_CREAT` is given.
- `GuestStore` is the guest's own code writing a mapped arena page.

**Refinement.** `Contract` instantiates `MemoryContract` with
`owned <- EnginePages(regions) \cap ArenaPages`,
`cursor <- mmap_address` and `alive <- status = "running"`. The run checks
`MemoryContractSpec == Contract!Spec` as a property. Every step of
`GuestMemory` must therefore be a stutter of the contract or one of its
steps:
- `Alloc` is `mmap(0, len)`;
- `Release` is `munmap`;
- `Move` is `mremap`;
- `Abort` is a panic.

So `mmap(0, len)` must map exactly fresh pages at the cursor and move the
cursor past them. munmap may only take pages away. A hint-address mmap, an
mprotect, a store, and the file calls must leave the arena alone.

`MCArenaView` leaves the page contents out of state identity for this run.
No guard reads them, and none of the run's properties do.

### FileIO

- **Variables:**
  - `open_files`, `host_fds` and `host_files` come from `FsScheme`;
  - `files` is the bytes of each host file, as small integers;
  - `offset` is the host offset of each descriptor;
  - `readable` and `writable` are the descriptors opened in each mode
    (`O_ACCMODE` of the flags given to `OpenOptions`);
  - `buf` is the guest buffer's `BufLen` mapped bytes. A count above
    `BufLen` reaches unmapped memory;
  - `statbuf` and `linkbuf` are what was last written to the stat and
    readlink buffers;
  - `status` and `last` are as in GuestMemory.
- **Actions:**
  - `SysRead` is `vec![0; count]`, `FsScheme::read` (always `Ok`), then a
    `mem_write` of all `count` bytes, all or nothing with the error
    ignored, then the count returned.
  - `SysPread64` with a non-zero position is `FsScheme::pread`: save, seek,
    read, restore. Its bytes stay in the host vector. Position 0 is
    `sys_read`.
  - `SysWrite` is `mem_read_as_vec(..).unwrap()`, which panics past the
    mapping, then the host write at the offset.
  - `SysFstatat` returns 0 and writes the record when the translated path
    exists, otherwise `0xffff_ffff` with the buffer untouched.
  - `SysFstat` panics on a descriptor the host does not hold (`unwrap`).
  - `SysFstatfs` writes constants.
  - `SysReadlinkat` gives `/proc/self/exe` the ELF path and returns its
    length. A `/proc/self/fd` query gets its own bytes back, and any other
    path gets 0.

### SigAction

- **Variables:**
  - `sigmap` is `Emulator.sigmap`, a partial function from a signal number
    to a 20-byte record;
  - `mem` is the record in each mapped buffer;
  - `status` is running, panic or exited.
- **Records:** a record is a model value, or `Zero` for the zeroed
  `vec![0u8; 20]`.
- **`SysRtSigaction`:** the whole of `Emulator::sigaction` in the code's
  order:
  - when `oldact != 0`, the previous record (or zeros) goes to `*oldact`;
  - then, when `act != 0`, the five words at `act` are read from the
    updated memory and stored;
  - a non-null unmapped pointer panics (`unwrap`/`expect`).

### ProcessCalls

- **Variables:** those of `SigAction`, and `x0`, the value `set_return_val`
  last wrote.
- **Buffers:** a mapped buffer has `Room` bytes mapped after it. Besides
  sigaction records it may hold `TidWord` (the 4 bytes of `pack_32(pid)`)
  or `Entropy` (bytes of `/dev/urandom`).
- **`SysGetrandom`:** one `mem_write` of `count` bytes, all or nothing
  (`WriteFits`); X0 is `count` on success and 0xffff_ffff (`Failed`)
  otherwise. An empty write always succeeds.
- **`SysSetTidAddress`:** the 4-byte write's result is dropped; X0 is the
  host pid.
- **`SysSchedGetscheduler`:** EINVAL for a negative `pid as u32 as i32`,
  otherwise any answer the host may give for that pid.
- **`SysIoctl`:** X0 = 0xffff_ffff; the host call's effect is outside the
  model.
- **`SysStub`:** prctl, clock_gettime, madvise, sigaltstack and
  rt_sigprocmask set X0 = 0 and nothing else.

### Runner

- **Variables:**
  - `phase` is the `emu_start` in progress (linker, elf), or how the
    process ended;
  - `stop_req` records that `emu_stop` was called in the current
    `emu_start`;
  - `mem` holds the bytes of two mapped 32-bit words, `A` and `B`. `B` is
    the last word of its mapping. The guest's stores are little-endian,
    like the engine (`EngineWord`); `sys_futex` reads a word with
    `unpack` (`Word`) and writes `pack(res)` with `Codec`'s operators, in
    the ELF's byte order `Endian`.
- **`SysFutex`:**
  - the word read `unwrap`s, so an unmapped `uaddr` panics;
  - the switch is on `op & 0x7f`;
  - `FUTEX_WAIT` calls `emu_stop` on a match, then always writes
    `pack(mytype | shared)`. Those are 8 bytes, all-or-nothing and
    unchecked, so at `A` they zero `B`, and at `B` nothing is written;
  - `FUTEX_WAKE` returns 0;
  - any other op leaves X0 = `uaddr`.
- **`EmuStartReturns`:** the run returns Ok because of a stop or its
  `until` address. After the linker, `main` always goes on to `run_elf`.
- **`EmuStartFails`:** `handle_emu_exception`'s panic.

### ElfLoader

- **Image actions**, one per step of `load` and `load_with_ld`, in the
  code's order (`pc` names the step):
  - `Load` maps `[stack]` through `mmu_map`, takes `load_address` (0 for
    ET_EXEC, `OS64::load_address` for ET_DYN) and the first walk's
    `mem_start`/`mem_end` (aligned down and `uc_align_up`ped);
  - `LoadSegment` is one turn of the second walk: `mmu_map` of
    `[align_down(base+vaddr), uc_align_up(base+vaddr+filesz))`, then the
    file bytes written at `base+vaddr` with `.expect`. A panic of either
    (`mem_map`'s unwrap on overlap, the write's expect) is `Abort`;
  - `MapTail` maps `[mem_e, base+mem_end)` when the image extends past the
    last segment's mapping, and sets `elf_entry` and `brk_address`;
  - `MapInterp`, `LoadInterpSegment` and `EndInterp` map the linker's
    image at `interp_address` and write its segments at their paddr.
- **Engine:** both mapping and writing go through `Engine`'s `MmuMap` and
  `AreaMapped`, so `is_mapped`'s two-region comparison and
  `uc_align_up`'s extra page for an aligned address are in the model.

- **Memory:** the stack is byte-addressed below `Top`. Unwritten bytes are
  zero, because the mapping is fresh. A written byte records what it
  belongs to: byte i of a string, byte i of an 8-byte packed word, or a
  padding `'0'`.
- **Strings:** a string is its identity and its length.
- **Actions:** one per step of the code, in its order:
  - `CopyArg0` copies the path and starts the table with argc and its
    pointer;
  - `CopyArg` and `CopyEnv` are one turn each of the two loops, last
    string first;
  - `EndArgv` and `EndEnvp` are the loop breaks with their 0 words;
  - `SeedAux` is the straight-line tail: align, the 16 random bytes and
    "aarch64", align, the aux vector, padding, and the write of the whole
    table at `new_stack - len`.
- **Stack properties:** the checks read the final memory back through
  `ReadWord` and a recursive `ReadCStr`. They therefore see any string
  that the table or a later string overwrote.

## 3. Runs

| Run | cfg | Expect | What it shows |
|---|---|---|---|
| memory_as_built | `MCGuestMemory.cfg` | pass | `TypeOK`; `NothingMappedAboveCursor`; `MmapMapsFreshRange` (spec §8 mmap contract); `MemoryContractSpec` (the refinement). Checked both for the dispatcher as built and with `sys_mremap` wired in |
| mremap_contents | `MCMremapContents.cfg` | violation | `MremapPreservesContents`: a shrinking mremap returns zeros; the write of the whole old region fails and is ignored (mman.rs 222) |
| file_table_only_open | `MCFileTableOnlyOpen.cfg` | violation | `FileTableOnlyOpen`: openat with a host dirfd files descriptor -1 (fs/mod.rs 117) |
| file_io | `MCFileIO.cfg` | pass | `TypeOK`; `ReadDeliversAtOffset`: reads see the file from the descriptor's offset, including bytes written through another descriptor of the same file |
| read_unmapped_buffer | `MCReadDeliversOrAborts.cfg` | violation | `ReadDeliversOrAborts`: a read into a buffer that runs into unmapped memory returns the count while no byte reached the guest (unistd.rs 88), against spec §7 |
| process_calls | `MCProcess.cfg` | pass | `ProcTypeOK`; `OldactReportsPrevious` (spec §4.5): `*oldact` receives the record stored before the call, and a query with `act == 0` leaves the table alone, also when set_tid_address, getrandom or guest stores have rewritten the buffers; `GetrandomDeliversOrFails` (spec §4.4): getrandom's X0 is the count exactly when the entropy reached the buffer, and on failure the buffer is untouched |
| sigaction_alias | `MCSigActionAlias.cfg` | violation | `ActInstalledFromCaller`: with `act == oldact` the record installed is the old one, not the caller's (signal.rs 41) |
| futex_runs | `MCRunner.cfg` | pass | `TypeOK` only: the byte-level futex word and X0 keep their types. This is the passing run that fires every `Runner` action; the futex questions are asked by futex_not_terminal and futex_word_write |
| futex_not_terminal | `MCRunnerTerminal.cfg` | violation | `FutexWaitTerminal`: after a wait stops the linker, `main` runs the ELF anyway (main.rs 47), against spec §4.7 |
| futex_word_write | `MCRunnerWord.cfg` | violation | `FutexWritesOnlyItsWord`: the 8-byte write zeroes the next word, or at a mapping's end fails silently (futex.rs 51) |
| elf_load | `MCElfLoader.cfg` | pass | `ArgvEnvpReadBack` and `InitialStackAbi` (spec §4 step 7, §8 scenario 2): every argv/envp/AT_RANDOM/AT_PLATFORM pointer leads to its own whole NUL-terminated string; SP is 16-aligned with argc at SP, 0 terminators, AT_PHDR first and AT_NULL last. `ImageBytesLoaded`: while the stack is built, every PT_LOAD's file bytes, and the linker's, are at their load address, not overwritten by a later segment, the linker or the stack. `AtPhdrLeadsToHeaders`: the AT_PHDR value given to the guest points at the program-header bytes of the loaded image. |
| image_loaded | `MCImageLoaded.cfg` | violation | `ImageLoaded`: for a well-formed ELF (each segment's file bytes within memsz, vaddr congruent to offset, segments on distinct pages) the loader does not abort and maps every segment's whole memory. A PT_LOAD whose file image ends on a page boundary makes `uc_align_up` map one page too many, over the next segment, and `mem_map(..).unwrap()` panics (elfLoader.rs 132) |

Every passing property has a mutant in `PROJECT.json`: a plausible bug in a
mapped definition that TLC finds violating it.
- `NeedMapInverted` breaks `NothingMappedAboveCursor`.
- `IsMappedLowerOnly` breaks `MmapMapsFreshRange`.
- `MmapCursorExtraPage` breaks `TypeOK`: the cursor passes the arena.
- `MremapCursorExtraPage` (the cursor moved a page past what was mapped)
  breaks `MemoryContractSpec`.
- `MemWriteUnchecked` (bytes stored past the mapping) breaks the FileIO
  `TypeOK`.
- `HostReadFromStart` breaks `ReadDeliversAtOffset`.
- `SigactionEffectSwapped` (act read before oldact is written) breaks
  `OldactReportsPrevious`.
- `PreviousUninit` (no zeroed record for an unset signal) breaks
  `ProcTypeOK`.
- `GetrandomResultUnchecked` (the count returned whatever mem_write
  said) breaks `GetrandomDeliversOrFails`.
- `FutexWordFlagSet` breaks the runner `TypeOK`.
- `CopyStrOffByOne` (a string one byte too high) breaks the stack
  `TypeOK`: it writes past the top of the mapping.
- `CopyStrNoNul` breaks `ArgvEnvpReadBack`.
- `AlignmentNone` breaks `InitialStackAbi`.
- `SegAddrPageStart` (segment bytes written at the page start rather than
  at the vaddr) breaks `ImageBytesLoaded`.
- `PhdrAddrNoStart` (AT_PHDR without `mem_start`) breaks
  `AtPhdrLeadsToHeaders`.

### Disagreements seen but not given a run

The following disagreements were seen while modelling. Each shows in a
one- or two-step trace, which a unit test reaches as easily as TLC:
- There is no `__NR_mremap` arm, so a guest mremap panics (syscalls/mod.rs
  146). Spec §4.4 and §4.6 list it as served.
- `sys_pread64` at position 0 reads through `sys_read` and moves the
  offset (unistd.rs 113). Spec §5 says pread restores it.
- `sys_pread64` at a non-zero position returns the count without writing
  the bytes to the guest (unistd.rs 107).
- `readlinkat("/proc/self/fd/N")` writes back the query string (unistd.rs
  64). Spec §3 says the FileTable resolves the path.
- A file-backed `mmap` at a hint records a MapInfo over regions already
  recorded (mman.rs 45-58), against a non-overlap rule for bookkeeping.
  `RegionsDisjoint` in `GuestMemory` states the rule and fails in two
  steps, but spec §4.6 allows hinted mappings to overlap, so it is not run.
- A PT_LOAD other than the last whose memsz runs more than a page past its
  filesz keeps its BSS unmapped: only the tail after the last segment is
  mapped (elfLoader.rs 149-153). The `BssElf` layout of `MCElfLoader`
  shows it; `ImageLoaded`'s run stops at the first counterexample, which
  is the overlap panic, and the finding of that run records both.
- `getrandom` and `mremap` report failure as 0xffff_ffff (random.rs 25,
  mman.rs 229). Spec §4.4 says getrandom returns -1, and in a 64-bit X0
  0xffff_ffff is a large positive count, not -1.
- `align_len` rounds an aligned length to itself and 0 to 0, so
  `mmap(0, 0)` panics in `mem_map`. Spec §4.1's `align_up` always adds a
  page.

### Bounds and why they are enough

- **Memory:** `PAGE = 2`, `ArenaLimit = 14` (three arena pages),
  `Lens = {0, 2, 3}` and `Addrs = {8, 10}`.
  - The lengths are zero, exactly one page, and one and a half pages, so
    both the aligned and the rounded-up case happen.
  - The addresses are the arena's first page and an interior page, so
    mremap and munmap at a region's start and inside a region both happen.
  - Three pages are enough for two neighbouring mappings, a remap to a
    fresh slot, and a cursor that reaches the limit.
- **Files (GuestMemory):**
  - `p1` exists, `p2` does not (it needs `O_CREAT`), and `p3` contains `..`;
  - one host descriptor (`HostFds = {3}`), so reuse after close and
    exhaustion both happen;
  - `DirFds = {AT_FDCWD, 5}` covers both openat branches.
- **Counters:** the cursor is the only growing counter. Its bound is
  `ArenaLimit`, in the guards of `SysMmap` and `SysMremap`.

memory_as_built reaches 75,528 distinct states (both builds, page contents
merged by the view) in about 30 s. The violation runs use `MCView`, which
keeps the contents.

- **File I/O:**
  - `p1` holds two bytes, `p2` is created empty, and `p3` has `..`;
  - two host descriptors, so one file can be open twice;
  - `BufLen = 2` with counts {1, 3}, so a read fits the buffer or runs past
    it;
  - positions {0, 1}, the two branches of `sys_pread64`;
  - `MaxFileLen = 2` bounds the growth of a file by writes.

  These reach 760,762 distinct states in about 90 s. The stat and readlink
  buffers are left out of state identity (`MCIOView`): no guard or checked
  property reads them.
- **Signals:**
  - two signals and two records;
  - two mapped buffers and one unmapped buffer, plus null;
  - so aliasing, queries, installs over earlier installs, and panics all
    happen;
  - `Room = 32` and getrandom counts {0, 16, 48}: an empty write, one that
    fits and one that runs past the mapping;
  - sched_getscheduler pids 0, 1337 and -1 cover the three branches.

  process_calls reaches 122,165 states in about 3 s.
- **Futex:**
  - `Vals = {7, 57344}`. 57344 is 0xe000, which has the type and shared
    bits set, so the derived word differs from the value, and 7 derives 0;
  - `Ops = {0, 1, 128, 9}`: WAIT, WAKE, WAIT|PRIVATE and WAIT_BITSET;
  - words `A`, `B` and an unmapped address (1,364 states);
  - `Endian = "LE"`: the engine is little-endian, and a big-endian ELF's
    data would be misread from its first load, so the runs use a
    little-endian ELF. Setting `Endian = "BE"` makes sys_futex's `Word`
    differ from the guest's `EngineWord`, which is the mismatch of
    rudroid.rs 64; no run states it (see "hazards").
- **Loader:**
  - `PAGE = 16`, the stack `[512, 1024)`, the ET_DYN base 1152 and the
    linker's base 1536: the real layout's order (stack, image, linker)
    with page-aligned bases. `Top` is a multiple of 16 like the real top
    0x5000_0000_e000. Alignment depends only on residues mod 16 and page
    rounding only on residues mod `PAGE`, so this is faithful;
  - four ELF layouts: a PIE with a linker and a BSS segment, an ET_EXEC
    without a linker, one whose first file image ends on a page boundary
    (`EdgeElf`), and one whose first segment's BSS spans pages (`BssElf`);
    the linker has two segments, the second with BSS;
  - path lengths {1, 2, 4}, and up to two argv and two envp strings of
    length 1 or 2, which put the cursor at every residue mod 8 before the
    aux strings (6,405 states in about 3 s).

  `main` itself passes empty argv and envp. `Emulator::new` takes both, so
  the run covers that interface.

### Fairness

No property is a liveness property, and no fairness is assumed. `load`
terminates because its loops are counted, which holds by construction of
the model and says nothing about the code; whether the guest makes another
syscall is up to the guest, so no liveness claim about the syscall layer
would be justified. A panic is terminal (`CHECK_DEADLOCK FALSE`), because
the Rust process aborts there.

## 4. Not modelled, and the plan

Modelled so far:
- the memory manager and the memory syscalls, with the part of the engine
  they use, and their refinement of the arena contract;
- the file table, and the file and stat syscalls over the host's files;
- the signal table;
- futex, and the linker-then-ELF run sequence;
- the process syscalls (identity, getrandom, scheduling, ioctl and the
  stubs), and the packing helpers;
- the whole loader: the stack mapping, the ELF's and the linker's
  segments, the BSS tail and the initial stack;
- the dispatcher arms for all of these.

The plan for later work, in order:
1. **Bookkeeping.** A `BookkeepingMapped` invariant (every MapInfo's range
   is mapped) would cover the stale region left by a partial munmap
   (mman.rs 217). Spec §4.1 concedes that splits are not rewritten, so this
   is a known gap rather than a defect.
2. **Descriptor leak.** `sys_faccessat` returns an open descriptor that
   nothing closes (unistd.rs 28). Spec §4.4 declares that behaviour, so a
   property would need a guest model that knows which descriptors it
   means to close.

**Left out:**
- hooks (`core/hooks.rs`): `add_hooks` registers the syscall and
  unmapped-memory hooks, and the callbacks print registers and
  disassembly. The interrupt hook is modelled as the dispatch it performs;
  the rest changes no state;
- utilities: printing, hex dumps, and `to_uc_permissions`, a flag
  translation whose result no modelled property tells apart (the model
  does not track page permissions, since unicorn's permission checks run
  during instruction execution);
- `sys_fcntl`, which forwards `fcntl(fd, cmd)` to the host and changes no
  emulator state;
- the host side of `ioctl` (it may read or write the emulator's own memory
  at the guest's pointer), and the bytes of `/dev/urandom`;
- `get_syscall`'s `transmute` of X8 into the `Syscalls` enum: the enum is
  not in the repository, so which numbers are undefined behaviour is
  unknown;
- the packing helpers with signed values (`pack_64s`, `unpack_64s`,
  `pack_32s`, `unpack_32s`) and `get_pointer_at`, which nothing calls.
  `pack_64s` writes nothing for a little-endian ELF;
- the byte layout of the stat records. The model keeps which file a record
  describes, not its fields;
- `get_string`'s scan of a guest path. Paths are model values. The scan
  stops at the first byte outside 0x20..0x7e, so a path with a UTF-8 byte
  is cut short (a hazard in `PROJECT.json`);
- instruction execution, which is out of TLC's reach;
- `fuzz_init` and `call_me`, which nothing calls.
