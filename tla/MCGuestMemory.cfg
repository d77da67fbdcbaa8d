\* The memory manager both as built (no mremap arm in the dispatcher) and
\* with sys_mremap wired in as the spec describes, over every sequence of
\* mmap/munmap/mprotect/mremap/openat/faccessat/close and guest stores.
CONSTANTS
    PAGE = 2
    ARENA = 8
    ArenaLimit = 14
    StackRegion <- MCStack
    ElfRegion <- MCElf
    Lens = {0, 2, 3}
    Addrs = {8, 10}
    Vals = {1}
    FdArgs = {3}
    MAX_FDS = 1024
    MremapWired = {FALSE, TRUE}
    p1 = p1
    p2 = p2
    p3 = p3
    Paths <- MCPaths
    Traversal <- MCTraversal
    Present <- MCPresent
    HostFds = {3}
    AT_FDCWD <- MCAtFdcwd
    DirFds <- MCDirFds
SPECIFICATION Spec
VIEW MCArenaView
INVARIANT TypeOK
INVARIANT NothingMappedAboveCursor
PROPERTY MmapMapsFreshRange
PROPERTY MemoryContractSpec
\* A Rust panic aborts the emulator: the model stops there.
CHECK_DEADLOCK FALSE
