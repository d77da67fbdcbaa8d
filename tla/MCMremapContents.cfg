\* Expected violation: sys_mremap does not preserve the region's contents.
CONSTANTS
    PAGE = 2
    ARENA = 8
    ArenaLimit = 14
    StackRegion <- MCStack
    ElfRegion <- MCElf
    Lens = {0, 2, 3}
    Addrs = {8, 10}
    Vals = {1}
    FdArgs = {3}
    MAX_FDS = 1024
    MremapWired = {TRUE}
    p1 = p1
    p2 = p2
    p3 = p3
    Paths <- MCPaths
    Traversal <- MCTraversal
    Present <- MCPresent
    HostFds = {3}
    AT_FDCWD <- MCAtFdcwd
    DirFds <- MCDirFds
SPECIFICATION Spec
VIEW MCView
PROPERTY MremapPreservesContents
\* A Rust panic aborts the emulator: the model stops there.
CHECK_DEADLOCK FALSE
