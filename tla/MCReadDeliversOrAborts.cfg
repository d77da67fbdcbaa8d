\* FileIO: does a read that reports bytes always deliver them, or abort?
CONSTANTS
    p1 = p1
    p2 = p2
    p3 = p3
    Paths <- MCPaths
    Traversal <- MCTraversal
    Present <- MCPresent
    FileData <- MCFileData
    AT_FDCWD <- MCAtFdcwd
    DirFds <- MCDirFds
    HostFds = {3, 4}
    StdOut = 1
    BadFd = 7
    BufLen = 2
    Counts = {1, 3}
    Positions = {0, 1}
    Junk = 9
    MaxFileLen = 2
    ElfPathLen = 10
    FdLinkLen = 15
SPECIFICATION Spec
VIEW MCView
PROPERTY ReadDeliversOrAborts
CHECK_DEADLOCK FALSE
