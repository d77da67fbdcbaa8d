\* Expected violation: the ELF runs after FUTEX_WAIT stopped the linker.
CONSTANTS
    A = 100
    B = 104
    Unmapped = 200
    Vals <- MCVals
    Ops <- MCOps
    Endian = "LE"
SPECIFICATION Spec
INVARIANT FutexWaitTerminal
\* main returns, exit_group exits and a panic aborts: the model stops there.
CHECK_DEADLOCK FALSE
