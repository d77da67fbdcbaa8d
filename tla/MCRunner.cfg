\* A linker run and an ELF run with futex calls, stores and exits.
CONSTANTS
    A = 100
    B = 104
    Unmapped = 200
    Vals <- MCVals
    Ops <- MCOps
    Endian = "LE"
SPECIFICATION Spec
INVARIANT TypeOK
\* main returns, exit_group exits and a panic aborts: the model stops there.
CHECK_DEADLOCK FALSE
