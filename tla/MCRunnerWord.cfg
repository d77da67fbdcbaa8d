\* Expected violation: FUTEX_WAIT writes 8 bytes at a 4-byte word.
CONSTANTS
    A = 100
    B = 104
    Unmapped = 200
    Vals <- MCVals
    Ops <- MCOps
    Endian = "LE"
SPECIFICATION Spec
PROPERTY FutexWritesOnlyItsWord
\* main returns, exit_group exits and a panic aborts: the model stops there.
CHECK_DEADLOCK FALSE
