\* Expected violation: act == oldact installs the old record.
CONSTANTS
    Sigs = {1, 2}
    r1 = r1
    r2 = r2
    zero = zero
    Recs <- MCRecs
    Zero = zero
    Null <- MCNull
    Mapped <- MCMapped
    Unmapped <- MCUnmapped
SPECIFICATION Spec

PROPERTY ActInstalledFromCaller
\* exit_group and a panic end the process: the model stops there.
CHECK_DEADLOCK FALSE
