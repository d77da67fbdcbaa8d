\* rt_sigaction, set_tid_address, getrandom and the process stubs over
\* every sequence of calls and guest stores.
CONSTANTS
    Sigs = {1, 2}
    r1 = r1
    r2 = r2
    zero = zero
    tid_word = tid_word
    entropy = entropy
    failed = failed
    Recs <- MCRecs
    Zero = zero
    Null <- MCNull
    Mapped <- MCMapped
    Unmapped <- MCUnmapped
    Room = 32
    Counts <- MCCounts
    Pids <- MCPids
    HostPid = 4242
    TidWord = tid_word
    Entropy = entropy
    Failed = failed
SPECIFICATION ProcSpec
INVARIANT ProcTypeOK
PROPERTY OldactReportsPrevious
PROPERTY GetrandomDeliversOrFails
\* exit_group and a panic end the process: the model stops there.
CHECK_DEADLOCK FALSE
