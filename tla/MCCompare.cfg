SPECIFICATION RawSpec
CONSTANTS
    RawTraces <- MCRawTraces
    Labels = {"buf", "pipefd", "stat"}
    Previews <- MCPreviews
    Digests = {0, 3, 4}
    Traces <- MCTraces
    Syscall <- MCSyscall
    NoiseSyscalls = {"mmap"}
    Args <- MCArgs
    Ret <- MCRet
    Errno <- MCErrno
    Outputs <- MCOutputs
    FinalState = {"s0", "s1"}
    ProcessExit = {"x0", "x1"}
    None = None
INVARIANTS
    VerdictIsPointwise
    ReportedIndexIsJustified
    EquivalentUpToRenaming
CHECK_DEADLOCK FALSE
