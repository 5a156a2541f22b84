CONSTANTS
    None = None
    Unbound = Unbound
    pass1 = pass1
    pass2 = pass2
    initA = initA
    openB = openB
    workA = workA
    workB = workB
    moreA = moreA
    Procs = {"A", "B"}
    Jobs = {initA, openB, workA, workB, moreA}
    Passphrases = {pass1, pass2}
    Home <- MCHome
    Work <- MCWork
    Assets = {"usdc"}
    Requests <- MCRequests
    TrustedAdapters = {"trusted"}
    Legacy <- MCLegacy
    MaxTime = 1
    MaxStops = 1
SPECIFICATION Spec
SYMMETRY Same
INVARIANTS TypeOK KeysStayOpenable OneNodeAuthority LimitsHold
CHECK_DEADLOCK FALSE
