SPECIFICATION HistorySpec
CONSTANTS
    Thread = {t1, t2, t3}
    ThreadState = {s1, s2, s3, s4}
    MaxScopes = 4
    free_anchor = free_anchor
    in_use_anchor = in_use_anchor
    PREEMPT = PREEMPT
    TERMINATE = TERMINATE
    None = None
SYMMETRY Symmetry
INVARIANTS TypeOK AssertionsHold LockMatchesScopes StatesInOnePlace AreaInOnePlace RequestsKept
