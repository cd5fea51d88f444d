SPECIFICATION FairSpec
CONSTANTS
    Thread = {t1, t2}
    ThreadState = {s1, s2, s3}
    MaxScopes = 6
    free_anchor = free_anchor
    in_use_anchor = in_use_anchor
    PREEMPT = PREEMPT
    TERMINATE = TERMINATE
    None = None
PROPERTIES ImplementsPerThreadInterrupts StopPreemptionReturns
