\* Two callers, one of which finds the table full; two workers.
CONSTANTS
    Callers = {k1, k2}
    Workers = {w1, w2}
    Jobs = {j1, j2}
    MaxJobs = 1
    Capacity = 1
    Handlers = {}
    NoJob = NoJob
    NoCaller = NoCaller
SPECIFICATION Spec
SYMMETRY Symmetry
INVARIANTS CallbackOnce Correlated NoEarlyReply StopQuiesces
CHECK_DEADLOCK FALSE
