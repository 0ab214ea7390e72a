\* One caller, one worker.
CONSTANTS
    Callers = {k1}
    Workers = {w1}
    Jobs = {j1}
    MaxJobs = 1
    Capacity = 1
    Handlers = {"method", "opcode"}
    NoJob = NoJob
    NoCaller = NoCaller
SPECIFICATION FairSpec
INVARIANT WaitIsServed
PROPERTY CallsReturn
CHECK_DEADLOCK FALSE
