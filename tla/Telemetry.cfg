\* Two calls, a queue of one, batches of two.
SPECIFICATION FairSpec
CONSTANTS
    Calls = {c1, c2}
    Results <- MCResults
    Closers = {k1}
    QueueCap = 1
    BatchSize = 2
    Remote = Remote
    Nil = Nil
INVARIANTS  ShutdownFlushes
PROPERTIES QueuedIsPosted 
CHECK_DEADLOCK FALSE
