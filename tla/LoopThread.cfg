\* A server with up to two threads and two connections, from start to end.
SPECIFICATION FairSpec
CONSTANTS
    MaxThreads = 2
    Conns = {c1, c2}
INVARIANTS
    TypeOK
    EndsCleanly
    ServerOutlivesThreads
    Balanced
PROPERTIES
    DestroyedLast
    StartReturns
    EndReached
\* The program ends.
CHECK_DEADLOCK FALSE
