\* Either end may close, by halves or whole, with and without assertions; the peer
\* reads.
SPECIFICATION FairSpec
CONSTANTS
    Lengths <- MCLengths
    SocketRoom = 2
    MaxBytes = 6
    MaxLate = 1
INVARIANTS
    TypeOK
    RestIsKept
    PendingIsWatched
    InOrderUntilRewound
PROPERTY Drained
\* The bytes to send run out, or the process ends.
CHECK_DEADLOCK FALSE
