\* shutdown against the comment of shutdownInLoop, with a peer that closes once it has
\* read everything.
SPECIFICATION ClosingSpec
CONSTANTS
    Lengths <- MCLengths
    SocketRoom = 2
    MaxBytes = 4
    MaxLate = 0
PROPERTY ShutdownEndsInClose
\* The bytes to send run out, or the process ends.
CHECK_DEADLOCK FALSE
