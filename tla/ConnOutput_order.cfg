\* The order of the stream against the comment of sendInLoop.
SPECIFICATION Spec
CONSTANTS
    Lengths <- MCLengths
    SocketRoom = 2
    MaxBytes = 8
    MaxLate = 0
INVARIANT StreamInOrder
\* The bytes to send run out, or the process ends.
CHECK_DEADLOCK FALSE
