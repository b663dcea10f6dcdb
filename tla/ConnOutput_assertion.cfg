\* handleWrite against its own assertion.
SPECIFICATION Spec
CONSTANTS
    Lengths <- MCLengths
    SocketRoom = 2
    MaxBytes = 8
    MaxLate = 0
INVARIANT WriteAssertion
\* The bytes to send run out, or the process ends.
CHECK_DEADLOCK FALSE
