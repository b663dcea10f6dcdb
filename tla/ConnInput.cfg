\* Two programs, two requests of five kinds, cut into reads anywhere.
SPECIFICATION Spec
CONSTANTS
    Requests <- MCRequests
    MaxRequests = 2
    MaxCapacity = 20
INVARIANTS
    TypeOK
    BufferWellFormed
    NothingSkipped
    HandledAsSent
    NothingAfterClose
    MethodSetOnce
    WholeRequestsHandled
PROPERTY ImplementsByteQueue
\* The requests to send run out, or an assertion ends the process.
CHECK_DEADLOCK FALSE
