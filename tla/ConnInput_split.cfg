\* The assertion of consumeUntil against a request that arrives in two reads.
SPECIFICATION Spec
CONSTANTS
    Requests <- MCRequests
    MaxRequests = 1
    MaxCapacity = 10
INVARIANT ConsumeAssertion
\* The requests to send run out.
CHECK_DEADLOCK FALSE
