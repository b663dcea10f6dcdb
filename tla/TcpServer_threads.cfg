\* Every interleaving of the loops, their callbacks, the peer and another thread.
SPECIFICATION Spec
CONSTANTS
    c1 = c1
    c2 = c2
    f1 = f1
    f2 = f2
    io = io
    u1 = u1
    NoConn = NoConn
    NoFd = NoFd
    Acceptor = Acceptor
    Main = main
    Conns <- TwoConns
    Fds <- TwoFds
    Pools <- MCPools
    Users <- OneUser
    MaxReported = 2
    MaxCalls = 1
SYMMETRY Symmetry
INVARIANTS
    TypeOK
    ChannelsAlive
    MapFaithful
    OpenMeansMapped
PROPERTY AssertionsHold
\* Every descriptor may be in use and no connection left to construct.
CHECK_DEADLOCK FALSE
