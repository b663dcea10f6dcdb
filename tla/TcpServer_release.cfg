\* Every connection whose peer closed is released.
SPECIFICATION FairSpec
CONSTANTS
    c1 = c1
    c2 = c2
    f1 = f1
    f2 = f2
    io = io
    u1 = u1
    NoConn = NoConn
    NoFd = NoFd
    Acceptor = Acceptor
    Main = main
    Conns <- TwoConns
    Fds <- OneFd
    Pools <- MCPools
    Users <- OneUser
    MaxReported = 2
    MaxCalls = 1
PROPERTIES
    ClosedOnce
    Released
\* Every descriptor may be in use and no connection left to construct.
CHECK_DEADLOCK FALSE
