----------------------------- MODULE MCTcpServer -----------------------------
(***************************************************************************)
(* Instances of TcpServer for TLC.                                         *)
(***************************************************************************)
EXTENDS TcpServer, TLC

CONSTANTS c1, c2, f1, f2, io, u1

TwoConns == {c1, c2}
OneFd == {f1}
TwoFds == {f1, f2}
\* No threads, or one.
MCPools == {{Main}, {io}}
OneUser == {u1}

\* Connections and descriptors are interchangeable (safety runs only).
Symmetry == Permutations(TwoConns) \cup Permutations(TwoFds)
=============================================================================
