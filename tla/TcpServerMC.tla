----------------------------- MODULE TcpServerMC -----------------------------
\* Model checking of TcpServer.  Clients and messages are interchangeable.
EXTENDS TcpServer, TLC

Sym == Permutations(Peers) \cup Permutations(Msgs)
=============================================================================
