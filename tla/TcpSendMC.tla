------------------------------ MODULE TcpSendMC ------------------------------
\* Model checking of TcpSend.  Messages and clients are interchangeable.
EXTENDS TcpSend, TLC

Sym == Permutations(Clients) \cup Permutations(Msgs)

\* Everything but mTXstate, which no guard reads.
Distinguished ==
  <<msgsTxQueue, shared, counts, reply, sender, txPc, pToSendMsg, retriesLeft,
    wire, link, answers>>
=============================================================================
