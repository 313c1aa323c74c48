----------------------------- MODULE TcpReceiveMC -----------------------------
(* TcpReceive with each way to frame messages, on streams of a few of them. *)
EXTENDS TcpReceive

STX == 2
A == 65
CR == 13

NoFrames == [RxStx |-> None, RxEtx |-> None, RxEndStr |-> <<>>, RemoveEndStr |-> TRUE,
             prependCount |-> FALSE, waitForAckP |-> FALSE, silence |-> FALSE]
ByStxEtx == [NoFrames EXCEPT !.RxStx = STX, !.RxEtx = ETX]
ByEndStr == [NoFrames EXCEPT !.RxEndStr = <<CR>>]
ByCount  == [NoFrames EXCEPT !.prependCount = TRUE]

StreamsOf(pieces) == {p \o q : p, q \in pieces}

SilenceSetup ==
  [params |-> [ByStxEtx EXCEPT !.silence = TRUE],
   streams |-> {<<STX, A, ETX, STX, A, ETX>>}]

FrameSetups ==
  { [params |-> ByStxEtx,
     streams |-> StreamsOf({<<STX, A, ETX>>, <<STX, ETX>>, <<STX, A, ACK, A, ETX>>, <<A, A>>})],
    [params |-> [ByStxEtx EXCEPT !.waitForAckP = TRUE],
     streams |-> StreamsOf({<<STX, A, ETX>>, <<ACK>>, <<NAK>>})],
    [params |-> [ByEndStr EXCEPT !.waitForAckP = TRUE],
     streams |-> StreamsOf({<<A, A, CR>>, <<CR>>, <<NAK>>})],
    [params |-> ByCount,
     streams |-> StreamsOf({<<0, 0, 4, A>>, <<0, 0, 6, A, 0, ACK>>})] }

AllSetups == {SilenceSetup} \cup FrameSetups
=============================================================================
