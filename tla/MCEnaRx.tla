------------------------------- MODULE MCEnaRx -------------------------------
(* Two RX queues of two buffers.  A frame takes one or two buffers of its  *)
(* queue, is longer than the MTU allows, or is for another MAC.            *)
EXTENDS EnaRx
MCDepth == 2
MCW == 4
MCData == {}
MCQs == {0, 1}
MCFrames ==
    {[tag |-> "a", bucket |-> 0, len |-> 2, ours |-> TRUE],
     [tag |-> "b", bucket |-> 1, len |-> 1, ours |-> TRUE],
     [tag |-> "c", bucket |-> 0, len |-> 4, ours |-> TRUE],
     [tag |-> "d", bucket |-> 1, len |-> 1, ours |-> FALSE]}
MCMaxFrame == 3
MCMaxDescs == 2
MCBufSize == [q \in MCQs |-> q + 1]
=============================================================================
