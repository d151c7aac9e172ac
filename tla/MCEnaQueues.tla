----------------------------- MODULE MCEnaQueues -----------------------------
(* Two SQs and two CQs of depth 2 or 4.  The commands: the valid ones,     *)
(* and for each check one that fails it.                                   *)
EXTENDS EnaQueues
MCNumSq == 2
MCNumCq == 2
MCMinDepth == 2
MCMaxDepth == 4
MCNumVectors == 2
MCVectorNone == 99
MCLlqEntrySizes == {1, 2}
MCLlqQueueBytes == 4
MCRxCdescBytes == 16
MCBuckets == 0..1

ACq == [depth |-> 4, words |-> 4, ba |-> TRUE, intr |-> TRUE, vector |-> 1]
MCCqCmds ==
    {[ACq EXCEPT !.depth = 2], [ACq EXCEPT !.words = 2],
     [ACq EXCEPT !.depth = 3], [ACq EXCEPT !.depth = 8], [ACq EXCEPT !.words = 3],
     [ACq EXCEPT !.ba = FALSE], [ACq EXCEPT !.vector = 0], [ACq EXCEPT !.vector = 2]}

GoodSq == [dir : {"tx", "rx"}, placement : {"host", "dev"}, completion : {"desc"},
           contiguous : {TRUE}, cq_idx : 0..MCNumCq, depth : {2, 4}, ba : {TRUE},
           writeback : {FALSE}]
ASq == [dir |-> "tx", placement |-> "host", completion |-> "desc", contiguous |-> TRUE,
        cq_idx |-> 0, depth |-> 2, ba |-> TRUE, writeback |-> FALSE]
MCSqCmds == GoodSq \cup
    {[ASq EXCEPT !.dir = "none"], [ASq EXCEPT !.placement = "none"],
     [ASq EXCEPT !.completion = "head"], [ASq EXCEPT !.contiguous = FALSE],
     [ASq EXCEPT !.depth = 3], [ASq EXCEPT !.ba = FALSE], [ASq EXCEPT !.writeback = TRUE]}
=============================================================================
