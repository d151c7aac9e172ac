------------------------------- MODULE MCEnaTx -------------------------------
(* Queues of two entries, LLQ entries of two descriptors, packets of at     *)
(* most two buffers.  The packets: well-formed ones with and without        *)
(* metadata, and one for each way to be malformed.                          *)
EXTENDS EnaTx
MCDepth == 2
MCW == 4
MCSqDepth == 2
MCDescsBefore == 1
MCDescsPerEntry == 2
MCMaxPktDescs == 2
MCReqIds == {1, 2}
MCData == [req_id : MCReqIds, sq_head_idx : 0..(MCW - 1)]

Buffer == [NoDesc EXCEPT !.frame = "plain", !.comp_req = TRUE]
First == [Buffer EXCEPT !.first = TRUE]
Only == [First EXCEPT !.last = TRUE]
Last == [Buffer EXCEPT !.last = TRUE]
Meta == [NoDesc EXCEPT !.meta = TRUE, !.ext_valid = TRUE, !.mss = 1]
MetaLast == <<Meta, [Last EXCEPT !.frame = "tso"]>>
Quiet == <<[Only EXCEPT !.comp_req = FALSE, !.frame = "tso"]>>
NoFirst == <<Last>>
NoLast == <<First>>
TooMany == <<First, Buffer, Last>>
MCShapes ==
    {<<Only>>, Quiet, MetaLast, <<Meta, [First EXCEPT !.frame = "csum"], Last>>, NoFirst, NoLast, TooMany,
     <<[Meta EXCEPT !.ext_valid = FALSE], Last>>, <<First, Meta>>}
=============================================================================
