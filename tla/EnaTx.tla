-------------------------------- MODULE EnaTx --------------------------------
(***************************************************************************)
(* The transmit path (hw/ena_tx.c) of one SQ and its CQ.  The guest writes *)
(* packets into the ring and rings the doorbell; ena_tx_doorbell parses    *)
(* them one descriptor slot at a time, hands the frames to the backend and *)
(* writes completions.  The handler holds the BQL, but the guest's other   *)
(* threads run beside it: they post into entries they take to be free and  *)
(* read completions between any two memory accesses of the device.  The    *)
(* interrupt that follows a completion is the subject of IrqWakeup.        *)
(***************************************************************************)
EXTENDS RingOps    \* Depth is the depth of the CQ, Data what it carries

CONSTANTS
    SqDepth,        \* entries of the SQ
    DescsBefore,    \* ENA_LLQ_DESCS_BEFORE_HEADER
    DescsPerEntry,  \* descriptors in an LLQ entry without a header
    MaxPktDescs,    \* ENA_MAX_PKT_DESCS
    ReqIds,         \* request ids the guest uses
    Shapes          \* the packets the guest posts, as sequences of descriptors

\* ena_create_sq: one completion slot per submitted descriptor.
ASSUME SqDepthAssumption ==
    SqDepth \in Nat \ {0} /\ SqDepth <= Depth /\ Depth % SqDepth = 0

ASSUME GeometryAssumption ==
    /\ DescsBefore \in Nat \ {0} /\ DescsPerEntry \in Nat \ {0}
    /\ DescsBefore <= DescsPerEntry
    /\ MaxPktDescs \in Nat \ {0}

\* What ena_tx_xmit tells apart in a frame: one to send as it is, one with an
\* L4 checksum to fill in, one to segment, one with contents that are refused
\* without a count (bad header length, no bytes, foreign source MAC) and one that
\* counts as a drop (unreadable buffer, over the MTU, not TCP).
Frames == {"plain", "csum", "tso", "refused", "faulty"}

Desc == [meta : BOOLEAN, ext_valid : BOOLEAN, first : BOOLEAN, last : BOOLEAN,
         comp_req : BOOLEAN, mss : {0, 1}, frame : Frames]

\* The zeroed rest of an LLQ entry.
NoDesc == [meta |-> FALSE, ext_valid |-> FALSE, first |-> FALSE, last |-> FALSE,
           comp_req |-> FALSE, mss |-> 0, frame |-> "refused"]

\* A descriptor in the ring carries the request id of its packet.
Posted == [d : Desc, req_id : ReqIds]

ASSUME ReqIdsAssumption == ReqIds # {}
\* A packet goes to the buffer marked last; in a meta descriptor the mark says
\* nothing.
ASSUME ShapesAssumption ==
    \A x \in Shapes : /\ x \in Seq(Desc) /\ x # <<>>
                      /\ \A i \in 1..(Len(x) - 1) : x[i].last => x[i].meta
ASSUME CdescAssumption == Data = [req_id : ReqIds, sq_head_idx : 0..(W - 1)]

Entries == 0..(SqDepth - 1)
Offsets == 0..(DescsPerEntry - 1)

VARIABLES
    llq,          \* sq->llq: entries in device memory
    head, tail,   \* sq->head and sq->tail
    meta,         \* sq->meta.mss, the metadata that sticks to the queue
    pos,          \* cq->tail and cq->phase
    pc,           \* where ena_tx_doorbell is
    p,            \* EnaTxPkt: the packet being parsed
    mem, buf,     \* the entries of the SQ, and per packet its header and buffers
    ring,         \* the completion ring
    pi,           \* the guest: next entry to write
    clean,        \* the guest: first entry it must not reuse
    driver,       \* the guest's position in the completion ring
    posted,       \* history: packets written, doorbell not rung
    fifo,         \* history: packets the doorbell handed over
    cfifo,        \* history: completions written and not read yet
    sent,         \* history: what ena_tx_xmit did with the packet
    stuck         \* history: the metadata of the last packet that had any

sq == <<llq, head, tail, meta>>
guest == <<pi, clean, driver>>
vars == <<sq, pos, pc, p, mem, buf, ring, guest, posted, fifo, cfifo, sent, stuck>>

Dist(a, b) == (b - a) % W

-----------------------------------------------------------------------------
(* Where the descriptors of a packet are. *)

\* Mutant: the entries after the first hold as many descriptors as the first.
SlotLineShort(slot) ==
    IF slot < DescsBefore THEN 0 ELSE 1 + (slot - DescsBefore) \div DescsBefore

\* ena_llq_slot_line: the entry of a slot, counted from the packet's first.
SlotLine(slot) ==
    IF slot < DescsBefore THEN 0 ELSE 1 + (slot - DescsBefore) \div DescsPerEntry

\* ena_llq_slot_off, in descriptors.
SlotOff(slot) ==
    IF slot < DescsBefore THEN slot ELSE (slot - DescsBefore) % DescsPerEntry

\* ena_tx_pkt_entries.
PktEntries(slots) == IF llq THEN SlotLine(slots - 1) + 1 ELSE slots

\* ena_tx_slot_posted.
SlotPosted(slot) == (IF llq THEN SlotLine(slot) ELSE slot) < Dist(head, tail)

\* ena_tx_read_slot.
ReadSlot(slot) ==
    IF llq THEN mem[(head + SlotLine(slot)) % SqDepth][SlotOff(slot)]
           ELSE mem[(head + slot) % SqDepth][0]

\* The guest's layout: the slot it keeps at offset off of the packet's entry
\* line, and the entries a packet of n descriptors needs.
GuestSlot(line, off) ==
    IF ~llq THEN line
    ELSE IF line = 0 THEN off ELSE DescsBefore + (line - 1) * DescsPerEntry + off

GuestHas(n, line, off) ==
    /\ GuestSlot(line, off) < n
    /\ off < (IF ~llq THEN 1 ELSE IF line = 0 THEN DescsBefore ELSE DescsPerEntry)

GuestEntries(n) ==
    CHOOSE k \in 1..n : /\ GuestHas(n, k - 1, 0)
                        /\ ~GuestHas(n, k, 0)

GuestLine(x, id, line) ==
    [off \in Offsets |->
        [d |-> IF GuestHas(Len(x), line, off) THEN x[GuestSlot(line, off) + 1]
                                              ELSE NoDesc,
         req_id |-> id]]

-----------------------------------------------------------------------------
NoPkt == [slot |-> 0, ndesc |-> 0, have_meta |-> FALSE, mss |-> 0, d0 |-> NoDesc,
          req_id |-> CHOOSE id \in ReqIds : TRUE]

NotSent == [did |-> "nothing", buf |-> NoPkt.req_id, mss |-> 0]

\* The types, but for fifo and stuck: that a packet is there to take from fifo
\* is what ParseCorrect says.
TypeOK ==
    /\ llq \in BOOLEAN /\ meta \in {0, 1}
    /\ head \in 0..(W - 1) /\ tail \in 0..(W - 1)
    /\ pos \in Position /\ driver \in Position
    /\ pc \in {"idle", "loop", "parse", "xmit", "complete"}
    /\ p \in [slot : Nat, ndesc : Nat, have_meta : BOOLEAN,
              mss : {0, 1}, d0 : Desc, req_id : ReqIds]
    /\ mem \in [Entries -> [Offsets -> Posted]]
    /\ buf \in [Entries -> ReqIds]
    /\ ring \in [Slots -> Entry]
    /\ pi \in 0..(W - 1) /\ clean \in 0..(W - 1)
    /\ cfifo \in Seq(Data)
    /\ sent \in [did : {"nothing", "sent", "refused", "dropped"}, buf : ReqIds, mss : {0, 1}]

Blank == [i \in Slots |-> [phase |-> FALSE, data |-> CHOOSE x \in Data : TRUE]]

Init ==
    /\ llq \in BOOLEAN
    /\ head = 0 /\ tail = 0 /\ meta = 0 /\ stuck = 0
    /\ pos = Start /\ driver = Start /\ ring = Blank
    /\ pc = "idle" /\ p = NoPkt /\ sent = NotSent
    /\ mem = [e \in Entries |-> [o \in Offsets |-> [d |-> NoDesc, req_id |-> NoPkt.req_id]]]
    /\ buf = [e \in Entries |-> NoPkt.req_id]
    /\ pi = 0 /\ clean = 0
    /\ posted = <<>> /\ fifo = <<>> /\ cfifo = <<>>

-----------------------------------------------------------------------------
(* The device: ena_reg_write, ena_tx_doorbell and what it calls. *)

\* The guest writes its index to the doorbell.  (The CQ is in use: EnaQueues.)
Doorbell ==
    /\ pc = "idle"
    /\ Dist(head, pi) <= SqDepth
    /\ tail' = pi
    /\ pc' = "loop"
    /\ fifo' = fifo \o posted
    /\ posted' = <<>>
    /\ UNCHANGED <<llq, head, meta, pos, p, mem, buf, ring, guest, cfifo, sent, stuck>>

\* The loop of ena_tx_doorbell: the next packet, or the end.
NextPacket ==
    /\ pc = "loop"
    /\ pc' = IF head # tail THEN "parse" ELSE "idle"
    /\ UNCHANGED <<sq, pos, p, mem, buf, ring, guest, posted, fifo, cfifo, sent, stuck>>

\* Mutant: a packet may have a descriptor more than the array holds.
ParseFailsLate(d) ==
    \/ d.meta /\ (p.slot # 0 \/ ~d.ext_valid)
    \/ ~d.meta /\ p.ndesc = 0 /\ ~p.have_meta /\ ~d.first

\* The conditions on which ena_tx_parse gives up at a descriptor it has read.
ParseFails(d) ==
    \/ d.meta /\ (p.slot # 0 \/ ~d.ext_valid)
    \/ ~d.meta /\ p.ndesc = 0 /\ ~p.have_meta /\ ~d.first
    \/ ~d.meta /\ p.ndesc = MaxPktDescs

\* The slot at hand, when the loop of ena_tx_parse goes on with it.
SlotGood ==
    /\ p.slot <= MaxPktDescs
    /\ SlotPosted(p.slot)
    /\ ~ParseFails(ReadSlot(p.slot).d)

\* ena_tx_parse: a meta descriptor.
ParseMeta ==
    /\ pc = "parse" /\ SlotGood
    /\ LET d == ReadSlot(p.slot).d IN
       /\ d.meta
       /\ p' = [p EXCEPT !.slot = @ + 1, !.have_meta = TRUE, !.mss = d.mss]
    /\ UNCHANGED <<sq, pos, pc, mem, buf, ring, guest, posted, fifo, cfifo, sent, stuck>>

\* ena_tx_doorbell: the metadata of a parsed packet is cached.
MetaOf(last) == IF last /\ p.have_meta THEN p.mss ELSE meta

\* ena_tx_parse: a buffer descriptor; the last one ends the packet.
ParseData ==
    /\ pc = "parse" /\ SlotGood
    /\ LET x == ReadSlot(p.slot) IN
       /\ ~x.d.meta
       /\ p' = [p EXCEPT !.slot = @ + 1, !.ndesc = @ + 1,
                         !.d0 = IF p.ndesc = 0 THEN x.d ELSE @,
                         !.req_id = IF p.ndesc = 0 THEN x.req_id ELSE @]
       /\ pc' = IF x.d.last THEN "xmit" ELSE "parse"
       /\ meta' = MetaOf(x.d.last)
    /\ UNCHANGED <<llq, head, tail, pos, mem, buf, ring, guest, posted, fifo, cfifo,
                   sent, stuck>>

\* Mutant: a malformed packet is tried again.
DiscardRetry ==
    /\ pc = "parse" /\ ~SlotGood
    /\ pc' = "loop"
    /\ p' = NoPkt
    /\ UNCHANGED <<sq, pos, mem, buf, ring, guest, posted, fifo, cfifo, sent, stuck>>

\* A malformed packet discards the posted burst.
Discard ==
    /\ pc = "parse" /\ ~SlotGood
    /\ head' = tail
    /\ fifo' = <<>>
    /\ pc' = "idle"
    /\ p' = NoPkt
    /\ UNCHANGED <<llq, tail, meta, pos, mem, buf, ring, guest, posted, cfifo, sent, stuck>>

\* What ena_tx_xmit does with the frame.  QEMU's net_tx_pkt may find a frame
\* with L4 work unparsable, or fail to send it.
Outcomes(frame) ==
    CASE frame = "plain"   -> {"sent"}
      [] frame = "csum"    -> {"sent", "dropped", "refused"}
      [] frame = "tso"     -> IF meta = 0 THEN {"dropped"} ELSE {"sent", "dropped", "refused"}
      [] frame = "refused" -> {"refused"}
      [] frame = "faulty"  -> {"dropped"}

\* Mutant: the head has moved on when the pushed header is read.
XmitLate ==
    /\ pc = "xmit"
    /\ \E did \in Outcomes(p.d0.frame) :
         sent' = [did |-> did, buf |-> buf[(head + PktEntries(p.slot)) % SqDepth], mss |-> meta]
    /\ pc' = "complete"
    /\ stuck' = IF Head(fifo).shape[1].meta THEN Head(fifo).shape[1].mss ELSE stuck
    /\ UNCHANGED <<sq, pos, p, mem, buf, ring, guest, posted, fifo, cfifo>>

\* ena_tx_xmit: the pushed header and the buffers are read now.
Xmit ==
    /\ pc = "xmit"
    /\ \E did \in Outcomes(p.d0.frame) :
         sent' = [did |-> did, buf |-> buf[head % SqDepth], mss |-> meta]
    /\ pc' = "complete"
    /\ stuck' = IF Head(fifo).shape[1].meta THEN Head(fifo).shape[1].mss ELSE stuck
    /\ UNCHANGED <<sq, pos, p, mem, buf, ring, guest, posted, fifo, cfifo>>

\* The head moves past the packet; ena_tx_complete if it asks for it.
Complete ==
    /\ pc = "complete"
    /\ head' = (head + PktEntries(p.slot)) % W
    /\ IF p.d0.comp_req
       THEN LET c == [req_id |-> p.req_id, sq_head_idx |-> head']
            IN /\ ring' = Write(ring, pos, c)
               /\ pos' = Advance(pos)
               /\ cfifo' = Append(cfifo, c)
       ELSE UNCHANGED <<ring, pos, cfifo>>
    /\ fifo' = Tail(fifo)
    /\ pc' = "loop" /\ p' = NoPkt /\ sent' = NotSent
    /\ UNCHANGED <<llq, tail, meta, mem, buf, guest, posted, stuck>>

\* ena_destroy_sq, ena_destroy_cq or ena_dev_reset, and a new pair of queues in
\* the same place.  Nothing clears the entries, in guest or in device memory.
Recreate ==
    /\ pc = "idle"
    /\ llq' \in BOOLEAN
    /\ head' = 0 /\ tail' = 0 /\ meta' = 0 /\ stuck' = 0
    /\ pos' = Start /\ driver' = Start /\ ring' = Blank
    /\ pi' = 0 /\ clean' = 0
    /\ posted' = <<>> /\ fifo' = <<>> /\ cfifo' = <<>>
    /\ UNCHANGED <<pc, p, mem, buf, sent>>

-----------------------------------------------------------------------------
(* The guest. *)

Ends(x) == x[Len(x)].last /\ ~x[Len(x)].meta

\* It writes a packet into entries it has not seen in use (ena_txq_push,
\* ena_txq_push_line).  A packet that lacks its end is the last of its burst.
Post(x, id) ==
    LET n == GuestEntries(Len(x)) IN
    /\ Dist(clean, pi) + n <= SqDepth
    /\ posted # <<>> => Ends(posted[Len(posted)].shape)
    /\ mem' = [e \in Entries |->
                 IF Dist(pi % SqDepth, e) % SqDepth < n
                 THEN GuestLine(x, id, Dist(pi % SqDepth, e) % SqDepth) ELSE mem[e]]
    /\ buf' = [buf EXCEPT ![pi % SqDepth] = id]
    /\ pi' = (pi + n) % W
    /\ posted' = Append(posted, [shape |-> x, req_id |-> id])
    /\ UNCHANGED <<sq, pos, pc, p, ring, clean, driver, fifo, cfifo, sent, stuck>>

\* ena_txq_poll_cdesc: a completion frees the entries before sq_head_idx.
Reap ==
    /\ Ready(ring, driver)
    /\ clean' = ring[driver.idx % Depth].data.sq_head_idx
    /\ driver' = Advance(driver)
    /\ cfifo' = Tail(cfifo)
    /\ UNCHANGED <<sq, pos, pc, p, mem, buf, ring, pi, posted, fifo, sent, stuck>>

Handler == NextPacket \/ ParseMeta \/ ParseData \/ Discard \/ Xmit \/ Complete

Next ==
    \/ Doorbell \/ Handler \/ Recreate
    \/ \E x \in Shapes, id \in ReqIds : Post(x, id)
    \/ Reap

Spec == Init /\ [][Next]_vars

\* A handler in progress is not suspended for ever.
FairSpec == Spec /\ WF_vars(Handler)

-----------------------------------------------------------------------------
\* A packet as the ABI defines it: at most a meta descriptor, ext_valid and in
\* front; then 1 to MaxPktDescs buffers, the first marked unless metadata
\* comes before it, the last marked and no other.
WellFormed(x) ==
    LET m == IF x[1].meta THEN 1 ELSE 0 IN
    /\ x[1].meta => x[1].ext_valid
    /\ \A i \in 2..Len(x) : ~x[i].meta
    /\ Len(x) - m \in 1..MaxPktDescs
    /\ x[1].meta \/ x[1].first
    /\ \A i \in (1 + m)..Len(x) : x[i].last <=> i = Len(x)

\* The first buffer descriptor of a packet.
FirstBuffer(x) == IF x[1].meta THEN x[2] ELSE x[1]

\* ena_tx_parse fills its array of ENA_MAX_PKT_DESCS descriptors at most to the
\* end, and a packet it accepts has a buffer and lies before the doorbell.
ParserInBounds ==
    /\ p.ndesc <= MaxPktDescs
    /\ pc \in {"xmit", "complete"} =>
         p.ndesc >= 1 /\ PktEntries(p.slot) \in 1..Dist(head, tail)

\* The loop of ena_tx_parse accepts the packets that are well formed and no
\* others, and finds their descriptors where the guest put them, in host
\* memory and in LLQ entries, over any wrap of the ring: what is transmitted
\* and completed is the oldest packet, and a burst is discarded only for a
\* malformed one.
ParseCorrect ==
    /\ pc \in {"xmit", "complete"} =>
         /\ fifo # <<>>
         /\ LET x == Head(fifo).shape IN
            /\ WellFormed(x)
            /\ p.slot = Len(x)
            /\ p.d0 = FirstBuffer(x) /\ p.req_id = Head(fifo).req_id
            /\ PktEntries(p.slot) = GuestEntries(Len(x))
    /\ pc = "parse" /\ ~SlotGood => fifo # <<>> /\ ~WellFormed(Head(fifo).shape)

\* ena_tx_xmit sends what the guest had in the packet's header and buffers when
\* it posted the packet: no completion lets the guest reuse them before.  And it
\* sends it with the metadata of the last packet that had any: a discarded burst
\* and a packet without metadata leave the cache of the queue alone.
SentIntact ==
    /\ pc = "complete" => sent.buf = Head(fifo).req_id
    /\ pc \in {"idle", "loop", "parse", "complete"} => meta = stuck

\* Every completion is read once, in order: the CQ cannot overflow although the
\* device has no index of the guest's, as the guest posts no packet into
\* entries whose completion it has not read and the CQ is as deep as the SQ.
CqQueue == Holds(ring, pos, driver, cfifo)

\* The entries the guest may not touch, those the device is to process and
\* those not handed over follow each other and fit in the ring: the head never
\* passes the tail, no completion frees an entry before the device is done
\* with it, and no doorbell of this guest is refused.
EntriesInOrder ==
    Dist(clean, head) + Dist(head, tail) + Dist(tail, pi) <= SqDepth

\* ena_tx_doorbell returns, however malformed the packets: it cannot keep the
\* BQL.
HandlerReturns == pc # "idle" ~> pc = "idle"
=============================================================================
