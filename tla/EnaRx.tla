-------------------------------- MODULE EnaRx --------------------------------
(***************************************************************************)
(* The receive path (hw/ena_rx.c): frames that the net layer hands to the  *)
(* device or holds back, the receive buffers the guest posts, and the      *)
(* completions of a frame, written one by one while the guest polls.  Each *)
(* RX SQ has a CQ of its own depth.  Handlers run under the BQL and never  *)
(* overlap; the guest writes its submission ring and reads its completion  *)
(* ring between any two memory accesses of a handler.  Lengths count in    *)
(* units of a buffer; interrupts are in IrqWakeup.                         *)
(***************************************************************************)
EXTENDS RingOps, FiniteSets

CONSTANTS
    Qs,             \* indices of the RX SQs
    Frames,         \* the frames that may arrive
    MaxFrame,       \* s->mtu + ETH_HLEN + 4
    MaxDescs,       \* ENA_MAX_PKT_DESCS
    BufSize,        \* size of the buffers of each queue
    Checks,         \* {TRUE}, or BOOLEAN when bad descriptors are posted too
    MaxArrivals,    \* bound: frames that arrive
    MaxHeld,        \* bound: frames the net layer holds
    MaxTeardowns    \* bound: queues destroyed and resets

\* A frame: an identity, the hash bucket, its length, and whether it has an
\* Ethernet header with the device's MAC, broadcast or multicast as destination.
Frame == [tag : STRING, bucket : Qs, len : Nat, ours : BOOLEAN]

\* What ena_rx_desc_valid asks of an RX descriptor is one bit here.
Desc == [req_id : Slots, size : {BufSize[q] : q \in Qs}, ok : Checks]

\* A piece of a frame in a buffer, and the completion descriptor for it.
Chunk == [frame : Frames, off : Nat, len : Nat]
Cdesc == [req_id : Slots, len : Nat, first : BOOLEAN, last : BOOLEAN]

ASSUME FrameAssumption ==
    Frames \subseteq Frame /\ Qs \subseteq Nat /\ \A f \in Frames : f.ours => f.len > 0
ASSUME SizeAssumption == BufSize \in [Qs -> Nat \ {0}]
ASSUME BoundAssumption ==
    /\ MaxFrame \in Nat /\ MaxDescs \in Nat /\ MaxHeld \in Nat /\ MaxArrivals \in Nat
    /\ Checks \subseteq BOOLEAN

VARIABLES
    sq,         \* s->sq[]: used, head, tail
    cq,         \* position of the CQ of each SQ
    held,       \* frames in the queue of the net layer
    flushing,   \* the net layer is delivering that queue
    rx,         \* ena_rx_receive_iov with the descriptors it read, or Idle
    rx_pkts, rx_drops,      \* statistics
    sring, cring, mem,      \* guest memory: both rings and the buffers
    tail,       \* the guest's own tail of the submission ring
    driver,     \* the guest's position in the completion ring
    free,       \* buffers the guest owns
    fifo,       \* history: completions not read, with the chunk they announce
    prev,       \* history: the completion the guest read last
    bad,        \* history: queues with a bad descriptor posted
    arrived, filtered, teardowns    \* history: counters

device == <<sq, cq, rx, rx_pkts, rx_drops>>
net == <<held, flushing, arrived, filtered>>
guest == <<sring, tail, driver, free, prev, bad>>
vars == <<device, net, guest, cring, mem, fifo, teardowns>>

Idle == [pc |-> "idle"]
Nothing == <<>>
BlankDesc == [req_id |-> 0, size |-> 0, ok |-> FALSE]
BlankEntry == [phase |-> FALSE, data |-> Nothing]

TypeOK ==
    /\ sq \in [Qs -> [used : BOOLEAN, head : 0..(W - 1), tail : 0..(W - 1)]]
    /\ cq \in [Qs -> Position] /\ driver \in [Qs -> Position]
    /\ Len(held) <= MaxHeld /\ \A k \in DOMAIN held : held[k] \in Frames
    /\ flushing \in BOOLEAN
    /\ rx = Idle \/ (rx.pc \in {"dma", "push"} /\ rx.q \in Qs /\ rx.frame \in Frames)
    /\ \A q \in Qs, s \in Slots :
         /\ sring[q][s] \in Desc \cup {BlankDesc}
         /\ cring[q][s].data \in Cdesc \cup {Nothing}
         /\ mem[q][s] \in Chunk \cup {Nothing}
    /\ tail \in [Qs -> 0..(W - 1)] /\ bad \subseteq Qs /\ free \in [Qs -> SUBSET Slots]
    /\ rx_pkts + rx_drops + filtered <= MaxArrivals

\* A queue as ena_create_sq and its guest start it.
Init ==
    /\ sq = [q \in Qs |-> [used |-> FALSE, head |-> 0, tail |-> 0]]
    /\ cq = [q \in Qs |-> Start] /\ driver = [q \in Qs |-> Start]
    /\ held = <<>> /\ flushing = FALSE /\ rx = Idle
    /\ rx_pkts = 0 /\ rx_drops = 0
    /\ sring = [q \in Qs |-> [s \in Slots |-> BlankDesc]]
    /\ cring = [q \in Qs |-> [s \in Slots |-> BlankEntry]]
    /\ mem = [q \in Qs |-> [s \in Slots |-> Nothing]]
    /\ tail = [q \in Qs |-> 0] /\ free = [q \in Qs |-> Slots]
    /\ fifo = [q \in Qs |-> <<>>] /\ prev = [q \in Qs |-> <<>>] /\ bad = {}
    /\ arrived = 0 /\ filtered = 0 /\ teardowns = 0

-----------------------------------------------------------------------------
Used == {q \in Qs : sq[q].used}
Avail(q) == (sq[q].tail - sq[q].head) % W

\* ena_rx_can_receive: some RX queue has a buffer, or there is none at all.
CanReceive == Used = {} \/ \E q \in Used : Avail(q) # 0

\* ena_rx_sq, for an indirection table that sends bucket q to SQ q.
RxSq(bucket) ==
    IF bucket \in Used THEN {bucket} ELSE {q \in Used : \A p \in Used : q <= p}

\* The descriptor n past the head.
At(q, n) == sring[q][(sq[q].head + n) % Depth]

\* cap in ena_rx_collect: what the first n descriptors hold.
Capacity(q) ==
    LET cap[n \in 0..MaxDescs] == IF n = 0 THEN 0 ELSE cap[n - 1] + At(q, n - 1).size
    IN cap

\* Mutant: one buffer too few for a frame that does not fill the last one.
CollectShort(q, len) ==
    LET cap == Capacity(q)
        full == {Avail(q), MaxDescs}
        ends == {n \in 0..MaxDescs : n \in full \/ cap[n] + 1 >= len \/ ~At(q, n).ok}
        n == CHOOSE m \in ends : \A k \in ends : m <= k
    IN IF cap[n] + 1 >= len THEN [n |-> n, skip |-> 0]
       ELSE [n |-> -1, skip |-> IF n \in full THEN 0 ELSE n + 1]

\* ena_rx_collect: how many descriptors the frame takes, or -1 and how many
\* are consumed for nothing, up to a bad one.  The loop ends at the first turn
\* n at which the frame fits, no descriptor is left to read, or the next is bad.
Collect(q, len) ==
    LET cap == Capacity(q)
        full == {Avail(q), MaxDescs}
        ends == {n \in 0..MaxDescs : n \in full \/ cap[n] >= len \/ ~At(q, n).ok}
        n == CHOOSE m \in ends : \A k \in ends : m <= k
    IN IF cap[n] >= len THEN [n |-> n, skip |-> 0]
       ELSE [n |-> -1, skip |-> IF n \in full THEN 0 ELSE n + 1]

\* The descriptors ena_rx_collect copied.
Descs(q, n) == [k \in 1..n |-> At(q, k - 1)]

-----------------------------------------------------------------------------
\* Mutant: a dropped frame goes uncounted.
DropUncounted == UNCHANGED <<rx, rx_pkts, rx_drops, filtered>>

\* A frame dropped by ena_rx_receive_iov.
Drop == rx_drops' = rx_drops + 1 /\ UNCHANGED <<rx, rx_pkts, filtered>>

\* ena_rx_receive_iov up to its loop: too long, not for this device, no RX
\* queue, not enough buffers, or the descriptors to fill.
Receive(f) ==
    \/ /\ f.len > MaxFrame \/ (f.ours /\ RxSq(f.bucket) = {})
       /\ Drop /\ UNCHANGED sq
    \/ /\ f.len <= MaxFrame /\ ~f.ours
       /\ filtered' = filtered + 1
       /\ UNCHANGED <<sq, rx, rx_pkts, rx_drops>>
    \/ /\ f.len <= MaxFrame /\ f.ours
       /\ \E q \in RxSq(f.bucket) :
            LET c == Collect(q, f.len) IN
            \/ /\ c.n < 0
               /\ sq' = [sq EXCEPT ![q].head = (@ + c.skip) % W]
               /\ Drop
            \/ /\ c.n >= 0
               /\ rx' = [pc |-> "dma", q |-> q, frame |-> f, off |-> 0, i |-> 1,
                         desc |-> Descs(q, c.n)]
               /\ UNCHANGED <<sq, rx_pkts, rx_drops, filtered>>

\* The BQL is free.
Ready4Handler == rx = Idle /\ ~flushing

\* The backend sends a frame (qemu_net_queue_send): held back when the device
\* cannot receive, else received, and then the queue is flushed.
Arrive(f) ==
    /\ Ready4Handler /\ arrived < MaxArrivals
    /\ arrived' = arrived + 1
    /\ \/ /\ ~CanReceive /\ Len(held) < MaxHeld
          /\ held' = Append(held, f)
          /\ UNCHANGED <<flushing, filtered, device>>
       \/ /\ CanReceive
          /\ Receive(f)
          /\ flushing' = (held # <<>>)
          /\ UNCHANGED <<held, cq>>
    /\ UNCHANGED <<guest, cring, mem, fifo, teardowns>>

\* qemu_net_queue_flush: every held frame in turn, whatever is left of the
\* buffers; ena_rx_receive_iov never asks it to stop.
Flush ==
    /\ flushing /\ rx = Idle
    /\ held' = Tail(held)
    /\ flushing' = (held' # <<>>)
    /\ Receive(Head(held))
    /\ UNCHANGED <<cq, arrived, guest, cring, mem, fifo, teardowns>>

Piece(d, rest) == IF d.size < rest THEN d.size ELSE rest

\* Mutant: every chunk goes to the first buffer.
WriteChunkFirst ==
    /\ rx.pc = "dma"
    /\ LET d == rx.desc[1]
       IN mem' = [mem EXCEPT ![rx.q][d.req_id] =
                    [frame |-> rx.frame, off |-> rx.off,
                     len |-> Piece(d, rx.frame.len - rx.off)]]
    /\ rx' = [rx EXCEPT !.pc = "push"]
    /\ UNCHANGED <<sq, cq, rx_pkts, rx_drops, net, guest, cring, fifo, teardowns>>

\* The loop of ena_rx_receive_iov: a chunk goes to its buffer ...
WriteChunk ==
    /\ rx.pc = "dma"
    /\ LET d == rx.desc[rx.i]
       IN mem' = [mem EXCEPT ![rx.q][d.req_id] =
                    [frame |-> rx.frame, off |-> rx.off,
                     len |-> Piece(d, rx.frame.len - rx.off)]]
    /\ rx' = [rx EXCEPT !.pc = "push"]
    /\ UNCHANGED <<sq, cq, rx_pkts, rx_drops, net, guest, cring, fifo, teardowns>>

\* ena_rx_push_cdesc: the completion of the chunk just written.
NewCdesc(len) ==
    [req_id |-> rx.desc[rx.i].req_id, len |-> len,
     first |-> rx.i = 1, last |-> rx.i = Len(rx.desc)]

\* Mutant: the buffers of the frame are not taken off the queue.
ConsumeNone(q, n) == UNCHANGED sq

\* Mutant: the head does not wrap with the 16-bit tail.
ConsumeNoWrap(q, n) == sq' = [sq EXCEPT ![q].head = @ + n]

\* sq->head += n.
Consume(q, n) == sq' = [sq EXCEPT ![q].head = (@ + n) % W]

\* ... and its completion to the completion ring; after the last one the
\* buffers leave the queue and the frame is counted.
PushChunk ==
    /\ rx.pc = "push"
    /\ LET q == rx.q
           d == rx.desc[rx.i]
           len == Piece(d, rx.frame.len - rx.off)
           c == NewCdesc(len)
       IN /\ cring' = [cring EXCEPT ![q] = Write(@, cq[q], c)]
          /\ cq' = [cq EXCEPT ![q] = Advance(@)]
          /\ fifo' = [fifo EXCEPT ![q] = Append(@, [cdesc |-> c, chunk |->
                        [frame |-> rx.frame, off |-> rx.off, len |-> len]])]
          /\ \/ /\ rx.i < Len(rx.desc)
                /\ rx' = [rx EXCEPT !.pc = "dma", !.i = @ + 1, !.off = @ + len]
                /\ UNCHANGED <<sq, rx_pkts>>
             \/ /\ rx.i = Len(rx.desc)
                /\ rx' = Idle
                /\ Consume(q, Len(rx.desc))
                /\ rx_pkts' = rx_pkts + 1
    /\ UNCHANGED <<rx_drops, net, guest, mem, teardowns>>

\* Mutant: a doorbell that fills the queue is ignored.
DoorbellShort(q, t) ==
    /\ Ready4Handler
    /\ sq[q].used /\ (t - sq[q].head) % W < Depth
    /\ sq' = [sq EXCEPT ![q].tail = t]
    /\ flushing' = (held # <<>>)
    /\ UNCHANGED <<cq, rx, rx_pkts, rx_drops, held, arrived, filtered, guest,
                   cring, mem, fifo, teardowns>>

\* ena_reg_write of a doorbell: ignored when the tail t is further ahead than
\* the queue is deep, else the tail moves and ena_rx_doorbell flushes.
Doorbell(q, t) ==
    /\ Ready4Handler
    /\ sq[q].used /\ (t - sq[q].head) % W <= Depth
    /\ sq' = [sq EXCEPT ![q].tail = t]
    /\ flushing' = (held # <<>>)
    /\ UNCHANGED <<cq, rx, rx_pkts, rx_drops, held, arrived, filtered, guest,
                   cring, mem, fifo, teardowns>>

\* ena_create_sq of an RX SQ, with a CQ of its own.
Create(q) ==
    /\ Ready4Handler /\ ~sq[q].used
    /\ sq' = [sq EXCEPT ![q].used = TRUE]
    /\ UNCHANGED <<cq, rx, rx_pkts, rx_drops, net, guest, cring, mem, fifo, teardowns>>

\* What the guest keeps for the queues in gone: nothing, their memory is fresh
\* when they are created again.
Forget(gone) ==
    LET New(f, x) == [q \in Qs |-> IF q \in gone THEN x ELSE f[q]] IN
    /\ sq' = New(sq, [used |-> FALSE, head |-> 0, tail |-> 0])
    /\ cq' = New(cq, Start) /\ driver' = New(driver, Start)
    /\ sring' = New(sring, [s \in Slots |-> BlankDesc])
    /\ cring' = New(cring, [s \in Slots |-> BlankEntry])
    /\ mem' = New(mem, [s \in Slots |-> Nothing])
    /\ tail' = New(tail, 0) /\ free' = New(free, Slots)
    /\ fifo' = New(fifo, <<>>) /\ prev' = New(prev, <<>>)
    /\ bad' = bad \ gone

\* ena_destroy_sq, with buffers posted or not.  Frames stay held.
Destroy(q) ==
    /\ Ready4Handler /\ sq[q].used /\ teardowns < MaxTeardowns
    /\ Forget({q})
    /\ teardowns' = teardowns + 1
    /\ UNCHANGED <<rx, rx_pkts, rx_drops, net>>

\* ena_dev_reset: no queue is left and the statistics are zero.
DevReset ==
    /\ Ready4Handler /\ teardowns < MaxTeardowns
    /\ Forget(Qs)
    /\ rx_pkts' = 0 /\ rx_drops' = 0 /\ filtered' = 0 /\ arrived' = Len(held)
    /\ teardowns' = teardowns + 1
    /\ UNCHANGED <<rx, held, flushing>>

-----------------------------------------------------------------------------
\* The guest writes the descriptor of a buffer it owns into the ring.
Post(q, ok) ==
    /\ sq[q].used /\ free[q] # {}
    /\ LET id == CHOOSE i \in free[q] : \A j \in free[q] : i <= j IN
       /\ sring' = [sring EXCEPT ![q][tail[q] % Depth] =
                      [req_id |-> id, size |-> BufSize[q], ok |-> ok]]
       /\ free' = [free EXCEPT ![q] = @ \ {id}]
    /\ tail' = [tail EXCEPT ![q] = (@ + 1) % W]
    /\ bad' = IF ok THEN bad ELSE bad \cup {q}
    /\ UNCHANGED <<device, net, driver, prev, cring, mem, fifo, teardowns>>

\* The guest reads a completion, takes the chunk and owns the buffer again.
Reap(q) ==
    /\ sq[q].used /\ Ready(cring[q], driver[q])
    /\ LET id == cring[q][driver[q].idx % Depth].data.req_id IN
       /\ free' = [free EXCEPT ![q] = @ \cup {id}]
       /\ mem' = [mem EXCEPT ![q][id] = Nothing]
    /\ prev' = [prev EXCEPT ![q] = <<Head(fifo[q])>>]
    /\ driver' = [driver EXCEPT ![q] = Advance(@)]
    /\ fifo' = [fifo EXCEPT ![q] = Tail(@)]
    /\ UNCHANGED <<device, net, sring, tail, bad, cring, teardowns>>

\* The guest tells the device about the buffers it posted.
Ring(q) == tail[q] # sq[q].tail /\ Doorbell(q, tail[q])

Next ==
    \/ \E f \in Frames : Arrive(f)
    \/ Flush \/ WriteChunk \/ PushChunk
    \/ \E q \in Qs :
        \/ \E ok \in Checks : Post(q, ok)
        \/ Ring(q) \/ Reap(q) \/ Create(q) \/ Destroy(q)
    \/ DevReset

Spec == Init /\ [][Next]_vars

\* A handler that began goes on, and a guest keeps its queues, posts buffers,
\* rings and reads.  Frames, tear-downs and bad descriptors are not promised.
Fairness ==
    /\ WF_vars(Flush) /\ WF_vars(WriteChunk) /\ WF_vars(PushChunk)
    /\ \A q \in Qs : /\ WF_vars(Create(q)) /\ WF_vars(Post(q, TRUE))
                     /\ WF_vars(Ring(q)) /\ WF_vars(Reap(q))

FairSpec == Spec /\ Fairness

-----------------------------------------------------------------------------
\* The guest reads the completions of every queue in order, each once, none
\* overwritten: ena_rx_receive_iov never checks for room in the CQ, it relies
\* on the guest having posted no more buffers than the CQ has entries.
CompletionsHold ==
    \A q \in Qs : Holds(cring[q], cq[q], driver[q],
                        [k \in DOMAIN fifo[q] |-> fifo[q][k].cdesc])

\* Until the guest reads a completion, the buffer it names holds the chunk it
\* was written for; and what the guest reads is whole frames: a first completion
\* begins a frame, the chunks follow each other, the last one ends it, and only
\* the frame in progress may lack its end.  The guest may reuse the buffers and
\* ring slots of a frame as soon as it reads their completions, while
\* ena_rx_receive_iov still works on the rest from the descriptors it copied.
FramesIntact ==
    \A q \in Qs :
        LET s == prev[q] \o fifo[q] IN
        /\ \A k \in DOMAIN fifo[q] :
             mem[q][fifo[q][k].cdesc.req_id] = fifo[q][k].chunk
        /\ \A k \in DOMAIN s :
             LET c == s[k].chunk IN
             /\ s[k].cdesc.first <=> c.off = 0
             /\ s[k].cdesc.last <=> c.off + c.len = c.frame.len
             /\ IF k = Len(s)
                THEN s[k].cdesc.last \/ (rx # Idle /\ rx.q = q /\ rx.off = c.off + c.len)
                ELSE s[k + 1].chunk.off = IF s[k].cdesc.last THEN 0 ELSE c.off + c.len

\* The buffers of q the device may still fill: posted, completion not written.
Posted(q) ==
    LET done == IF rx # Idle /\ rx.q = q THEN rx.i - 1 ELSE 0
        from == sq[q].head + done
        slot == [k \in 1..((tail[q] - from) % W) |-> (from + k - 1) % Depth]
    IN [k \in DOMAIN slot |->
          IF done + k <= (IF rx # Idle /\ rx.q = q THEN Len(rx.desc) ELSE 0)
          THEN rx.desc[done + k].req_id ELSE sring[q][slot[k]].req_id]

\* A buffer has one owner: posted to the device, in a completion not read, or
\* the guest's.  None is ever lost unless a bad descriptor was posted, which
\* takes the good ones in front of it along.
BuffersOwned ==
    \A q \in Used :
        LET s == Posted(q) \o [k \in DOMAIN fifo[q] |-> fifo[q][k].cdesc.req_id] IN
        /\ \A j, k \in DOMAIN s : s[j] = s[k] => j = k
        /\ \A k \in DOMAIN s : s[k] \notin free[q]
        /\ q \notin bad => Len(s) + Cardinality(free[q]) = Depth

\* ena_rx_collect takes the least number of buffers that hold the frame, and
\* fails without consuming any when there are too few; a bad descriptor counts
\* only when the frame would reach it.
CollectExact ==
    rx = Idle => \A q \in Used : \A len \in 1..MaxFrame :
        LET need == (len + BufSize[q] - 1) \div BufSize[q]
            lim == IF Avail(q) < MaxDescs THEN Avail(q) ELSE MaxDescs
            reach == 1..(IF need < lim THEN need ELSE lim)
            wrong == {k \in reach : ~At(q, k - 1).ok}
        IN Collect(q, len) =
             IF wrong # {} THEN [n |-> -1, skip |-> CHOOSE k \in wrong : \A j \in wrong : k <= j]
             ELSE [n |-> IF need <= lim THEN need ELSE -1, skip |-> 0]

\* Every frame that arrived is held, in progress, delivered, counted as dropped
\* or filtered out by its MAC address, whatever path it took; and none is held
\* while an RX queue has a buffer, so none that arrives overtakes one that is
\* held.
FramesAccounted ==
    /\ arrived = Len(held) + rx_pkts + rx_drops + filtered + (IF rx = Idle THEN 0 ELSE 1)
    /\ Ready4Handler /\ held # <<>> => \A q \in Used : Avail(q) = 0

\* A held frame does not stay held: the buffers of a guest that goes on bring
\* it in, also after the queues were destroyed or the device was reset.
HeldLeaves == held # <<>> ~> held = <<>>
=============================================================================
