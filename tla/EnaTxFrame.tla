------------------------------ MODULE EnaTxFrame ------------------------------
(***************************************************************************)
(* What ena_tx_xmit (hw/ena_tx.c) makes of a packet that is parsed (EnaTx  *)
(* has the parser and the ring): the pushed header, the sizes, the source  *)
(* address, the MTU of the moment and the offloads, held against what the  *)
(* frame really is.  The metadata of a queue outlives the packet that      *)
(* carried it, and the MTU changes between packets (EnaPackets).           *)
(***************************************************************************)
EXTENDS EnaFeatures

CONSTANTS
    HeaderRoom,   \* entry_size - ENA_LLQ_HEADER_OFF
    Lens,         \* lengths of the buffers of a packet, in all
    Hdrs,         \* lengths of the pushed header
    MaxPkt        \* ENA_TX_MAX_PKT

EthHlen == 14
Overhead == EthHlen + 4    \* the header and one VLAN tag

\* The least frame in which ena_tx_frame_protos finds a protocol.
MinLen == [ip \in {"4", "6", "other"} |->
              CASE ip = "4" -> EthHlen + 20 [] ip = "6" -> EthHlen + 40 [] OTHER -> 0]

\* A parsed packet: what the descriptors say (the metadata, if any, and the
\* offloads asked for), what the frame is, and at most one thing that is wrong
\* with it outside the sizes and the offloads.
Packet ==
    {p \in [llq : BOOLEAN, hdr : Hdrs, len : Lens, meta : {<<>>, <<0>>, <<1>>},
            ask : SUBSET {"tso", "l3", "l4"}, ip : {"4", "6", "other"},
            l4 : {"TCP", "UDP", "other"},
            flaw : {"none", "unreadable", "foreign", "unparsable", "not taken"}] :
        /\ p.hdr + p.len >= MinLen[p.ip]
        /\ p.ip = "other" => p.l4 = "other"}

Total(p) == p.hdr + p.len

VARIABLES
    mss,          \* sq->meta.mss
    pkt,          \* the packet in ena_tx_xmit, as a sequence of at most one
    out           \* what became of it

packet == <<mss, pkt, out>>

Nothing == [count |-> "none", sums |-> {}, segmented |-> FALSE, left |-> FALSE]

XmitInit == mss = 0 /\ pkt = <<>> /\ out = Nothing

-----------------------------------------------------------------------------
\* Mutant: a header that fills its entry is refused.
RefusedFull(p) ==
    (~p.llq /\ p.hdr # 0) \/ p.hdr >= HeaderRoom \/ Total(p) = 0 \/ Total(p) > MaxPkt

\* Refused before anything is read, without a count.
Refused(p) ==
    (~p.llq /\ p.hdr # 0) \/ p.hdr > HeaderRoom \/ Total(p) = 0 \/ Total(p) > MaxPkt

\* The frame of another sender, or too short to have one: ignored.
Foreign(p) == Total(p) < EthHlen \/ p.flaw = "foreign"

\* Mutant: only a frame that asks for nothing is held to the MTU.
OverMtuPlain(p) == p.ask = {} /\ Total(p) > mtu + Overhead

\* Over the MTU, and not to be segmented.
OverMtu(p) == "tso" \notin p.ask /\ Total(p) > mtu + Overhead

\* Segmentation without an mss (m is the queue's), or of something not TCP.
BadTso(p, m) == "tso" \in p.ask /\ (m = 0 \/ p.l4 # "TCP")

\* The requests that the frame can take.
Applicable(p) ==
    {o \in p.ask : (o = "l3" => p.ip = "4") /\ (o = "l4" => p.l4 \in {"TCP", "UDP"})}

\* ena_tx_ip4_csum: the IPv4 checksum of an unsegmented frame is computed in
\* place, and is off the list of offloads.
InPlace(p) == Applicable(p) \intersect (IF "tso" \in p.ask THEN {} ELSE {"l3"})

Offloads(p) == Applicable(p) \ InPlace(p)

\* Mutant: the L4 checksum is left out of segments that did not ask for it, and
\* the IPv4 one is never updated in them.
SumsOfPlain(p) == Offloads(p) \intersect {"l4"}

\* ena_tx_offloads: the checksums net_tx_pkt fills in.  Both in segments, the L4
\* one in other frames.
SumsOf(p) ==
    IF "tso" \in Offloads(p) THEN {"l4"} \union (IF p.ip = "4" THEN {"l3"} ELSE {})
    ELSE {"l4"}

\* Counted and lost.
Dropped == [Nothing EXCEPT !.count = "tx_drops"]

\* ena_tx_xmit on a queue whose mss is m.
Outcome(p, m) ==
    IF Refused(p) THEN Nothing
    ELSE IF p.flaw = "unreadable" THEN Dropped
    ELSE IF Foreign(p) THEN Nothing
    ELSE IF OverMtu(p) \/ BadTso(p, m) THEN Dropped
    ELSE IF Offloads(p) = {}
         THEN [count |-> "tx_pkts", sums |-> InPlace(p), segmented |-> FALSE, left |-> TRUE]
    ELSE IF p.flaw = "unparsable" THEN Dropped
    ELSE IF p.flaw = "not taken" THEN Nothing
    ELSE [count |-> "tx_pkts", sums |-> InPlace(p) \union SumsOf(p),
          segmented |-> "tso" \in Offloads(p), left |-> TRUE]

\* The metadata a packet is sent with.
MetaOf(p) == IF p.meta = <<>> THEN mss ELSE p.meta[1]

\* One turn of the loop of ena_tx_doorbell: the metadata is stored, then
\* ena_tx_xmit runs.
Xmit(p) ==
    /\ mss' = MetaOf(p)
    /\ pkt' = <<p>>
    /\ out' = Outcome(p, mss')
    /\ UNCHANGED mtu

\* ena_tx_xmit returns.
XmitReturn == pkt # <<>> /\ pkt' = <<>> /\ out' = Nothing /\ UNCHANGED <<mtu, mss>>

\* The queue is destroyed and created again.
Recreate == pkt = <<>> /\ mss # 0 /\ mss' = 0 /\ UNCHANGED <<mtu, pkt, out>>

XmitNext == (pkt = <<>> /\ \E p \in Packet : Xmit(p)) \/ XmitReturn \/ Recreate

-----------------------------------------------------------------------------
(* What is checked, when ena_tx_xmit has handled a packet. *)

\* A frame that leaves carries every checksum it asked for and can have,
\* whichever of the three places computes it; one that asked for nothing leaves
\* untouched.
SumsAsAsked ==
    \A i \in DOMAIN pkt : out.left =>
        /\ "l3" \in pkt[i].ask /\ pkt[i].ip = "4" => "l3" \in out.sums
        /\ "l4" \in pkt[i].ask /\ pkt[i].l4 # "other" => "l4" \in out.sums
        /\ pkt[i].ask = {} => out.sums = {} /\ ~out.segmented

\* No frame over the MTU that is set leaves in one piece.
WithinMtu ==
    \A i \in DOMAIN pkt :
        out.left /\ ~out.segmented => Total(pkt[i]) <= mtu + Overhead

\* A driver that keeps to what the device advertises loses nothing: a frame of
\* its own within the MTU, or TCP for segmentation on a queue that has an mss
\* from this packet or an earlier one, with a header that fits the entry, leaves
\* and is counted.
WellFormedLeaves ==
    \A i \in DOMAIN pkt :
        LET p == pkt[i]
        IN /\ p.flaw = "none"
           /\ IF p.llq THEN p.hdr <= HeaderRoom ELSE p.hdr = 0
           /\ Total(p) \in EthHlen..MaxPkt
           /\ IF "tso" \in p.ask THEN mss # 0 /\ p.l4 = "TCP"
              ELSE Total(p) <= mtu + Overhead
           => out.left /\ out.count = "tx_pkts"
=============================================================================
