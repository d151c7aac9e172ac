------------------------------- MODULE EnaDescs -------------------------------
(***************************************************************************)
(* The bit layouts the driver and the device share                         *)
(* (hw/ena_defs/ena_eth_io_defs.h): what the structures document, what the *)
(* masks and shifts say, which word each accessor touches; and the device  *)
(* code that takes descriptors apart with its own expressions and writes   *)
(* completions (hw/ena_tx.c, hw/ena_rx.c, hw/ena.c).  A word or a value is *)
(* the set of its bits that are set, so 32 bits stay 32 bits.              *)
(***************************************************************************)
EXTENDS Integers, FiniteSets

CONSTANT MaxSet      \* bound on the fields the driver sets in one descriptor

\* What the structures document: word, field, top and bottom bit.
TxDescDoc == [
    len_ctrl |-> [length |-> <<15, 0>>, req_id_hi |-> <<21, 16>>, reserved22 |-> <<22, 22>>,
        meta_desc |-> <<23, 23>>, phase |-> <<24, 24>>, reserved1 |-> <<25, 25>>,
        first |-> <<26, 26>>, last |-> <<27, 27>>, comp_req |-> <<28, 28>>,
        reserved29 |-> <<30, 29>>, reserved31 |-> <<31, 31>>],
    meta_ctrl |-> [l3_proto_idx |-> <<3, 0>>, DF |-> <<4, 4>>, reserved5 |-> <<6, 5>>,
        tso_en |-> <<7, 7>>, l4_proto_idx |-> <<12, 8>>, l3_csum_en |-> <<13, 13>>,
        l4_csum_en |-> <<14, 14>>, ethernet_fcs_dis |-> <<15, 15>>, reserved16 |-> <<16, 16>>,
        l4_csum_partial |-> <<17, 17>>, reserved18 |-> <<20, 18>>, reserved21 |-> <<21, 21>>,
        req_id_lo |-> <<31, 22>>],
    buff_addr_lo |-> [buff_addr_lo |-> <<31, 0>>],
    buff_addr_hi_hdr_sz |-> [addr_hi |-> <<15, 0>>, reserved16_w2 |-> <<23, 16>>,
        header_length |-> <<31, 24>>]]

TxMetaDescDoc == [
    len_ctrl |-> [req_id_lo |-> <<9, 0>>, reserved10 |-> <<11, 10>>, reserved12 |-> <<12, 12>>,
        reserved13 |-> <<13, 13>>, ext_valid |-> <<14, 14>>, reserved15 |-> <<15, 15>>,
        mss_hi |-> <<19, 16>>, eth_meta_type |-> <<20, 20>>, meta_store |-> <<21, 21>>,
        reserved22 |-> <<22, 22>>, meta_desc |-> <<23, 23>>, phase |-> <<24, 24>>,
        reserved25 |-> <<25, 25>>, first |-> <<26, 26>>, last |-> <<27, 27>>,
        comp_req |-> <<28, 28>>, reserved29 |-> <<30, 29>>, reserved31 |-> <<31, 31>>],
    word1 |-> [req_id_hi |-> <<5, 0>>, reserved6 |-> <<31, 6>>],
    word2 |-> [l3_hdr_len |-> <<7, 0>>, l3_hdr_off |-> <<15, 8>>,
        l4_hdr_len_in_words |-> <<21, 16>>, mss_lo |-> <<31, 22>>]]

RxCdescDoc == [
    status |-> [l3_proto_idx |-> <<4, 0>>, src_vlan_cnt |-> <<6, 5>>, mbz7 |-> <<7, 7>>,
        l4_proto_idx |-> <<12, 8>>, l3_csum_err |-> <<13, 13>>, l4_csum_err |-> <<14, 14>>,
        ipv4_frag |-> <<15, 15>>, l4_csum_checked |-> <<16, 16>>, mbz17 |-> <<17, 17>>,
        reserved18 |-> <<23, 18>>, phase |-> <<24, 24>>, l3_csum2 |-> <<25, 25>>,
        first |-> <<26, 26>>, last |-> <<27, 27>>, reserved28 |-> <<29, 28>>,
        buffer |-> <<30, 30>>, reserved31 |-> <<31, 31>>]]

IntrRegDoc == [
    intr_control |-> [rx_intr_delay |-> <<14, 0>>, tx_intr_delay |-> <<29, 15>>,
        intr_unmask |-> <<30, 30>>, no_moderation_update |-> <<31, 31>>]]

-----------------------------------------------------------------------------
(* Masks and shifts: top bit, bottom bit, shift.                           *)
TxDescMask == [
    length |-> <<15, 0, 0>>, req_id_hi |-> <<21, 16, 16>>, meta_desc |-> <<23, 23, 23>>,
    phase |-> <<24, 24, 24>>, first |-> <<26, 26, 26>>, last |-> <<27, 27, 27>>,
    comp_req |-> <<28, 28, 28>>, l3_proto_idx |-> <<3, 0, 0>>, DF |-> <<4, 4, 4>>,
    tso_en |-> <<7, 7, 7>>, l4_proto_idx |-> <<12, 8, 8>>, l3_csum_en |-> <<13, 13, 13>>,
    l4_csum_en |-> <<14, 14, 14>>, ethernet_fcs_dis |-> <<15, 15, 15>>,
    l4_csum_partial |-> <<17, 17, 17>>, req_id_lo |-> <<31, 22, 22>>,
    addr_hi |-> <<15, 0, 0>>, header_length |-> <<31, 24, 24>>]

TxMetaDescMask == [
    req_id_lo |-> <<9, 0, 0>>, ext_valid |-> <<14, 14, 14>>, mss_hi |-> <<19, 16, 16>>,
    eth_meta_type |-> <<20, 20, 20>>, meta_store |-> <<21, 21, 21>>,
    meta_desc |-> <<23, 23, 23>>, phase |-> <<24, 24, 24>>, first |-> <<26, 26, 26>>,
    last |-> <<27, 27, 27>>, comp_req |-> <<28, 28, 28>>, req_id_hi |-> <<5, 0, 0>>,
    l3_hdr_len |-> <<7, 0, 0>>, l3_hdr_off |-> <<15, 8, 8>>,
    l4_hdr_len_in_words |-> <<21, 16, 16>>, mss_lo |-> <<31, 22, 22>>]

RxCdescMask == [
    l3_proto_idx |-> <<4, 0, 0>>, src_vlan_cnt |-> <<6, 5, 5>>, mbz7 |-> <<7, 7, 7>>,
    l4_proto_idx |-> <<12, 8, 8>>, l3_csum_err |-> <<13, 13, 13>>,
    l4_csum_err |-> <<14, 14, 14>>, ipv4_frag |-> <<15, 15, 15>>,
    l4_csum_checked |-> <<16, 16, 16>>, mbz17 |-> <<17, 17, 17>>, phase |-> <<24, 24, 24>>,
    l3_csum2 |-> <<25, 25, 25>>, first |-> <<26, 26, 26>>, last |-> <<27, 27, 27>>,
    buffer |-> <<30, 30, 30>>]

IntrRegMask == [rx_intr_delay |-> <<14, 0, 0>>, tx_intr_delay |-> <<29, 15, 15>>,
    intr_unmask |-> <<30, 30, 30>>, no_moderation_update |-> <<31, 31, 31>>]

-----------------------------------------------------------------------------
(* The word the accessors of a field read and write.                       *)

TxDescWord(f) ==
    CASE f \in {"length", "req_id_hi", "meta_desc", "phase", "first", "last", "comp_req"}
           -> "len_ctrl"
      [] f \in {"addr_hi", "header_length"} -> "buff_addr_hi_hdr_sz"
      [] OTHER -> "meta_ctrl"

TxMetaDescWord(f) ==
    CASE f = "req_id_hi" -> "word1"
      [] f \in {"l3_hdr_len", "l3_hdr_off", "l4_hdr_len_in_words", "mss_lo"} -> "word2"
      [] OTHER -> "len_ctrl"

RxCdescWord(f) == "status"
IntrRegWord(f) == "intr_control"

Kinds == {"tx_desc", "tx_meta_desc", "rx_cdesc_base", "intr_reg"}
Doc == [tx_desc |-> TxDescDoc, tx_meta_desc |-> TxMetaDescDoc,
        rx_cdesc_base |-> RxCdescDoc, intr_reg |-> IntrRegDoc]
Mask(k) ==
    CASE k = "tx_desc" -> TxDescMask [] k = "tx_meta_desc" -> TxMetaDescMask
      [] k = "rx_cdesc_base" -> RxCdescMask [] k = "intr_reg" -> IntrRegMask
Word(k, f) ==
    CASE k = "tx_desc" -> TxDescWord(f) [] k = "tx_meta_desc" -> TxMetaDescWord(f)
      [] k = "rx_cdesc_base" -> RxCdescWord(f) [] k = "intr_reg" -> IntrRegWord(f)

\* Bits.
GENMASK(m) == m[2]..m[1]
Width(m) == m[1] - m[2] + 1
Lsh(v, n) == {b + n : b \in v} \intersect (0..31)
Rsh(v, n) == {b - n : b \in {c \in v : c >= n}}

\* The shape of the accessors: set_ ORs into the word, get_ takes out.
Set(d, k, f, v) ==
    LET m == Mask(k)[f] IN [d EXCEPT ![Word(k, f)] = @ \union (Lsh(v, m[3]) \intersect GENMASK(m))]
Get(d, k, f) ==
    LET m == Mask(k)[f] IN Rsh(d[Word(k, f)] \intersect GENMASK(m), m[3])

\* Every word the structures document is documented bit by bit, once.
LayoutComplete ==
    \A k \in Kinds : \A w \in DOMAIN Doc[k] : \A b \in 0..31 :
        Cardinality({f \in DOMAIN Doc[k][w] : b \in GENMASK(Doc[k][w][f])}) = 1

-----------------------------------------------------------------------------
(* The device takes descriptors apart.                                     *)

\* Mutant: the high part of the request id is shifted by 9.
TxReqIdShift(d) ==
    Rsh(d.meta_ctrl \intersect GENMASK(TxDescMask.req_id_lo), 22)
    \union Lsh(Rsh(d.len_ctrl \intersect GENMASK(TxDescMask.req_id_hi), 16), 9)

\* ena_tx_doorbell: the request id.
TxReqId(d) ==
    Rsh(d.meta_ctrl \intersect GENMASK(TxDescMask.req_id_lo), 22)
    \union Lsh(Rsh(d.len_ctrl \intersect GENMASK(TxDescMask.req_id_hi), 16), 10)

\* ena_tx_desc_len, the high half of ena_tx_desc_addr, hdr_len of ena_tx_xmit.
TxLen(d) == d.len_ctrl \intersect GENMASK(TxDescMask.length)
TxAddrHi(d) == d.buff_addr_hi_hdr_sz \intersect GENMASK(TxDescMask.addr_hi)
TxHdrLen(d) == Rsh(d.buff_addr_hi_hdr_sz \intersect GENMASK(TxDescMask.header_length), 24)

\* ENA_TX_OFFLOAD_MASK of ena_tx_xmit.
TxOffloads(d) ==
    {f \in {"tso_en", "l3_csum_en", "l4_csum_en"} :
        d.meta_ctrl \intersect GENMASK(TxDescMask[f]) # {}}

\* ena_tx_read_meta.
ReadMeta(d) ==
    [mss |-> Rsh(d.word2 \intersect GENMASK(TxMetaDescMask.mss_lo), 22)
             \union Lsh(Rsh(d.len_ctrl \intersect GENMASK(TxMetaDescMask.mss_hi), 16), 10),
     l3_hdr_len |-> d.word2 \intersect GENMASK(TxMetaDescMask.l3_hdr_len),
     l3_hdr_off |-> Rsh(d.word2 \intersect GENMASK(TxMetaDescMask.l3_hdr_off), 8),
     l4_hdr_len_words |->
        Rsh(d.word2 \intersect GENMASK(TxMetaDescMask.l4_hdr_len_in_words), 16)]

\* ena_cq_unmask_write: the delays and the two flags.
ReadIntr(d) ==
    [rx |-> d.intr_control \intersect GENMASK(IntrRegMask.rx_intr_delay),
     tx |-> Rsh(d.intr_control \intersect GENMASK(IntrRegMask.tx_intr_delay), 15),
     unmask |-> d.intr_control \intersect GENMASK(IntrRegMask.intr_unmask) # {},
     update |-> d.intr_control \intersect GENMASK(IntrRegMask.no_moderation_update) = {}]

-----------------------------------------------------------------------------
(* The device writes a receive completion.                                 *)
IPV4 == {3}
IPV6 == {0, 1, 3}
TCP == {2, 3}
UDP == {0, 2, 3}

\* What net_rx_pkt knows of a frame; it does not sum the L4 of a fragment.
Frame == { f \in [ip : {"4", "6", "none"}, frag : BOOLEAN, l3_bad : BOOLEAN,
                  l4 : {"TCP", "UDP", "other"}, l4_sum : {"unchecked", "good", "bad"}] :
             /\ (f.frag \/ f.l3_bad => f.ip = "4")
             /\ (f.ip = "none" => f.l4 = "other")
             /\ (f.frag \/ f.l4 = "other" => f.l4_sum = "unchecked") }

Flag(f, on) == IF on THEN GENMASK(RxCdescMask[f]) ELSE {}

\* Mutant: a checksum that was not looked at counts as checked.
RxStatusChecked(f) ==
    Flag("buffer", TRUE)
    \union (CASE f.ip = "4" -> IPV4 [] f.ip = "6" -> IPV6 [] OTHER -> {})
    \union Flag("ipv4_frag", f.frag) \union Flag("l3_csum_err", f.l3_bad)
    \union (IF f.l4 = "other" THEN {}
            ELSE Lsh(IF f.l4 = "TCP" THEN TCP ELSE UDP, 8)
                 \union Flag("l4_csum_checked", TRUE)
                 \union Flag("l4_csum_err", f.l4_sum = "bad"))

\* ena_rx_status.
RxStatus(f) ==
    Flag("buffer", TRUE)
    \union (CASE f.ip = "4" -> IPV4 [] f.ip = "6" -> IPV6 [] OTHER -> {})
    \union Flag("ipv4_frag", f.frag) \union Flag("l3_csum_err", f.l3_bad)
    \union (IF f.l4 = "other" THEN {}
            ELSE Lsh(IF f.l4 = "TCP" THEN TCP ELSE UDP, 8)
                 \union Flag("l4_csum_checked", f.l4_sum # "unchecked")
                 \union Flag("l4_csum_err", f.l4_sum = "bad"))

\* ena_rx_push_cdesc, with the flags ena_rx_receive_iov adds to a chunk.
RxCdescStatus(f, phase, first, last) ==
    RxStatus(f) \union Flag("first", first) \union Flag("last", last)
    \union Flag("phase", phase)

-----------------------------------------------------------------------------
VARIABLES
    kind,      \* the structure
    d,         \* its words
    val,       \* the fields the driver has set, and their values
    frame      \* what a completion reports: the frame and its flags

descriptor == <<kind, d, val, frame>>
None == [reported |-> FALSE]

Blank(k) == [w \in DOMAIN Doc[k] |-> {}]

DescInit == kind = "tx_desc" /\ d = Blank(kind) /\ val = <<>> /\ frame = None

\* The descriptor or completion is done with; the next one starts from zeros.
Finish(k) == kind' = k /\ d' = Blank(k) /\ val' = <<>> /\ frame' = None

\* The driver sets a field through its accessor; values are 1, the top bit and
\* all ones.
DriverSet(f, v) ==
    /\ kind # "rx_cdesc_base"
    /\ f \notin DOMAIN val /\ Cardinality(DOMAIN val) < MaxSet
    /\ d' = Set(d, kind, f, v)
    /\ val' = [g \in DOMAIN val \union {f} |-> IF g = f THEN v ELSE val[g]]
    /\ UNCHANGED <<kind, frame>>

DeviceCompletes(f, phase, first, last) ==
    /\ kind = "rx_cdesc_base" /\ frame = None
    /\ d' = [d EXCEPT !.status = RxCdescStatus(f, phase, first, last)]
    /\ frame' = [reported |-> TRUE, of |-> f, phase |-> phase, first |-> first, last |-> last]
    /\ UNCHANGED <<kind, val>>

DescNext ==
    \/ \E f \in DOMAIN Mask(kind) :
         LET n == Width(Mask(kind)[f])
         IN \E v \in {{0}, {n - 1}, 0..(n - 1)} : DriverSet(f, v)
    \/ \E f \in Frame, p, a, z \in BOOLEAN : DeviceCompletes(f, p, a, z)
    \/ \E k \in Kinds : Finish(k)

-----------------------------------------------------------------------------
(* What is checked.                                                        *)
FieldValue(f) == IF f \in DOMAIN val THEN val[f] ELSE {}

\* The accessors put every field where its structure documents it, and setting
\* one field touches no other, in whatever order the driver sets them.
Documented ==
    kind # "rx_cdesc_base" =>
        \A w \in DOMAIN Doc[kind] : \A f \in DOMAIN Doc[kind][w] :
            LET b == Doc[kind][w][f] IN Rsh(d[w] \intersect GENMASK(b), b[2]) = FieldValue(f)

\* The device reads what the driver wrote: request id and mss are put together
\* from their two parts, and no part of one leaks into the other.
DeviceDecodes ==
    /\ kind = "tx_desc" =>
        /\ TxReqId(d) = FieldValue("req_id_lo") \union Lsh(FieldValue("req_id_hi"), 10)
        /\ TxLen(d) = FieldValue("length") /\ TxAddrHi(d) = FieldValue("addr_hi")
        /\ TxHdrLen(d) = FieldValue("header_length")
        /\ TxOffloads(d) = {f \in {"tso_en", "l3_csum_en", "l4_csum_en"} : FieldValue(f) = {0}}
    /\ kind = "tx_meta_desc" =>
        ReadMeta(d) = [mss |-> FieldValue("mss_lo") \union Lsh(FieldValue("mss_hi"), 10),
                       l3_hdr_len |-> FieldValue("l3_hdr_len"), l3_hdr_off |-> FieldValue("l3_hdr_off"),
                       l4_hdr_len_words |-> FieldValue("l4_hdr_len_in_words")]
    /\ kind = "intr_reg" =>
        ReadIntr(d) = [rx |-> FieldValue("rx_intr_delay"), tx |-> FieldValue("tx_intr_delay"),
                       unmask |-> FieldValue("intr_unmask") = {0},
                       update |-> FieldValue("no_moderation_update") = {}]

\* A driver that follows the documentation of the completion is never misled:
\* it takes a checksum as good only when it was verified and is good, tells
\* fragments and protocols apart, and finds the limits of a frame.
StatusTruthful ==
    frame.reported =>
        LET g(x) == Get(d, "rx_cdesc_base", x)
            f == frame.of
        IN /\ g("l3_proto_idx") = (CASE f.ip = "4" -> IPV4 [] f.ip = "6" -> IPV6 [] OTHER -> {})
           /\ g("l4_proto_idx") = (CASE f.l4 = "TCP" -> TCP [] f.l4 = "UDP" -> UDP [] OTHER -> {})
           /\ (g("l3_csum_err") = {0}) = f.l3_bad
           /\ (g("ipv4_frag") = {0}) = f.frag
           /\ (g("l4_csum_checked") = {0} /\ g("l4_csum_err") = {}) = (f.l4_sum = "good")
           /\ (g("l4_csum_checked") = {0} /\ g("l4_csum_err") = {0}) = (f.l4_sum = "bad")
           /\ (g("phase") = {0}) = frame.phase
           /\ (g("first") = {0}) = frame.first /\ (g("last") = {0}) = frame.last
           /\ \A x \in {"mbz7", "mbz17", "src_vlan_cnt", "l3_csum2"} : g(x) = {}
=============================================================================
