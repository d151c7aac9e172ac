----------------------------- MODULE EnaFeatures -----------------------------
(***************************************************************************)
(* What the driver negotiates with SET_FEATURE and reads back with         *)
(* GET_FEATURE and GET_STATS (hw/ena_admin.c), and what the receive path   *)
(* does with it (hw/ena_rx.c): the largest frame, and the RSS hash that    *)
(* spreads frames over the queues.  The driver keeps its own record of     *)
(* what it was granted; commands run one at a time (EnaAdmin).             *)
(***************************************************************************)
EXTENDS Integers, Sequences

CONSTANTS
    MinMtu, MaxMtu,   \* ENA_MIN_MTU, ENA_MAX_MTU
    Mtus,             \* MTUs the driver asks for
    Addrs,            \* guest addresses; 0 is no address
    GroupSets,        \* sets of event groups the driver asks for
    Keys,             \* RSS keys, as sequences of words
    KeyParts,         \* ENA_ADMIN_RSS_KEY_PARTS
    DefaultKey,       \* the key of ena_rss_reset
    InitVals,         \* initial values of the hash; 0 among them
    Selections,       \* hash inputs the driver asks for
    Tables,           \* indirection tables the driver asks for
    RxQueues,         \* RX queues in use (EnaQueues)
    B, MaxCount       \* 2^32, and the bound on packets counted

-----------------------------------------------------------------------------
(* Frame classes and hash inputs.                                          *)
Protos == {"TCP4", "UDP4", "TCP6", "UDP6", "IP4", "IP6", "IP4_FRAG",
           "NOT_IP", "TCP6_EX", "IP6_EX"}
L3 == {"L3_DA", "L3_SA"}
L4 == {"L4_DP", "L4_SP"}
Fields == {"L2_DA", "L2_SA"} \union L3 \union L4

\* ena_rss_supported_fields.
SupportedFields(p) ==
    CASE p \in {"TCP4", "UDP4", "TCP6", "UDP6"} -> L3 \union L4
      [] p \in {"IP4", "IP6", "IP4_FRAG"} -> L3
      [] OTHER -> {}

\* What net_rx_pkt tells of a frame; it skips IPv6 extension headers.
HashFrame == { f \in [ip : {"4", "6", "none"}, frag : BOOLEAN, l4 : {"TCP", "UDP", "other"}] :
             f.frag => f.ip = "4" }

SupportedGroups == {"link_change", "keep_alive"}
LlqSizes == {"none", "128B", "256B"}
Llq == [location : {"none", "inline"}, entry : LlqSizes, descs : {0, 2, 4},
        stride : {"none", "single", "multiple"}]
NoSlots == [enabled |-> FALSE, size |-> 0]
NoLlq == [location |-> "none", entry |-> "none", descs |-> 0, stride |-> "none"]

Features == {"MTU", "LLQ", "AENQ_CONFIG", "HASH_FUNCTION", "HASH_INPUT",
             "INDIRECTION_TABLE"}

VARIABLES
    mtu,           \* s->mtu
    host,          \* s->host_info_addr, s->debug_area_addr
    llq,           \* s->llq_enabled, s->llq_entry_size
    groups,        \* s->aenq_groups
    rss,           \* s->rss: key, init_val, fields, ind_tbl
    stats,         \* the 64-bit counters: packets and bytes of one direction
    status,        \* the status of the last command
    answer,        \* what it returned
    want,          \* the driver's record of what it was granted
    granted_host,  \* the host attributes it was last granted
    seen           \* history: packets and bytes since the reset, unbounded

device == <<mtu, host, llq, groups, rss>>
belief == <<want, granted_host>>
settings == <<device, stats, status, answer, belief, seen>>

Statuses == {"success", "illegal", "malformed", "unsupported"}
NoAnswer == [feature |-> "none"]

\* What a reset leaves: ena_dev_reset and ena_rss_reset.
ResetRss == [key |-> DefaultKey, init_val |-> 0,
             fields |-> [p \in Protos |-> SupportedFields(p)],
             ind_tbl |-> <<0, 0>>]
ResetWant == [x \in Features |->
    CASE x = "MTU" -> MaxMtu
      [] x = "LLQ" -> NoLlq
      [] x = "AENQ_CONFIG" -> {}
      [] x = "HASH_FUNCTION" -> [key |-> DefaultKey, init_val |-> 0]
      [] x = "HASH_INPUT" -> [p \in Protos |-> SupportedFields(p)]
      [] x = "INDIRECTION_TABLE" -> <<0, 0>>]
NoHost == [info |-> 0, debug |-> 0]

SettingsInit ==
    /\ mtu = MaxMtu /\ host = NoHost /\ groups = {}
    /\ llq = NoSlots
    /\ rss = ResetRss
    /\ stats = [c \in {"pkts", "bytes"} |-> 0]
    /\ status = "success" /\ answer = NoAnswer
    /\ want = ResetWant /\ granted_host = NoHost
    /\ seen = [pkts |-> 0, bytes |-> 0]

-----------------------------------------------------------------------------
(* SET_FEATURE.                                                            *)

\* The command returned st; the driver records v as its value of feature f.
Returns(st, f, v) ==
    /\ status' = st /\ answer' = NoAnswer
    /\ want' = IF st = "success" THEN [want EXCEPT ![f] = v] ELSE want
    /\ UNCHANGED <<stats, seen>>

\* HOST_ATTR_CONFIG stores the addresses before it looks at them.
SetHostAttr(info, debug) ==
    LET st == IF info = 0 THEN "illegal" ELSE "success"
    IN /\ host' = [info |-> info, debug |-> debug]
       /\ status' = st /\ answer' = NoAnswer
       /\ granted_host' = IF st = "success" THEN host' ELSE granted_host
       /\ UNCHANGED <<mtu, llq, groups, rss, stats, want, seen>>

GroupsOk(g) == g \subseteq SupportedGroups

\* AENQ_CONFIG; the event it posts is in EnaAenq.
SetAenq(g) ==
    LET st == IF GroupsOk(g) THEN "success" ELSE "illegal"
    IN /\ groups' = IF st = "success" THEN g ELSE groups
       /\ Returns(st, "AENQ_CONFIG", g)
       /\ UNCHANGED <<mtu, host, llq, rss, granted_host>>

MtuOk(m) == m >= MinMtu /\ m <= MaxMtu

SetMtu(m) ==
    LET st == IF MtuOk(m) THEN "success" ELSE "illegal"
    IN /\ mtu' = IF st = "success" THEN m ELSE mtu
       /\ Returns(st, "MTU", m)
       /\ UNCHANGED <<host, llq, groups, rss, granted_host>>

LlqOk(c) == /\ c.location = "inline" /\ c.entry \in {"128B", "256B"}
            /\ c.descs = 2 /\ c.stride = "multiple"

SetLlq(c) ==
    LET st == IF LlqOk(c) THEN "success" ELSE "illegal"
    IN /\ llq' = IF st = "success"
                 THEN [enabled |-> TRUE, size |-> IF c.entry = "256B" THEN 256 ELSE 128]
                 ELSE llq
       /\ Returns(st, "LLQ", c)
       /\ UNCHANGED <<mtu, host, groups, rss, granted_host>>

\* RSS_HASH_FUNCTION: Toeplitz only, from a buffer that holds a whole key.
SetHashFunction(toeplitz, buf, key, init) ==
    LET st == IF ~toeplitz THEN "illegal"
              ELSE IF ~buf THEN "malformed"
              ELSE IF Len(key) # KeyParts THEN "illegal"
              ELSE "success"
    IN /\ rss' = IF st = "success" THEN [rss EXCEPT !.key = key, !.init_val = init] ELSE rss
       /\ Returns(st, "HASH_FUNCTION", [key |-> key, init_val |-> init])
       /\ UNCHANGED <<mtu, host, llq, groups, granted_host>>

\* Mutant: any subset of the supported fields is stored.
SelectionOkAny(sel) == TRUE
SelectionOk(sel) == \A p \in Protos : sel[p] \in {{}, L3, L3 \union L4}

Masked(sel) == [p \in Protos |-> sel[p] \intersect SupportedFields(p)]

\* Mutant: the selections are stored as they are checked.
SetHashInputEarly(buf, sel) ==
    LET m == Masked(sel)
        st == IF ~buf THEN "malformed" ELSE IF ~SelectionOk(m) THEN "illegal" ELSE "success"
    IN /\ rss' = IF ~buf THEN rss
                 ELSE [rss EXCEPT !.fields =
                         [p \in Protos |-> IF m[p] \in {{}, L3, L3 \union L4} THEN m[p] ELSE @[p]]]
       /\ Returns(st, "HASH_INPUT", m)
       /\ UNCHANGED <<mtu, host, llq, groups, granted_host>>

\* RSS_HASH_INPUT: unsupported fields are masked, all classes are checked
\* before any is stored.
SetHashInput(buf, sel) ==
    LET m == Masked(sel)
        st == IF ~buf THEN "malformed" ELSE IF ~SelectionOk(m) THEN "illegal" ELSE "success"
    IN /\ rss' = IF st = "success" THEN [rss EXCEPT !.fields = m] ELSE rss
       /\ Returns(st, "HASH_INPUT", m)
       /\ UNCHANGED <<mtu, host, llq, groups, granted_host>>

\* RSS_INDIRECTION_TABLE_CONFIG: every entry names an RX queue in use.
SetIndTable(sized, buf, tbl) ==
    LET st == IF sized /\ buf /\ (\A i \in DOMAIN tbl : tbl[i] \in RxQueues) THEN "success" ELSE "illegal"
    IN /\ rss' = IF st = "success" THEN [rss EXCEPT !.ind_tbl = tbl] ELSE rss
       /\ Returns(st, "INDIRECTION_TABLE", tbl)
       /\ UNCHANGED <<mtu, host, llq, groups, granted_host>>

-----------------------------------------------------------------------------
(* GET_FEATURE and GET_STATS.                                              *)

\* The "enabled" half of the answer about the LLQ.
LlqAnswer == [location |-> IF llq.enabled THEN "inline" ELSE "none",
    entry |-> IF llq.size = 256 THEN "256B" ELSE IF llq.enabled THEN "128B" ELSE "none",
    descs |-> IF llq.enabled THEN 2 ELSE 0,
    stride |-> IF llq.enabled THEN "multiple" ELSE "none"]

\* ena_get_feature, for the features that have a value; those of RSS are asked for
\* with a control buffer, and the answers that are constants are left out.
Setting(f) ==
    CASE f = "MTU" -> mtu
      [] f = "LLQ" -> LlqAnswer
      [] f = "AENQ_CONFIG" -> groups
      [] f = "HASH_FUNCTION" -> [key |-> rss.key, init_val |-> rss.init_val]
      [] f = "HASH_INPUT" -> rss.fields
      [] f = "INDIRECTION_TABLE" -> rss.ind_tbl

GetFeature(f) ==
    /\ status' = "success"
    /\ answer' = [feature |-> f, value |-> Setting(f)]
    /\ UNCHANGED <<device, stats, belief, seen>>

\* A feature or statistics type the device does not have.
GetUnsupported ==
    /\ status' = "unsupported" /\ answer' = NoAnswer
    /\ UNCHANGED <<device, stats, belief, seen>>

Halves(n) == [low |-> n % B, high |-> (n \div B) % B]

\* ena_get_stats: every counter in two 32-bit words.
GetStats(device_id) ==
    /\ status' = IF device_id \in {0, 65535} THEN "success" ELSE "illegal"
    /\ answer' = IF status' = "success"
                 THEN [feature |-> "stats", pkts |-> Halves(stats.pkts),
                       bytes |-> Halves(stats.bytes)]
                 ELSE NoAnswer
    /\ UNCHANGED <<device, stats, belief, seen>>

\* A frame of n bytes was sent or delivered.
Count(n) ==
    /\ seen.pkts < MaxCount
    /\ seen' = [pkts |-> seen.pkts + 1, bytes |-> seen.bytes + n]
    /\ stats' = [pkts |-> (stats.pkts + 1) % (B * B), bytes |-> (stats.bytes + n) % (B * B)]
    /\ answer' = NoAnswer
    /\ UNCHANGED <<device, status, belief>>

\* ena_dev_reset: defaults, and ena_stats_reset.
DevReset ==
    /\ mtu' = MaxMtu /\ host' = NoHost /\ groups' = {}
    /\ llq' = NoSlots
    /\ rss' = ResetRss
    /\ stats' = [c \in {"pkts", "bytes"} |-> 0]
    /\ status' = "success" /\ answer' = NoAnswer
    /\ want' = ResetWant /\ granted_host' = NoHost
    /\ seen' = [pkts |-> 0, bytes |-> 0]

\* The commands.
Command ==
    \/ \E i \in Addrs, a \in Addrs \ {0} : SetHostAttr(i, a)
    \/ \E g \in GroupSets : SetAenq(g)
    \/ \E m \in Mtus : SetMtu(m)
    \/ \E c \in Llq : SetLlq(c)
    \/ \E t, b \in BOOLEAN, k \in Keys, i \in InitVals : SetHashFunction(t, b, k, i)
    \/ \E b \in BOOLEAN, sel \in Selections : SetHashInput(b, sel)
    \/ \E z, b \in BOOLEAN, t \in Tables : SetIndTable(z, b, t)
    \/ \E f \in Features : GetFeature(f)
    \/ GetUnsupported
    \/ \E id \in {0, 1, 65535} : GetStats(id)

-----------------------------------------------------------------------------
(* The receive path.                                                       *)
HeaderBytes == 18     \* ETH_HLEN and one VLAN tag

\* ena_rx_receive_iov does not drop a frame of this length.
Fits(len) == len <= mtu + HeaderBytes

\* ena_rss_proto.
RssProto(f) ==
    IF f.ip = "4"
    THEN IF f.frag THEN "IP4_FRAG"
         ELSE IF f.l4 = "TCP" THEN "TCP4" ELSE IF f.l4 = "UDP" THEN "UDP4" ELSE "IP4"
    ELSE IF f.l4 = "TCP" THEN "TCP6" ELSE IF f.l4 = "UDP" THEN "UDP6" ELSE "IP6"

\* ena_rss_key: the words of the key in reverse order.
KeyStream == [i \in 1..KeyParts |-> rss.key[KeyParts + 1 - i]]

\* The fields net_rx_pkt_calc_rss_hash covers: addresses, or addresses and the
\* ports of the protocol.
Covered(l4) == IF l4 \in {"TCP", "UDP"} THEN L3 \union L4 ELSE L3

NoHash == [in |-> {}]

\* ena_rss_hash: what the hash of a frame is computed from.
Hash(f) ==
    LET sel == rss.fields[RssProto(f)]
        l4 == IF sel \intersect L4 = {} THEN "other" ELSE f.l4
    IN IF f.ip = "none" \/ sel = {} THEN NoHash
       ELSE [in |-> Covered(l4), key |-> KeyStream, init_val |-> rss.init_val]

-----------------------------------------------------------------------------
(* What is checked.                                                        *)

\* A refused command changes nothing: what GET_FEATURE answers is what the
\* driver was granted last, through the conversions of both commands, however
\* grants, refusals and resets follow each other.  HOST_ATTR_CONFIG is the
\* exception: refused, it forgets the address.
GrantsKept ==
    /\ \A f \in Features : Setting(f) = want[f]
    /\ host # granted_host => host.info = 0

\* The counters survive the split into two words: what the driver puts together
\* is the number of packets and bytes since the reset, modulo 2^64.
StatsExact ==
    answer.feature = "stats" =>
        /\ answer.pkts.high * B + answer.pkts.low = seen.pkts % (B * B)
        /\ answer.bytes.high * B + answer.bytes.low = seen.bytes % (B * B)

\* Whatever MTU the driver sets, a frame that ena_rx_receive_iov takes fits the
\* frame buffer on its stack, ENA_RX_MAX_FRAME bytes.
FrameFitsBuffer ==
    \A over \in 1..2 : ~Fits(MaxMtu + HeaderBytes + over)

\* The hash covers exactly the fields granted for the class of the frame, with
\* the granted key and initial value: SET_FEATURE grants no selection that
\* ena_rss_hash cannot compute.
HashCoversGranted ==
    \A f \in HashFrame : f.ip # "none" =>
        LET sel == want["HASH_INPUT"][RssProto(f)]
        IN /\ Hash(f).in = sel
           /\ sel # {} => /\ \A i \in 1..KeyParts :
                               Hash(f).key[KeyParts + 1 - i] = want["HASH_FUNCTION"].key[i]
                          /\ Hash(f).init_val = want["HASH_FUNCTION"].init_val

\* The fragments of a datagram reach one queue: their hash never depends on
\* the ports, which only the first fragment carries, nor on the protocol.
FragmentsTogether ==
    \A f, g \in HashFrame : f.frag /\ g.frag =>
        Hash(f) = Hash(g) /\ Hash(f).in \intersect L4 = {}

=============================================================================
