-------------------------- MODULE EnaPacketsProofs --------------------------
(***************************************************************************)
(* Settings, counters and packets, for any MTUs, lengths, keys and width   *)
(* of the counters.  The inductive invariant has three parts that hardly   *)
(* meet: the settings agree with what was granted (SettingsInv), the       *)
(* counters with what was seen (CountersInv), and what became of the       *)
(* packet at hand is what the settings of the moment make of it            *)
(* (PacketInv); only the MTU is in two of them.                            *)
(***************************************************************************)
EXTENDS EnaPackets, TLAPS

-----------------------------------------------------------------------------
(* A counter of B * B values in two words of B values.                     *)

\* Quotient and remainder.
LEMMA DivMod ==
    ASSUME NEW a \in Int, NEW m \in Nat \ {0}
    PROVE  /\ a \div m \in Int
           /\ a % m \in 0..(m - 1)
           /\ a = m * (a \div m) + (a % m)
OBVIOUS

\* Quotient and remainder are unique.
LEMMA ModUnique ==
    ASSUME NEW a \in Int, NEW m \in Nat \ {0}, NEW q \in Int, NEW r \in 0..(m - 1),
           a = m * q + r
    PROVE  a % m = r
<1> DEFINE q2 == a \div m
           r2 == a % m
<1>1. q2 \in Int /\ r2 \in 0..(m - 1) /\ a = m * q2 + r2
  BY DivMod, Zenon
<1> HIDE DEF q2, r2
<1>2. CASE q >= q2 + 1
  <2>1. m * q >= m * (q2 + 1)
    BY <1>1, <1>2
  <2> QED
    BY <1>1, <2>1
<1>3. CASE q2 >= q + 1
  <2>1. m * q2 >= m * (q + 1)
    BY <1>1, <1>3
  <2> QED
    BY <1>1, <2>1
<1>4. CASE q = q2
  BY <1>1, <1>4 DEF r2
<1> QED
  BY <1>1, <1>2, <1>3, <1>4

\* A counter that wraps at m counts what an unbounded one counts, modulo m.
LEMMA CountWraps ==
    ASSUME NEW a \in Int, NEW n \in Int, NEW m \in Nat \ {0}
    PROVE  ((a % m) + n) % m = (a + n) % m
<1> DEFINE q == a \div m
           r == a % m
           q2 == (r + n) \div m
           r2 == (r + n) % m
<1>1. q \in Int /\ r \in Int /\ a = m * q + r
  BY DivMod
<1> HIDE DEF q, r
<1>2. q2 \in Int /\ r2 \in 0..(m - 1) /\ r + n = m * q2 + r2
  BY <1>1, DivMod
<1> HIDE DEF q2, r2
<1>3. a + n = m * (q + q2) + r2
  <2>1. m * (q + q2) = m * q + m * q2
    BY <1>1, <1>2
  <2> QED
    BY <1>1, <1>2, <2>1
<1>4. a + n \in Int /\ q + q2 \in Int
  BY <1>1, <1>2
<1>5. (a + n) % m = r2
  BY <1>2, <1>3, <1>4, ModUnique, Zenon
<1> QED
  BY <1>5 DEF r2, r

\* The two words of ena_get_stats make the counter again.
LEMMA HalvesExact ==
    ASSUME NEW n \in Nat, n < B * B
    PROVE  Halves(n).high * B + Halves(n).low = n
<1> DEFINE q == n \div B
           r == n % B
<1>0. B \in Nat \ {0}
  BY PacketsAssumption
<1>1. q \in Int /\ r \in 0..(B - 1) /\ n = B * q + r
  BY <1>0, DivMod
<1>2. Halves(n).high = q % B /\ Halves(n).low = r
  BY DEF Halves
<1> HIDE DEF q, r
<1>3. q >= 0
  <2> SUFFICES ASSUME q <= -1 PROVE FALSE
    BY <1>1
  <2>1. B * q <= B * (-1)
    BY <1>0, <1>1
  <2> QED
    BY <1>0, <1>1, <2>1
<1>4. q <= B - 1
  <2> SUFFICES ASSUME q >= B PROVE FALSE
    BY <1>0, <1>1
  <2>1. B * q >= B * B
    BY <1>0, <1>1
  <2> QED
    BY <1>0, <1>1, <2>1
<1>5. q % B = q
  BY <1>0, <1>1, <1>3, <1>4
<1> QED
  BY <1>0, <1>1, <1>2, <1>5

-----------------------------------------------------------------------------
(* The settings.                                                           *)

\* The driver's record agrees with the device, feature by feature.
Agree ==
    /\ want["MTU"] = mtu /\ want["AENQ_CONFIG"] = groups
    /\ want["LLQ"] = LlqAnswer
    /\ want["HASH_FUNCTION"] = [key |-> rss.key, init_val |-> rss.init_val]
    /\ want["HASH_INPUT"] = rss.fields
    /\ want["INDIRECTION_TABLE"] = rss.ind_tbl

\* Selections that ena_rss_hash can compute.
Computable(fields) ==
    \A p \in Protos :
        /\ fields[p] \in {{}, L3, L3 \union L4}
        /\ fields[p] \subseteq SupportedFields(p)

\* Inductive.
SettingsInv ==
    /\ DOMAIN want = Features /\ Agree
    /\ host # granted_host => host.info = 0
    /\ mtu \in Nat /\ mtu <= MaxMtu
    /\ DOMAIN rss = {"key", "init_val", "fields", "ind_tbl"} /\ Computable(rss.fields)

\* Agree, feature by feature.
LEMMA AgreeMeans == Agree => \A f \in Features : Setting(f) = want[f]
BY DEF Agree, Features, Setting

\* The fields of the default selection are those the class supports.
LEMMA DefaultComputable == Computable([p \in Protos |-> SupportedFields(p)])
BY DEF Computable, SupportedFields, Protos, L3, L4

\* What ena_dev_reset leaves.
LEMMA ResetSettings ==
    ASSUME mtu = MaxMtu, host = NoHost, groups = {}, llq = NoSlots,
           rss = ResetRss, want = ResetWant, granted_host = NoHost
    PROVE  SettingsInv
<1>1. DOMAIN want = Features
  BY DEF ResetWant
<1>2. Agree
  BY DEF Agree, ResetWant, Features, ResetRss, LlqAnswer,
     NoSlots, NoLlq
<1>3. /\ DOMAIN rss = {"key", "init_val", "fields", "ind_tbl"}
      /\ Computable(rss.fields)
  BY DefaultComputable DEF ResetRss
<1> QED
  BY <1>1, <1>2, <1>3, PacketsAssumption DEF SettingsInv

\* A command returns a and leaves the counters alone.
Answered(a) == answer' = a /\ UNCHANGED <<stats, seen>>

\* What commands return: nothing, a setting or the counters.
CommandAnswer ==
    \/ Answered(NoAnswer)
    \/ \E f \in Features : \E v : Answered([feature |-> f, value |-> v])
    \/ Answered([feature |-> "stats", pkts |-> Halves(stats.pkts),
                 bytes |-> Halves(stats.bytes)])

\* A command that is refused, or only asks, leaves the settings alone.
LEMMA SettingsKept ==
    ASSUME SettingsInv, UNCHANGED <<mtu, llq, groups, rss, want>>,
           host' # granted_host' => host'.info = 0
    PROVE  SettingsInv'
BY DEF SettingsInv, Agree, LlqAnswer, Computable

\* HOST_ATTR_CONFIG stores the addresses it refuses, without the first one.
LEMMA SetHostAttrInv ==
    ASSUME SettingsInv, NEW i, NEW a, SetHostAttr(i, a)
    PROVE  SettingsInv' /\ Answered(NoAnswer)
<1>1. /\ UNCHANGED <<mtu, llq, groups, rss, want>>
      /\ host' # granted_host' => host'.info = 0
  BY DEF SetHostAttr
<1>2. Answered(NoAnswer)
  BY DEF SetHostAttr, Answered
<1> QED
  BY <1>1, <1>2, SettingsKept

\* AENQ_CONFIG stores the groups it grants.
LEMMA SetAenqInv ==
    ASSUME SettingsInv, NEW g, SetAenq(g)
    PROVE  SettingsInv' /\ Answered(NoAnswer)
<1>0. Answered(NoAnswer)
  BY DEF SetAenq, Returns, Answered
<1>1. ASSUME GroupsOk(g) PROVE SettingsInv'
  BY <1>1 DEF SetAenq, Returns, SettingsInv, Agree, LlqAnswer, Computable,
     Features
<1>2. ASSUME ~GroupsOk(g) PROVE SettingsInv'
  BY <1>2, SettingsKept DEF SettingsInv, SetAenq, Returns
<1>3. SettingsInv'
  BY <1>1, <1>2
<1> QED
  BY <1>0, <1>3

\* MTU stores a value up to the largest and refuses the others.
LEMMA SetMtuInv ==
    ASSUME SettingsInv, NEW m \in Mtus, SetMtu(m)
    PROVE  SettingsInv' /\ Answered(NoAnswer)
<1>0. Answered(NoAnswer)
  BY DEF SetMtu, Returns, Answered
<1>1. ASSUME MtuOk(m) PROVE SettingsInv'
  BY <1>1, PacketsAssumption DEF SetMtu, MtuOk, Returns, SettingsInv, Agree,
     LlqAnswer, Computable, Features
<1>2. ASSUME ~MtuOk(m) PROVE SettingsInv'
  BY <1>2, SettingsKept DEF SettingsInv, SetMtu, Returns
<1>3. SettingsInv'
  BY <1>1, <1>2
<1> QED
  BY <1>0, <1>3

\* The two fields the device keeps of an LLQ configuration give all of it back.
LEMMA SetLlqInv ==
    ASSUME SettingsInv, NEW c \in Llq, SetLlq(c)
    PROVE  SettingsInv' /\ Answered(NoAnswer)
<1>0. Answered(NoAnswer)
  BY DEF SetLlq, Returns, Answered
<1>1. ASSUME LlqOk(c) PROVE SettingsInv'
  <2>1. /\ llq' = [enabled |-> TRUE, size |-> IF c.entry = "256B" THEN 256 ELSE 128]
        /\ want' = [want EXCEPT !["LLQ"] = c]
        /\ UNCHANGED <<mtu, host, groups, rss, granted_host>>
    BY <1>1 DEF SetLlq, Returns
  <2>2. (LlqAnswer)' = c
    BY <1>1, <2>1 DEF LlqAnswer, LlqOk, Llq
  <2> QED
    BY <2>1, <2>2 DEF SettingsInv, Agree, Computable, Features
<1>2. ASSUME ~LlqOk(c) PROVE SettingsInv'
  BY <1>2, SettingsKept DEF SettingsInv, SetLlq, Returns
<1>3. SettingsInv'
  BY <1>1, <1>2
<1> QED
  BY <1>0, <1>3

\* RSS_HASH_FUNCTION stores key and initial value together, or neither.
LEMMA SetHashFunctionInv ==
    ASSUME SettingsInv, NEW t \in BOOLEAN, NEW b \in BOOLEAN, NEW k, NEW i,
           SetHashFunction(t, b, k, i)
    PROVE  SettingsInv' /\ Answered(NoAnswer)
<1>0. Answered(NoAnswer)
  BY DEF SetHashFunction, Returns, Answered
<1>1. ASSUME t /\ b /\ Len(k) = KeyParts PROVE SettingsInv'
  <2>1. /\ rss' = [rss EXCEPT !.key = k, !.init_val = i]
        /\ want' = [want EXCEPT !["HASH_FUNCTION"] = [key |-> k, init_val |-> i]]
        /\ UNCHANGED <<mtu, host, llq, groups, granted_host>>
    BY <1>1 DEF SetHashFunction, Returns
  <2> QED
    BY <2>1 DEF SettingsInv, Agree, LlqAnswer, Computable, Features
<1>2. ASSUME ~(t /\ b /\ Len(k) = KeyParts) PROVE SettingsInv'
  BY <1>2, SettingsKept DEF SettingsInv, SetHashFunction, Returns
<1>3. SettingsInv'
  BY <1>1, <1>2
<1> QED
  BY <1>0, <1>3

\* A selection is stored whole, and only when ena_rss_hash can compute it.
LEMMA SetHashInputInv ==
    ASSUME SettingsInv, NEW b \in BOOLEAN, NEW sel, SetHashInput(b, sel)
    PROVE  SettingsInv' /\ Answered(NoAnswer)
<1> DEFINE m == Masked(sel)
<1>0. Answered(NoAnswer)
  BY DEF SetHashInput, Returns, Answered
<1>1. ASSUME b /\ SelectionOk(m) PROVE SettingsInv'
  <2>1. /\ rss' = [rss EXCEPT !.fields = m]
        /\ want' = [want EXCEPT !["HASH_INPUT"] = m]
        /\ UNCHANGED <<mtu, host, llq, groups, granted_host>>
    BY <1>1 DEF SetHashInput, Returns
  <2>2. Computable(m)
    BY <1>1 DEF Computable, SelectionOk, Masked
  <2> HIDE DEF m
  <2>3. rss'.fields = m /\ DOMAIN rss' = DOMAIN rss
    BY <2>1 DEF SettingsInv
  <2> QED
    BY <2>1, <2>2, <2>3 DEF SettingsInv, Agree, LlqAnswer, Features, Computable
<1>2. ASSUME ~(b /\ SelectionOk(m)) PROVE SettingsInv'
  BY <1>2, SettingsKept DEF SettingsInv, SetHashInput, Returns
<1>3. SettingsInv'
  BY <1>1, <1>2
<1> QED
  BY <1>0, <1>3

\* RSS_INDIRECTION_TABLE stores a table of the full size, or nothing.
LEMMA SetIndTableInv ==
    ASSUME SettingsInv, NEW z \in BOOLEAN, NEW b \in BOOLEAN, NEW t, SetIndTable(z, b, t)
    PROVE  SettingsInv' /\ Answered(NoAnswer)
<1> DEFINE ok == z /\ b /\ \A i \in DOMAIN t : t[i] \in RxQueues
<1>0. Answered(NoAnswer)
  BY DEF SetIndTable, Returns, Answered
<1>1. ASSUME ok PROVE SettingsInv'
  <2>1. /\ rss' = [rss EXCEPT !.ind_tbl = t]
        /\ want' = [want EXCEPT !["INDIRECTION_TABLE"] = t]
        /\ UNCHANGED <<mtu, host, llq, groups, granted_host>>
    BY <1>1 DEF SetIndTable, Returns
  <2> QED
    BY <2>1 DEF SettingsInv, Agree, LlqAnswer, Computable, Features
<1>2. ASSUME ~ok PROVE SettingsInv'
  BY <1>2, SettingsKept DEF SettingsInv, SetIndTable, Returns
<1>3. SettingsInv'
  BY <1>1, <1>2
<1> QED
  BY <1>0, <1>3

\* Every command keeps the driver's record and the device in agreement.
LEMMA CommandInv ==
    ASSUME SettingsInv, Command
    PROVE  SettingsInv' /\ CommandAnswer
<1>1. ASSUME NEW f \in Features, GetFeature(f)
      PROVE  SettingsInv' /\ CommandAnswer
  <2>1. Answered([feature |-> f, value |-> Setting(f)])
    BY <1>1 DEF GetFeature, Answered
  <2>2. SettingsInv'
    BY <1>1, SettingsKept DEF SettingsInv, GetFeature, device, belief
  <2> QED
    BY <2>1, <2>2 DEF CommandAnswer
<1>2. ASSUME GetUnsupported
      PROVE  SettingsInv' /\ Answered(NoAnswer)
  BY <1>2, SettingsKept DEF SettingsInv, GetUnsupported, device, belief, Answered
<1>3. ASSUME NEW id, GetStats(id)
      PROVE  SettingsInv' /\ CommandAnswer
  <2>1. CommandAnswer
    BY <1>3 DEF GetStats, Answered, CommandAnswer
  <2>2. SettingsInv'
    BY <1>3, SettingsKept DEF SettingsInv, GetStats, device, belief
  <2> QED
    BY <2>1, <2>2
<1>4. ASSUME SettingsInv' /\ Answered(NoAnswer)
      PROVE  SettingsInv' /\ CommandAnswer
  BY <1>4 DEF CommandAnswer
<1> QED
  BY <1>1, <1>2, <1>3, <1>4, SetHostAttrInv, SetAenqInv, SetMtuInv, SetLlqInv,
     SetHashFunctionInv, SetHashInputInv, SetIndTableInv DEF Command

\* The hash covers the granted fields with the granted key.
LEMMA SettingsHash == SettingsInv => HashAsGranted
<1> SUFFICES ASSUME SettingsInv PROVE HashAsGranted
  OBVIOUS
<1>1. ASSUME NEW f \in HashFrame, f.ip # "none"
      PROVE  /\ RssProto(f) \in Protos
             /\ Hash(f).in = rss.fields[RssProto(f)]
             /\ rss.fields[RssProto(f)] # {} =>
                    /\ Hash(f).key = KeyStream
                    /\ Hash(f).init_val = rss.init_val
  <2> DEFINE p == RssProto(f)
             sel == rss.fields[p]
  <2>1. p \in Protos
    BY <1>1 DEF RssProto, Protos, HashFrame
  <2>2. sel \in {{}, L3, L3 \union L4} /\ sel \subseteq SupportedFields(p)
    BY <2>1 DEF SettingsInv, Computable
  <2>3. f.l4 \in {"TCP", "UDP"} \/ SupportedFields(p) = L3
    BY <1>1 DEF RssProto, HashFrame, SupportedFields
  <2>4. L3 \intersect L4 = {} /\ L4 # {} /\ L3 # {}
    BY DEF L3, L4
  <2>5. sel # {} => Covered(IF sel \intersect L4 = {} THEN "other" ELSE f.l4) = sel
    BY <2>2, <2>3, <2>4, Zenon DEF Covered
  <2> QED
    BY <1>1, <2>1, <2>5 DEF Hash, NoHash
<1>2. ASSUME NEW i \in 1..KeyParts
      PROVE  KeyStream[KeyParts + 1 - i] = rss.key[i]
  <2>1. KeyParts + 1 - i \in 1..KeyParts /\ KeyParts + 1 - (KeyParts + 1 - i) = i
    BY PacketsAssumption
  <2>2. KeyStream[KeyParts + 1 - i] = rss.key[KeyParts + 1 - (KeyParts + 1 - i)]
    BY <2>1, Zenon DEF KeyStream
  <2> QED
    BY <2>1, <2>2
<1>3. /\ want["HASH_INPUT"] = rss.fields /\ want["HASH_FUNCTION"].key = rss.key
      /\ want["HASH_FUNCTION"].init_val = rss.init_val
  BY DEF SettingsInv, Agree
<1>4. HashCoversGranted
  BY <1>1, <1>2, <1>3 DEF HashCoversGranted
<1>5. ASSUME NEW f \in HashFrame, NEW g \in HashFrame, f.frag, g.frag
      PROVE  Hash(f) = Hash(g) /\ Hash(f).in \intersect L4 = {}
  <2>1. /\ f.ip = "4" /\ g.ip = "4"
        /\ RssProto(f) = "IP4_FRAG" /\ RssProto(g) = "IP4_FRAG"
    BY <1>5 DEF HashFrame, RssProto
  <2>2. rss.fields["IP4_FRAG"] \intersect L4 = {}
    BY DEF SettingsInv, Computable, Protos, SupportedFields, L3, L4
  <2>3. Hash(f) = Hash(g)
    BY <2>1, <2>2 DEF Hash
  <2> QED
    BY <1>1, <2>1, <2>2, <2>3
<1> QED
  BY <1>4, <1>5 DEF HashAsGranted, FragmentsTogether

-----------------------------------------------------------------------------
(* The counters.                                                           *)

\* Inductive: the device's counters are the unbounded ones modulo B * B, and an
\* answer of GET_STATS is given up when a packet is counted.
CountersInv ==
    /\ seen.pkts \in Nat /\ seen.bytes \in Nat
    /\ stats.pkts = seen.pkts % (B * B) /\ stats.bytes = seen.bytes % (B * B)
    /\ answer.feature = "stats" =>
        answer.pkts = Halves(stats.pkts) /\ answer.bytes = Halves(stats.bytes)

\* A counter has a positive number of values.
LEMMA Capacity == B * B \in Nat \ {0}
<1>1. B \in Nat \ {0}
  BY PacketsAssumption
<1>2. B * B >= 1
  BY <1>1
<1> QED
  BY <1>1, <1>2

\* After ena_dev_reset the counters and what they count are zero.
LEMMA ResetCounters ==
    ASSUME stats = [c \in {"pkts", "bytes"} |-> 0], seen = [pkts |-> 0, bytes |-> 0],
           answer = NoAnswer
    PROVE  CountersInv
<1>1. 0 % (B * B) = 0
  BY Capacity
<1> QED
  BY <1>1 DEF CountersInv, NoAnswer

\* A frame that is counted is counted once, over any wrap of the 64 bits.
LEMMA CountInv ==
    ASSUME CountersInv, NEW n \in Nat, Count(n)
    PROVE  CountersInv'
<1>1. /\ seen' = [pkts |-> seen.pkts + 1, bytes |-> seen.bytes + n]
      /\ stats' = [pkts |-> (stats.pkts + 1) % (B * B), bytes |-> (stats.bytes + n) % (B * B)]
      /\ answer' = NoAnswer
  BY DEF Count
<1>2. seen.pkts \in Int /\ seen.bytes \in Int /\ 1 \in Int /\ n \in Int
  BY DEF CountersInv
<1>3. /\ ((seen.pkts % (B * B)) + 1) % (B * B) = (seen.pkts + 1) % (B * B)
      /\ ((seen.bytes % (B * B)) + n) % (B * B) = (seen.bytes + n) % (B * B)
  BY <1>2, Capacity, CountWraps, Zenon
<1> QED
  BY <1>1, <1>3 DEF CountersInv, NoAnswer

\* A command leaves the counters alone, and only GET_STATS answers with them.
LEMMA CountersKept ==
    ASSUME CountersInv, CommandAnswer
    PROVE  CountersInv'
BY DEF CountersInv, CommandAnswer, Answered, NoAnswer, Features

\* GET_STATS returns the counters in two words and loses nothing.
LEMMA CountersExact == CountersInv => StatsExact
<1> SUFFICES ASSUME CountersInv PROVE StatsExact
  OBVIOUS
<1>1. /\ seen.pkts \in Int /\ seen.bytes \in Int
      /\ stats.pkts = seen.pkts % (B * B) /\ stats.bytes = seen.bytes % (B * B)
  BY DEF CountersInv
<1>2. stats.pkts \in 0..(B * B - 1) /\ stats.bytes \in 0..(B * B - 1)
  BY <1>1, Capacity, DivMod, Zenon
<1>3. /\ stats.pkts \in Nat /\ stats.pkts < B * B
      /\ stats.bytes \in Nat /\ stats.bytes < B * B
  BY <1>2, Capacity
<1>4. /\ Halves(stats.pkts).high * B + Halves(stats.pkts).low = stats.pkts
      /\ Halves(stats.bytes).high * B + Halves(stats.bytes).low = stats.bytes
  BY <1>3, HalvesExact
<1> QED
  BY <1>1, <1>4 DEF CountersInv, StatsExact

-----------------------------------------------------------------------------
(* The packet in ena_tx_xmit.                                              *)

\* Inductive: the MTU and the metadata a packet was handled with stay until
\* ena_tx_xmit returns.
PacketInv ==
    \A i \in DOMAIN pkt : pkt[i] \in Packet /\ out = Outcome(pkt[i], mss)

\* The sizes and requests of a packet.
LEMMA PacketType ==
    ASSUME NEW p \in Packet
    PROVE  /\ p.hdr \in Nat /\ p.len \in Nat /\ Total(p) \in Nat
           /\ p.llq \in BOOLEAN /\ p.ask \subseteq {"tso", "l3", "l4"}
<1>1. /\ p.hdr \in Hdrs /\ p.len \in Lens /\ p.llq \in BOOLEAN
      /\ p.ask \in SUBSET {"tso", "l3", "l4"}
  BY Zenon DEF Packet
<1>2. p.hdr \in Nat /\ p.len \in Nat
  BY <1>1, PacketsAssumption, Zenon
<1>3. Total(p) \in Nat
  BY <1>2 DEF Total
<1> QED
  BY <1>1, <1>2, <1>3

\* Every request that a frame can take is on one of the two lists.
LEMMA OffloadsOf ==
    ASSUME NEW p \in Packet
    PROVE  /\ "tso" \in p.ask <=> "tso" \in Offloads(p)
           /\ "l3" \in p.ask /\ p.ip = "4" =>
                IF "tso" \in p.ask THEN "l3" \in Offloads(p) ELSE "l3" \in InPlace(p)
           /\ "l4" \in p.ask /\ p.l4 # "other" => "l4" \in Offloads(p)
           /\ p.ask = {} => Offloads(p) = {} /\ InPlace(p) = {}
<1>1. p.ask \subseteq {"tso", "l3", "l4"} /\ p.l4 \in {"TCP", "UDP", "other"}
  BY Zenon DEF Packet
<1> QED
  BY <1>1 DEF Offloads, InPlace, Applicable

\* What leaves: a frame as it is, with the checksum computed in place, or one
\* that net_tx_pkt completes.
LEMMA OutcomeLeft ==
    ASSUME NEW p \in Packet, NEW m, Outcome(p, m).left
    PROVE  /\ ~OverMtu(p)
           /\ \/ /\ Offloads(p) = {} /\ Outcome(p, m).sums = InPlace(p)
                 /\ ~Outcome(p, m).segmented
              \/ /\ Outcome(p, m).sums = InPlace(p) \union SumsOf(p)
                 /\ Outcome(p, m).segmented = ("tso" \in Offloads(p))
                 /\ Offloads(p) # {}
<1>1. ~Nothing.left /\ ~Dropped.left
  BY DEF Nothing, Dropped
<1> QED
  BY <1>1, Zenon DEF Outcome

\* The checksums of a frame that leaves.
LEMMA PacketSums == PacketInv => SumsAsAsked
<1> SUFFICES ASSUME PacketInv, NEW i \in DOMAIN pkt, out.left
             PROVE  /\ "l3" \in pkt[i].ask /\ pkt[i].ip = "4" => "l3" \in out.sums
                    /\ "l4" \in pkt[i].ask /\ pkt[i].l4 # "other" => "l4" \in out.sums
                    /\ pkt[i].ask = {} => out.sums = {} /\ ~out.segmented
  BY DEF SumsAsAsked
<1>1. pkt[i] \in Packet /\ out = Outcome(pkt[i], mss)
  BY DEF PacketInv
<1>2. \/ Offloads(pkt[i]) = {} /\ out.sums = InPlace(pkt[i]) /\ ~out.segmented
      \/ /\ out.sums = InPlace(pkt[i]) \union SumsOf(pkt[i])
         /\ Offloads(pkt[i]) # {}
  BY <1>1, OutcomeLeft
<1>3. /\ "l4" \in SumsOf(pkt[i])
      /\ "tso" \in Offloads(pkt[i]) /\ pkt[i].ip = "4" => "l3" \in SumsOf(pkt[i])
  BY DEF SumsOf
<1> QED
  BY <1>1, <1>2, <1>3, OffloadsOf

\* The size of a frame that leaves in one piece, and of one that is received.
LEMMA PacketMtu == PacketInv /\ SettingsInv => MtuObeyed
<1> SUFFICES ASSUME PacketInv, SettingsInv PROVE MtuObeyed
  OBVIOUS
<1>1. mtu \in Nat /\ mtu <= MaxMtu /\ MaxMtu \in Nat
  BY PacketsAssumption DEF SettingsInv
<1>2. FrameFitsBuffer
  BY <1>1 DEF FrameFitsBuffer, Fits, HeaderBytes
<1>3. ASSUME NEW i \in DOMAIN pkt, out.left, ~out.segmented
      PROVE  Total(pkt[i]) <= mtu + Overhead
  <2>1. pkt[i] \in Packet /\ out = Outcome(pkt[i], mss)
    BY DEF PacketInv
  <2>2. ~OverMtu(pkt[i]) /\ "tso" \notin Offloads(pkt[i])
    BY <1>3, <2>1, OutcomeLeft, Zenon
  <2>3. "tso" \notin pkt[i].ask /\ Total(pkt[i]) \in Nat
    BY <2>1, <2>2, OffloadsOf, PacketType, Zenon
  <2> QED
    BY <1>1, <2>2, <2>3 DEF OverMtu, Overhead, EthHlen
<1> QED
  BY <1>2, <1>3 DEF MtuObeyed, WithinMtu

\* A frame that keeps to the limits meets none of the refusals.
LEMMA PacketLeaves == PacketInv /\ SettingsInv => WellFormedLeaves
<1> SUFFICES ASSUME PacketInv, SettingsInv, NEW i \in DOMAIN pkt,
                    pkt[i].flaw = "none",
                    IF pkt[i].llq THEN pkt[i].hdr <= HeaderRoom ELSE pkt[i].hdr = 0,
                    Total(pkt[i]) \in EthHlen..MaxPkt,
                    IF "tso" \in pkt[i].ask THEN mss # 0 /\ pkt[i].l4 = "TCP"
                    ELSE Total(pkt[i]) <= mtu + Overhead
             PROVE  out.left /\ out.count = "tx_pkts"
  BY DEF WellFormedLeaves
<1> DEFINE p == pkt[i]
<1>1. p \in Packet /\ out = Outcome(p, mss)
  BY DEF PacketInv
<1>2. /\ p.hdr \in Nat /\ Total(p) \in Nat /\ p.llq \in BOOLEAN
      /\ HeaderRoom \in Nat /\ MaxPkt \in Nat /\ mtu \in Nat
  BY <1>1, PacketType, PacketsAssumption DEF SettingsInv
<1>3. ~Refused(p)
  BY <1>2 DEF Refused, EthHlen
<1>4. ~Foreign(p)
  BY <1>2 DEF Foreign, EthHlen
<1>5. ~OverMtu(p) /\ ~BadTso(p, mss)
  BY <1>2 DEF OverMtu, BadTso, Overhead, EthHlen
<1> QED
  BY <1>1, <1>3, <1>4, <1>5 DEF Outcome

\* One turn of the loop of ena_tx_doorbell, or the end of the queue.
LEMMA PacketStepInv ==
    ASSUME PacketInv, XmitNext
    PROVE  PacketInv' /\ mtu' = mtu
<1>1. ASSUME NEW p \in Packet, Xmit(p)
      PROVE  PacketInv' /\ mtu' = mtu
  <2>1. pkt' = <<p>> /\ out' = Outcome(p, mss') /\ mtu' = mtu
    BY <1>1 DEF Xmit
  <2>2. (Outcome(p, mss))' = Outcome(p, mss')
    BY <2>1, Zenon DEF Outcome, OverMtu
  <2> QED
    BY <2>1, <2>2 DEF PacketInv
<1>2. CASE XmitReturn
  BY <1>2 DEF XmitReturn, PacketInv
<1>3. CASE Recreate
  BY <1>3 DEF Recreate, PacketInv
<1> QED
  BY <1>1, <1>2, <1>3 DEF XmitNext

\* A step outside ena_tx_xmit that does not set the MTU leaves the outcome.
LEMMA PacketKept ==
    ASSUME PacketInv, UNCHANGED <<mtu, mss, pkt, out>>
    PROVE  PacketInv'
<1> SUFFICES ASSUME NEW i \in DOMAIN pkt
             PROVE  pkt[i] \in Packet /\ out = (Outcome(pkt[i], mss))'
  BY DEF PacketInv
<1>1. pkt[i] \in Packet /\ out = Outcome(pkt[i], mss) /\ mtu' = mtu
      /\ mss' = mss /\ pkt' = pkt
  BY DEF PacketInv
<1>2. (Outcome(pkt[i], mss))' = Outcome(pkt[i], mss)
  BY <1>1, Zenon DEF Outcome, OverMtu
<1> QED
  BY <1>1, <1>2

-----------------------------------------------------------------------------
(* The composition.                                                        *)
Inv == SettingsInv /\ CountersInv /\ PacketInv

\* The device starts with its defaults, nothing counted and no packet.
LEMMA InitInv == Init => Inv
<1> SUFFICES ASSUME Init PROVE Inv
  OBVIOUS
<1>1. SettingsInv
  BY ResetSettings DEF Init, SettingsInit
<1>2. CountersInv
  BY ResetCounters DEF Init, SettingsInit
<1>3. PacketInv
  BY DEF Init, XmitInit, PacketInv
<1> QED
  BY <1>1, <1>2, <1>3 DEF Inv

\* Commands run when ena_tx_xmit does not.
LEMMA AdminCommandInv ==
    ASSUME Inv, AdminCommand
    PROVE  Inv'
<1>1. pkt = <<>> /\ pkt' = pkt
  BY DEF AdminCommand, packet
<1>2. PacketInv'
  BY <1>1 DEF PacketInv
<1>3. SettingsInv' /\ CommandAnswer
  BY CommandInv DEF Inv, AdminCommand
<1>4. CountersInv'
  BY <1>3, CountersKept DEF Inv
<1> QED
  BY <1>2, <1>3, <1>4 DEF Inv

\* ena_dev_reset puts every part back to where it starts.
LEMMA ResetInv ==
    ASSUME Inv, Reset
    PROVE  Inv'
<1>1. /\ pkt = <<>> /\ pkt' = pkt
      /\ mtu' = MaxMtu /\ host' = NoHost /\ groups' = {} /\ llq' = NoSlots
      /\ rss' = ResetRss /\ want' = ResetWant /\ granted_host' = NoHost
      /\ stats' = [c \in {"pkts", "bytes"} |-> 0] /\ seen' = [pkts |-> 0, bytes |-> 0]
      /\ answer' = NoAnswer
  BY DEF Reset, DevReset
<1>2. PacketInv'
  BY <1>1 DEF PacketInv
<1>3. SettingsInv'
  <2>1. DOMAIN ResetWant = Features /\ Computable(ResetRss.fields)
        /\ DOMAIN ResetRss = {"key", "init_val", "fields", "ind_tbl"}
    BY DefaultComputable DEF ResetWant, ResetRss
  <2>2. Agree'
    BY <1>1 DEF Agree, ResetWant, Features, ResetRss, LlqAnswer, NoSlots, NoLlq
  <2> QED
    BY <1>1, <2>1, <2>2, PacketsAssumption DEF SettingsInv
<1>4. CountersInv'
  <2>1. 0 % (B * B) = 0
    BY Capacity
  <2> QED
    BY <1>1, <2>1 DEF CountersInv, NoAnswer
<1> QED
  BY <1>2, <1>3, <1>4 DEF Inv

\* Every step keeps the three parts.
LEMMA NextInv == Inv /\ [Next]_vars => Inv'
<1> SUFFICES ASSUME Inv, [Next]_vars PROVE Inv'
  OBVIOUS
<1>1. ASSUME UNCHANGED settings
      PROVE  SettingsInv' /\ CountersInv' /\ mtu' = mtu
  <2>1. /\ UNCHANGED <<mtu, host, llq, groups, rss, want, granted_host>>
        /\ UNCHANGED <<stats, seen, answer>>
    BY <1>1 DEF settings, device, belief
  <2>2. SettingsInv'
    BY <2>1, SettingsKept DEF Inv, SettingsInv
  <2>3. CountersInv'
    BY <2>1 DEF Inv, CountersInv, Halves
  <2> QED
    BY <2>1, <2>2, <2>3
<1>2. ASSUME NEW n \in 1..2, FrameCounted(n) PROVE Inv'
  <2>1. /\ UNCHANGED <<mtu, host, llq, groups, rss, want, granted_host>>
        /\ UNCHANGED <<mss, pkt, out>> /\ Count(n)
    BY <1>2 DEF FrameCounted, Count, packet, device, belief
  <2>2. SettingsInv'
    BY <2>1, SettingsKept DEF Inv, SettingsInv
  <2>3. CountersInv'
    BY <2>1, CountInv DEF Inv
  <2>4. PacketInv'
    BY <2>1, PacketKept DEF Inv
  <2> QED
    BY <2>2, <2>3, <2>4 DEF Inv
<1>3. CASE PacketStep
  BY <1>1, <1>3, PacketStepInv DEF PacketStep, Inv
<1>4. ASSUME UNCHANGED <<settings, packet>> PROVE Inv'
  BY <1>1, <1>4, PacketKept DEF packet, Inv
<1>5. CASE DescriptorStep
  BY <1>4, <1>5 DEF DescriptorStep
<1>6. CASE UNCHANGED vars
  BY <1>4, <1>6 DEF vars
<1> QED
  BY <1>2, <1>3, <1>5, <1>6, AdminCommandInv, ResetInv DEF Next

\* For any set of commands, MTUs, keys and selections: GET_FEATURE returns what
\* SET_FEATURE granted last, and GET_STATS the packets and bytes since the reset.
THEOREM AnswersAreTrue == Spec => []AnswersTrue
<1>1. Inv => AnswersTrue
  BY AgreeMeans, CountersExact DEF Inv, SettingsInv, AnswersTrue, GrantsKept
<1> QED
  BY <1>1, InitInv, NextInv, PTL DEF Spec

\* ena_rss_hash computes exactly what was granted, whatever was granted.
THEOREM HashesAsGranted == Spec => []HashAsGranted
<1>1. Inv => HashAsGranted
  BY SettingsHash DEF Inv
<1> QED
  BY <1>1, InitInv, NextInv, PTL DEF Spec

\* No frame over the MTU of the moment leaves or is taken, for frames of any
\* length.
THEOREM MtuAlwaysObeyed == Spec => []MtuObeyed
<1>1. Inv => MtuObeyed
  BY PacketMtu DEF Inv
<1> QED
  BY <1>1, InitInv, NextInv, PTL DEF Spec

\* A frame of any length and any mix of requests that leaves ena_tx_xmit carries
\* the checksums it asked for, and one that asked for nothing is untouched.
THEOREM SumsServed == Spec => []SumsAsAsked
<1>1. Inv => SumsAsAsked
  BY PacketSums DEF Inv
<1> QED
  BY <1>1, InitInv, NextInv, PTL DEF Spec

\* A frame that keeps to what the device advertises is never refused or dropped
\* by ena_tx_xmit, whichever MTU and mss are set.
THEOREM FramesLeave == Spec => []WellFormedLeaves
<1>1. Inv => WellFormedLeaves
  BY PacketLeaves DEF Inv
<1> QED
  BY <1>1, InitInv, NextInv, PTL DEF Spec
=============================================================================
