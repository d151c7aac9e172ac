----------------------------- MODULE EnaTxProofs -----------------------------
(***************************************************************************)
(* The transmit path, for every depth, LLQ geometry and set of packets.    *)
(* The completion ring has no index of the guest's to hold it back.  What  *)
(* keeps it from overflowing is in Spread: the n-th unread completion      *)
(* frees at least n entries, so there are at most as many as the guest     *)
(* takes to be in use, and that is at most the depth of the SQ.  A second  *)
(* invariant, Intact, says where the packets lie in the entries and how    *)
(* far the parser is in the oldest one; from it follows that the device    *)
(* sends what the guest posted.                                            *)
(***************************************************************************)
EXTENDS EnaTx, RingOpsProofs

Index == 0..(W - 1)
Pkt == [slot : Nat, ndesc : Nat, have_meta : BOOLEAN, mss : {0, 1}, d0 : Desc,
        req_id : ReqIds]

Types ==
    /\ llq \in BOOLEAN
    /\ head \in Index /\ tail \in Index /\ pi \in Index /\ clean \in Index
    /\ pos \in Position /\ driver \in Position /\ ring \in [Slots -> Entry]
    /\ p \in Pkt
    /\ mem \in [Entries -> [Offsets -> Posted]]
    /\ cfifo \in Seq(Data)

\* The entries that the first i unread completions free.
Freed(i) == IF i = 0 THEN 0 ELSE Dist(clean, cfifo[i].sq_head_idx)

\* No completion goes past the head, and each frees an entry more.
Spread ==
    /\ \A i \in 0..Len(cfifo) : Freed(i) <= Dist(clean, head)
    /\ \A i, j \in 0..Len(cfifo) : i <= j => Freed(j) - Freed(i) >= j - i

Inv == Types /\ ParserInBounds /\ CqQueue /\ EntriesInOrder /\ Spread

-----------------------------------------------------------------------------
(* Distances between indices. *)

\* The depth of the SQ is less than the range of the indices.
LEMMA TxSizes ==
    /\ W \in Nat \ {0} /\ Depth \in Nat \ {0} /\ SqDepth \in Nat \ {0}
    /\ SqDepth <= Depth /\ SqDepth < W
<1>1. /\ W \in Nat \ {0} /\ Depth \in Nat \ {0} /\ SqDepth \in Nat \ {0}
      /\ SqDepth <= Depth
  BY RingSizes, SqDepthAssumption, Zenon
<1>2. PICK m \in 1..W : W = m * (2 * Depth)
  BY RingAssumption, Zenon
<1> DEFINE d2 == 2 * Depth
<1>3. d2 \in Nat /\ SqDepth < d2
  BY <1>1
<1>4. m \in Nat \ {0} /\ W = m * d2
  BY <1>1, <1>2
<1> HIDE DEF d2
<1>5. W >= d2
  BY <1>3, <1>4
<1> QED
  BY <1>1, <1>3, <1>5

\* A distance, by whether the indices wrapped between the two.
LEMMA DistCases ==
    ASSUME NEW a \in Index, NEW b \in Index
    PROVE  Dist(a, b) = IF a <= b THEN b - a ELSE b - a + W
<1>0. W \in Nat \ {0} /\ a \in Int /\ b \in Int /\ b - a \in Int
  BY TxSizes DEF Index
<1>1. CASE a <= b
  <2>1. b - a = W * 0 + (b - a) /\ b - a \in 0..(W - 1)
    BY <1>0, <1>1 DEF Index
  <2>2. (b - a) % W = b - a
    BY <1>0, <2>1, ModUnique
  <2> QED
    BY <1>1, <2>2, Zenon DEF Dist
<1>2. CASE ~(a <= b)
  <2>1. b - a = W * (-1) + (b - a + W) /\ b - a + W \in 0..(W - 1) /\ -1 \in Int
    BY <1>0, <1>2 DEF Index
  <2>2. (b - a) % W = b - a + W
    BY <1>0, <2>1, ModUnique, Zenon
  <2> QED
    BY <1>2, <2>2, Zenon DEF Dist
<1> QED
  BY <1>1, <1>2, Zenon

\* An index that moves on, by whether it wraps.
LEMMA WrapCases ==
    ASSUME NEW b \in Index, NEW n \in Index
    PROVE  (b + n) % W = IF b + n < W THEN b + n ELSE b + n - W
<1>0. W \in Nat \ {0} /\ b \in Int /\ n \in Int /\ b + n \in Int
  BY TxSizes DEF Index
<1>1. CASE b + n < W
  <2>1. b + n = W * 0 + (b + n) /\ b + n \in 0..(W - 1)
    BY <1>0, <1>1 DEF Index
  <2> QED
    BY <1>0, <1>1, <2>1, ModUnique
<1>2. CASE ~(b + n < W)
  <2>1. b + n = W * 1 + (b + n - W) /\ b + n - W \in 0..(W - 1)
    BY <1>0, <1>2 DEF Index
  <2>2. (b + n) % W = b + n - W
    BY <1>0, <2>1, ModUnique
  <2> QED
    BY <1>2, <2>2, Zenon
<1> QED
  BY <1>1, <1>2, Zenon

\* A distance is in the range of the indices.
LEMMA DistType ==
    ASSUME NEW a \in Index, NEW b \in Index
    PROVE  Dist(a, b) \in Index
BY DistCases, TxSizes DEF Index

\* The distance of an index to itself.
LEMMA DistSelf ==
    ASSUME NEW a \in Index
    PROVE  Dist(a, a) = 0
BY DistCases, TxSizes DEF Index

\* A step of n entries adds n to the distance to the end, and takes n from the
\* distance to what lies ahead.
LEMMA DistStep ==
    ASSUME NEW a \in Index, NEW b \in Index, NEW n \in Index
    PROVE  /\ (b + n) % W \in Index
           /\ Dist(a, b) + n < W => Dist(a, (b + n) % W) = Dist(a, b) + n
           /\ n <= Dist(b, a) => Dist((b + n) % W, a) = Dist(b, a) - n
<1> DEFINE b2 == (b + n) % W
<1>0. W \in Nat \ {0}
  BY TxSizes, Zenon
<1>1. b2 = IF b + n < W THEN b + n ELSE b + n - W
  BY WrapCases, Zenon
<1> HIDE DEF b2
<1>2. b2 \in Index
  BY <1>0, <1>1 DEF Index
<1>3. Dist(a, b) + n < W => Dist(a, b2) = Dist(a, b) + n
  BY <1>0, <1>1, <1>2, DistCases DEF Index
<1>4. n <= Dist(b, a) => Dist(b2, a) = Dist(b, a) - n
  BY <1>0, <1>1, <1>2, DistCases DEF Index
<1> QED
  BY <1>2, <1>3, <1>4, Zenon DEF b2

\* Distances add up, as long as they do not go all the way round.
LEMMA DistSum ==
    ASSUME NEW a \in Index, NEW b \in Index, NEW c \in Index
    PROVE  /\ Dist(a, b) + Dist(b, c) < W => Dist(a, c) = Dist(a, b) + Dist(b, c)
           /\ Dist(a, b) <= Dist(a, c) => Dist(b, c) = Dist(a, c) - Dist(a, b)
<1>0. W \in Nat \ {0}
  BY TxSizes, Zenon
<1>1. Dist(a, b) = IF a <= b THEN b - a ELSE b - a + W
  BY DistCases, Zenon
<1>2. Dist(b, c) = IF b <= c THEN c - b ELSE c - b + W
  BY DistCases, Zenon
<1>3. Dist(a, c) = IF a <= c THEN c - a ELSE c - a + W
  BY DistCases, Zenon
<1> QED
  BY <1>0, <1>1, <1>2, <1>3 DEF Index

-----------------------------------------------------------------------------
(* The layout of a packet. *)

\* A slot lies in an entry of the packet, at an offset of that entry.
LEMMA SlotPlace ==
    ASSUME NEW slot \in Nat
    PROVE  SlotLine(slot) \in Nat /\ SlotOff(slot) \in Offsets
<1>0. DescsBefore \in Nat \ {0} /\ DescsPerEntry \in Nat \ {0} /\ DescsBefore <= DescsPerEntry
  BY GeometryAssumption, Zenon
<1>1. CASE slot < DescsBefore
  BY <1>0, <1>1 DEF SlotLine, SlotOff, Offsets
<1>2. CASE ~(slot < DescsBefore)
  <2> DEFINE k == slot - DescsBefore
             q == k \div DescsPerEntry
             r == k % DescsPerEntry
  <2>1. k \in Nat /\ k \in Int
    BY <1>0, <1>2
  <2>2. q \in Nat /\ r \in 0..(DescsPerEntry - 1)
    <3> HIDE DEF k
    <3> QED
      BY <1>0, <2>1
  <2>3. SlotLine(slot) = 1 + q /\ SlotOff(slot) = r
    BY <1>2, Zenon DEF SlotLine, SlotOff
  <2> HIDE DEF q, r
  <2> QED
    BY <2>2, <2>3 DEF Offsets
<1> QED
  BY <1>1, <1>2, Zenon

\* The guest needs at least one entry for a packet and at most one each; they are
\* as many as have a descriptor.
LEMMA EntriesOfPacket ==
    ASSUME NEW n \in Nat \ {0}
    PROVE  /\ GuestEntries(n) \in 1..n
           /\ GuestHas(n, GuestEntries(n) - 1, 0) /\ ~GuestHas(n, GuestEntries(n), 0)
<1> DEFINE Fit(k) == GuestHas(n, k - 1, 0) /\ ~GuestHas(n, k, 0)
<1>0. DescsBefore \in Nat \ {0} /\ DescsPerEntry \in Nat \ {0}
  BY GeometryAssumption, Zenon
<1>1. \E k \in 1..n : Fit(k)
  <2>1. CASE ~llq
    <3>1. n \in 1..n /\ n - 1 < n /\ ~(n < n)
      OBVIOUS
    <3>2. Fit(n)
      BY <2>1, <3>1 DEF GuestHas, GuestSlot
    <3> QED
      BY <3>1, <3>2, Zenon
  <2>2. CASE llq /\ n <= DescsBefore
    <3>1. 1 \in 1..n /\ 1 - 1 = 0
      OBVIOUS
    <3>2. Fit(1)
      BY <1>0, <2>2, <3>1 DEF GuestHas, GuestSlot
    <3> QED
      BY <3>1, <3>2, Zenon
  <2>3. CASE llq /\ n > DescsBefore
    <3> DEFINE a == n - DescsBefore - 1
               q == a \div DescsPerEntry
               r == a % DescsPerEntry
               k == q + 2
    <3>1. a \in Nat /\ a \in Int
      BY <1>0, <2>3
    <3>2. q \in Nat /\ r \in 0..(DescsPerEntry - 1) /\ a = DescsPerEntry * q + r
      <4> HIDE DEF a
      <4> QED
        BY <1>0, <3>1
    <3>3. n = DescsBefore + 1 + a
      BY <1>0
    <3> HIDE DEF a, q, r
    <3>4. q <= DescsPerEntry * q
      BY <1>0, <3>2
    <3>5. k \in 1..n /\ k # 0 /\ k - 1 # 0
      BY <1>0, <3>1, <3>2, <3>3, <3>4
    <3>6. GuestSlot(k - 1, 0) = DescsBefore + q * DescsPerEntry
      <4>1. k - 1 - 1 = q
        BY <3>2
      <4>2. GuestSlot(k - 1, 0) = DescsBefore + (k - 1 - 1) * DescsPerEntry + 0
        BY <2>3, <3>5, Zenon DEF GuestSlot
      <4> HIDE DEF k
      <4> QED
        BY <1>0, <3>2, <4>1, <4>2
    <3>7. GuestSlot(k, 0) = DescsBefore + q * DescsPerEntry + DescsPerEntry
      <4>1. k - 1 = q + 1
        BY <3>2
      <4>2. GuestSlot(k, 0) = DescsBefore + (k - 1) * DescsPerEntry + 0
        BY <2>3, <3>5, Zenon DEF GuestSlot
      <4>3. (q + 1) * DescsPerEntry = q * DescsPerEntry + DescsPerEntry
        BY <1>0, <3>2
      <4> HIDE DEF k
      <4> QED
        BY <1>0, <3>2, <4>1, <4>2, <4>3
    <3>8. GuestSlot(k - 1, 0) < n /\ ~(GuestSlot(k, 0) < n)
      BY <1>0, <3>1, <3>2, <3>3, <3>6, <3>7
    <3>9. Fit(k)
      <4> HIDE DEF k
      <4> QED
        BY <1>0, <2>3, <3>5, <3>8 DEF GuestHas
    <3> QED
      BY <3>5, <3>9, Zenon
  <2> QED
    BY <1>0, <2>1, <2>2, <2>3
<1>2. GuestEntries(n) = CHOOSE k \in 1..n : Fit(k)
  BY Zenon DEF GuestEntries
<1>3. GuestEntries(n) \in 1..n /\ Fit(GuestEntries(n))
  <2> HIDE DEF Fit
  <2> QED
    BY <1>1, <1>2, Zenon
<1> QED
  BY <1>3, Zenon

\* What the device reads in a slot is a descriptor somebody wrote there.
LEMMA ReadSlotType ==
    ASSUME Types, NEW slot \in Nat
    PROVE  ReadSlot(slot) \in Posted
<1>0. SqDepth \in Nat \ {0} /\ head \in Int
  BY TxSizes DEF Types, Index
<1>1. SlotLine(slot) \in Nat /\ SlotOff(slot) \in Offsets
  BY SlotPlace, Zenon
<1>2. 0 \in Offsets
  BY GeometryAssumption DEF Offsets
<1>3. head + SlotLine(slot) \in Int /\ head + slot \in Int
  BY <1>0, <1>1
<1>4. (head + SlotLine(slot)) % SqDepth \in Entries /\ (head + slot) % SqDepth \in Entries
  BY <1>0, <1>3, DivMod, Zenon DEF Entries
<1> QED
  BY <1>1, <1>2, <1>4, Zenon DEF ReadSlot, Types

-----------------------------------------------------------------------------
(* The steps. *)

\* The parts of the ring, each a number of entries.
LEMMA Parts ==
    ASSUME Types
    PROVE  /\ Dist(clean, head) \in Index /\ Dist(head, tail) \in Index
           /\ Dist(tail, pi) \in Index /\ W \in Nat /\ SqDepth \in Nat
           /\ SqDepth < W /\ SqDepth <= Depth /\ Depth \in Nat
BY DistType, TxSizes, Zenon DEF Types

\* Every unread completion frees at least as many entries as come before it.
LEMMA FreedType ==
    ASSUME Types, NEW i \in 0..Len(cfifo)
    PROVE  Freed(i) \in Nat
<1>1. CASE i = 0
  BY <1>1, Zenon DEF Freed
<1>2. CASE i # 0
  <2>0. cfifo \in Seq(Data) /\ Len(cfifo) \in Nat
    BY DEF Types
  <2>1. cfifo[i] \in Data
    <3>1. i \in 1..Len(cfifo)
      BY <1>2, <2>0
    <3> QED
      BY <2>0, <3>1
  <2>2. cfifo[i].sq_head_idx \in Index
    BY <2>1, CdescAssumption, Zenon DEF Index
  <2>3. Dist(clean, cfifo[i].sq_head_idx) \in Index
    BY <2>2, DistType, Zenon DEF Types
  <2> QED
    BY <1>2, <2>3, TxSizes DEF Freed, Index
<1> QED
  BY <1>1, <1>2, Zenon

\* The packet ena_tx_doorbell starts from.
LEMMA NoPktType == NoPkt \in Pkt /\ NoPkt.ndesc = 0
<1>1. NoPkt.req_id \in ReqIds
  BY ReqIdsAssumption, Zenon DEF NoPkt
<1>2. NoDesc \in Desc
  BY Zenon DEF NoDesc, Desc, Frames
<1> QED
  BY <1>1, <1>2, Zenon DEF NoPkt, Pkt

\* A completion ring as the guest zeroes it.
LEMMA BlankType ==
    /\ Blank \in [Slots -> Entry]
    /\ \A i \in Slots : Blank[i].phase = FALSE
<1> DEFINE d == CHOOSE x \in Data : TRUE
<1>1. NoPkt.req_id \in ReqIds
  BY ReqIdsAssumption, Zenon DEF NoPkt
<1>2. [req_id |-> NoPkt.req_id, sq_head_idx |-> 0] \in Data
  <2>1. 0 \in 0..(W - 1)
    BY TxSizes
  <2> QED
    BY <1>1, <2>1, CdescAssumption, Zenon
<1>3. d \in Data
  BY <1>2, Zenon
<1>4. Blank = [i \in Slots |-> [phase |-> FALSE, data |-> d]]
  BY Zenon DEF Blank
<1> HIDE DEF d
<1> QED
  BY <1>3, <1>4, Zenon DEF Entry

\* A new pair of queues, whatever the entries hold.
LEMMA EmptyInv ==
    ASSUME head = 0, tail = 0, pi = 0, clean = 0, pos = Start, driver = Start,
           ring = Blank, cfifo = <<>>
    PROVE  CqQueue /\ EntriesInOrder /\ Spread
<1>1. CqQueue
  BY BlankType, StartHolds, Zenon DEF CqQueue
<1>2. 0 \in Index
  BY TxSizes DEF Index
<1>3. Dist(0, 0) = 0
  BY <1>2, DistSelf, Zenon
<1>4. EntriesInOrder
  BY <1>3, TxSizes DEF EntriesInOrder
<1>5. Spread
  BY <1>3 DEF Spread, Freed
<1> QED
  BY <1>1, <1>4, <1>5, Zenon

\* The invariant holds at the start.
LEMMA InitInv == Init => Inv
<1> SUFFICES ASSUME Init PROVE Inv
  BY Zenon
<1>1. CqQueue /\ EntriesInOrder /\ Spread
  BY EmptyInv, Zenon DEF Init
<1>2. p \in Pkt /\ p.ndesc = 0 /\ pc = "idle"
  BY NoPktType, Zenon DEF Init
<1>3. ParserInBounds
  BY <1>2, GeometryAssumption DEF ParserInBounds
<1>4. NoDesc \in Desc /\ NoPkt.req_id \in ReqIds
  BY NoPktType, Zenon DEF Pkt, NoDesc, Desc, Frames
<1>5. mem \in [Entries -> [Offsets -> Posted]]
  BY <1>4, Zenon DEF Init, Posted
<1>6. 0 \in Index /\ <<>> \in Seq(Data)
  BY TxSizes DEF Index
<1>7. Start \in Position
  BY BlankType, StartHolds, Zenon
<1>8. Types
  BY <1>2, <1>5, <1>6, <1>7, BlankType, Zenon DEF Init, Types
<1> QED
  BY <1>1, <1>3, <1>8, Zenon DEF Inv

\* Steps of the parser leave the queues alone.
LEMMA SameQueues ==
    ASSUME CqQueue, EntriesInOrder, Spread,
           UNCHANGED <<head, tail, pi, clean, pos, driver, ring, cfifo>>
    PROVE  CqQueue' /\ EntriesInOrder' /\ Spread'
BY DEF CqQueue, EntriesInOrder, Spread, Freed

\* ena_tx_parse reads a slot before the doorbell and has room for it.
LEMMA ParseInv ==
    ASSUME Inv, ParseMeta \/ ParseData
    PROVE  Inv'
<1> DEFINE x == ReadSlot(p.slot)
<1>0. Types /\ ParserInBounds /\ CqQueue /\ EntriesInOrder /\ Spread
  BY Zenon DEF Inv
<1>1. /\ SlotGood /\ pc = "parse"
      /\ UNCHANGED <<llq, head, tail, pos, mem, ring, pi, clean, driver, cfifo>>
  BY Zenon DEF ParseMeta, ParseData, sq, guest
<1>2. p \in Pkt /\ p.slot \in Nat /\ p.ndesc \in Nat /\ p.ndesc <= MaxPktDescs
  BY <1>0, Zenon DEF Types, Pkt, ParserInBounds
<1>3. x \in Posted
  BY <1>0, <1>2, ReadSlotType, Zenon
<1>4. CqQueue' /\ EntriesInOrder' /\ Spread'
  BY <1>0, <1>1, SameQueues, Zenon
<1> HIDE DEF x
<1>5. x.d \in Desc /\ x.req_id \in ReqIds /\ x.d.mss \in {0, 1}
  BY <1>3, Zenon DEF Posted, Desc
<1>6. CASE ParseMeta
  <2>1. p' = [p EXCEPT !.slot = @ + 1, !.have_meta = TRUE, !.mss = x.d.mss] /\ pc' = pc
    BY <1>6, Zenon DEF ParseMeta, x
  <2>2. p' \in Pkt /\ p'.ndesc = p.ndesc
    <3> DEFINE s == p.slot + 1
               m == x.d.mss
    <3>1. s \in Nat /\ m \in {0, 1}
      BY <1>2, <1>5
    <3>2. p' = [p EXCEPT !.slot = s, !.have_meta = TRUE, !.mss = m]
      BY <2>1, Zenon
    <3> HIDE DEF s, m
    <3> QED
      BY <1>2, <3>1, <3>2, Zenon DEF Pkt
  <2>3. ParserInBounds'
    BY <1>1, <1>2, <2>1, <2>2, Zenon DEF ParserInBounds
  <2>4. Types'
    BY <1>0, <1>1, <2>2, Zenon DEF Types
  <2> QED
    BY <1>4, <2>3, <2>4, Zenon DEF Inv
<1>7. CASE ParseData
  <2>1. /\ p' = [p EXCEPT !.slot = @ + 1, !.ndesc = @ + 1,
                          !.d0 = IF p.ndesc = 0 THEN x.d ELSE @,
                          !.req_id = IF p.ndesc = 0 THEN x.req_id ELSE @]
        /\ ~x.d.meta
    BY <1>7, Zenon DEF ParseData, x
  <2>2. p' \in Pkt /\ p'.ndesc = p.ndesc + 1 /\ p'.slot = p.slot + 1
    <3> DEFINE d == IF p.ndesc = 0 THEN x.d ELSE p.d0
               id == IF p.ndesc = 0 THEN x.req_id ELSE p.req_id
               s == p.slot + 1
               n == p.ndesc + 1
    <3>1. s \in Nat /\ n \in Nat
      BY <1>2
    <3>2. d \in Desc /\ id \in ReqIds
      BY <1>2, <1>5, Zenon DEF Pkt
    <3>3. p' = [p EXCEPT !.slot = s, !.ndesc = n, !.d0 = d, !.req_id = id]
      BY <2>1, Zenon
    <3> HIDE DEF d, id, s, n
    <3>4. p' \in Pkt /\ p'.ndesc = n /\ p'.slot = s
      BY <1>2, <3>1, <3>2, <3>3, Zenon DEF Pkt
    <3> QED
      BY <3>4, Zenon DEF n, s
  <2>3. p.ndesc # MaxPktDescs /\ SlotPosted(p.slot)
    BY <1>1, <2>1, Zenon DEF SlotGood, ParseFails, x
  <2>4. p'.ndesc <= MaxPktDescs /\ p'.ndesc >= 1
    BY <1>2, <2>2, <2>3, GeometryAssumption
  <2>5. PktEntries(p.slot + 1) \in 1..Dist(head, tail)
    <3>1. SlotLine(p.slot) \in Nat /\ p.slot + 1 - 1 = p.slot
      BY <1>2, SlotPlace
    <3>2. Dist(head, tail) \in Nat
      BY <1>0, Parts DEF Index
    <3> QED
      BY <1>2, <2>3, <3>1, <3>2 DEF PktEntries, SlotPosted
  <2>6. (PktEntries(p.slot) \in 1..Dist(head, tail))'
    <3>1. (PktEntries(p.slot))' = PktEntries(p.slot + 1)
      BY <1>1, <2>2, Zenon DEF PktEntries
    <3>2. Dist(head, tail)' = Dist(head, tail)
      BY <1>1, Zenon
    <3> QED
      BY <2>5, <3>1, <3>2, Zenon
  <2>7. ParserInBounds'
    BY <2>4, <2>6, Zenon DEF ParserInBounds
  <2>8. Types'
    BY <1>0, <1>1, <2>2, Zenon DEF Types
  <2> QED
    BY <1>4, <2>7, <2>8, Zenon DEF Inv
<1> QED
  BY <1>6, <1>7, Zenon

\* Steps of ena_tx_doorbell that touch neither the packet nor the rings.
LEMMA QuietInv ==
    ASSUME Inv, NextPacket \/ Xmit
    PROVE  Inv'
<1>0. Types /\ ParserInBounds /\ CqQueue /\ EntriesInOrder /\ Spread
  BY Zenon DEF Inv
<1>1. UNCHANGED <<llq, head, tail, pos, p, mem, ring, pi, clean, driver, cfifo>>
  BY Zenon DEF NextPacket, Xmit, sq, guest
<1>2. CqQueue' /\ EntriesInOrder' /\ Spread'
  BY <1>0, <1>1, SameQueues, Zenon
<1>3. Types'
  BY <1>0, <1>1, Zenon DEF Types
<1>4. pc' \in {"xmit", "complete"} => pc = "xmit"
  BY Zenon DEF NextPacket, Xmit
<1>5. ParserInBounds'
  BY <1>0, <1>1, <1>4, Zenon DEF ParserInBounds, PktEntries
<1> QED
  BY <1>2, <1>3, <1>5, Zenon DEF Inv

\* The doorbell hands over what was posted.
LEMMA DoorbellInv ==
    ASSUME Inv, Doorbell
    PROVE  Inv'
<1>0. Types /\ ParserInBounds /\ CqQueue /\ EntriesInOrder /\ Spread
  BY Zenon DEF Inv
<1>1. /\ tail' = pi /\ pc' = "loop"
      /\ UNCHANGED <<llq, head, pos, p, mem, ring, pi, clean, driver, cfifo>>
  BY Zenon DEF Doorbell, guest
<1>2. head \in Index /\ tail \in Index /\ pi \in Index
  BY <1>0, Zenon DEF Types
<1>3. Types'
  BY <1>0, <1>1, <1>2, Zenon DEF Types
<1>4. ParserInBounds'
  BY <1>0, <1>1, Zenon DEF ParserInBounds
<1>5. CqQueue' /\ Spread'
  BY <1>0, <1>1 DEF CqQueue, Spread, Freed
<1>6. Dist(head, tail) + Dist(tail, pi) < W
  BY <1>0, Parts DEF EntriesInOrder, Index
<1>7. Dist(head, pi) = Dist(head, tail) + Dist(tail, pi) /\ Dist(pi, pi) = 0
  BY <1>2, <1>6, DistSum, DistSelf, Zenon
<1>8. EntriesInOrder'
  <2>1. Dist(clean, head) + Dist(head, pi) + Dist(pi, pi) <= SqDepth
    BY <1>0, <1>7, Parts DEF EntriesInOrder, Index
  <2> QED
    BY <1>1, <2>1, Zenon DEF EntriesInOrder
<1> QED
  BY <1>3, <1>4, <1>5, <1>8, Zenon DEF Inv

\* A head that moves on within the posted entries leaves them in order.
LEMMA HeadMoves ==
    ASSUME Types, EntriesInOrder, NEW n \in 0..Dist(head, tail)
    PROVE  LET h == (head + n) % W
           IN /\ h \in Index
              /\ Dist(clean, h) = Dist(clean, head) + n
              /\ Dist(h, tail) = Dist(head, tail) - n
<1>1. head \in Index /\ tail \in Index /\ clean \in Index
  BY Zenon DEF Types
<1>2. n \in Index /\ Dist(clean, head) + n < W /\ n <= Dist(head, tail)
  BY Parts DEF EntriesInOrder, Index
<1> QED
  BY <1>1, <1>2, DistStep

\* A malformed burst is dropped: the head goes to the tail.
LEMMA DiscardInv ==
    ASSUME Inv, Discard
    PROVE  Inv'
<1>0. Types /\ ParserInBounds /\ CqQueue /\ EntriesInOrder /\ Spread
  BY Zenon DEF Inv
<1>1. /\ head' = tail /\ pc' = "idle" /\ p' = NoPkt
      /\ UNCHANGED <<llq, tail, pos, mem, ring, pi, clean, driver, cfifo>>
  BY Zenon DEF Discard, guest
<1>2. head \in Index /\ tail \in Index /\ clean \in Index
  BY <1>0, Zenon DEF Types
<1>3. Types'
  BY <1>0, <1>1, <1>2, NoPktType, Zenon DEF Types
<1>4. ParserInBounds'
  BY <1>1, NoPktType, GeometryAssumption DEF ParserInBounds
<1>5. Dist(clean, head) + Dist(head, tail) < W
  BY <1>0, Parts DEF EntriesInOrder, Index
<1>6. Dist(clean, tail) = Dist(clean, head) + Dist(head, tail) /\ Dist(tail, tail) = 0
  BY <1>2, <1>5, DistSum, DistSelf
<1>7. EntriesInOrder'
  <2>1. Dist(clean, tail) + Dist(tail, tail) + Dist(tail, pi) <= SqDepth
    BY <1>0, <1>6, Parts DEF EntriesInOrder, Index
  <2> QED
    BY <1>1, <2>1, Zenon DEF EntriesInOrder
<1>8. CqQueue'
  BY <1>0, <1>1, Zenon DEF CqQueue
<1>9. Spread'
  <2>1. \A i \in 0..Len(cfifo) : Freed(i) <= Dist(clean, tail)
    BY <1>0, <1>6, Parts, FreedType DEF Spread, Index
  <2>2. \A i : Freed(i)' = Freed(i)
    BY <1>1, Zenon DEF Freed
  <2> QED
    BY <1>0, <1>1, <2>1, <2>2, Zenon DEF Spread
<1> QED
  BY <1>3, <1>4, <1>7, <1>8, <1>9, Zenon DEF Inv

\* New queues.
LEMMA RecreateInv ==
    ASSUME Inv, Recreate
    PROVE  Inv'
<1>0. Types /\ ParserInBounds
  BY Zenon DEF Inv
<1>1. /\ llq' \in BOOLEAN /\ head' = 0 /\ tail' = 0 /\ pos' = Start /\ driver' = Start
      /\ ring' = Blank /\ pi' = 0 /\ clean' = 0 /\ cfifo' = <<>>
      /\ pc = "idle" /\ UNCHANGED <<pc, p, mem>>
  BY Zenon DEF Recreate
<1>2. 0 \in Index /\ <<>> \in Seq(Data)
  BY TxSizes DEF Index
<1>3. Start \in Position
  BY BlankType, StartHolds, Zenon
<1>4. Types'
  BY <1>0, <1>1, <1>2, <1>3, BlankType, Zenon DEF Types
<1>5. ParserInBounds'
  BY <1>0, <1>1, Zenon DEF ParserInBounds
<1>6. CqQueue' /\ EntriesInOrder' /\ Spread'
  <2>1. CqQueue'
    BY <1>1, BlankType, StartHolds, Zenon DEF CqQueue
  <2>2. Dist(0, 0) = 0
    BY <1>2, DistSelf, Zenon
  <2>3. EntriesInOrder'
    BY <1>1, <2>2, TxSizes DEF EntriesInOrder
  <2>4. Spread'
    BY <1>1, <2>2 DEF Spread, Freed
  <2> QED
    BY <2>1, <2>3, <2>4, Zenon
<1> QED
  BY <1>4, <1>5, <1>6, Zenon DEF Inv

\* There are at most as many unread completions as entries taken to be in use.
LEMMA CompletionsBounded ==
    ASSUME Types, Spread
    PROVE  Len(cfifo) <= Dist(clean, head)
<1>1. Len(cfifo) \in Nat
  BY DEF Types
<1>2. 0 \in 0..Len(cfifo) /\ Len(cfifo) \in 0..Len(cfifo)
  BY <1>1
<1>3. Freed(0) = 0 /\ Freed(Len(cfifo)) \in Nat
  BY <1>2, FreedType, Zenon DEF Freed
<1>4. Freed(Len(cfifo)) - Freed(0) >= Len(cfifo) - 0
  BY <1>1, <1>2 DEF Spread
<1>5. Freed(Len(cfifo)) <= Dist(clean, head)
  BY <1>2, Zenon DEF Spread
<1> QED
  BY <1>1, <1>3, <1>4, <1>5, Parts DEF Index

\* A packet is done: the head moves past it and the completion has its slot.
LEMMA CompleteInv ==
    ASSUME Inv, Complete
    PROVE  Inv'
<1> DEFINE n == PktEntries(p.slot)
           h == (head + n) % W
           c == [req_id |-> p.req_id, sq_head_idx |-> h]
<1>0. Types /\ ParserInBounds /\ CqQueue /\ EntriesInOrder /\ Spread
  BY Zenon DEF Inv
<1>1. /\ head' = h /\ pc' = "loop" /\ p' = NoPkt /\ pc = "complete"
      /\ UNCHANGED <<llq, tail, mem, pi, clean, driver>>
  BY Zenon DEF Complete, guest
<1>2. /\ p.d0.comp_req => /\ ring' = Write(ring, pos, c) /\ pos' = Advance(pos)
                          /\ cfifo' = Append(cfifo, c)
      /\ ~p.d0.comp_req => UNCHANGED <<ring, pos, cfifo>>
  BY <1>1, Zenon DEF Complete
<1>3. n \in 1..Dist(head, tail)
  BY <1>0, <1>1, Zenon DEF ParserInBounds
<1> HIDE DEF n
<1>4. n \in 0..Dist(head, tail) /\ n \in Nat /\ n >= 1
  BY <1>0, <1>3, Parts DEF Index
<1>5. /\ h \in Index /\ Dist(clean, h) = Dist(clean, head) + n
      /\ Dist(h, tail) = Dist(head, tail) - n
  BY <1>0, <1>4, HeadMoves, Zenon
<1> HIDE DEF h
<1>6. EntriesInOrder'
  <2>1. Dist(clean, h) + Dist(h, tail) + Dist(tail, pi) <= SqDepth
    BY <1>0, <1>4, <1>5, Parts DEF EntriesInOrder, Index
  <2> QED
    BY <1>1, <2>1, Zenon DEF EntriesInOrder
<1>7. ParserInBounds'
  BY <1>1, NoPktType, GeometryAssumption DEF ParserInBounds
<1>8. c \in Data
  <2>1. p.req_id \in ReqIds
    BY <1>0, Zenon DEF Types, Pkt
  <2> QED
    BY <1>5, <2>1, CdescAssumption, Zenon DEF Index
<1>9. c.sq_head_idx = h
  BY Zenon
<1> HIDE DEF c
<1>10. Len(cfifo) < Depth
  <2>1. Len(cfifo) \in Nat /\ Len(cfifo) <= Dist(clean, head)
    BY <1>0, CompletionsBounded DEF Types
  <2>2. Dist(clean, head) + 1 <= SqDepth
    BY <1>0, <1>3, <1>4, Parts DEF EntriesInOrder, Index
  <2> QED
    BY <1>0, <2>1, <2>2, Parts DEF Index
<1>11. ring' \in [Slots -> Entry] /\ pos' \in Position /\ CqQueue' /\ cfifo' \in Seq(Data)
  <2>1. CASE p.d0.comp_req
    <3>1. /\ Write(ring, pos, c) \in [Slots -> Entry] /\ Advance(pos) \in Position
          /\ Holds(Write(ring, pos, c), Advance(pos), driver, Append(cfifo, c))
      BY <1>0, <1>8, <1>10, WriteHolds, Zenon DEF Types, CqQueue
    <3>2. Append(cfifo, c) \in Seq(Data)
      BY <1>0, <1>8 DEF Types
    <3> QED
      BY <1>1, <1>2, <2>1, <3>1, <3>2, Zenon DEF CqQueue
  <2>2. CASE ~p.d0.comp_req
    BY <1>0, <1>1, <1>2, <2>2, Zenon DEF Types, CqQueue
  <2> QED
    BY <2>1, <2>2, Zenon
<1>12. Types'
  BY <1>0, <1>1, <1>5, <1>11, NoPktType, Zenon DEF Types
<1>13. \A i \in 0..Len(cfifo) : Freed(i) \in Nat /\ Freed(i) <= Dist(clean, h)
  <2> SUFFICES ASSUME NEW i \in 0..Len(cfifo)
               PROVE  Freed(i) \in Nat /\ Freed(i) <= Dist(clean, h)
    BY Zenon
  <2>1. Freed(i) \in Nat /\ Freed(i) <= Dist(clean, head)
    BY <1>0, FreedType, Zenon DEF Spread
  <2>2. Dist(clean, head) \in Nat
    BY <1>0, Parts DEF Index
  <2> QED
    BY ONLY <1>4, <1>5, <2>1, <2>2
<1>14. Spread'
  <2>1. CASE p.d0.comp_req
    <3>0. cfifo \in Seq(Data) /\ Len(cfifo) \in Nat
      BY <1>0 DEF Types
    <3>len. PICK len \in Nat : len = Len(cfifo)
      BY <3>0, Zenon
    <3>1. cfifo' = Append(cfifo, c) /\ Len(cfifo') = len + 1
      BY <1>2, <2>1, <3>0, <3>len
    <3>2. \A i \in 0..len : Freed(i)' = Freed(i)
      <4> SUFFICES ASSUME NEW i \in 0..len PROVE Freed(i)' = Freed(i)
        BY Zenon
      <4>1. i # 0 => cfifo'[i] = cfifo[i]
        BY <3>0, <3>1, <3>len
      <4> QED
        BY <1>1, <4>1, Zenon DEF Freed
    <3>3. Freed(len + 1)' = Dist(clean, h)
      <4>1. cfifo'[len + 1] = c /\ len + 1 # 0
        BY <3>0, <3>1, <3>len
      <4> QED
        BY <1>1, <1>9, <4>1, Zenon DEF Freed
    <3>4. \A i \in 0..len : Dist(clean, h) - Freed(i) >= len + 1 - i
      <4> SUFFICES ASSUME NEW i \in 0..len PROVE Dist(clean, h) - Freed(i) >= len + 1 - i
        BY Zenon
      <4>1. len \in 0..len /\ i <= len
        BY <3>0
      <4>2. Freed(len) - Freed(i) >= len - i /\ Freed(len) <= Dist(clean, head)
        BY <1>0, <3>len, <4>1, Zenon DEF Spread
      <4>3. Freed(i) \in Nat /\ Freed(len) \in Nat /\ Dist(clean, head) \in Nat
        BY <1>0, <1>13, <3>len, <4>1, Parts DEF Index
      <4> QED
        BY <1>4, <1>5, <3>0, <4>1, <4>2, <4>3
    <3>5. Dist(clean, h) \in Nat
      BY <1>0, <1>4, <1>5, Parts DEF Index
    <3>6. \A i \in 0..(len + 1) : Freed(i)' <= Dist(clean, h)
      <4>1. \A i \in 0..(len + 1) : i \in 0..len \/ i = len + 1
        BY <3>0
      <4> QED
        BY <1>13, <3>2, <3>3, <3>5, <3>len, <4>1
    <3>7. \A i, j \in 0..(len + 1) : i <= j => Freed(j)' - Freed(i)' >= j - i
      <4> SUFFICES ASSUME NEW i \in 0..(len + 1), NEW j \in 0..(len + 1), i <= j
                   PROVE  Freed(j)' - Freed(i)' >= j - i
        BY Zenon
      <4>1. CASE j \in 0..len
        <5>1. i \in 0..len
          BY <3>0, <4>1
        <5> QED
          BY <1>0, <3>len, <3>2, <4>1, <5>1, Zenon DEF Spread
      <4>2. CASE j = len + 1 /\ i \in 0..len
        BY <3>2, <3>3, <3>4, <4>2
      <4>3. CASE j = len + 1 /\ i = len + 1
        BY <3>0, <3>3, <3>5, <4>3
      <4> QED
        BY <3>0, <4>1, <4>2, <4>3
    <3> QED
      BY <1>1, <3>1, <3>6, <3>7, Zenon DEF Spread
  <2>2. CASE ~p.d0.comp_req
    <3>1. \A i : Freed(i)' = Freed(i)
      BY <1>1, <1>2, <2>2, Zenon DEF Freed
    <3> QED
      BY <1>0, <1>1, <1>2, <1>13, <2>2, <3>1, Zenon DEF Spread
  <2> QED
    BY <2>1, <2>2, Zenon
<1> QED
  BY <1>6, <1>7, <1>11, <1>12, <1>14, Zenon DEF Inv

\* What the guest writes into an entry is of the right type.
LEMMA GuestLineType ==
    ASSUME llq \in BOOLEAN, NEW x \in Shapes, NEW id \in ReqIds, NEW line \in Nat
    PROVE  GuestLine(x, id, line) \in [Offsets -> Posted]
<1>1. x \in Seq(Desc) /\ NoDesc \in Desc
  BY ShapesAssumption, Zenon DEF NoDesc, Desc, Frames
<1>2. DescsBefore \in Nat \ {0} /\ DescsPerEntry \in Nat \ {0}
  BY GeometryAssumption, Zenon
<1>3. \A off \in Offsets : GuestSlot(line, off) \in Nat
  <2> SUFFICES ASSUME NEW off \in Offsets PROVE GuestSlot(line, off) \in Nat
    BY Zenon
  <2>1. off \in Nat
    BY <1>2 DEF Offsets
  <2>2. CASE ~llq \/ line = 0
    BY <2>1, <2>2, Zenon DEF GuestSlot
  <2>3. CASE llq /\ line # 0
    <3>1. line - 1 \in Nat
      BY <2>3
    <3>2. (line - 1) * DescsPerEntry \in Nat
      BY <1>2, <3>1
    <3>3. GuestSlot(line, off) = DescsBefore + (line - 1) * DescsPerEntry + off
      BY <2>3, Zenon DEF GuestSlot
    <3> QED
      BY <1>2, <2>1, <3>2, <3>3
  <2> QED
    BY <2>2, <2>3, Zenon
<1>4. \A off \in Offsets :
         (IF GuestHas(Len(x), line, off) THEN x[GuestSlot(line, off) + 1] ELSE NoDesc) \in Desc
  <2> SUFFICES ASSUME NEW off \in Offsets, GuestHas(Len(x), line, off)
               PROVE  x[GuestSlot(line, off) + 1] \in Desc
    BY <1>1, Zenon
  <2> DEFINE g == GuestSlot(line, off)
  <2>1. g \in Nat /\ g < Len(x)
    BY <1>3, Zenon DEF GuestHas
  <2> HIDE DEF g
  <2>2. g + 1 \in 1..Len(x)
    BY <1>1, <2>1
  <2> QED
    BY <1>1, <2>2 DEF g
<1> QED
  BY <1>4, Zenon DEF GuestLine, Posted

\* A packet is posted behind the others.
LEMMA PostInv ==
    ASSUME Inv, NEW x \in Shapes, NEW id \in ReqIds, Post(x, id)
    PROVE  Inv'
<1> DEFINE n == GuestEntries(Len(x))
           Line(e) == Dist(pi % SqDepth, e) % SqDepth
<1>0. Types /\ ParserInBounds /\ CqQueue /\ EntriesInOrder /\ Spread
  BY Zenon DEF Inv
<1>1. /\ Dist(clean, pi) + n <= SqDepth
      /\ pi' = (pi + n) % W
      /\ UNCHANGED <<llq, head, tail, pos, pc, p, ring, clean, driver, cfifo>>
  BY Zenon DEF Post, sq
<1>14. mem' = [e \in Entries |-> IF Line(e) < n THEN GuestLine(x, id, Line(e)) ELSE mem[e]]
  BY Zenon DEF Post
<1>2. n \in Nat \ {0}
  <2>1. x \in Seq(Desc) /\ x # <<>>
    BY ShapesAssumption, Zenon
  <2>2. Len(x) \in Nat \ {0}
    BY <2>1
  <2>3. n \in 1..Len(x)
    BY <2>2, EntriesOfPacket, Zenon
  <2> HIDE DEF n
  <2> QED
    BY <2>2, <2>3
<1> HIDE DEF n
<1>3. head \in Index /\ tail \in Index /\ pi \in Index /\ clean \in Index
  BY <1>0, Zenon DEF Types
<1>4. \A e \in Entries : Line(e) \in Nat
  <2> SUFFICES ASSUME NEW e \in Entries PROVE Line(e) \in Nat
    BY Zenon
  <2> DEFINE a == pi % SqDepth
             b == (e - a) % W
  <2>1. SqDepth \in Nat \ {0} /\ W \in Nat \ {0} /\ pi \in Int /\ e \in Int
    BY <1>3, TxSizes DEF Index, Entries
  <2>2. a \in Int
    BY <2>1, DivMod
  <2> HIDE DEF a
  <2>3. e - a \in Int
    BY <2>1, <2>2
  <2>4. b \in Int
    BY <2>1, <2>3, DivMod
  <2>5. Line(e) = b % SqDepth
    BY Zenon DEF Dist, a
  <2> HIDE DEF b, Line
  <2>6. b % SqDepth \in Nat
    BY <2>1, <2>4, DivMod
  <2> QED
    BY <2>5, <2>6, Zenon
<1> HIDE DEF Line
<1>5. mem' \in [Entries -> [Offsets -> Posted]]
  BY <1>0, <1>4, <1>14, GuestLineType, Zenon DEF Types
<1>6. /\ Dist(clean, head) \in Nat /\ Dist(head, tail) \in Nat /\ Dist(tail, pi) \in Nat
      /\ W \in Nat /\ SqDepth \in Nat /\ SqDepth < W
      /\ Dist(clean, head) + Dist(head, tail) + Dist(tail, pi) <= SqDepth
  BY <1>0, Parts DEF Index, EntriesInOrder
<1>7. Dist(clean, pi) = Dist(clean, head) + Dist(head, tail) + Dist(tail, pi)
  <2>1. Dist(clean, head) + Dist(head, tail) < W
    BY <1>6
  <2>2. Dist(clean, tail) = Dist(clean, head) + Dist(head, tail)
    BY <1>3, <2>1, DistSum
  <2>3. Dist(clean, tail) + Dist(tail, pi) < W
    BY <1>6, <2>2
  <2> QED
    BY <1>3, <2>2, <2>3, DistSum
<1>8. n \in Index /\ Dist(tail, pi) + n < W
  BY <1>1, <1>2, <1>6, <1>7 DEF Index
<1>9. pi' \in Index /\ Dist(tail, pi') = Dist(tail, pi) + n
  BY <1>1, <1>3, <1>8, DistStep
<1>10. EntriesInOrder'
  <2>1. Dist(clean, head) + Dist(head, tail) + Dist(tail, pi') <= SqDepth
    BY <1>1, <1>2, <1>6, <1>7, <1>9
  <2> QED
    BY <1>1, <2>1, Zenon DEF EntriesInOrder
<1>11. Types'
  BY <1>0, <1>1, <1>5, <1>9, Zenon DEF Types
<1>12. ParserInBounds'
  BY <1>0, <1>1, Zenon DEF ParserInBounds, PktEntries
<1>13. CqQueue' /\ Spread'
  <2>1. CqQueue'
    BY <1>0, <1>1, Zenon DEF CqQueue
  <2>2. \A i : Freed(i)' = Freed(i)
    BY <1>1, Zenon DEF Freed
  <2>3. Spread'
    BY <1>0, <1>1, <2>2, Zenon DEF Spread
  <2> QED
    BY <2>1, <2>3, Zenon
<1> QED
  BY <1>10, <1>11, <1>12, <1>13, Zenon DEF Inv

\* The guest reads the oldest completion, which frees entries before the head.
LEMMA ReapInv ==
    ASSUME Inv, Reap
    PROVE  Inv'
<1>0. Types /\ ParserInBounds /\ CqQueue /\ EntriesInOrder /\ Spread
  BY Zenon DEF Inv
<1>1. /\ Ready(ring, driver) /\ clean' = ring[driver.idx % Depth].data.sq_head_idx
      /\ driver' = Advance(driver) /\ cfifo' = Tail(cfifo)
      /\ UNCHANGED <<llq, head, tail, pos, pc, p, mem, ring, pi>>
  BY Zenon DEF Reap, sq
<1>2. cfifo \in Seq(Data) /\ Len(cfifo) \in Nat
  BY <1>0 DEF Types
<1>3. /\ cfifo # <<>> /\ ring[driver.idx % Depth].data = Head(cfifo)
      /\ Advance(driver) \in Position /\ Holds(ring, pos, Advance(driver), Tail(cfifo))
  BY <1>0, <1>1, ReadHolds, Zenon DEF Types, CqQueue
<1>4. PICK len \in Nat : len = Len(cfifo)
  BY <1>2, Zenon
<1>5. len >= 1 /\ 1 \in 0..len /\ cfifo[1] \in Data /\ Head(cfifo) = cfifo[1]
  BY <1>2, <1>3, <1>4
<1>6. cfifo' \in Seq(Data) /\ Len(cfifo') = len - 1
  BY <1>1, <1>2, <1>3, <1>4
<1>7. clean' = cfifo[1].sq_head_idx
  BY <1>1, <1>3, <1>5, Zenon
<1>8. \A i \in 1..len : cfifo[i].sq_head_idx \in Index
  <2> SUFFICES ASSUME NEW i \in 1..len PROVE cfifo[i].sq_head_idx \in Index
    BY Zenon
  <2>1. cfifo[i] \in Data
    BY <1>2, <1>4
  <2> QED
    BY <2>1, CdescAssumption, Zenon DEF Index
<1>9. clean' \in Index /\ clean \in Index /\ head \in Index
  BY <1>0, <1>5, <1>7, <1>8 DEF Types
<1>10. Freed(1) = Dist(clean, clean')
  BY <1>7 DEF Freed
<1>11. \A i \in 1..len : Freed(1) <= Freed(i)
  <2> SUFFICES ASSUME NEW i \in 1..len PROVE Freed(1) <= Freed(i)
    BY Zenon
  <2>1. i \in 0..len /\ 1 <= i
    OBVIOUS
  <2>2. Freed(i) - Freed(1) >= i - 1
    BY <1>0, <1>4, <1>5, <2>1, Zenon DEF Spread
  <2>3. Freed(i) \in Nat /\ Freed(1) \in Nat
    BY <1>0, <1>4, <1>5, <2>1, FreedType, Zenon
  <2> QED
    BY <2>1, <2>2, <2>3
<1>12. Freed(1) \in Nat /\ Freed(1) <= Dist(clean, head)
  BY <1>0, <1>4, <1>5, FreedType, Zenon DEF Spread
<1>13. Dist(clean', head) = Dist(clean, head) - Freed(1)
  BY <1>9, <1>10, <1>12, DistSum
<1>14. \A i \in 0..(len - 1) : Freed(i)' = Freed(i + 1) - Freed(1)
  <2> SUFFICES ASSUME NEW i \in 0..(len - 1) PROVE Freed(i)' = Freed(i + 1) - Freed(1)
    BY Zenon
  <2>1. CASE i = 0
    <3>1. Freed(i)' = 0 /\ i + 1 = 1
      BY <2>1 DEF Freed
    <3>2. Freed(1) - Freed(1) = 0
      BY <1>12
    <3> QED
      BY <3>1, <3>2, Zenon
  <2>2. CASE i # 0
    <3>1. i + 1 \in 1..len /\ i + 1 # 0
      BY <1>5
    <3>2. cfifo'[i] = cfifo[i + 1]
      BY <1>1, <1>2, <1>3, <1>4, <2>2
    <3> DEFINE y == cfifo[i + 1].sq_head_idx
    <3>3. Freed(i)' = Dist(clean', y)
      BY <2>2, <3>2, Zenon DEF Freed
    <3>4. Freed(i + 1) = Dist(clean, y)
      BY <3>1, Zenon DEF Freed
    <3>5. y \in Index /\ Freed(1) <= Freed(i + 1)
      BY <1>8, <1>11, <3>1, Zenon
    <3> HIDE DEF y
    <3> QED
      BY <1>9, <1>10, <3>3, <3>4, <3>5, DistSum
  <2> QED
    BY <2>1, <2>2, Zenon
<1>15. \A i \in 0..(len - 1) : i + 1 \in 0..len /\ Freed(i + 1) \in Nat
  BY <1>0, <1>4, FreedType
<1>16. Spread'
  <2>1. \A i \in 0..(len - 1) : Freed(i)' <= Dist(clean', head)
    <3> SUFFICES ASSUME NEW i \in 0..(len - 1) PROVE Freed(i)' <= Dist(clean', head)
      BY Zenon
    <3>1. Freed(i + 1) <= Dist(clean, head) /\ Freed(i + 1) \in Nat
      BY <1>0, <1>4, <1>15, Zenon DEF Spread
    <3>2. Freed(i)' = Freed(i + 1) - Freed(1) /\ Dist(clean, head) \in Nat
      BY <1>0, <1>14, Parts DEF Index
    <3> QED
      BY <1>12, <1>13, <3>1, <3>2
  <2>2. \A i, j \in 0..(len - 1) : i <= j => Freed(j)' - Freed(i)' >= j - i
    <3> SUFFICES ASSUME NEW i \in 0..(len - 1), NEW j \in 0..(len - 1), i <= j
                 PROVE  Freed(j)' - Freed(i)' >= j - i
      BY Zenon
    <3>1. Freed(j + 1) - Freed(i + 1) >= (j + 1) - (i + 1)
      BY <1>0, <1>4, <1>15 DEF Spread
    <3>2. Freed(i)' = Freed(i + 1) - Freed(1) /\ Freed(j)' = Freed(j + 1) - Freed(1)
      BY <1>14, Zenon
    <3>3. Freed(i + 1) \in Nat /\ Freed(j + 1) \in Nat
      BY <1>15, Zenon
    <3> QED
      BY <1>12, <3>1, <3>2, <3>3
  <2> QED
    BY <1>1, <1>6, <2>1, <2>2, Zenon DEF Spread
<1>17. EntriesInOrder'
  <2>1. Dist(clean', head) + Dist(head, tail) + Dist(tail, pi) <= SqDepth
    BY <1>0, <1>12, <1>13, Parts DEF EntriesInOrder, Index
  <2> QED
    BY <1>1, <2>1, Zenon DEF EntriesInOrder
<1>18. CqQueue'
  BY <1>1, <1>3, Zenon DEF CqQueue
<1>19. Types'
  BY <1>0, <1>1, <1>3, <1>6, <1>9, Zenon DEF Types
<1>20. ParserInBounds'
  BY <1>0, <1>1, Zenon DEF ParserInBounds, PktEntries
<1> QED
  BY <1>16, <1>17, <1>18, <1>19, <1>20, Zenon DEF Inv

\* Every step preserves the invariant.
LEMMA NextInv == Inv /\ [Next]_vars => Inv'
<1> SUFFICES ASSUME Inv, [Next]_vars PROVE Inv'
  BY Zenon
<1>1. CASE Doorbell
  BY <1>1, DoorbellInv, Zenon
<1>2. CASE NextPacket \/ Xmit
  BY <1>2, QuietInv, Zenon
<1>3. CASE ParseMeta \/ ParseData
  BY <1>3, ParseInv, Zenon
<1>4. CASE Discard
  BY <1>4, DiscardInv, Zenon
<1>5. CASE Complete
  BY <1>5, CompleteInv, Zenon
<1>6. CASE Recreate
  BY <1>6, RecreateInv, Zenon
<1>7. CASE \E x \in Shapes, id \in ReqIds : Post(x, id)
  BY <1>7, PostInv, Zenon
<1>8. CASE Reap
  BY <1>8, ReapInv, Zenon
<1>9. CASE UNCHANGED vars
  BY <1>9 DEF vars, sq, guest, Inv, Types, ParserInBounds, PktEntries, CqQueue,
              EntriesInOrder, Spread, Freed
<1> QED
  BY <1>1, <1>2, <1>3, <1>4, <1>5, <1>6, <1>7, <1>8, <1>9, Zenon DEF Next, Handler

-----------------------------------------------------------------------------
(* The types that the invariant does not need. *)

Dids == {"nothing", "sent", "refused", "dropped"}

Control ==
    /\ meta \in {0, 1}
    /\ pc \in {"idle", "loop", "parse", "xmit", "complete"}
    /\ buf \in [Entries -> ReqIds]
    /\ sent \in [did : Dids, buf : ReqIds, mss : {0, 1}]

\* No frame has left yet.
LEMMA NotSentType ==
    NotSent \in [did : Dids, buf : ReqIds, mss : {0, 1}] /\ NoPkt.req_id \in ReqIds
BY NoPktType, Zenon DEF NotSent, Dids, Pkt

\* The types hold at the start.
LEMMA InitControl == Init => Control
BY NotSentType, Zenon DEF Init, Control

\* What ena_tx_xmit records has its type.
LEMMA XmitControl ==
    ASSUME Inv, Control, Xmit
    PROVE  Control'
<1>1. head \in Index /\ p \in Pkt
  BY Zenon DEF Inv, Types
<1>2. head % SqDepth \in Entries
  BY <1>1, TxSizes DEF Index, Entries
<1>3. p.d0.frame \in Frames
  BY <1>1, Zenon DEF Pkt, Desc
<1>4. PICK did \in Outcomes(p.d0.frame) :
        sent' = [did |-> did, buf |-> buf[head % SqDepth], mss |-> meta]
  BY Zenon DEF Xmit
<1>5. did \in Dids
  BY <1>3, <1>4, Zenon DEF Outcomes, Frames, Dids
<1>6. buf[head % SqDepth] \in ReqIds /\ meta \in {0, 1}
  BY <1>2, Zenon DEF Control
<1>7. sent' \in [did : Dids, buf : ReqIds, mss : {0, 1}]
  BY <1>4, <1>5, <1>6, Zenon
<1>8. pc' = "complete" /\ meta' = meta /\ buf' = buf
  BY Zenon DEF Xmit, sq
<1> QED
  BY <1>7, <1>8, Zenon DEF Control

\* Every step keeps these types.
LEMMA NextControl == Inv /\ Control /\ [Next]_vars => Control'
<1> SUFFICES ASSUME Inv, Control, [Next]_vars PROVE Control'
  BY Zenon
<1>1. CASE Doorbell \/ NextPacket \/ ParseMeta \/ Discard \/ Reap
  BY <1>1, Zenon DEF Control, Doorbell, NextPacket, ParseMeta, Discard, Reap, sq
<1>2. CASE ParseData
  <2>1. p \in Pkt
    BY Zenon DEF Inv, Types
  <2>2. p.mss \in {0, 1}
    BY <2>1, Zenon DEF Pkt
  <2> QED
    BY <1>2, <2>2, Zenon DEF Control, ParseData, MetaOf
<1>3. CASE Xmit
  BY <1>3, XmitControl, Zenon
<1>4. CASE Complete \/ Recreate
  BY <1>4, NotSentType, Zenon DEF Control, Complete, Recreate
<1>5. CASE \E x \in Shapes, id \in ReqIds : Post(x, id)
  <2>1. PICK x \in Shapes, id \in ReqIds : Post(x, id)
    BY <1>5, Zenon
  <2>2. buf' = [buf EXCEPT ![pi % SqDepth] = id] /\ UNCHANGED <<meta, pc, sent>>
    BY <2>1, Zenon DEF Post, sq
  <2> QED
    BY <2>2, Zenon DEF Control
<1>6. CASE UNCHANGED vars
  BY <1>6, Zenon DEF Control, vars, sq
<1> QED
  BY <1>1, <1>2, <1>3, <1>4, <1>5, <1>6, Zenon DEF Next, Handler

\* ena_tx_parse stays within its array and before the doorbell, every
\* completion of ena_tx_complete is read once and in order, head, tail and the
\* guest's indices keep their order, and the state keeps its types: for every
\* depth of the queues, every LLQ geometry and whatever packets are posted.
THEOREM TxSafety ==
    Spec => [](TypeOK /\ ParserInBounds /\ CqQueue /\ EntriesInOrder)
<1>1. Init => Inv /\ Control
  BY InitInv, InitControl, Zenon
<1>2. Inv /\ Control /\ [Next]_vars => (Inv /\ Control)'
  BY NextInv, NextControl, Zenon
<1>3. Types /\ Control => TypeOK
  BY Zenon DEF Types, Control, TypeOK, Index, Pkt, Dids
<1>4. Inv /\ Control => TypeOK /\ ParserInBounds /\ CqQueue /\ EntriesInOrder
  BY <1>3, Zenon DEF Inv
<1> QED
  BY <1>1, <1>2, <1>4, PTL DEF Spec

\* ena_tx_parse never writes past its array nor reads past the doorbell.
THEOREM ParserSafe == Spec => []ParserInBounds
BY TxSafety, PTL

\* Head, tail and the indices of the guest keep their order.
THEOREM EntriesOrdered == Spec => []EntriesInOrder
BY TxSafety, PTL
-----------------------------------------------------------------------------
(* The packets and the entries they lie in. *)

Packet == [shape : Shapes, req_id : ReqIds]

\* The guest's layout, as functions: the entries of so many descriptors, and what
\* each entry of a packet holds.
Size == [n \in Nat |-> GuestEntries(n)]
Image == [y \in Packet |-> [l \in Nat |-> GuestLine(y.shape, y.req_id, l)]]

\* The entry j places after index a.
Place(a, j) == (a + j) % SqDepth

\* Packet y lies in the entries of m, and its header and buffers in u, from at
\* places after index a.
Lies(y, a, at, m, u, size, image) ==
    /\ u[Place(a, at)] = y.req_id
    /\ \A l \in 0..(size[Len(y.shape)] - 1) : m[Place(a, at + l)] = image[y][l]

\* The packets of f lie one behind the other and fill the entries from index a
\* to index b; the k-th one ends st[k] places after a.
LieAt(f, a, b, st, m, u, size, image) ==
    /\ st[0] = 0 /\ st[Len(f)] = Dist(a, b)
    /\ \A j, k \in 0..Len(f) : j <= k => st[j] <= st[k]
    /\ \A k \in 1..Len(f) :
         /\ st[k] = st[k - 1] + size[Len(f[k].shape)]
         /\ Lies(f[k], a, st[k - 1], m, u, size, image)

\* So they do, and only the last of them may lack its end.
Burst(f, a, b, m, u, size, image) ==
    /\ f \in Seq(Packet)
    /\ \A k \in 1..(Len(f) - 1) : Ends(f[k].shape)
    /\ \E st \in [0..Len(f) -> Index] : LieAt(f, a, b, st, m, u, size, image)

\* The number of meta descriptors in front of packet x.
Metas(x) == IF x[1].meta THEN 1 ELSE 0

\* The first s descriptors of packet x begin a packet and do not end it.
Begins(x, s) ==
    /\ x[1].meta => x[1].ext_valid
    /\ x[1].meta \/ x[1].first
    /\ \A i \in 2..s : ~x[i].meta
    /\ \A i \in (1 + Metas(x))..s : ~x[i].last

\* The parser, with q in hand, has read q.slot descriptors of packet y, or has
\* gone on into the rest of its last entry, as the packet has no end.
Within(y, q) ==
    LET x == y.shape IN
    \/ q = NoPkt
    \/ /\ q.slot \in 1..Len(x) /\ Begins(x, q.slot)
       /\ q.have_meta = x[1].meta /\ q.ndesc = q.slot - Metas(x)
       /\ x[1].meta => q.mss = x[1].mss
       /\ q.slot > Metas(x) => q.d0 = FirstBuffer(x) /\ q.req_id = y.req_id
    \/ /\ q.slot > Len(x) /\ ~Ends(x)
       /\ q.ndesc > 0 \/ q.have_meta

\* What the parser has in hand is packet y, and y is well formed.
Whole(y, q) ==
    LET x == y.shape IN
    /\ WellFormed(x) /\ q.slot = Len(x)
    /\ q.d0 = FirstBuffer(x) /\ q.req_id = y.req_id

\* The metadata packet y is sent with, if s is what earlier ones left.
MssOf(y, s) == IF y.shape[1].meta THEN y.shape[1].mss ELSE s

\* Where ena_tx_doorbell is with the oldest packet.
Progress ==
    /\ pc \in {"idle", "loop"} => p = NoPkt
    /\ pc = "idle" => fifo = <<>>
    /\ pc \in {"parse", "xmit", "complete"} => fifo # <<>>
    /\ pc = "parse" => Within(fifo[1], p)
    /\ pc \in {"xmit", "complete"} => Whole(fifo[1], p)
    /\ meta = IF pc = "xmit" THEN MssOf(fifo[1], stuck) ELSE stuck
    /\ pc = "complete" => sent.buf = fifo[1].req_id

\* The second inductive invariant, on top of the first.
Intact ==
    /\ Burst(fifo, head, tail, mem, buf, Size, Image)
    /\ Burst(posted, tail, pi, mem, buf, Size, Image)
    /\ Progress

-----------------------------------------------------------------------------
(* The device looks for a slot where the guest put it. *)

\* The entry of the packet and the offset in it where the device reads slot s.
Line(s) == IF llq THEN SlotLine(s) ELSE s
Off(s) == IF llq THEN SlotOff(s) ELSE 0

\* Both layouts agree on every slot.
LEMMA SlotFound ==
    ASSUME NEW s \in Nat
    PROVE  /\ Line(s) \in Nat /\ Off(s) \in Offsets
           /\ GuestSlot(Line(s), Off(s)) = s
           /\ Off(s) < (IF ~llq THEN 1 ELSE IF Line(s) = 0 THEN DescsBefore ELSE DescsPerEntry)
<1>0. DescsBefore \in Nat \ {0} /\ DescsPerEntry \in Nat \ {0} /\ DescsBefore <= DescsPerEntry
  BY GeometryAssumption, Zenon
<1>1. CASE ~llq
  BY <1>0, <1>1 DEF Line, Off, GuestSlot, Offsets
<1>2. CASE llq /\ s < DescsBefore
  BY <1>0, <1>2 DEF Line, Off, SlotLine, SlotOff, GuestSlot, Offsets
<1>3. CASE llq /\ ~(s < DescsBefore)
  <2> DEFINE k == s - DescsBefore
             q == k \div DescsPerEntry
             r == k % DescsPerEntry
  <2>1. k \in Nat /\ k \in Int /\ s = DescsBefore + k
    BY <1>0, <1>3
  <2>2. q \in Nat /\ r \in 0..(DescsPerEntry - 1) /\ k = DescsPerEntry * q + r
    <3> HIDE DEF k
    <3> QED
      BY <1>0, <2>1
  <2>3. Line(s) = 1 + q /\ Off(s) = r
    BY <1>3, Zenon DEF SlotLine, SlotOff, Line, Off
  <2> HIDE DEF k, q, r
  <2>4. 1 + q # 0 /\ 1 + q - 1 = q
    BY <2>2
  <2>5. GuestSlot(1 + q, r) = DescsBefore + q * DescsPerEntry + r
    <3>1. GuestSlot(1 + q, r) = DescsBefore + (1 + q - 1) * DescsPerEntry + r
      BY <1>0, <1>3, <2>2, <2>4 DEF GuestSlot
    <3> QED
      BY <2>4, <3>1, Zenon
  <2>6. DescsBefore + q * DescsPerEntry + r = s
    BY <1>0, <2>1, <2>2
  <2> QED
    BY <1>0, <1>3, <2>2, <2>3, <2>4, <2>5, <2>6 DEF Offsets
<1> QED
  BY <1>1, <1>2, <1>3, Zenon

\* Later entries begin with later slots.
LEMMA SlotsGrow ==
    ASSUME NEW a \in Nat, NEW b \in Nat
    PROVE  /\ GuestSlot(a, 0) \in Nat
           /\ a <= b => GuestSlot(a, 0) <= GuestSlot(b, 0)
<1>0. DescsBefore \in Nat \ {0} /\ DescsPerEntry \in Nat \ {0}
  BY GeometryAssumption, Zenon
<1>1. CASE ~llq
  BY <1>1, Zenon DEF GuestSlot
<1>2. CASE llq
  <2>1. ASSUME NEW c \in Nat, c # 0
        PROVE  /\ GuestSlot(c, 0) = DescsBefore + (c - 1) * DescsPerEntry
               /\ c - 1 \in Nat /\ (c - 1) * DescsPerEntry \in Nat
    <3>1. c - 1 \in Nat
      BY <2>1
    <3>2. (c - 1) * DescsPerEntry \in Nat
      BY <1>0, <3>1
    <3>3. GuestSlot(c, 0) = DescsBefore + (c - 1) * DescsPerEntry + 0
      BY <1>2, <2>1, Zenon DEF GuestSlot
    <3> QED
      BY <1>0, <3>1, <3>2, <3>3
  <2>2. GuestSlot(0, 0) = 0
    BY <1>2, Zenon DEF GuestSlot
  <2>3. GuestSlot(a, 0) \in Nat
    BY <1>0, <2>1, <2>2
  <2>4. ASSUME a <= b PROVE GuestSlot(a, 0) <= GuestSlot(b, 0)
    <3>1. CASE a = 0
      BY <1>0, <2>1, <2>2, <3>1
    <3>2. CASE a # 0
      <4> DEFINE i == a - 1
                 j == b - 1
      <4>1. i \in Nat /\ j \in Nat /\ i <= j /\ b # 0
        BY <2>4, <3>2
      <4>2. /\ GuestSlot(a, 0) = DescsBefore + i * DescsPerEntry
            /\ GuestSlot(b, 0) = DescsBefore + j * DescsPerEntry
        BY <2>1, <3>2, <4>1, Zenon
      <4> HIDE DEF i, j
      <4>3. i * DescsPerEntry <= j * DescsPerEntry
        BY <1>0, <4>1
      <4>4. i * DescsPerEntry \in Nat /\ j * DescsPerEntry \in Nat
        BY <1>0, <4>1
      <4> QED
        BY <1>0, <4>2, <4>3, <4>4
    <3> QED
      BY <3>1, <3>2, Zenon
  <2> QED
    BY <2>3, <2>4, Zenon
<1> QED
  BY <1>1, <1>2, Zenon

\* The entry of a slot begins with that slot or an earlier one, and the next entry
\* with a later one.
LEMMA SlotBetween ==
    ASSUME NEW s \in Nat
    PROVE  GuestSlot(Line(s), 0) <= s /\ s < GuestSlot(Line(s) + 1, 0)
<1>0. DescsBefore \in Nat \ {0} /\ DescsPerEntry \in Nat \ {0} /\ DescsBefore <= DescsPerEntry
  BY GeometryAssumption, Zenon
<1> DEFINE l == Line(s)
           o == Off(s)
<1>1. /\ l \in Nat /\ o \in Nat /\ GuestSlot(l, o) = s
      /\ o < (IF ~llq THEN 1 ELSE IF l = 0 THEN DescsBefore ELSE DescsPerEntry)
  BY <1>0, SlotFound DEF Offsets
<1> HIDE DEF l, o
<1>2. CASE ~llq
  BY <1>1, <1>2 DEF GuestSlot, l
<1>3. CASE llq /\ l = 0
  <2>1. l + 1 # 0 /\ l + 1 - 1 = 0 /\ 0 * DescsPerEntry = 0
    BY <1>0, <1>3
  <2>2. GuestSlot(l + 1, 0) = DescsBefore + (l + 1 - 1) * DescsPerEntry + 0
    BY <1>3, <2>1 DEF GuestSlot
  <2>3. GuestSlot(l, 0) = 0 /\ s = o
    BY <1>1, <1>3, Zenon DEF GuestSlot
  <2>4. GuestSlot(l + 1, 0) = DescsBefore
    BY <1>0, <2>1, <2>2
  <2> QED
    BY <1>0, <1>1, <1>3, <2>3, <2>4 DEF l
<1>4. CASE llq /\ l # 0
  <2> DEFINE k == l - 1
  <2>1. k \in Nat /\ l + 1 # 0 /\ l + 1 - 1 = k + 1
    BY <1>1, <1>4
  <2>2. /\ GuestSlot(l, 0) = DescsBefore + k * DescsPerEntry + 0
        /\ s = DescsBefore + k * DescsPerEntry + o
    BY <1>1, <1>4, Zenon DEF GuestSlot
  <2>3. GuestSlot(l + 1, 0) = DescsBefore + (k + 1) * DescsPerEntry + 0
    <3>1. GuestSlot(l + 1, 0) = DescsBefore + (l + 1 - 1) * DescsPerEntry + 0
      BY <1>0, <1>1, <1>4, <2>1 DEF GuestSlot
    <3> QED
      BY <2>1, <3>1, Zenon
  <2> HIDE DEF k
  <2>4. k * DescsPerEntry \in Nat /\ (k + 1) * DescsPerEntry = k * DescsPerEntry + DescsPerEntry
    BY <1>0, <2>1
  <2> QED
    BY <1>0, <1>1, <1>4, <2>2, <2>3, <2>4 DEF l
<1> QED
  BY <1>2, <1>3, <1>4, Zenon

\* A slot is one of n if its entry is among those of n descriptors and the guest
\* has something there; ena_tx_pkt_entries counts those entries.
LEMMA SlotInPacket ==
    ASSUME NEW n \in Nat \ {0}, NEW s \in Nat
    PROVE  /\ GuestHas(n, Line(s), Off(s)) <=> s < n
           /\ s < n => Line(s) < GuestEntries(n)
           /\ PktEntries(n) = GuestEntries(n)
<1> DEFINE k == GuestEntries(n)
           First(l) == GuestSlot(l, 0)
           j == Line(n - 1) + 1
<1>0. n - 1 \in Nat /\ (n - 1) + 1 = n
  OBVIOUS
<1>1. GuestHas(n, Line(s), Off(s)) <=> s < n
  BY SlotFound, Zenon DEF GuestHas
<1>2. k \in Nat /\ k - 1 \in Nat /\ GuestHas(n, k - 1, 0) /\ ~GuestHas(n, k, 0)
  <2>1. k \in 1..n /\ GuestHas(n, k - 1, 0) /\ ~GuestHas(n, k, 0)
    BY EntriesOfPacket, Zenon
  <2> HIDE DEF k
  <2> QED
    BY <2>1
<1>3. j \in Nat /\ j - 1 = Line(n - 1) /\ j - 1 \in Nat
  BY <1>0, SlotFound
<1>4. PktEntries(n) = j
  BY <1>0, Zenon DEF PktEntries, Line
<1>5. Line(s) \in Nat
  BY SlotFound, Zenon
<1>6. First(j - 1) <= n - 1 /\ n - 1 < First(j)
  BY <1>0, <1>3, SlotBetween, Zenon
<1>7. First(Line(s)) <= s
  BY SlotBetween, Zenon
<1> HIDE DEF k, j
<1>8. First(k - 1) < n
  BY <1>2, Zenon DEF GuestHas
<1>9. ~(First(k) < n)
  <2>1. 0 < (IF ~llq THEN 1 ELSE IF k = 0 THEN DescsBefore ELSE DescsPerEntry)
    BY GeometryAssumption
  <2> QED
    BY <1>2, <2>1, Zenon DEF GuestHas
<1>10. \A a, b \in Nat : First(a) \in Nat /\ (a <= b => First(a) <= First(b))
  BY SlotsGrow, Zenon
<1> HIDE DEF First
<1>11. k = j
  <2>1. ~(j <= k - 1)
    BY <1>0, <1>2, <1>3, <1>6, <1>8, <1>10
  <2>2. ~(k <= j - 1)
    BY <1>0, <1>2, <1>3, <1>6, <1>9, <1>10
  <2> QED
    BY <1>2, <1>3, <2>1, <2>2
<1>12. s < n => Line(s) < k
  <2> SUFFICES ASSUME s < n, ~(Line(s) < k) PROVE FALSE
    BY Zenon
  <2>1. First(k) <= First(Line(s)) /\ First(k) \in Nat /\ First(Line(s)) \in Nat
    BY <1>2, <1>5, <1>10
  <2> QED
    BY <1>7, <1>9, <2>1
<1> QED
  BY <1>1, <1>4, <1>11, <1>12, Zenon DEF k

-----------------------------------------------------------------------------
(* Places in the submission ring. *)

\* The SQ divides the range of its indices.
LEMMA SqDivides == \E m \in Int : W = m * SqDepth
<1>0. Depth \in Nat \ {0} /\ SqDepth \in Nat \ {0} /\ Depth % SqDepth = 0
  BY RingSizes, SqDepthAssumption, Zenon
<1>1. PICK m \in Int : W = m * Depth
  BY RingSizes, Zenon
<1> DEFINE q == Depth \div SqDepth
<1>2. q \in Int /\ Depth = SqDepth * q + (Depth % SqDepth)
  BY <1>0, DivMod
<1> HIDE DEF q
<1>3. Depth = q * SqDepth
  BY <1>0, <1>2
<1>4. m * (q * SqDepth) = (m * q) * SqDepth /\ m * q \in Int
  BY <1>0, <1>2
<1> QED
  BY <1>1, <1>3, <1>4, Zenon

\* An index that wraps stays in its entry.
LEMMA WrapSq ==
    ASSUME NEW a \in Int
    PROVE  (a % W) % SqDepth = a % SqDepth
<1>1. PICK m \in Int : W = m * SqDepth
  BY SqDivides, Zenon
<1>2. SqDepth \in Nat \ {0} /\ W \in Nat \ {0}
  BY TxSizes, Zenon
<1>3. W = m * SqDepth => (a % W) % SqDepth = a % SqDepth
  BY <1>2, ModMod, Zenon
<1> QED
  BY <1>1, <1>3, Zenon

\* A place is an entry.
LEMMA PlaceType ==
    ASSUME NEW a \in Int, NEW j \in Int
    PROVE  Place(a, j) \in Entries
<1>1. a + j \in Int /\ SqDepth \in Nat \ {0}
  BY TxSizes
<1> QED
  BY <1>1, DivMod, Zenon DEF Place, Entries

\* Places less than a lap apart are different entries.
LEMMA PlaceApart ==
    ASSUME NEW a \in Int, NEW i \in Int, NEW j \in Int, i < j, j - i < SqDepth
    PROVE  Place(a, i) # Place(a, j)
<1> DEFINE x == a + i
           y == a + j
<1>1. x \in Int /\ y \in Int /\ x < y /\ y - x < SqDepth
  BY TxSizes
<1>2. SqDepth \in Nat \ {0}
  BY TxSizes, Zenon
<1> HIDE DEF x, y
<1>3. x % SqDepth # y % SqDepth
  BY <1>1, <1>2, ModClose, Zenon
<1> QED
  BY <1>3, Zenon DEF x, y, Place

\* An index that wraps stays at its place.
LEMMA PlaceWrap ==
    ASSUME NEW a \in Int, NEW i \in Int, NEW j \in Int
    PROVE  Place((a + i) % W, j) = Place(a, i + j)
<1> DEFINE x == a + i
           r == x % W
<1>0. SqDepth \in Nat \ {0} /\ W \in Nat \ {0} /\ x \in Int
  BY TxSizes
<1>2. r \in Int
  <2> HIDE DEF x
  <2> QED
    BY <1>0, DivMod
<1>3. r % SqDepth = x % SqDepth
  <2> HIDE DEF x
  <2> QED
    BY <1>0, WrapSq, Zenon
<1>4. x + j = a + (i + j)
  OBVIOUS
<1> HIDE DEF x, r
<1>5. ((r % SqDepth) + j) % SqDepth = (r + j) % SqDepth
  BY <1>0, <1>2, ModAdd, Zenon
<1>6. ((x % SqDepth) + j) % SqDepth = (x + j) % SqDepth
  BY <1>0, ModAdd, Zenon
<1>7. (r + j) % SqDepth = (a + (i + j)) % SqDepth
  BY <1>3, <1>4, <1>5, <1>6, Zenon
<1> QED
  BY <1>7, Zenon DEF Place, x, r

\* A place counted from b, counted from a.
LEMMA PlaceFrom ==
    ASSUME NEW a \in Index, NEW b \in Index, NEW j \in Int
    PROVE  Place(b, j) = Place(a, Dist(a, b) + j)
<1>0. W \in Nat \ {0} /\ Dist(a, b) \in Index
  BY TxSizes, DistType, Zenon
<1>1. Dist(a, b) = IF a <= b THEN b - a ELSE b - a + W
  BY DistCases, Zenon
<1> DEFINE i == Dist(a, b)
<1>2. (a + i) % W = IF a + i < W THEN a + i ELSE a + i - W
  BY <1>0, WrapCases, Zenon
<1> HIDE DEF i
<1>3. (a + i) % W = b
  <2>1. i = IF a <= b THEN b - a ELSE b - a + W
    BY <1>1, Zenon DEF i
  <2> QED
    BY <1>0, <1>2, <2>1 DEF Index
<1>4. a \in Int /\ i \in Int
  BY <1>0 DEF Index, i
<1>5. Place((a + i) % W, j) = Place(a, i + j)
  BY ONLY <1>4, j \in Int, PlaceWrap, Zenon
<1> QED
  BY <1>3, <1>5, Zenon DEF i

\* What Post computes for the entry l places after index b.
LEMMA LineOfPlace ==
    ASSUME NEW b \in Int, NEW e \in Entries
    PROVE  LET l == Dist(b % SqDepth, e) % SqDepth
           IN l \in 0..(SqDepth - 1) /\ Place(b, l) = e
<1> DEFINE c == b % SqDepth
           q == b \div SqDepth
           g == e - c
           l == Dist(c, e) % SqDepth
<1>0. SqDepth \in Nat \ {0} /\ W \in Nat \ {0} /\ e \in 0..(SqDepth - 1) /\ e \in Int
  BY TxSizes DEF Entries
<1>1. c \in Int /\ q \in Int /\ b = SqDepth * q + c
  BY <1>0, DivMod
<1> HIDE DEF c, q
<1>2. g \in Int /\ Dist(c, e) = g % W
  BY <1>0, <1>1 DEF Dist
<1>3. g + b = SqDepth * q + e /\ g + b = b + g
  BY <1>0, <1>1
<1> HIDE DEF g
<1>5. l = g % SqDepth
  <2>1. (g % W) % SqDepth = g % SqDepth
    BY <1>2, WrapSq, Zenon
  <2> QED
    BY <1>2, <2>1, Zenon
<1> HIDE DEF l
<1>6. l \in 0..(SqDepth - 1) /\ l \in Int
  <2>1. g % SqDepth \in 0..(SqDepth - 1)
    BY <1>0, <1>2, DivMod, Zenon
  <2> QED
    BY <1>0, <1>5, <2>1
<1>7. (l + b) % SqDepth = (g + b) % SqDepth
  BY <1>0, <1>1, <1>2, <1>5, ModAdd, Zenon
<1>8. (g + b) % SqDepth = e
  <2> DEFINE z == g + b
  <2>1. z \in Int /\ q \in Int /\ z = SqDepth * q + e
    BY <1>1, <1>2, <1>3
  <2> HIDE DEF z
  <2>2. z % SqDepth = e
    BY ONLY <1>0, <2>1, ModUnique, Zenon
  <2> QED
    BY <2>2, Zenon DEF z
<1>9. l + b = b + l
  BY <1>1, <1>6
<1> QED
  BY <1>6, <1>7, <1>8, <1>9, Zenon DEF Place, l, c

-----------------------------------------------------------------------------
(* Bursts. *)

\* Every packet takes an entry.
Sized(size) == \A y \in Packet : size[Len(y.shape)] \in Nat \ {0}

\* The guest's layout is like that.
LEMMA SizeType == Sized(Size) /\ \A y \in Packet : Len(y.shape) \in Nat \ {0} /\
                     Size[Len(y.shape)] = GuestEntries(Len(y.shape))
<1> SUFFICES ASSUME NEW y \in Packet
             PROVE  /\ Size[Len(y.shape)] \in Nat \ {0} /\ Len(y.shape) \in Nat \ {0}
                    /\ Size[Len(y.shape)] = GuestEntries(Len(y.shape))
  BY Zenon DEF Sized
<1>1. y.shape \in Seq(Desc) /\ y.shape # <<>>
  BY ShapesAssumption, Zenon DEF Packet
<1>2. PICK n \in Nat \ {0} : n = Len(y.shape)
  BY <1>1
<1>3. Size[n] = GuestEntries(n)
  BY Zenon DEF Size
<1>4. GuestEntries(n) \in 1..n
  BY EntriesOfPacket, Zenon
<1> QED
  BY <1>2, <1>3, <1>4

\* The layout stays while the queue does.
LEMMA SameLayout == llq' = llq => Size' = Size /\ Image' = Image
BY DEF Size, Image, GuestEntries, GuestLine, GuestHas, GuestSlot

\* No packet fills no entry.
LEMMA NoBurst ==
    ASSUME NEW a \in Index, NEW m, NEW u, NEW size, NEW image
    PROVE  Burst(<<>>, a, a, m, u, size, image)
<1> DEFINE st == [k \in {0} |-> 0]
<1>1. Len(<<>>) = 0 /\ 0..0 = {0} /\ 1..0 = {} /\ 1..(0 - 1) = {} /\ 0 \in Index
  BY TxSizes DEF Index
<1>2. Dist(a, a) = 0
  BY DistSelf, Zenon
<1>3. st \in [{0} -> Index] /\ st[0] = 0
  BY <1>1, Zenon
<1> HIDE DEF st
<1>4. LieAt(<<>>, a, a, st, m, u, size, image)
  BY <1>1, <1>2, <1>3, Zenon DEF LieAt
<1>5. <<>> \in Seq(Packet)
  OBVIOUS
<1> QED
  BY <1>1, <1>3, <1>4, <1>5, Zenon DEF Burst

\* There are entries if and only if there are packets.
LEMMA BurstEmpty ==
    ASSUME NEW a \in Index, NEW b \in Index, NEW f, NEW m, NEW u, NEW size, NEW image,
           Sized(size), Burst(f, a, b, m, u, size, image)
    PROVE  f = <<>> <=> Dist(a, b) = 0
<1>1. PICK st \in [0..Len(f) -> Index] : LieAt(f, a, b, st, m, u, size, image)
  BY Zenon DEF Burst
<1>2. f \in Seq(Packet) /\ Len(f) \in Nat
  BY DEF Burst
<1>3. CASE f = <<>>
  BY <1>1, <1>3, Zenon DEF LieAt
<1>4. CASE f # <<>>
  <2>1. f[1] \in Packet /\ 1 \in 1..Len(f) /\ 1 \in 0..Len(f) /\ Len(f) \in 0..Len(f) /\ 1 <= Len(f)
    BY <1>2, <1>4
  <2>2. st[1] = st[1 - 1] + size[Len(f[1].shape)] /\ st[0] = 0 /\ st[1] <= st[Len(f)]
        /\ st[Len(f)] = Dist(a, b)
    BY <1>1, <2>1, Zenon DEF LieAt
  <2>3. size[Len(f[1].shape)] \in Nat \ {0}
    BY <2>1, Zenon DEF Sized
  <2>4. Dist(a, b) \in Nat
    BY DistType, TxSizes DEF Index
  <2> QED
    BY <1>4, <2>2, <2>3, <2>4
<1> QED
  BY <1>3, <1>4, Zenon

\* The oldest packet lies at the first entry; one without an end is alone.
LEMMA BurstFirst ==
    ASSUME NEW a \in Index, NEW b \in Index, NEW f, NEW m, NEW u, NEW size, NEW image,
           Sized(size), Burst(f, a, b, m, u, size, image), f # <<>>
    PROVE  /\ f[1] \in Packet /\ Lies(f[1], a, 0, m, u, size, image)
           /\ size[Len(f[1].shape)] <= Dist(a, b)
           /\ ~Ends(f[1].shape) => size[Len(f[1].shape)] = Dist(a, b)
<1>1. PICK st \in [0..Len(f) -> Index] : LieAt(f, a, b, st, m, u, size, image)
  BY Zenon DEF Burst
<1>2. f \in Seq(Packet) /\ Len(f) \in Nat
  BY DEF Burst
<1>3. f[1] \in Packet /\ 1 \in 1..Len(f) /\ 1 \in 0..Len(f) /\ Len(f) \in 0..Len(f) /\ 1 <= Len(f)
  BY <1>2
<1>4. /\ st[1] = st[1 - 1] + size[Len(f[1].shape)] /\ st[0] = 0 /\ st[1] <= st[Len(f)]
      /\ st[Len(f)] = Dist(a, b) /\ Lies(f[1], a, st[1 - 1], m, u, size, image)
  BY <1>1, <1>3, Zenon DEF LieAt
<1>5. size[Len(f[1].shape)] \in Nat \ {0} /\ 1 - 1 = 0
  BY <1>3 DEF Sized
<1>6. st[1] = size[Len(f[1].shape)]
  BY <1>4, <1>5
<1>7. ~Ends(f[1].shape) => Len(f) = 1
  <2> SUFFICES ASSUME Len(f) # 1 PROVE Ends(f[1].shape)
    BY Zenon
  <2>1. 1 \in 1..(Len(f) - 1)
    BY <1>2, <1>3
  <2> QED
    BY <2>1, Zenon DEF Burst
<1> QED
  BY <1>3, <1>4, <1>5, <1>6, <1>7, Zenon

\* A burst stays where nothing is written into its entries.
LEMMA BurstKept ==
    ASSUME NEW a \in Index, NEW b \in Index, NEW f, NEW m, NEW u, NEW size, NEW image,
           NEW m2, NEW u2, Sized(size), Burst(f, a, b, m, u, size, image),
           \A i \in 0..(Dist(a, b) - 1) : /\ m2[Place(a, i)] = m[Place(a, i)]
                                          /\ u2[Place(a, i)] = u[Place(a, i)]
    PROVE  Burst(f, a, b, m2, u2, size, image)
<1>1. PICK st \in [0..Len(f) -> Index] : LieAt(f, a, b, st, m, u, size, image)
  BY Zenon DEF Burst
<1>2. f \in Seq(Packet) /\ Len(f) \in Nat
  BY DEF Burst
<1>3. ASSUME NEW k \in 1..Len(f)
      PROVE  Lies(f[k], a, st[k - 1], m2, u2, size, image)
  <2> DEFINE s == st[k - 1]
             n == size[Len(f[k].shape)]
             d == Dist(a, b)
  <2>1. f[k] \in Packet /\ k \in 0..Len(f) /\ k - 1 \in 0..Len(f) /\ Len(f) \in 0..Len(f)
        /\ k <= Len(f)
    BY <1>2
  <2>2. n \in Nat \ {0}
    BY <2>1, Zenon DEF Sized
  <2>3. st[k] = s + n /\ st[k] <= st[Len(f)] /\ st[Len(f)] = d
        /\ Lies(f[k], a, s, m, u, size, image)
    BY <1>1, <2>1, Zenon DEF LieAt
  <2>4. s \in Nat /\ d \in Nat
    <3>1. s \in Index /\ d \in Index
      BY <2>1, DistType, Zenon
    <3> HIDE DEF s, d
    <3> QED
      BY <3>1, TxSizes DEF Index
  <2> HIDE DEF s, n, d
  <2>5. s + n <= d
    BY <2>3, Zenon
  <2>6. s \in 0..(d - 1)
    BY <2>2, <2>4, <2>5
  <2>7. \A l \in 0..(n - 1) : s + l \in 0..(d - 1)
    BY <2>2, <2>4, <2>5
  <2>8. \A i \in 0..(d - 1) : m2[Place(a, i)] = m[Place(a, i)] /\ u2[Place(a, i)] = u[Place(a, i)]
    BY Zenon DEF d
  <2>9. u2[Place(a, s)] = f[k].req_id
    BY <2>3, <2>6, <2>8, Zenon DEF Lies
  <2>10. \A l \in 0..(n - 1) : m2[Place(a, s + l)] = image[f[k]][l]
    <3>1. \A l \in 0..(n - 1) : m[Place(a, s + l)] = image[f[k]][l]
      BY <2>3, Zenon DEF Lies, n
    <3> QED
      BY <2>7, <2>8, <3>1, Zenon
  <2> QED
    BY <2>9, <2>10, Zenon DEF Lies, s, n
<1>4. LieAt(f, a, b, st, m2, u2, size, image)
  BY <1>1, <1>3, Zenon DEF LieAt
<1> QED
  BY <1>4, Zenon DEF Burst

\* A packet written behind a burst that has its end makes it longer.
LEMMA BurstMore ==
    ASSUME NEW a \in Index, NEW b \in Index, NEW f, NEW m, NEW u, NEW size, NEW image,
           Sized(size), Burst(f, a, b, m, u, size, image), NEW y \in Packet,
           f # <<>> => Ends(f[Len(f)].shape),
           Dist(a, b) + size[Len(y.shape)] < W, Lies(y, b, 0, m, u, size, image)
    PROVE  Burst(Append(f, y), a, (b + size[Len(y.shape)]) % W, m, u, size, image)
<1> DEFINE n == size[Len(y.shape)]
           d == Dist(a, b)
           b2 == (b + n) % W
           g == Append(f, y)
<1>1. PICK st \in [0..Len(f) -> Index] : LieAt(f, a, b, st, m, u, size, image)
  BY Zenon DEF Burst
<1>2. f \in Seq(Packet)
  BY Zenon DEF Burst
<1>3. PICK c \in Nat : c = Len(f)
  BY <1>2
<1>4. n \in Nat \ {0}
  BY Zenon DEF Sized
<1>5. d \in Index /\ W \in Nat \ {0}
  BY DistType, TxSizes, Zenon
<1>6. d + n < W
  BY Zenon
<1> HIDE DEF n, d
<1>7. n \in Index /\ d \in Nat /\ d + n \in Index
  BY <1>4, <1>5, <1>6 DEF Index
<1>8. Dist(a, b2) = d + n
  BY <1>6, <1>7, DistStep DEF d
<1> HIDE DEF b2
<1>9. g \in Seq(Packet) /\ Len(g) = c + 1 /\ g[c + 1] = y /\ \A k \in 1..c : g[k] = f[k]
  BY <1>2, <1>3
<1> HIDE DEF g
<1>10. /\ st \in [0..c -> Index] /\ st[0] = 0 /\ st[c] = d
       /\ \A j, k \in 0..c : j <= k => st[j] <= st[k]
       /\ \A k \in 1..c : /\ st[k] = st[k - 1] + size[Len(f[k].shape)]
                          /\ Lies(f[k], a, st[k - 1], m, u, size, image)
  BY <1>1, <1>3, Zenon DEF LieAt, d
<1>11. \A k \in 0..c : st[k] \in Nat
  BY <1>5, <1>10 DEF Index
<1> DEFINE st2 == [k \in 0..(c + 1) |-> IF k = c + 1 THEN d + n ELSE st[k]]
<1>12. /\ st2 \in [0..(c + 1) -> Index] /\ st2[c + 1] = d + n
       /\ \A k \in 0..c : st2[k] = st[k]
  <2>1. \A k \in 0..(c + 1) : k # c + 1 => k \in 0..c
    BY <1>3
  <2>2. \A k \in 0..c : k \in 0..(c + 1) /\ k # c + 1
    BY <1>3
  <2>3. c + 1 \in 0..(c + 1)
    BY <1>3
  <2>4. st2 \in [0..(c + 1) -> Index]
    BY <1>7, <1>10, <2>1, Zenon
  <2> QED
    BY <2>2, <2>3, <2>4, Zenon
<1> HIDE DEF st2
<1>13. \A j, k \in 0..(c + 1) : j <= k => st2[j] <= st2[k]
  <2> SUFFICES ASSUME NEW j \in 0..(c + 1), NEW k \in 0..(c + 1), j <= k
               PROVE  st2[j] <= st2[k]
    BY Zenon
  <2>0. c \in 0..c
    BY <1>3
  <2>1. CASE k = c + 1 /\ j = c + 1
    BY <1>4, <1>7, <1>12, <2>1
  <2>2. CASE k = c + 1 /\ j \in 0..c
    <3>1. st[j] <= d /\ st[j] \in Nat
      BY <1>3, <1>10, <1>11, <2>0, <2>2
    <3> QED
      BY <1>4, <1>7, <1>12, <2>2, <3>1
  <2>3. CASE k \in 0..c /\ j \in 0..c
    BY <1>10, <1>12, <2>3, Zenon
  <2> QED
    BY <1>3, <2>1, <2>2, <2>3
<1>14. ASSUME NEW k \in 1..(c + 1)
       PROVE  /\ st2[k] = st2[k - 1] + size[Len(g[k].shape)]
              /\ Lies(g[k], a, st2[k - 1], m, u, size, image)
  <2>1. CASE k = c + 1
    <3>1. k - 1 = c /\ c \in 0..c
      BY <1>3, <2>1
    <3>2. st2[k - 1] = d /\ st2[k] = d + n /\ g[k] = y
      BY <1>9, <1>10, <1>12, <2>1, <3>1, Zenon
    <3>3. Lies(y, a, d, m, u, size, image)
      <4>1. Place(b, 0) = Place(a, d)
        <5>1. Place(b, 0) = Place(a, d + 0) /\ d + 0 = d
          BY <1>7, PlaceFrom DEF d
        <5> QED
          BY <5>1, Zenon
      <4>2. ASSUME NEW l \in 0..(n - 1)
            PROVE  Place(b, 0 + l) = Place(a, d + l)
        <5>1. l \in Int /\ 0 + l = l
          OBVIOUS
        <5> QED
          BY <5>1, PlaceFrom DEF d
      <4>3. u[Place(b, 0)] = y.req_id
        BY Zenon DEF Lies
      <4>4. \A l \in 0..(n - 1) : m[Place(b, 0 + l)] = image[y][l]
        BY Zenon DEF Lies, n
      <4>5. \A l \in 0..(n - 1) : m[Place(a, d + l)] = image[y][l]
        BY <4>2, <4>4, Zenon
      <4> QED
        BY <4>1, <4>3, <4>5, Zenon DEF Lies, n
    <3> QED
      BY <3>2, <3>3, Zenon DEF n
  <2>2. CASE k # c + 1
    <3>1. k \in 1..c /\ k \in 0..c /\ k - 1 \in 0..c
      BY <1>3, <2>2
    <3> QED
      BY <1>9, <1>10, <1>12, <3>1, Zenon
  <2> QED
    BY <2>1, <2>2, Zenon
<1>15. LieAt(g, a, b2, st2, m, u, size, image)
  <2>1. st2[0] = 0 /\ st2[Len(g)] = Dist(a, b2)
    <3>1. 0 \in 0..c
      BY <1>3
    <3> QED
      BY <1>8, <1>9, <1>10, <1>12, <3>1, Zenon
  <2> QED
    BY <1>9, <1>13, <1>14, <2>1, Zenon DEF LieAt
<1>16. \A k \in 1..(Len(g) - 1) : Ends(g[k].shape)
  <2> SUFFICES ASSUME NEW k \in 1..c PROVE Ends(f[k].shape)
    BY <1>3, <1>9
  <2>1. CASE k = c
    <3>1. f # <<>>
      BY <1>3, <2>1
    <3> QED
      BY <1>3, <2>1, <3>1, Zenon
  <2>2. CASE k # c
    <3>1. k \in 1..(Len(f) - 1)
      BY <1>3, <2>2
    <3> QED
      BY <3>1, Zenon DEF Burst
  <2> QED
    BY <2>1, <2>2, Zenon
<1>17. Burst(g, a, b2, m, u, size, image)
  BY <1>9, <1>12, <1>15, <1>16, Zenon DEF Burst
<1> QED
  BY <1>17, Zenon DEF g, b2, n

\* The head moves past the oldest packet.
LEMMA BurstLess ==
    ASSUME NEW a \in Index, NEW b \in Index, NEW f, NEW m, NEW u, NEW size, NEW image,
           Sized(size), Burst(f, a, b, m, u, size, image), f # <<>>
    PROVE  Burst(Tail(f), (a + size[Len(f[1].shape)]) % W, b, m, u, size, image)
<1> DEFINE n == size[Len(f[1].shape)]
           d == Dist(a, b)
           a2 == (a + n) % W
           g == Tail(f)
<1>1. PICK st \in [0..Len(f) -> Index] : LieAt(f, a, b, st, m, u, size, image)
  BY Zenon DEF Burst
<1>2. f \in Seq(Packet) /\ f[1] \in Packet
  BY DEF Burst
<1>3. PICK c \in Nat : c + 1 = Len(f)
  <2>1. Len(f) - 1 \in Nat /\ (Len(f) - 1) + 1 = Len(f)
    BY <1>2
  <2> QED
    BY <2>1, Zenon
<1>4. n \in Nat \ {0}
  BY <1>2, Zenon DEF Sized
<1>5. d \in Index /\ W \in Nat \ {0} /\ n <= d
  BY DistType, TxSizes, BurstFirst, Zenon
<1> HIDE DEF n, d
<1>6. n \in Index /\ d \in Nat
  BY <1>4, <1>5 DEF Index
<1>7. Dist(a2, b) = d - n
  BY <1>5, <1>6, DistStep DEF d
<1>8. g \in Seq(Packet) /\ Len(g) = c /\ \A k \in 1..c : g[k] = f[k + 1]
  BY <1>2, <1>3
<1> HIDE DEF g
<1>9. /\ st \in [0..(c + 1) -> Index] /\ st[0] = 0 /\ st[c + 1] = d
      /\ \A j, k \in 0..(c + 1) : j <= k => st[j] <= st[k]
      /\ \A k \in 1..(c + 1) : /\ st[k] = st[k - 1] + size[Len(f[k].shape)]
                               /\ Lies(f[k], a, st[k - 1], m, u, size, image)
  BY <1>1, <1>3, Zenon DEF LieAt, d
<1>10. st[1] = n
  <2>1. 1 \in 1..(c + 1) /\ 1 - 1 = 0
    BY <1>3
  <2>2. st[1] = 0 + n
    BY <1>9, <2>1, Zenon DEF n
  <2> QED
    BY <1>4, <2>2
<1>11. \A k \in 0..c : st[k + 1] \in Index /\ st[k + 1] \in Nat /\ n <= st[k + 1]
  <2> SUFFICES ASSUME NEW k \in 0..c
               PROVE  st[k + 1] \in Index /\ st[k + 1] \in Nat /\ n <= st[k + 1]
    BY Zenon
  <2>1. k + 1 \in 0..(c + 1) /\ 1 \in 0..(c + 1) /\ 1 <= k + 1
    BY <1>3
  <2>2. st[k + 1] \in Index /\ st[1] <= st[k + 1]
    BY <1>9, <2>1, Zenon
  <2> QED
    BY <1>5, <1>10, <2>2 DEF Index
<1> DEFINE st2 == [k \in 0..c |-> st[k + 1] - n]
<1>12. st2 \in [0..c -> Index] /\ \A k \in 0..c : st2[k] = st[k + 1] - n
  <2>1. \A k \in 0..c : st[k + 1] - n \in Index
    <3> SUFFICES ASSUME NEW k \in 0..c PROVE st[k + 1] - n \in Index
      BY Zenon
    <3> QED
      BY <1>4, <1>5, <1>11 DEF Index
  <2> QED
    BY <2>1, Zenon
<1> HIDE DEF st2, a2
<1>13. \A j, k \in 0..c : j <= k => st2[j] <= st2[k]
  <2> SUFFICES ASSUME NEW j \in 0..c, NEW k \in 0..c, j <= k PROVE st2[j] <= st2[k]
    BY Zenon
  <2>1. j + 1 \in 0..(c + 1) /\ k + 1 \in 0..(c + 1) /\ j + 1 <= k + 1
    BY <1>3
  <2>2. st[j + 1] <= st[k + 1]
    BY <1>9, <2>1, Zenon
  <2> QED
    BY <1>4, <1>11, <1>12, <2>2
<1>14. ASSUME NEW k \in 1..c
       PROVE  /\ st2[k] = st2[k - 1] + size[Len(g[k].shape)]
              /\ Lies(g[k], a2, st2[k - 1], m, u, size, image)
  <2> DEFINE s == st[k]
             z == size[Len(g[k].shape)]
  <2>1. k \in 0..c /\ k - 1 \in 0..c /\ k - 1 + 1 = k /\ k + 1 \in 1..(c + 1) /\ k + 1 - 1 = k
    BY <1>3
  <2>2. g[k] = f[k + 1] /\ g[k] \in Packet
    BY <1>8
  <2>3. st[k + 1] = s + z /\ Lies(g[k], a, s, m, u, size, image)
    <3>1. /\ st[k + 1] = st[k + 1 - 1] + size[Len(f[k + 1].shape)]
          /\ Lies(f[k + 1], a, st[k + 1 - 1], m, u, size, image)
      BY <1>9, <2>1
    <3> QED
      BY <2>1, <2>2, <3>1, Zenon
  <2>4. st2[k] = st[k + 1] - n /\ st2[k - 1] = s - n
    BY <1>12, <2>1, Zenon
  <2>5. z \in Nat /\ s \in Nat
    <3>1. z \in Nat \ {0}
      BY <2>2, Zenon DEF Sized
    <3>2. s \in Nat
      BY ONLY <1>11, <2>1, Zenon
    <3> QED
      BY ONLY <3>1, <3>2, Zenon
  <2>6. st2[k] = st2[k - 1] + z
    <3> HIDE DEF s, z
    <3> QED
      BY <1>4, <2>3, <2>4, <2>5
  <2> DEFINE t == s - n
  <2>7. Lies(g[k], a2, t, m, u, size, image)
    <3>0. t \in Int /\ n \in Int /\ n + t = s /\ a \in Int
      <4> HIDE DEF s
      <4> QED
        BY <1>4, <2>5 DEF Index
    <3> HIDE DEF t
    <3>1. Place(a2, t) = Place(a, s)
      <4>1. Place(a2, t) = Place(a, n + t)
        BY <3>0, PlaceWrap, Zenon DEF a2
      <4> QED
        BY <3>0, <4>1, Zenon
    <3>2. ASSUME NEW l \in 0..(z - 1)
          PROVE  Place(a2, t + l) = Place(a, s + l)
      <4>1. t + l \in Int /\ n + (t + l) = s + l
        <5> HIDE DEF s, z
        <5> QED
          BY <3>0
      <4>2. Place(a2, t + l) = Place(a, n + (t + l))
        BY <3>0, <4>1, PlaceWrap, Zenon DEF a2
      <4> QED
        BY <4>1, <4>2, Zenon
    <3>3. u[Place(a, s)] = g[k].req_id
      BY <2>3, Zenon DEF Lies
    <3>4. \A l \in 0..(z - 1) : m[Place(a, s + l)] = image[g[k]][l]
      BY <2>3, Zenon DEF Lies
    <3>5. \A l \in 0..(z - 1) : m[Place(a2, t + l)] = image[g[k]][l]
      BY <3>2, <3>4, Zenon
    <3> QED
      BY <3>1, <3>3, <3>5, Zenon DEF Lies
  <2> QED
    BY <2>4, <2>6, <2>7, Zenon
<1>15. LieAt(g, a2, b, st2, m, u, size, image)
  <2>1. st2[0] = 0 /\ st2[Len(g)] = Dist(a2, b)
    <3>1. 0 \in 0..c /\ c \in 0..c /\ 0 + 1 = 1
      BY <1>3
    <3>2. st2[0] = n - n /\ st2[c] = d - n
      BY <1>9, <1>10, <1>12, <3>1, Zenon
    <3> QED
      BY <1>4, <1>7, <1>8, <3>2
  <2> QED
    BY <1>8, <1>13, <1>14, <2>1, Zenon DEF LieAt
<1>16. \A k \in 1..(Len(g) - 1) : Ends(g[k].shape)
  <2> SUFFICES ASSUME NEW k \in 1..(c - 1) PROVE Ends(g[k].shape)
    BY <1>8, Zenon
  <2>1. k + 1 \in 1..(Len(f) - 1) /\ k \in 1..c
    BY <1>3
  <2>2. Ends(f[k + 1].shape)
    BY <2>1, Zenon DEF Burst
  <2> QED
    BY <1>8, <2>1, <2>2, Zenon
<1>17. Burst(g, a2, b, m, u, size, image)
  BY <1>8, <1>12, <1>15, <1>16, Zenon DEF Burst
<1> QED
  BY <1>17, Zenon DEF g, a2, n

\* Post leaves the entries before the guest's index alone, and writes the packet
\* behind them.
LEMMA PostWrites ==
    ASSUME Types, Control, NEW x \in Shapes, NEW id \in ReqIds, Post(x, id)
    PROVE  LET y == [shape |-> x, req_id |-> id]
               n == GuestEntries(Len(x))
           IN /\ y \in Packet
              /\ \A a \in Index : Dist(a, pi) + n <= SqDepth =>
                   \A i \in 0..(Dist(a, pi) - 1) : /\ mem'[Place(a, i)] = mem[Place(a, i)]
                                                   /\ buf'[Place(a, i)] = buf[Place(a, i)]
              /\ Lies(y, pi, 0, mem', buf', Size, Image)
<1> DEFINE y == [shape |-> x, req_id |-> id]
           n == GuestEntries(Len(x))
           Lin(e) == Dist(pi % SqDepth, e) % SqDepth
<1>0. pi \in Index /\ pi \in Int /\ SqDepth \in Nat \ {0} /\ clean \in Index
  BY TxSizes DEF Types, Index
<1>1. y \in Packet /\ y.shape = x /\ y.req_id = id
  BY Zenon DEF Packet
<1>2. n \in Nat \ {0} /\ Size[Len(x)] = n
  BY <1>1, SizeType, Zenon DEF Sized
<1>3. /\ mem' = [e \in Entries |-> IF Lin(e) < n THEN GuestLine(x, id, Lin(e)) ELSE mem[e]]
      /\ buf' = [buf EXCEPT ![pi % SqDepth] = id] /\ Dist(clean, pi) + n <= SqDepth
  BY Zenon DEF Post
<1>4. n <= SqDepth
  <2>1. Dist(clean, pi) \in Nat
    BY <1>0, DistType, TxSizes DEF Index
  <2> HIDE DEF n
  <2> QED
    BY <1>0, <1>2, <1>3, <2>1
<1>5. \A e \in Entries : Lin(e) \in 0..(SqDepth - 1) /\ Place(pi, Lin(e)) = e
  BY <1>0, LineOfPlace, Zenon
<1>6. pi % SqDepth = Place(pi, 0)
  <2>1. pi + 0 = pi
    BY <1>0
  <2> QED
    BY <2>1, Zenon DEF Place
<1>7. buf \in [Entries -> ReqIds] /\ Place(pi, 0) \in Entries
  BY <1>0, PlaceType DEF Control
<1> HIDE DEF n, Lin, y
<1>8. ASSUME NEW a \in Index, Dist(a, pi) + n <= SqDepth, NEW i \in 0..(Dist(a, pi) - 1)
      PROVE  /\ mem'[Place(a, i)] = mem[Place(a, i)]
             /\ buf'[Place(a, i)] = buf[Place(a, i)]
  <2> DEFINE d == Dist(a, pi)
             e == Place(a, i)
  <2>1. d \in Nat /\ a \in Int
    BY <1>0, DistType, TxSizes DEF Index
  <2>2. i \in Int /\ e \in Entries
    BY <2>1, PlaceType
  <2>3. d + n <= SqDepth /\ i \in 0..(d - 1)
    BY <1>8, Zenon
  <2>4. ASSUME NEW l \in 0..(n - 1)
        PROVE  e # Place(pi, l)
    <3>1. Place(pi, l) = Place(a, d + l)
      BY <1>0, PlaceFrom
    <3>2. d + l \in Int /\ i < d + l /\ d + l - i < SqDepth
      <4> HIDE DEF d
      <4> QED
        BY <1>0, <1>2, <2>1, <2>3
    <3> HIDE DEF d
    <3>3. Place(a, i) # Place(a, d + l)
      BY <2>1, <2>2, <3>2, PlaceApart
    <3> QED
      BY <3>1, <3>3, Zenon
  <2> HIDE DEF e, d
  <2>5. ~(Lin(e) < n)
    <3> SUFFICES ASSUME Lin(e) < n PROVE FALSE
      BY Zenon
    <3>1. Lin(e) \in 0..(SqDepth - 1) /\ Place(pi, Lin(e)) = e
      BY <1>5, <2>2, Zenon
    <3>2. Lin(e) \in 0..(n - 1)
      BY <1>0, <1>2, <3>1
    <3> QED
      BY <2>4, <3>1, <3>2, Zenon
  <2>6. mem'[e] = mem[e]
    BY <1>3, <2>2, <2>5, Zenon
  <2>7. e # Place(pi, 0)
    <3>1. 0 \in 0..(n - 1)
      BY <1>2
    <3> QED
      BY <2>4, <3>1, Zenon
  <2>8. buf'[e] = buf[e]
    BY <1>3, <1>6, <1>7, <2>2, <2>7, Zenon
  <2> QED
    BY <2>6, <2>8, Zenon DEF e
<1>9. Lies(y, pi, 0, mem', buf', Size, Image)
  <2>1. buf'[Place(pi, 0)] = y.req_id
    BY <1>1, <1>3, <1>6, <1>7, Zenon
  <2>2. ASSUME NEW l \in 0..(n - 1)
        PROVE  mem'[Place(pi, 0 + l)] = Image[y][l]
    <3> DEFINE e == Place(pi, l)
    <3>1. l \in Int /\ l \in Nat /\ 0 + l = l
      BY <1>2
    <3>2. e \in Entries
      BY <1>0, <3>1, PlaceType, Zenon
    <3>3. Lin(e) \in 0..(SqDepth - 1) /\ Place(pi, Lin(e)) = e
      BY <1>5, <3>2, Zenon
    <3>4. Lin(e) = l
      <4> DEFINE j == Lin(e)
      <4>1. j \in Int /\ j \in 0..(SqDepth - 1) /\ l \in 0..(SqDepth - 1) /\ Place(pi, j) = Place(pi, l)
        BY <1>0, <1>2, <1>4, <3>3
      <4> HIDE DEF j
      <4>2. ~(j < l) /\ ~(l < j)
        BY <1>0, <3>1, <4>1, PlaceApart
      <4>3. j = l
        BY <3>1, <4>1, <4>2
      <4> QED
        BY <4>3, Zenon DEF j
    <3> HIDE DEF e
    <3>5. l < n
      BY <1>2, <3>1
    <3>6. mem'[e] = GuestLine(x, id, l)
      BY <1>3, <3>2, <3>4, <3>5, Zenon
    <3>7. Image[y][l] = GuestLine(x, id, l)
      BY <1>1, <3>1, Zenon DEF Image
    <3> QED
      BY <3>1, <3>6, <3>7, Zenon DEF e
  <2>3. Size[Len(y.shape)] = n
    BY <1>1, <1>2, Zenon
  <2> QED
    BY <2>1, <2>2, <2>3, Zenon DEF Lies
<1> QED
  BY <1>1, <1>8, <1>9, Zenon DEF n, y

-----------------------------------------------------------------------------
(* The parser and the oldest packet. *)

\* In the entries of the oldest packet the device reads its descriptors, and
\* behind them nothing; a packet without an end is the last before the doorbell.
LEMMA OldestRead ==
    ASSUME Types, Burst(fifo, head, tail, mem, buf, Size, Image), fifo # <<>>,
           NEW s \in Nat
    PROVE  LET y == fifo[1]
               x == fifo[1].shape
           IN /\ y \in Packet
              /\ PktEntries(Len(x)) = GuestEntries(Len(x))
              /\ Size[Len(x)] = GuestEntries(Len(x))
              /\ s < Len(x) => /\ SlotPosted(s)
                               /\ ReadSlot(s) = [d |-> x[s + 1], req_id |-> y.req_id]
              /\ ~(s < Len(x)) /\ ~Ends(x) /\ SlotPosted(s) => ReadSlot(s).d = NoDesc
<1> DEFINE y == fifo[1]
           x == y.shape
           n == Len(x)
           k == GuestEntries(n)
<1>0. head \in Index /\ tail \in Index
  BY Zenon DEF Types
<1>1. /\ y \in Packet /\ Lies(y, head, 0, mem, buf, Size, Image)
      /\ Size[n] <= Dist(head, tail) /\ (~Ends(x) => Size[n] = Dist(head, tail))
  <2>1. Sized(Size)
    BY SizeType, Zenon
  <2> QED
    BY <1>0, <2>1, BurstFirst
<1> HIDE DEF y
<1>2. n \in Nat \ {0} /\ Size[n] = k
  BY <1>1, SizeType, Zenon
<1>3. k \in Nat \ {0} /\ Dist(head, tail) \in Nat
  <2>1. k \in Nat \ {0}
    BY <1>1, <1>2, SizeType, Zenon DEF Sized
  <2> QED
    BY <1>0, <2>1, DistType, TxSizes DEF Index
<1> HIDE DEF x, n
<1>4. /\ Line(s) \in Nat /\ Off(s) \in Offsets /\ GuestSlot(Line(s), Off(s)) = s
      /\ GuestHas(n, Line(s), Off(s)) <=> s < n
      /\ s < n => Line(s) < k
      /\ PktEntries(n) = k
  BY <1>2, SlotFound, SlotInPacket, Zenon
<1> HIDE DEF k
<1>5. SlotPosted(s) <=> Line(s) < Dist(head, tail)
  BY Zenon DEF SlotPosted, Line
<1>6. ASSUME Line(s) < k
      PROVE  ReadSlot(s) = [d |-> IF s < n THEN x[s + 1] ELSE NoDesc, req_id |-> y.req_id]
  <2>1. Line(s) \in 0..(k - 1) /\ 0 + Line(s) = Line(s)
    BY <1>3, <1>4, <1>6
  <2>2. mem[Place(head, 0 + Line(s))] = Image[y][Line(s)]
    BY <1>1, <1>2, <2>1, Zenon DEF Lies, n, x
  <2>3. Image[y][Line(s)] = GuestLine(x, y.req_id, Line(s))
    BY <1>1, <1>4, Zenon DEF Image, x
  <2>4. mem[Place(head, Line(s))] = GuestLine(x, y.req_id, Line(s))
    BY <2>1, <2>2, <2>3, Zenon
  <2>5. ReadSlot(s) = mem[Place(head, Line(s))][Off(s)]
    BY Zenon DEF ReadSlot, Place, Line, Off
  <2>6. GuestLine(x, y.req_id, Line(s))[Off(s)] =
          [d |-> IF GuestHas(Len(x), Line(s), Off(s))
                 THEN x[GuestSlot(Line(s), Off(s)) + 1] ELSE NoDesc,
           req_id |-> y.req_id]
    BY <1>4, Zenon DEF GuestLine
  <2> QED
    BY <1>4, <2>4, <2>5, <2>6, Zenon DEF n
<1>7. s < n => SlotPosted(s) /\ ReadSlot(s) = [d |-> x[s + 1], req_id |-> y.req_id]
  <2> SUFFICES ASSUME s < n
               PROVE  SlotPosted(s) /\ ReadSlot(s) = [d |-> x[s + 1], req_id |-> y.req_id]
    BY Zenon
  <2>1. Line(s) < k /\ Line(s) < Dist(head, tail)
    BY <1>1, <1>2, <1>3, <1>4
  <2> QED
    BY <1>5, <1>6, <2>1, Zenon
<1>8. ~(s < n) /\ ~Ends(x) /\ SlotPosted(s) => ReadSlot(s).d = NoDesc
  <2> SUFFICES ASSUME ~(s < n), ~Ends(x), SlotPosted(s) PROVE ReadSlot(s).d = NoDesc
    BY Zenon
  <2>1. Line(s) < k
    BY <1>1, <1>2, <1>5, Zenon DEF x
  <2> QED
    BY <1>6, <2>1
<1> QED
  BY <1>1, <1>2, <1>4, <1>7, <1>8, Zenon DEF k, n, x, y

\* The descriptors of a packet.
LEMMA ShapeType ==
    ASSUME NEW x \in Shapes
    PROVE  /\ Len(x) \in Nat \ {0} /\ \A i \in 1..Len(x) : x[i] \in Desc
           /\ \A i \in 1..Len(x) : x[i].meta \in BOOLEAN /\ x[i].last \in BOOLEAN
           /\ \A i \in 1..(Len(x) - 1) : x[i].last => x[i].meta
<1>1. x \in Seq(Desc) /\ x # <<>> /\ \A i \in 1..(Len(x) - 1) : x[i].last => x[i].meta
  BY ShapesAssumption, Zenon
<1>2. Len(x) \in Nat \ {0} /\ \A i \in 1..Len(x) : x[i] \in Desc
  BY <1>1
<1>3. \A d \in Desc : d.meta \in BOOLEAN /\ d.last \in BOOLEAN
  BY Zenon DEF Desc
<1> QED
  BY <1>1, <1>2, <1>3, Zenon

\* The first descriptor of a shape.
LEMMA ShapeHead ==
    ASSUME NEW x \in Shapes
    PROVE  /\ Len(x) \in Nat \ {0} /\ x[1].meta \in BOOLEAN
           /\ Metas(x) \in {0, 1} /\ (Metas(x) = 1 <=> x[1].meta)
<1>1. Len(x) \in Nat \ {0} /\ x[1].meta \in BOOLEAN
  BY ShapeType
<1> QED
  BY <1>1 DEF Metas

\* The first descriptor begins a packet, or is all of it.
LEMMA PacketBegins ==
    ASSUME NEW x \in Shapes, x[1].meta => x[1].ext_valid, x[1].meta \/ x[1].first
    PROVE  /\ x[1].meta \/ ~x[1].last => Begins(x, 1)
           /\ ~x[1].meta /\ x[1].last => Len(x) = 1 /\ WellFormed(x)
<1>0. Len(x) \in Nat \ {0} /\ \A i \in 1..(Len(x) - 1) : x[i].last => x[i].meta
  BY ShapeType, Zenon
<1>1. x[1].meta \/ ~x[1].last => Begins(x, 1)
  BY DEF Begins, Metas
<1>2. ASSUME ~x[1].meta /\ x[1].last PROVE Len(x) = 1 /\ WellFormed(x)
  <2>1. Len(x) = 1
    <3>1. PICK n \in Nat \ {0} : n = Len(x)
      BY <1>0, Zenon
    <3>2. 1 \notin 1..(n - 1)
      BY <1>0, <1>2, <3>1, Zenon
    <3>3. n = 1
      BY <3>2
    <3> QED
      BY <3>1, <3>3, Zenon
  <2> QED
    BY <1>2, <2>1, GeometryAssumption DEF WellFormed
<1> QED
  BY <1>1, <1>2, Zenon

\* A buffer goes on with a packet, or ends it.
LEMMA PacketGoesOn ==
    ASSUME NEW x \in Shapes, NEW s \in Nat, 1 <= s, s < Len(x), Begins(x, s),
           ~x[s + 1].meta
    PROVE  /\ ~x[s + 1].last => Begins(x, s + 1)
           /\ x[s + 1].last /\ s + 1 - Metas(x) <= MaxPktDescs =>
                Len(x) = s + 1 /\ WellFormed(x)
<1>0. /\ Len(x) \in Nat \ {0} /\ MaxPktDescs \in Nat
      /\ \A i \in 1..(Len(x) - 1) : x[i].last => x[i].meta
  BY ShapeType, GeometryAssumption, Zenon
<1>1. PICK c \in {0, 1} : c = Metas(x) /\ c = IF x[1].meta THEN 1 ELSE 0
  BY Zenon DEF Metas
<1>2. /\ x[1].meta => x[1].ext_valid
      /\ x[1].meta \/ x[1].first
      /\ \A i \in 2..s : ~x[i].meta
      /\ \A i \in (1 + c)..s : ~x[i].last
  BY <1>1, Zenon DEF Begins
<1>3. \A i \in 2..(s + 1) : ~x[i].meta
  BY <1>2
<1>4. ASSUME ~x[s + 1].last PROVE Begins(x, s + 1)
  <2>1. \A i \in (1 + c)..(s + 1) : ~x[i].last
    <3>1. \A i \in (1 + c)..(s + 1) : i \in (1 + c)..s \/ i = s + 1
      OBVIOUS
    <3> QED
      BY <1>2, <1>4, <3>1, Zenon
  <2> QED
    BY <1>1, <1>2, <1>3, <2>1, Zenon DEF Begins
<1>5. ASSUME x[s + 1].last, s + 1 - c <= MaxPktDescs PROVE Len(x) = s + 1 /\ WellFormed(x)
  <2>1. Len(x) = s + 1
    <3>1. s + 1 \notin 1..(Len(x) - 1)
      BY <1>0, <1>5, Zenon
    <3> QED
      BY <1>0, <3>1
  <2>2. \A i \in (1 + c)..(s + 1) : x[i].last <=> i = s + 1
    <3>1. \A i \in (1 + c)..(s + 1) : i \in (1 + c)..s \/ i = s + 1
      OBVIOUS
    <3>2. \A i \in (1 + c)..s : i # s + 1
      OBVIOUS
    <3> QED
      BY <1>2, <1>5, <3>1, <3>2, Zenon
  <2>3. s + 1 - c \in 1..MaxPktDescs
    BY <1>0, <1>1, <1>5
  <2> QED
    BY <1>1, <1>2, <1>3, <2>1, <2>2, <2>3 DEF WellFormed
<1> QED
  BY <1>1, <1>4, <1>5, Zenon

\* A well-formed packet has its end, and no earlier one.
LEMMA PacketEnds ==
    ASSUME NEW x \in Shapes, WellFormed(x)
    PROVE  Ends(x) /\ ~Begins(x, Len(x))
<1>0. Len(x) \in Nat \ {0}
  BY ShapeType, Zenon
<1>1. PICK c \in {0, 1} : c = Metas(x) /\ c = IF x[1].meta THEN 1 ELSE 0
  BY Zenon DEF Metas
<1>2. /\ \A i \in 2..Len(x) : ~x[i].meta
      /\ Len(x) - c \in 1..MaxPktDescs
      /\ \A i \in (1 + c)..Len(x) : x[i].last <=> i = Len(x)
  BY <1>1 DEF WellFormed
<1>3. Len(x) \in (1 + c)..Len(x)
  BY <1>0, <1>1, <1>2, GeometryAssumption
<1>4. x[Len(x)].last
  BY <1>2, <1>3, Zenon
<1>5. ~x[Len(x)].meta
  <2>1. CASE Len(x) = 1
    BY <1>1, <1>3, <2>1
  <2>2. CASE Len(x) # 1
    <3>0. PICK n \in Nat \ {0} : n = Len(x)
      BY <1>0, Zenon
    <3>1. Len(x) \in 2..Len(x)
      BY <2>2, <3>0
    <3> QED
      BY <1>2, <3>1, Zenon
  <2> QED
    BY <2>1, <2>2, Zenon
<1>6. ~Begins(x, Len(x))
  BY <1>1, <1>3, <1>4, Zenon DEF Begins
<1> QED
  BY <1>4, <1>5, <1>6, Zenon DEF Ends

\* A parser that goes on: where it is, and the descriptor it reads.
LEMMA ParserAt ==
    ASSUME Types, ParserInBounds, Burst(fifo, head, tail, mem, buf, Size, Image),
           fifo # <<>>, Within(fifo[1], p), SlotGood
    PROVE  LET y == fifo[1]
               x == fifo[1].shape
               d == ReadSlot(p.slot).d
           IN /\ y \in Packet /\ x \in Shapes
              /\ p.slot < Len(x) => ReadSlot(p.slot) = [d |-> x[p.slot + 1], req_id |-> y.req_id]
              /\ ~(p.slot < Len(x)) =>
                   ~Ends(x) /\ ~d.meta /\ ~d.last /\ (p.ndesc > 0 \/ p.have_meta)
<1> DEFINE y == fifo[1]
           x == y.shape
           s == p.slot
           r == ReadSlot(s)
<1>0. p \in Pkt /\ s \in Nat /\ p.ndesc \in Nat
  BY Zenon DEF Types, Pkt
<1>1. /\ y \in Packet
      /\ s < Len(x) => r = [d |-> x[s + 1], req_id |-> y.req_id]
      /\ ~(s < Len(x)) /\ ~Ends(x) /\ SlotPosted(s) => r.d = NoDesc
  BY <1>0, OldestRead, Zenon
<1>2. SlotPosted(s)
  BY Zenon DEF SlotGood
<1>3. x \in Shapes
  BY <1>1, Zenon DEF Packet
<1>4. Len(x) \in Nat \ {0}
  BY <1>3, ShapeType, Zenon
<1>5. ~(s < Len(x)) => ~Ends(x) /\ (p.ndesc > 0 \/ p.have_meta)
  <2> SUFFICES ASSUME ~(s < Len(x)) PROVE ~Ends(x) /\ (p.ndesc > 0 \/ p.have_meta)
    BY Zenon
  <2>1. p # NoPkt
    BY <1>0, <1>4 DEF NoPkt
  <2>2. CASE s > Len(x)
    <3>1. s \notin 1..Len(x)
      BY <1>0, <1>4, <2>2
    <3> QED
      BY <2>1, <3>1, Zenon DEF Within
  <2>3. CASE s = Len(x)
    <3>1. ~(s > Len(x))
      BY <1>0, <1>4, <2>3, Zenon
    <3>2. /\ Begins(x, Len(x)) /\ p.have_meta = x[1].meta
          /\ p.ndesc = s - Metas(x)
      BY <2>1, <2>3, <3>1, Zenon DEF Within
    <3>3. p.ndesc > 0 \/ p.have_meta
      <4>1. CASE x[1].meta
        BY <3>2, <4>1, Zenon
      <4>2. CASE ~x[1].meta
        <5>1. Metas(x) = 0
          BY <4>2, Zenon DEF Metas
        <5>2. p.ndesc = s - 0
          BY <3>2, <5>1, Zenon
        <5> HIDE DEF x, s
        <5> QED
          BY <1>0, <1>4, <2>3, <5>2
      <4> QED
        BY <4>1, <4>2, Zenon
    <3>4. ~Ends(x)
      <4> SUFFICES ASSUME x[Len(x)].last, ~x[Len(x)].meta PROVE FALSE
        BY Zenon DEF Ends
      <4>1. PICK c \in {0, 1} : c = Metas(x) /\ c = IF x[1].meta THEN 1 ELSE 0
        BY Zenon DEF Metas
      <4>2. PICK n \in Nat \ {0} : n = Len(x)
        BY <1>4, Zenon
      <4>3. n = 1 => c = 0
        <5>1. n = 1 => ~x[1].meta
          BY <4>2, Zenon
        <5> QED
          BY <4>1, <5>1, Zenon
      <4>4. n \in (1 + c)..n
        <5>1. c \in {0, 1} /\ n \in Nat \ {0}
          BY <4>1, <4>2, Zenon
        <5> QED
          BY ONLY <4>3, <5>1
      <4> QED
        BY <3>2, <4>1, <4>2, <4>4, Zenon DEF Begins
    <3> QED
      BY <3>3, <3>4, Zenon
  <2> QED
    BY <1>0, <1>4, <2>2, <2>3
<1>6. ~NoDesc.meta /\ ~NoDesc.last
  BY Zenon DEF NoDesc
<1> HIDE DEF r, s, x, y
<1>7. ~(s < Len(x)) => ~r.d.meta /\ ~r.d.last
  BY <1>1, <1>2, <1>5, <1>6, Zenon
<1> QED
  BY <1>1, <1>3, <1>5, <1>7, Zenon DEF r, s, x, y

\* The packet ena_tx_doorbell starts from, field by field.
LEMMA NoPktFields == NoPkt.slot = 0 /\ NoPkt.ndesc = 0 /\ NoPkt.have_meta = FALSE
BY Zenon DEF NoPkt

\* A parser at its first descriptor, or further on.
LEMMA WithinCases ==
    ASSUME NEW y \in Packet, NEW q \in Pkt, Within(y, q), q.slot < Len(y.shape)
    PROVE  \/ q.slot = 0 /\ q.ndesc = 0 /\ ~q.have_meta
           \/ /\ q.slot >= 1 /\ Begins(y.shape, q.slot)
              /\ q.have_meta = y.shape[1].meta /\ q.ndesc = q.slot - Metas(y.shape)
              /\ y.shape[1].meta => q.mss = y.shape[1].mss
              /\ q.slot > Metas(y.shape) =>
                   q.d0 = FirstBuffer(y.shape) /\ q.req_id = y.req_id
<1>0. y.shape \in Shapes /\ q.slot \in Nat
  BY Zenon DEF Packet, Pkt
<1>1. Len(y.shape) \in Nat
  BY <1>0, ShapeType, Zenon
<1>2. ~(q.slot > Len(y.shape))
  BY <1>0, <1>1
<1>3. q.slot \in 1..Len(y.shape) => q.slot >= 1
  BY <1>1
<1> QED
  BY <1>2, <1>3, NoPktFields, Zenon DEF Within

\* A meta descriptor begins its packet.
LEMMA ParseMetaWithin ==
    ASSUME Inv, Burst(fifo, head, tail, mem, buf, Size, Image), fifo # <<>>,
           Within(fifo[1], p), ParseMeta
    PROVE  Within(fifo[1], p')
<1> DEFINE y == fifo[1]
           x == y.shape
           s == p.slot
           d == ReadSlot(s).d
<1>0. Types /\ ParserInBounds /\ p \in Pkt /\ s \in Nat
  BY Zenon DEF Inv, Types, Pkt
<1>1. /\ SlotGood /\ d.meta
      /\ p' = [p EXCEPT !.slot = @ + 1, !.have_meta = TRUE, !.mss = d.mss]
  BY Zenon DEF ParseMeta
<1>2. /\ y \in Packet /\ x \in Shapes
      /\ s < Len(x) => ReadSlot(s) = [d |-> x[s + 1], req_id |-> y.req_id]
      /\ ~(s < Len(x)) => ~d.meta
  BY <1>0, <1>1, ParserAt, Zenon
<1>3. s < Len(x) /\ d = x[s + 1]
  BY <1>1, <1>2
<1>4. s = 0 /\ d.ext_valid
  BY <1>1, Zenon DEF SlotGood, ParseFails
<1>5. p.ndesc = 0
  <2>1. \/ p.slot = 0 /\ p.ndesc = 0 /\ ~p.have_meta
        \/ p.slot >= 1
    BY <1>0, <1>2, <1>3, WithinCases, Zenon
  <2> QED
    BY <1>4, <2>1
<1> DEFINE t == s + 1
           v == d.mss
<1>6. t = 1 /\ v = x[1].mss /\ x[1].meta /\ x[1].ext_valid
  BY <1>1, <1>3, <1>4
<1>7. p' = [p EXCEPT !.slot = t, !.have_meta = TRUE, !.mss = v]
  BY <1>1, Zenon
<1> HIDE DEF t, v, d, y, x
<1>8. p'.slot = 1 /\ p'.have_meta = TRUE /\ p'.mss = x[1].mss /\ p'.ndesc = 0
  BY <1>0, <1>5, <1>6, <1>7, Zenon DEF Pkt
<1>9. Begins(x, 1)
  BY <1>2, <1>6, PacketBegins, Zenon
<1>10. Metas(x) = 1 /\ 1 \in 1..Len(x) /\ ~(1 > 1) /\ 0 = 1 - 1 /\ x[1].meta = TRUE
  <2>1. Len(x) \in Nat \ {0} /\ x[1].meta \in BOOLEAN
    BY <1>2, ShapeHead, Zenon
  <2> QED
    BY <1>6, <2>1 DEF Metas
<1> QED
  BY <1>8, <1>9, <1>10, Zenon DEF Within, x, y

\* A buffer goes on with its packet, or ends it; a packet without an end goes on
\* into nothing.
LEMMA ParseDataWithin ==
    ASSUME Inv, Burst(fifo, head, tail, mem, buf, Size, Image), fifo # <<>>,
           Within(fifo[1], p), ParseData
    PROVE  /\ ~ReadSlot(p.slot).d.last => Within(fifo[1], p')
           /\ ReadSlot(p.slot).d.last =>
                /\ Whole(fifo[1], p')
                /\ p.have_meta <=> fifo[1].shape[1].meta
                /\ p.have_meta => p.mss = fifo[1].shape[1].mss
<1> DEFINE y == fifo[1]
           x == y.shape
           s == p.slot
           r == ReadSlot(s)
           d == r.d
           c == Metas(x)
<1>0. Types /\ ParserInBounds /\ p \in Pkt /\ s \in Nat /\ p.ndesc \in Nat
      /\ p.ndesc <= MaxPktDescs /\ MaxPktDescs \in Nat
  BY GeometryAssumption, Zenon DEF Inv, Types, Pkt, ParserInBounds
<1>1. /\ SlotGood /\ ~d.meta
      /\ p' = [p EXCEPT !.slot = @ + 1, !.ndesc = @ + 1,
                        !.d0 = IF p.ndesc = 0 THEN d ELSE @,
                        !.req_id = IF p.ndesc = 0 THEN r.req_id ELSE @]
  BY Zenon DEF ParseData
<1>2. /\ y \in Packet /\ x \in Shapes
      /\ s < Len(x) => r = [d |-> x[s + 1], req_id |-> y.req_id]
      /\ ~(s < Len(x)) => ~Ends(x) /\ ~d.last
  BY <1>0, <1>1, ParserAt, Zenon
<1>3. p.ndesc < MaxPktDescs /\ (p.ndesc # 0 \/ p.have_meta \/ d.first)
  BY <1>0, <1>1 DEF SlotGood, ParseFails
<1>4. /\ p'.slot = s + 1 /\ p'.ndesc = p.ndesc + 1 /\ p'.have_meta = p.have_meta
      /\ p'.mss = p.mss
      /\ p'.d0 = (IF p.ndesc = 0 THEN d ELSE p.d0)
      /\ p'.req_id = (IF p.ndesc = 0 THEN r.req_id ELSE p.req_id)
  <2> DEFINE s1 == s + 1
             n1 == p.ndesc + 1
             d1 == IF p.ndesc = 0 THEN d ELSE p.d0
             i1 == IF p.ndesc = 0 THEN r.req_id ELSE p.req_id
  <2>1. p' = [p EXCEPT !.slot = s1, !.ndesc = n1, !.d0 = d1, !.req_id = i1]
    BY <1>1, Zenon
  <2> HIDE DEF s1, n1, d1, i1
  <2>2. /\ p'.slot = s1 /\ p'.ndesc = n1 /\ p'.have_meta = p.have_meta /\ p'.mss = p.mss
        /\ p'.d0 = d1 /\ p'.req_id = i1
    BY <1>0, <2>1, Zenon DEF Pkt
  <2> QED
    BY <2>2, Zenon DEF s1, n1, d1, i1
<1>5. Len(x) \in Nat \ {0} /\ c \in {0, 1} /\ (c = 1 <=> x[1].meta) /\ x[1].meta \in BOOLEAN
  BY <1>2, ShapeHead, Zenon DEF c
<1>6. FirstBuffer(x) = x[c + 1]
  BY DEF FirstBuffer, Metas
<1> HIDE DEF c, x, y, r, d
<1>7. CASE ~(s < Len(x))
  <2>1. p'.slot = s + 1 /\ p'.ndesc = p.ndesc + 1 /\ Len(x) \in Nat
    BY <1>4, <1>5, Zenon
  <2>2. s \in Nat /\ p.ndesc \in Nat
    BY <1>0, Zenon
  <2>3. p'.slot > Len(x) /\ p'.ndesc > 0
    BY ONLY <1>7, <2>1, <2>2
  <2> QED
    BY <1>2, <1>7, <2>3, Zenon DEF Within, x, y, r, d
<1>8. CASE s < Len(x)
  <2>0. d = x[s + 1] /\ r.req_id = y.req_id
    BY ONLY <1>2, <1>8 DEF d
  <2>1. \/ s = 0 /\ p.ndesc = 0 /\ ~p.have_meta
        \/ /\ s >= 1 /\ Begins(x, s) /\ p.have_meta = x[1].meta /\ p.ndesc = s - c
           /\ x[1].meta => p.mss = x[1].mss
           /\ s > c => p.d0 = FirstBuffer(x) /\ p.req_id = y.req_id
    BY <1>0, <1>2, <1>8, WithinCases, Zenon DEF x, y, c
  <2>2. CASE s = 0
    <3>1. /\ ~x[1].meta /\ c = 0 /\ x[1].first /\ p.ndesc = 0 /\ ~p.have_meta /\ d = x[1]
          /\ FirstBuffer(x) = x[1]
      BY ONLY <1>1, <1>3, <1>5, <1>6, <2>0, <2>1, <2>2
    <3>2. /\ p'.slot = 1 /\ p'.ndesc = 1 /\ p'.have_meta = p.have_meta
          /\ p'.d0 = FirstBuffer(x) /\ p'.req_id = y.req_id
      BY ONLY <1>4, <2>0, <2>2, <3>1
    <3>3. /\ ~x[1].last => Begins(x, 1)
          /\ x[1].last => Len(x) = 1 /\ WellFormed(x)
      BY ONLY <1>2, <3>1, PacketBegins, Zenon
    <3>4. ASSUME ~d.last PROVE Within(y, p')
      <4>1. 1 \in 1..Len(x) /\ 1 = 1 - 0
        BY ONLY <1>5
      <4>2. p'.have_meta = x[1].meta
        <5>1. p.have_meta \in BOOLEAN
          BY ONLY <1>0, Zenon DEF Pkt
        <5> QED
          BY ONLY <1>5, <3>1, <3>2, <5>1, Zenon
      <4> QED
        BY <3>1, <3>2, <3>3, <3>4, <4>1, <4>2, Zenon DEF Within, c, x
    <3>5. ASSUME d.last PROVE Whole(y, p')
      BY ONLY <3>1, <3>2, <3>3, <3>5, Zenon DEF Whole, x
    <3> QED
      BY <3>1, <3>4, <3>5, Zenon DEF x, y, r, d
  <2>3. CASE s # 0
    <3>1. /\ s >= 1 /\ Begins(x, s) /\ p.have_meta = x[1].meta /\ p.ndesc = s - c
          /\ x[1].meta => p.mss = x[1].mss
          /\ s > c => p.d0 = FirstBuffer(x) /\ p.req_id = y.req_id
      BY <2>1, <2>3, Zenon
    <3>2. p'.slot = s + 1 /\ p'.ndesc = s + 1 - c /\ p'.ndesc <= MaxPktDescs
      <4>1. /\ p'.slot = s + 1 /\ p'.ndesc = p.ndesc + 1 /\ p.ndesc = s - c
            /\ p.ndesc < MaxPktDescs
        BY <1>3, <1>4, <3>1, Zenon
      <4>2. s \in Nat /\ c \in {0, 1} /\ p.ndesc \in Nat /\ MaxPktDescs \in Nat
        BY <1>0, <1>5, Zenon
      <4> QED
        BY ONLY <4>1, <4>2
    <3>3. p'.d0 = FirstBuffer(x) /\ p'.req_id = y.req_id
      <4>1. CASE s = c
        <5>1. p.ndesc = 0 /\ d = FirstBuffer(x)
          BY ONLY <1>0, <1>5, <1>6, <2>0, <3>1, <4>1
        <5> QED
          BY ONLY <1>4, <2>0, <5>1, Zenon
      <4>2. CASE s # c
        <5>1. p.ndesc # 0 /\ s > c
          BY ONLY <1>0, <1>5, <3>1, <4>2
        <5> QED
          BY ONLY <1>4, <3>1, <5>1, Zenon
      <4> QED
        BY ONLY <4>1, <4>2, Zenon
    <3>4. /\ ~x[s + 1].last => Begins(x, s + 1)
          /\ x[s + 1].last => Len(x) = s + 1 /\ WellFormed(x)
      <4>1. s + 1 - Metas(x) <= MaxPktDescs
        BY ONLY <3>2, Zenon DEF c
      <4> QED
        BY ONLY <1>0, <1>1, <1>2, <1>8, <2>0, <3>1, <4>1, PacketGoesOn, Zenon
    <3>5. ASSUME ~d.last PROVE Within(y, p')
      <4>1. s + 1 \in 1..Len(x)
        BY ONLY <1>0, <1>5, <1>8
      <4>2. p'.have_meta = x[1].meta /\ (x[1].meta => p'.mss = x[1].mss)
        BY ONLY <1>4, <3>1, Zenon
      <4>3. Begins(x, s + 1)
        BY ONLY <2>0, <3>4, <3>5, Zenon
      <4>4. p'.slot \in 1..Len(x) /\ Begins(x, p'.slot)
        <5>1. p'.slot = s + 1
          BY ONLY <3>2, Zenon
        <5> QED
          BY <4>1, <4>3, <5>1, Zenon
      <4>5. p'.ndesc = p'.slot - c
        BY ONLY <1>0, <1>5, <3>2
      <4> QED
        BY <3>3, <4>2, <4>4, <4>5, Zenon DEF Within, c, x
    <3>6. ASSUME d.last PROVE Whole(y, p')
      BY ONLY <2>0, <3>2, <3>3, <3>4, <3>6, Zenon DEF Whole, x
    <3> QED
      BY <3>1, <3>5, <3>6, Zenon DEF x, y, r, d
  <2> QED
    BY <2>2, <2>3, Zenon
<1> QED
  BY <1>7, <1>8, Zenon

\* ena_tx_parse does not give up on a well-formed packet.
LEMMA GoodPacket ==
    ASSUME Inv, Burst(fifo, head, tail, mem, buf, Size, Image), fifo # <<>>,
           Within(fifo[1], p), WellFormed(fifo[1].shape)
    PROVE  SlotGood
<1> DEFINE y == fifo[1]
           x == y.shape
           s == p.slot
           c == Metas(x)
<1>0. Types /\ p \in Pkt /\ s \in Nat
  BY Zenon DEF Inv, Types, Pkt
<1>1. /\ y \in Packet
      /\ s < Len(x) => SlotPosted(s) /\ ReadSlot(s) = [d |-> x[s + 1], req_id |-> y.req_id]
  BY <1>0, OldestRead, Zenon
<1>2. x \in Shapes
  BY ONLY <1>1, Zenon DEF Packet
<1>3. Len(x) \in Nat \ {0} /\ MaxPktDescs \in Nat
  BY ONLY <1>2, ShapeType, GeometryAssumption, Zenon
<1>4. Ends(x) /\ ~Begins(x, Len(x))
  BY <1>2, PacketEnds, Zenon
<1>5. c \in {0, 1} /\ (c = 1 <=> x[1].meta)
  BY <1>2, ShapeHead, Zenon DEF c
<1>6. /\ x[1].meta => x[1].ext_valid
      /\ \A i \in 2..Len(x) : ~x[i].meta
      /\ Len(x) - c \in 1..MaxPktDescs
      /\ x[1].meta \/ x[1].first
  BY Zenon DEF WellFormed, Metas
<1>7. s < Len(x)
  <2>1. CASE p = NoPkt
    BY ONLY <1>3, <2>1, NoPktFields
  <2>2. CASE p # NoPkt
    <3>1. s \in 1..Len(x) /\ Begins(x, s)
      BY <1>4, <2>2, Zenon DEF Within
    <3>2. s # Len(x)
      BY ONLY <1>4, <3>1, Zenon
    <3> QED
      BY ONLY <1>0, <1>3, <3>1, <3>2
  <2> QED
    BY ONLY <2>1, <2>2, Zenon
<1>8. \/ s = 0 /\ p.ndesc = 0 /\ ~p.have_meta
      \/ s >= 1 /\ p.have_meta = x[1].meta /\ p.ndesc = s - c
  BY <1>0, <1>1, <1>7, WithinCases, Zenon
<1> HIDE DEF s, c, x
<1>9. s <= MaxPktDescs
  BY ONLY <1>0, <1>3, <1>5, <1>6, <1>7
<1>10. x[s + 1].meta => s = 0 /\ x[s + 1].ext_valid
  <2>1. CASE s = 0
    BY ONLY <1>6, <2>1
  <2>2. CASE s # 0
    <3>1. s + 1 \in 2..Len(x)
      BY ONLY <1>0, <1>3, <1>7, <2>2
    <3> QED
      BY ONLY <1>6, <3>1, Zenon
  <2> QED
    BY ONLY <2>1, <2>2, Zenon
<1>11. ~x[s + 1].meta => p.ndesc # 0 \/ p.have_meta \/ x[s + 1].first
  <2>1. CASE s = 0
    BY ONLY <1>6, <2>1
  <2>2. CASE s # 0
    BY ONLY <1>0, <1>5, <1>8, <2>2
  <2> QED
    BY ONLY <2>1, <2>2, Zenon
<1>12. p.ndesc # MaxPktDescs \/ x[s + 1].meta
  <2>1. CASE s = 0
    <3>1. p.ndesc = 0 /\ MaxPktDescs # 0
      BY ONLY <1>8, <2>1, GeometryAssumption
    <3> QED
      BY ONLY <3>1, Zenon
  <2>2. CASE s # 0
    <3>1. p.ndesc = s - c
      BY ONLY <1>8, <2>2, Zenon
    <3> QED
      BY ONLY <1>0, <1>3, <1>5, <1>6, <1>7, <3>1
  <2> QED
    BY ONLY <2>1, <2>2, Zenon
<1>13. ReadSlot(s).d = x[s + 1] /\ SlotPosted(s)
  BY ONLY <1>1, <1>7
<1>14. ~ParseFails(ReadSlot(s).d)
  BY <1>10, <1>11, <1>12, <1>13, Zenon DEF ParseFails, s
<1> QED
  BY ONLY <1>9, <1>13, <1>14, Zenon DEF SlotGood, s

-----------------------------------------------------------------------------
(* The steps and the packets. *)

\* The packets of both queues lie where they should.
Lie == /\ Burst(fifo, head, tail, mem, buf, Size, Image)
       /\ Burst(posted, tail, pi, mem, buf, Size, Image)

\* A new pair of queues holds no packets.
LEMMA LieEmpty ==
    /\ head = 0 /\ tail = 0 /\ pi = 0 /\ fifo = <<>> /\ posted = <<>> => Lie
<1>1. 0 \in Index
  BY TxSizes DEF Index
<1> QED
  BY ONLY <1>1, NoBurst, Zenon DEF Lie

\* The invariant holds at the start.
LEMMA InitIntact == Init => Intact
<1> SUFFICES ASSUME Init PROVE Intact
  BY Zenon
<1>1. Lie
  BY LieEmpty, Zenon DEF Init
<1>2. Progress
  BY Zenon DEF Init, Progress
<1> QED
  BY <1>1, <1>2, Zenon DEF Intact, Lie

\* What a step leaves alone.
LEMMA LieSame ==
    ASSUME Lie, UNCHANGED <<llq, head, tail, pi, mem, buf, fifo, posted>>
    PROVE  Lie'
<1>1. Size' = Size /\ Image' = Image
  BY SameLayout, Zenon
<1> QED
  BY <1>1, Zenon DEF Lie

\* The doorbell hands the posted packets over.
LEMMA DoorbellIntact ==
    ASSUME Inv, Intact, Doorbell
    PROVE  Intact'
<1>0. Lie /\ Progress /\ head \in Index /\ tail \in Index /\ pi \in Index
  BY Zenon DEF Intact, Lie, Inv, Types
<1>1. /\ pc = "idle" /\ pc' = "loop" /\ tail' = pi /\ fifo' = fifo \o posted
      /\ posted' = <<>>
      /\ UNCHANGED <<llq, head, meta, p, mem, buf, pi, sent, stuck>>
  BY Zenon DEF Doorbell, guest
<1>2. fifo = <<>> /\ p = NoPkt /\ meta = stuck
  BY <1>0, <1>1, Zenon DEF Progress
<1>3. Size' = Size /\ Image' = Image /\ Sized(Size)
  BY <1>1, SameLayout, SizeType, Zenon
<1>4. head = tail
  <2>1. Dist(head, tail) = 0
    BY <1>0, <1>2, <1>3, BurstEmpty, Zenon DEF Lie
  <2> QED
    BY <1>0, <2>1, DistCases, TxSizes DEF Index
<1>5. fifo' = posted
  <2>1. posted \in Seq(Packet)
    BY <1>0, Zenon DEF Lie, Burst
  <2> QED
    BY <1>1, <1>2, <2>1
<1>6. Lie'
  <2>1. Burst(posted, head, pi, mem, buf, Size, Image)
    BY <1>0, <1>4, Zenon DEF Lie
  <2>2. Burst(<<>>, pi, pi, mem, buf, Size, Image)
    BY <1>0, NoBurst, Zenon
  <2> QED
    BY <1>1, <1>3, <1>5, <2>1, <2>2, Zenon DEF Lie
<1>7. Progress'
  BY <1>1, <1>2, Zenon DEF Progress
<1> QED
  BY <1>6, <1>7, Zenon DEF Intact, Lie

\* The loop goes on while there are packets.
LEMMA NextPacketIntact ==
    ASSUME Inv, Intact, NextPacket
    PROVE  Intact'
<1>0. Lie /\ Progress /\ head \in Index /\ tail \in Index
  BY Zenon DEF Intact, Lie, Inv, Types
<1>1. /\ pc = "loop" /\ pc' = (IF head # tail THEN "parse" ELSE "idle")
      /\ UNCHANGED <<llq, head, tail, meta, p, mem, buf, pi, posted, fifo, sent, stuck>>
  BY Zenon DEF NextPacket, guest, sq
<1>2. p = NoPkt /\ meta = stuck
  BY <1>0, <1>1, Zenon DEF Progress
<1>3. fifo = <<>> <=> head = tail
  <2>1. fifo = <<>> <=> Dist(head, tail) = 0
    BY <1>0, SizeType, BurstEmpty, Zenon DEF Lie
  <2> QED
    BY <1>0, <2>1, DistCases, TxSizes DEF Index
<1>4. Lie'
  BY <1>0, <1>1, LieSame, Zenon
<1>5. Progress'
  BY <1>1, <1>2, <1>3, Zenon DEF Progress, Within
<1> QED
  BY <1>4, <1>5, Zenon DEF Intact, Lie

\* The parser takes a descriptor.
LEMMA ParseIntact ==
    ASSUME Inv, Intact, ParseMeta \/ ParseData
    PROVE  Intact'
<1>0. Lie /\ Progress /\ Burst(fifo, head, tail, mem, buf, Size, Image)
  BY Zenon DEF Intact, Lie
<1>1. /\ pc = "parse"
      /\ UNCHANGED <<llq, head, tail, mem, buf, pi, posted, fifo, sent, stuck>>
  BY Zenon DEF ParseMeta, ParseData, guest, sq
<1>2. fifo # <<>> /\ Within(fifo[1], p) /\ meta = stuck
  BY <1>0, <1>1, Zenon DEF Progress
<1>3. Lie'
  BY <1>0, <1>1, LieSame, Zenon
<1>4. CASE ParseMeta
  <2>1. Within(fifo[1], p')
    BY <1>0, <1>2, <1>4, ParseMetaWithin, Zenon
  <2>2. pc' = "parse" /\ meta' = meta
    BY <1>1, <1>4, Zenon DEF ParseMeta, sq
  <2>3. Progress'
    BY <1>1, <1>2, <2>1, <2>2, Zenon DEF Progress
  <2> QED
    BY <1>3, <2>3, Zenon DEF Intact, Lie
<1>5. CASE ParseData
  <2> DEFINE l == ReadSlot(p.slot).d.last
  <2>1. pc' = (IF l THEN "xmit" ELSE "parse") /\ meta' = IF l /\ p.have_meta THEN p.mss ELSE meta
    BY <1>5, Zenon DEF ParseData, MetaOf
  <2>2. /\ ~l => Within(fifo[1], p')
        /\ l => /\ Whole(fifo[1], p')
                /\ p.have_meta <=> fifo[1].shape[1].meta
                /\ p.have_meta => p.mss = fifo[1].shape[1].mss
    BY <1>0, <1>2, <1>5, ParseDataWithin, Zenon
  <2> HIDE DEF l
  <2>3. CASE l
    <3>1. pc' = "xmit" /\ meta' = MssOf(fifo[1], stuck)
      BY <1>2, <2>1, <2>2, <2>3, Zenon DEF MssOf
    <3>2. Progress'
      BY <1>1, <1>2, <2>2, <2>3, <3>1, Zenon DEF Progress
    <3> QED
      BY <1>3, <3>2, Zenon DEF Intact, Lie
  <2>4. CASE ~l
    <3>1. Progress'
      BY <1>1, <1>2, <2>1, <2>2, <2>4, Zenon DEF Progress
    <3> QED
      BY <1>3, <3>1, Zenon DEF Intact, Lie
  <2> QED
    BY <2>3, <2>4, Zenon
<1> QED
  BY <1>4, <1>5, Zenon

\* A malformed burst is dropped; the posted packets stay where they are.
LEMMA DiscardIntact ==
    ASSUME Inv, Intact, Discard
    PROVE  Intact'
<1>0. Lie /\ Progress /\ tail \in Index
  BY Zenon DEF Intact, Lie, Inv, Types
<1>1. /\ pc = "parse" /\ head' = tail /\ fifo' = <<>> /\ pc' = "idle" /\ p' = NoPkt
      /\ UNCHANGED <<llq, tail, meta, mem, buf, pi, posted, stuck>>
  BY Zenon DEF Discard, guest
<1>2. Size' = Size /\ Image' = Image
  BY <1>1, SameLayout, Zenon
<1>3. Burst(<<>>, tail, tail, mem, buf, Size, Image)
  BY <1>0, NoBurst, Zenon
<1>4. Lie'
  BY <1>0, <1>1, <1>2, <1>3, Zenon DEF Lie
<1>5. Progress'
  BY <1>0, <1>1, Zenon DEF Progress
<1> QED
  BY <1>4, <1>5, Zenon DEF Intact, Lie

\* ena_tx_xmit finds the header and the buffers of the packet.
LEMMA XmitIntact ==
    ASSUME Inv, Intact, Xmit
    PROVE  Intact'
<1>0. /\ Lie /\ Progress /\ head \in Index /\ tail \in Index /\ head \in Int
      /\ Burst(fifo, head, tail, mem, buf, Size, Image)
  BY TxSizes DEF Intact, Lie, Inv, Types, Index
<1>1. /\ pc = "xmit" /\ pc' = "complete"
      /\ stuck' = (IF Head(fifo).shape[1].meta THEN Head(fifo).shape[1].mss ELSE stuck)
      /\ UNCHANGED <<llq, head, tail, meta, p, mem, buf, pi, posted, fifo>>
  BY Zenon DEF Xmit, guest, sq
<1>2. sent'.buf = buf[head % SqDepth]
  BY ONLY Xmit DEF Xmit
<1>3. fifo # <<>> /\ Whole(fifo[1], p) /\ meta = MssOf(fifo[1], stuck)
  BY <1>0, <1>1, Zenon DEF Progress
<1>4. Head(fifo) = fifo[1]
  <2>1. fifo \in Seq(Packet)
    BY <1>0, Zenon DEF Burst
  <2> QED
    BY <1>3, <2>1
<1>5. buf[head % SqDepth] = fifo[1].req_id
  <2>1. Sized(Size)
    BY SizeType, Zenon
  <2>2. Lies(fifo[1], head, 0, mem, buf, Size, Image)
    BY <1>0, <1>3, <2>1, BurstFirst, Zenon
  <2>3. head + 0 = head
    BY <1>0
  <2> QED
    BY <2>2, <2>3, Zenon DEF Lies, Place
<1>6. Lie'
  BY <1>0, <1>1, LieSame, Zenon
<1>7. meta' = stuck'
  BY <1>1, <1>3, <1>4, Zenon DEF MssOf
<1>8. Progress'
  BY <1>1, <1>2, <1>3, <1>5, <1>7, Zenon DEF Progress
<1> QED
  BY <1>6, <1>8, Zenon DEF Intact, Lie

\* The head moves past the packet.
LEMMA CompleteIntact ==
    ASSUME Inv, Intact, Complete
    PROVE  Intact'
<1>0. /\ Lie /\ Progress /\ Types /\ head \in Index /\ tail \in Index
      /\ Burst(fifo, head, tail, mem, buf, Size, Image)
  BY Zenon DEF Intact, Lie, Inv, Types
<1>1. /\ pc = "complete" /\ pc' = "loop" /\ head' = (head + PktEntries(p.slot)) % W
      /\ fifo' = Tail(fifo) /\ p' = NoPkt
      /\ UNCHANGED <<llq, tail, meta, mem, buf, pi, posted, stuck>>
  BY Zenon DEF Complete, guest
<1>2. fifo # <<>> /\ Whole(fifo[1], p) /\ meta = stuck
  BY <1>0, <1>1, Zenon DEF Progress
<1>3. Size' = Size /\ Image' = Image /\ Sized(Size)
  BY <1>1, SameLayout, SizeType, Zenon
<1>4. PktEntries(p.slot) = Size[Len(fifo[1].shape)]
  <2>1. p.slot = Len(fifo[1].shape)
    BY <1>2, Zenon DEF Whole
  <2>2. 0 \in Nat
    BY Zenon
  <2>3. PktEntries(Len(fifo[1].shape)) = Size[Len(fifo[1].shape)]
    BY <1>0, <1>2, <2>2, OldestRead, Zenon
  <2> QED
    BY <2>1, <2>3, Zenon
<1>5. Burst(Tail(fifo), (head + Size[Len(fifo[1].shape)]) % W, tail, mem, buf, Size, Image)
  BY <1>0, <1>2, <1>3, BurstLess, Zenon
<1>6. Lie'
  BY <1>0, <1>1, <1>3, <1>4, <1>5, Zenon DEF Lie
<1>7. Progress'
  BY <1>1, <1>2, Zenon DEF Progress
<1> QED
  BY <1>6, <1>7, Zenon DEF Intact, Lie

\* The guest writes behind what it has posted.
LEMMA PostIntact ==
    ASSUME Inv, Control, Intact, NEW x \in Shapes, NEW id \in ReqIds, Post(x, id)
    PROVE  Intact'
<1> DEFINE y == [shape |-> x, req_id |-> id]
           n == GuestEntries(Len(x))
<1>0. /\ Types /\ EntriesInOrder /\ Progress
      /\ head \in Index /\ tail \in Index /\ pi \in Index /\ clean \in Index
      /\ Burst(fifo, head, tail, mem, buf, Size, Image)
      /\ Burst(posted, tail, pi, mem, buf, Size, Image)
  BY Zenon DEF Intact, Inv, Types
<1>1. /\ Dist(clean, pi) + n <= SqDepth
      /\ posted # <<>> => Ends(posted[Len(posted)].shape)
      /\ pi' = (pi + n) % W
      /\ posted' = Append(posted, y)
      /\ UNCHANGED <<llq, head, tail, meta, pc, p, fifo, sent, stuck>>
  BY Zenon DEF Post, sq
<1>2. /\ y \in Packet
      /\ \A a \in Index : Dist(a, pi) + n <= SqDepth =>
           \A i \in 0..(Dist(a, pi) - 1) : /\ mem'[Place(a, i)] = mem[Place(a, i)]
                                           /\ buf'[Place(a, i)] = buf[Place(a, i)]
      /\ Lies(y, pi, 0, mem', buf', Size, Image)
  BY <1>0, PostWrites, Zenon
<1>3. Sized(Size) /\ Size' = Size /\ Image' = Image /\ Size[Len(y.shape)] = n /\ n \in Nat \ {0}
  <2>1. y.shape = x
    BY Zenon
  <2>2. Size[Len(y.shape)] = GuestEntries(Len(y.shape)) /\ Size[Len(y.shape)] \in Nat \ {0}
    BY <1>2, SizeType, Zenon DEF Sized
  <2> QED
    BY <1>1, <2>1, <2>2, SameLayout, SizeType, Zenon
<1> HIDE DEF n, y
<1>4. /\ Dist(clean, head) \in Nat /\ Dist(head, tail) \in Nat /\ Dist(tail, pi) \in Nat
      /\ W \in Nat /\ SqDepth \in Nat /\ SqDepth < W
      /\ Dist(clean, head) + Dist(head, tail) + Dist(tail, pi) <= SqDepth
  BY <1>0, Parts DEF Index, EntriesInOrder
<1>5. Dist(head, pi) = Dist(head, tail) + Dist(tail, pi)
  <2>1. Dist(head, tail) + Dist(tail, pi) < W
    BY <1>4
  <2> QED
    BY <1>0, <2>1, DistSum
<1>6. Dist(clean, pi) = Dist(clean, head) + Dist(head, pi)
  <2>1. Dist(clean, head) + Dist(head, pi) < W
    BY <1>4, <1>5
  <2> QED
    BY <1>0, <2>1, DistSum
<1>7. Dist(head, pi) + n <= SqDepth /\ Dist(tail, pi) + n <= SqDepth
  BY ONLY <1>1, <1>3, <1>4, <1>5, <1>6
<1>8. Burst(fifo, head, tail, mem', buf', Size, Image)
  <2>1. \A i \in 0..(Dist(head, tail) - 1) : i \in 0..(Dist(head, pi) - 1)
    BY <1>4, <1>5
  <2>2. \A i \in 0..(Dist(head, tail) - 1) : /\ mem'[Place(head, i)] = mem[Place(head, i)]
                                             /\ buf'[Place(head, i)] = buf[Place(head, i)]
    BY <1>0, <1>2, <1>7, <2>1, Zenon
  <2> QED
    BY <1>0, <1>3, <2>2, BurstKept, Zenon
<1>9. Burst(posted, tail, pi, mem', buf', Size, Image)
  <2>1. \A i \in 0..(Dist(tail, pi) - 1) : /\ mem'[Place(tail, i)] = mem[Place(tail, i)]
                                           /\ buf'[Place(tail, i)] = buf[Place(tail, i)]
    BY <1>0, <1>2, <1>7, Zenon
  <2> QED
    BY <1>0, <1>3, <2>1, BurstKept, Zenon
<1>10. Burst(Append(posted, y), tail, (pi + n) % W, mem', buf', Size, Image)
  <2>1. Dist(tail, pi) + Size[Len(y.shape)] < W
    BY <1>3, <1>4, <1>7
  <2>2. Burst(Append(posted, y), tail, (pi + Size[Len(y.shape)]) % W, mem', buf', Size, Image)
    BY <1>0, <1>1, <1>2, <1>3, <1>9, <2>1, BurstMore, Zenon
  <2> QED
    BY <1>3, <2>2, Zenon
<1>11. Progress'
  BY <1>0, <1>1, Zenon DEF Progress
<1> QED
  BY <1>1, <1>3, <1>8, <1>10, <1>11, Zenon DEF Intact

\* Every step preserves the invariant.
LEMMA NextIntact == Inv /\ Control /\ Intact /\ [Next]_vars => Intact'
<1> SUFFICES ASSUME Inv, Control, Intact, [Next]_vars PROVE Intact'
  BY Zenon
<1>1. CASE Doorbell
  BY <1>1, DoorbellIntact, Zenon
<1>2. CASE NextPacket
  BY <1>2, NextPacketIntact, Zenon
<1>3. CASE ParseMeta \/ ParseData
  BY <1>3, ParseIntact, Zenon
<1>4. CASE Discard
  BY <1>4, DiscardIntact, Zenon
<1>5. CASE Xmit
  BY <1>5, XmitIntact, Zenon
<1>6. CASE Complete
  BY <1>6, CompleteIntact, Zenon
<1>7. CASE Recreate
  <2>1. /\ pc = "idle" /\ meta' = stuck' /\ fifo' = <<>> /\ posted' = <<>>
        /\ head' = 0 /\ tail' = 0 /\ pi' = 0 /\ UNCHANGED <<pc, p>>
    BY <1>7, Zenon DEF Recreate
  <2>2. 0 \in Index
    BY TxSizes DEF Index
  <2>3. Burst(<<>>, 0, 0, mem', buf', Size', Image')
    BY <2>2, NoBurst, Zenon
  <2>4. Progress'
    BY <2>1, Zenon DEF Progress, Intact
  <2> QED
    BY <2>1, <2>3, <2>4, Zenon DEF Intact
<1>8. CASE \E x \in Shapes, id \in ReqIds : Post(x, id)
  BY <1>8, PostIntact, Zenon
<1>9. CASE Reap
  <2>1. UNCHANGED <<llq, head, tail, pi, mem, buf, fifo, posted, pc, p, meta, stuck, sent>>
    BY <1>9, Zenon DEF Reap, sq
  <2>2. Lie'
    BY <2>1, LieSame, Zenon DEF Intact, Lie
  <2>3. Progress'
    BY <2>1, Zenon DEF Progress, Intact
  <2> QED
    BY <2>2, <2>3, Zenon DEF Intact, Lie
<1>10. CASE UNCHANGED vars
  <2>1. UNCHANGED <<llq, head, tail, pi, mem, buf, fifo, posted, pc, p, meta, stuck, sent>>
    BY <1>10, Zenon DEF vars, sq, guest
  <2>2. Lie'
    BY <2>1, LieSame, Zenon DEF Intact, Lie
  <2>3. Progress'
    BY <2>1, Zenon DEF Progress, Intact
  <2> QED
    BY <2>2, <2>3, Zenon DEF Intact, Lie
<1> QED
  BY <1>1, <1>2, <1>3, <1>4, <1>5, <1>6, <1>7, <1>8, <1>9, <1>10, Zenon DEF Next, Handler

\* What is in force in every reachable state.
LEMMA TxInvariant == Spec => [](Inv /\ Intact)
<1>1. Init => Inv /\ Control /\ Intact
  BY InitInv, InitControl, InitIntact, Zenon
<1>2. Inv /\ Control /\ Intact /\ [Next]_vars => (Inv /\ Control /\ Intact)'
  BY NextInv, NextControl, NextIntact, Zenon
<1> QED
  BY <1>1, <1>2, PTL DEF Spec

\* The loop of ena_tx_parse accepts the well-formed packets and no others, where
\* the guest laid them, for every depth, LLQ geometry and set of packets.
THEOREM PacketsParsed == Spec => []ParseCorrect
<1>1. Inv /\ Intact => ParseCorrect
  <2> SUFFICES ASSUME Inv, Intact PROVE ParseCorrect
    BY Zenon
  <2>1. Burst(fifo, head, tail, mem, buf, Size, Image) /\ Progress /\ Types
    BY Zenon DEF Intact, Inv
  <2>2. fifo # <<>> => Head(fifo) = fifo[1]
    <3>1. fifo \in Seq(Packet)
      BY <2>1, Zenon DEF Burst
    <3> QED
      BY <3>1
  <2>3. ASSUME pc \in {"xmit", "complete"}
        PROVE  /\ fifo # <<>> /\ Whole(fifo[1], p)
               /\ PktEntries(p.slot) = GuestEntries(Len(fifo[1].shape))
    <3>1. fifo # <<>> /\ Whole(fifo[1], p)
      BY <2>1, <2>3, Zenon DEF Progress
    <3>2. 0 \in Nat
      BY Zenon
    <3>3. PktEntries(Len(fifo[1].shape)) = GuestEntries(Len(fifo[1].shape))
      BY <2>1, <3>1, <3>2, OldestRead, Zenon
    <3> QED
      BY <3>1, <3>3, Zenon DEF Whole
  <2>4. ASSUME pc = "parse", ~SlotGood
        PROVE  fifo # <<>> /\ ~WellFormed(fifo[1].shape)
    <3>1. fifo # <<>> /\ Within(fifo[1], p)
      BY <2>1, <2>4, Zenon DEF Progress
    <3> QED
      BY <2>1, <2>4, <3>1, GoodPacket, Zenon
  <2> QED
    BY <2>2, <2>3, <2>4, Zenon DEF ParseCorrect, Whole
<1> QED
  BY <1>1, TxInvariant, PTL

\* ena_tx_xmit sends the header and the buffers as the guest had them at Post,
\* with the metadata of the last packet that had any.
THEOREM PacketsSentIntact == Spec => []SentIntact
<1>1. Inv /\ Intact => SentIntact
  <2> SUFFICES ASSUME Inv, Intact PROVE SentIntact
    BY Zenon
  <2>1. Burst(fifo, head, tail, mem, buf, Size, Image) /\ Progress
    BY Zenon DEF Intact
  <2>2. fifo # <<>> => Head(fifo) = fifo[1]
    <3>1. fifo \in Seq(Packet)
      BY <2>1, Zenon DEF Burst
    <3> QED
      BY <3>1
  <2> QED
    BY <2>1, <2>2, Zenon DEF SentIntact, Progress
<1> QED
  BY <1>1, TxInvariant, PTL
=============================================================================
