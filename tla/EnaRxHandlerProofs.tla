------------------------- MODULE EnaRxHandlerProofs -------------------------
(***************************************************************************)
(* The receive path, first part: the inductive invariant, what the rings   *)
(* and the set of buffers are worth to it, and that ena_rx_receive_iov and *)
(* the net layer keep it.  It counts buffers: those the device may take,   *)
(* those of unread completions and those the guest has are different ones, *)
(* so there is room for every completion and nothing is written before the *)
(* guest gives it back.  EnaRxProofs has the rest and the theorems.        *)
(***************************************************************************)
EXTENDS EnaRx, RingOpsProofs

\* A completion with the chunk it announces.
Note == [cdesc : Cdesc, chunk : Chunk]

\* The ids and the descriptors of the completions in f.
Ids(f) == [k \in DOMAIN f |-> f[k].cdesc.req_id]
Cdescs(f) == [k \in DOMAIN f |-> f[k].cdesc]

\* The handler works on queue q, and has written that many completions.
Busy(q) == rx # Idle /\ rx.q = q
Done(q) == IF Busy(q) THEN rx.i - 1 ELSE 0

\* Where the device takes the next buffer of q, and how many are left there.
Front(q) == sq[q].head + Done(q)
Count(from, to) == (to - from) % W

Shape ==
    /\ sq \in [Qs -> [used : BOOLEAN, head : 0..(W - 1), tail : 0..(W - 1)]]
    /\ cq \in [Qs -> Position] /\ driver \in [Qs -> Position]
    /\ sring \in [Qs -> [Slots -> Desc \cup {BlankDesc}]]
    /\ cring \in [Qs -> [Slots -> [phase : BOOLEAN, data : Cdesc \cup {Nothing}]]]
    /\ mem \in [Qs -> [Slots -> Chunk \cup {Nothing}]]
    /\ tail \in [Qs -> 0..(W - 1)] /\ bad \subseteq Qs /\ free \in [Qs -> SUBSET Slots]
    /\ fifo \in [Qs -> Seq(Note)] /\ prev \in [Qs -> Seq(Note)]

\* The net layer and the counters.
Counts ==
    /\ held \in Seq(Frames) /\ Len(held) <= MaxHeld /\ flushing \in BOOLEAN
    /\ rx_pkts \in Nat /\ rx_drops \in Nat /\ filtered \in Nat
    /\ arrived \in Nat /\ arrived <= MaxArrivals
    /\ flushing => held # <<>>
    /\ rx # Idle /\ held # <<>> => flushing
    /\ FramesAccounted

\* The ring from position from up to position to names buffers of size b, each
\* with a descriptor that is good if clean; those, the ones in owed and the ones
\* in mine are different buffers, and all there are if clean.
Buffers(from, to, ring, owed, mine, clean, b) ==
    LET n == Count(from, to)
        id(k) == ring[(from + k) % Depth].req_id
    IN /\ n + Len(owed) + Cardinality(mine) <= Depth
       /\ clean => n + Len(owed) + Cardinality(mine) = Depth
       /\ \A k \in 0..(n - 1) :
            /\ ring[(from + k) % Depth] \in Desc
            /\ ring[(from + k) % Depth].size = b
            /\ clean => ring[(from + k) % Depth].ok
            /\ id(k) \notin mine
            /\ \A j \in 0..(n - 1) : id(j) = id(k) => j = k
            /\ \A j \in 1..Len(owed) : owed[j] # id(k)
       /\ \A k \in 1..Len(owed) :
            /\ owed[k] \notin mine
            /\ \A j \in 1..Len(owed) : owed[j] = owed[k] => j = k

\* The submission side of queue q.
Submission(q) ==
    /\ Buffers(Front(q), tail[q], sring[q], Ids(fifo[q]), free[q], q \notin bad, BufSize[q])
    /\ Avail(q) <= Done(q) + Count(Front(q), tail[q])
    /\ ~sq[q].used => sq[q].head = 0 /\ sq[q].tail = 0

\* The completion side of queue q.
Completion(q) == Holds(cring[q], cq[q], driver[q], Cdescs(fifo[q]))

\* A completion says truly which part of the frame it is for.
NoteTrue(x) ==
    /\ x.cdesc.first <=> x.chunk.off = 0
    /\ x.cdesc.last <=> x.chunk.off + x.chunk.len = x.chunk.frame.len

\* Completion y follows x.
Follows(x, y) ==
    y.chunk.off = IF x.cdesc.last THEN 0 ELSE x.chunk.off + x.chunk.len

\* The completions in s, the last one being unfinished only if the handler goes
\* on where it ends.
Chain(s, busy, off) ==
    /\ \A k \in 1..Len(s) : NoteTrue(s[k])
    /\ \A k \in 1..(Len(s) - 1) : Follows(s[k], s[k + 1])
    /\ s # <<>> =>
         LET x == s[Len(s)] IN x.cdesc.last \/ (busy /\ off = x.chunk.off + x.chunk.len)

\* The buffers and frames of queue q.
Delivery(q) ==
    /\ \A k \in 1..Len(fifo[q]) : mem[q][fifo[q][k].cdesc.req_id] = fifo[q][k].chunk
    /\ Len(prev[q]) <= 1
    /\ Chain(prev[q] \o fifo[q], Busy(q), rx.off)

\* The frame being received has the buffers it needs, no more, and the
\* descriptors still to be filled are as they were copied.
Handler ==
    rx # Idle =>
        LET q == rx.q
            n == Len(rx.desc)
            b == BufSize[rx.q]
            s == prev[rx.q] \o fifo[rx.q]
        IN /\ rx \in [pc : {"dma", "push"}, q : Qs, frame : Frames, off : Nat, i : Nat,
                      desc : Seq(Desc)]
           /\ sq[q].used /\ n <= Avail(q) /\ rx.i \in 1..n
           /\ rx.off = (rx.i - 1) * b
           /\ (n - 1) * b < rx.frame.len /\ rx.frame.len <= n * b
           /\ \A k \in rx.i..n : rx.desc[k] = At(q, k - 1)
           /\ rx.pc = "push" => mem[q][rx.desc[rx.i].req_id] =
                [frame |-> rx.frame, off |-> rx.off,
                 len |-> Piece(rx.desc[rx.i], rx.frame.len - rx.off)]
           /\ rx.i = 1 <=> (s = <<>> \/ s[Len(s)].cdesc.last)

Queues == \A q \in Qs : Submission(q) /\ Completion(q) /\ Delivery(q)

\* The inductive invariant.
Inv == Shape /\ Counts /\ Handler /\ Queues

-----------------------------------------------------------------------------
(* The positions of the submission ring. *)

\* Two positions less than a lap apart have different slots.
LEMMA Apart ==
    ASSUME NEW a \in Int, NEW j \in Int, NEW k \in Int, j # k,
           j - k < Depth, k - j < Depth
    PROVE  (a + j) % Depth # (a + k) % Depth
<1> DEFINE x == a + j
           y == a + k
<1>1. x \in Int /\ y \in Int /\ (x < y \/ y < x) /\ x - y < Depth /\ y - x < Depth
  BY RingSizes
<1> HIDE DEF x, y
<1>2. Depth \in Nat \ {0}
  BY RingSizes, Zenon
<1>3. x % Depth # y % Depth
  BY <1>1, <1>2, ModClose, Zenon
<1> QED
  BY <1>3, Zenon DEF x, y

\* A position has a slot.
LEMMA SlotType ==
    ASSUME NEW a \in Int
    PROVE  a % Depth \in Slots
BY RingSizes, DivMod, Zenon DEF Slots

\* What is between two positions.
LEMMA CountType ==
    ASSUME NEW from \in Int, NEW to \in Int
    PROVE  Count(from, to) \in 0..(W - 1)
<1>1. to - from \in Int /\ W \in Nat \ {0}
  BY RingSizes
<1> QED
  BY <1>1, DivMod, Zenon DEF Count

\* The slot at the end.
LEMMA EndSlot ==
    ASSUME NEW from \in Int, NEW to \in Int
    PROVE  (from + Count(from, to)) % Depth = to % Depth
<1>1. to - from \in Int /\ (to - from) + from = to
  OBVIOUS
<1>2. (((to - from) % W) + from) % Depth = ((to - from) + from) % Depth
  BY <1>1, WrapAdd, Zenon
<1>3. Count(from, to) \in Int /\ from + Count(from, to) = Count(from, to) + from
  BY CountType
<1> QED
  BY <1>1, <1>2, <1>3, Zenon DEF Count

\* A position that wraps is as good as one that does not.
LEMMA CountWraps ==
    ASSUME NEW from \in Int, NEW to \in Int
    PROVE  Count(from % W, to) = Count(from, to)
BY SubMod, Zenon DEF Count

\* One more is posted.
LEMMA CountMore ==
    ASSUME NEW from \in Int, NEW to \in Int, Count(from, to) < Depth
    PROVE  Count(from, (to + 1) % W) = Count(from, to) + 1
<1> DEFINE n == Count(from, to)
           m == Count(from, (to + 1) % W)
<1>1. /\ to - from \in Int /\ to + 1 \in Int /\ 1 \in Int /\ from \in Int /\ -from \in Int
      /\ ((to + 1) % W) + (-from) = ((to + 1) % W) - from
      /\ (to + 1) + (-from) = (to - from) + 1
  <2>1. (to + 1) % W \in Int
    BY WrapIndex
  <2> QED
    BY <2>1
<1>2. (((to + 1) % W) + (-from)) % W = ((to + 1) + (-from)) % W
  BY <1>1, WrapAdd, Zenon
<1>3. (((to - from) % W) + 1) % W = ((to - from) + 1) % W
  BY <1>1, WrapAdd, Zenon
<1>4. m = (n + 1) % W
  BY <1>1, <1>2, <1>3, Zenon DEF Count
<1>5. n \in Nat /\ n < Depth
  BY CountType
<1> HIDE DEF n, m
<1>6. n + 1 \in 0..(W - 1)
  BY <1>5, DepthBelowW, RingSizes
<1> QED
  BY <1>4, <1>6, ModSmall, Zenon DEF n, m

\* k are taken.
LEMMA CountLess ==
    ASSUME NEW from \in Int, NEW to \in Int, NEW k \in Nat, k <= Count(from, to)
    PROVE  Count(from + k, to) = Count(from, to) - k
<1> DEFINE n == Count(from, to)
<1>1. to - from \in Int /\ -k \in Int /\ (to - from) + (-k) = to - (from + k)
  OBVIOUS
<1>2. (((to - from) % W) + (-k)) % W = ((to - from) + (-k)) % W
  BY <1>1, WrapAdd, Zenon
<1>3. Count(from + k, to) = (n + (-k)) % W
  BY <1>1, <1>2, Zenon DEF Count
<1>4. n \in 0..(W - 1) /\ k <= n
  BY CountType, Zenon
<1> HIDE DEF n
<1>5. n + (-k) \in 0..(W - 1) /\ n + (-k) = n - k
  BY <1>4, RingSizes
<1> QED
  BY <1>3, <1>5, ModSmall, Zenon DEF n

-----------------------------------------------------------------------------
(* The buffers of a queue and who has them. *)

\* What the proofs take from the theory of finite sets and of numbers.  It is
\* proved at the end (SlotsCount), so that the theorems it needs are not in the
\* way of the others.
SlotTheory ==
    /\ \A S \in SUBSET Slots : Cardinality(S) \in Nat
    /\ \A S \in SUBSET Slots : \A x \in S : Cardinality(S \ {x}) = Cardinality(S) - 1
    /\ \A S \in SUBSET Slots : \A x \in Slots :
         x \notin S => Cardinality(S \cup {x}) = Cardinality(S) + 1
    /\ Cardinality(Slots) = Depth
    /\ \A S \in SUBSET Nat : S # {} => \E i \in S : \A j \in S : i <= j

\* A set of slots has a size.
LEMMA SlotSets ==
    ASSUME SlotTheory, NEW S \in SUBSET Slots
    PROVE  Cardinality(S) \in Nat
BY Zenon DEF SlotTheory

\* A set of slots without one of them.
LEMMA TakeSlot ==
    ASSUME SlotTheory, NEW S \in SUBSET Slots, NEW x \in S
    PROVE  S \ {x} \in SUBSET Slots /\ Cardinality(S \ {x}) = Cardinality(S) - 1
BY Zenon DEF SlotTheory

\* A set of slots with one more.
LEMMA GiveSlot ==
    ASSUME SlotTheory, NEW S \in SUBSET Slots, NEW x \in Slots, x \notin S
    PROVE  S \cup {x} \in SUBSET Slots /\ Cardinality(S \cup {x}) = Cardinality(S) + 1
BY Zenon DEF SlotTheory

\* A set of numbers that is not empty has a least one.
LEMMA Least ==
    ASSUME SlotTheory, NEW S \in SUBSET Nat, S # {}
    PROVE  \E i \in S : \A j \in S : i <= j
BY Zenon DEF SlotTheory

\* The guest posts a buffer of its own behind the others.
OnePosted(from, to, ring, owed, mine, good, d) ==
    LET new == [ring EXCEPT ![to % Depth] = d]
    IN /\ Count(from, (to + 1) % W) = Count(from, to) + 1
       /\ \A k \in 0..(Count(from, to) - 1) :
            new[(from + k) % Depth] = ring[(from + k) % Depth]
       /\ Buffers(from, (to + 1) % W, new, owed, mine \ {d.req_id}, good, d.size)

\* Posting a buffer of its own is all the guest can do to the ring.
LEMMA BuffersPost ==
    ASSUME SlotTheory, NEW from \in Int, NEW to \in Int,
           NEW ring \in [Slots -> Desc \cup {BlankDesc}],
           NEW owed \in Seq(Slots), NEW mine \in SUBSET Slots,
           NEW good \in BOOLEAN, NEW d \in Desc, d.req_id \in mine, good => d.ok,
           Buffers(from, to, ring, owed, mine, good, d.size)
    PROVE  OnePosted(from, to, ring, owed, mine, good, d)
<1> DEFINE n == Count(from, to)
           new == [ring EXCEPT ![to % Depth] = d]
           rest == mine \ {d.req_id}
           at(k) == (from + k) % Depth
<1>1. n \in Nat /\ Len(owed) \in Nat
  BY CountType
<1>2. /\ Cardinality(mine) \in Nat /\ Cardinality(rest) \in Nat
      /\ Cardinality(rest) = Cardinality(mine) - 1
  <2>1. mine \ {d.req_id} \in SUBSET Slots
    BY Zenon
  <2> QED
    BY <2>1, SlotSets, TakeSlot, Zenon
<1>3. n + Len(owed) + Cardinality(mine) <= Depth
  BY Zenon DEF Buffers
<1>4. n < Depth
  BY <1>1, <1>2, <1>3, RingSizes
<1>5. Count(from, (to + 1) % W) = n + 1
  BY <1>4, CountMore, Zenon
<1>6. at(n) = to % Depth /\ at(n) \in Slots /\ \A k \in 0..n : at(k) \in Slots
  <2>1. \A k \in 0..n : from + k \in Int
    OBVIOUS
  <2>2. \A k \in 0..n : at(k) \in Slots
    BY <2>1, SlotType, Zenon
  <2>3. n \in 0..n
    BY <1>1
  <2> QED
    BY <2>2, <2>3, EndSlot, Zenon
<1>7. \A k \in 0..(n - 1) : at(k) # at(n)
  <2> SUFFICES ASSUME NEW k \in 0..(n - 1) PROVE at(k) # at(n)
    BY Zenon
  <2> HIDE DEF n
  <2>1. k \in Int /\ n \in Int /\ k # n /\ k - n < Depth /\ n - k < Depth
    BY <1>1, <1>4, RingSizes
  <2> QED
    BY <2>1, Apart, Zenon
<1> HIDE DEF n, at
<1>8. new[at(n)] = d /\ \A k \in 0..(n - 1) : new[at(k)] = ring[at(k)] /\ k \in 0..n
  BY <1>1, <1>6, <1>7
<1>9. /\ \A k \in 0..(n - 1) :
           /\ ring[at(k)] \in Desc /\ ring[at(k)].size = d.size
           /\ good => ring[at(k)].ok
           /\ ring[at(k)].req_id \notin mine
           /\ \A j \in 0..(n - 1) : ring[at(j)].req_id = ring[at(k)].req_id => j = k
           /\ \A j \in 1..Len(owed) : owed[j] # ring[at(k)].req_id
      /\ \A k \in 1..Len(owed) :
           /\ owed[k] \notin mine
           /\ \A j \in 1..Len(owed) : owed[j] = owed[k] => j = k
      /\ good => n + Len(owed) + Cardinality(mine) = Depth
  BY Zenon DEF Buffers, n, at
<1> HIDE DEF new, rest
<1>10. \A x : x \in rest <=> x \in mine /\ x # d.req_id
  BY Zenon DEF rest
<1>11. \A k \in 0..((n + 1) - 1) : k = n \/ k \in 0..(n - 1)
  BY <1>1
<1>12. ASSUME NEW k \in 0..((n + 1) - 1)
       PROVE  /\ new[at(k)] \in Desc /\ new[at(k)].size = d.size
              /\ good => new[at(k)].ok
              /\ new[at(k)].req_id \notin rest
              /\ \A j \in 0..((n + 1) - 1) : new[at(j)].req_id = new[at(k)].req_id => j = k
              /\ \A j \in 1..Len(owed) : owed[j] # new[at(k)].req_id
  <2>1. CASE k = n
    <3>1. \A j \in 0..(n - 1) : new[at(j)].req_id # d.req_id
      BY <1>8, <1>9, Zenon
    <3>2. \A j \in 1..Len(owed) : owed[j] # d.req_id
      BY <1>9, Zenon
    <3>3. d.req_id \notin rest /\ new[at(k)] = d
      BY <1>8, <1>10, <2>1, Zenon
    <3>4. \A j \in 0..((n + 1) - 1) : new[at(j)].req_id = new[at(k)].req_id => j = k
      BY <1>11, <2>1, <3>1, <3>3, Zenon
    <3> QED
      BY <3>2, <3>3, <3>4, Zenon
  <2>2. CASE k \in 0..(n - 1)
    BY <1>8, <1>9, <1>10, <1>11, <2>2, Zenon
  <2> QED
    BY <1>11, <2>1, <2>2, Zenon
<1>13. \A k \in 1..Len(owed) :
         /\ owed[k] \notin rest
         /\ \A j \in 1..Len(owed) : owed[j] = owed[k] => j = k
  BY <1>9, <1>10, Zenon
<1>14. /\ (n + 1) + Len(owed) + Cardinality(rest) <= Depth
       /\ good => (n + 1) + Len(owed) + Cardinality(rest) = Depth
  BY <1>1, <1>2, <1>3, <1>9
<1>15. Buffers(from, (to + 1) % W, new, owed, rest, good, d.size)
  BY <1>5, <1>12, <1>13, <1>14, Zenon DEF Buffers, at
<1> QED
  BY <1>5, <1>8, <1>15, Zenon DEF n, at, new, rest, OnePosted

\* The first buffer is nobody else's, and when the device takes it, it owes its
\* completion.
FirstTaken(from, to, ring, owed, mine, clean, b) ==
    LET d == ring[from % Depth]
    IN /\ Count(from + 1, to) = Count(from, to) - 1
       /\ Len(owed) < Depth
       /\ d \in Desc /\ d.size = b /\ d.req_id \notin mine
       /\ \A j \in 1..Len(owed) : owed[j] # d.req_id
       /\ Buffers(from + 1, to, ring, Append(owed, d.req_id), mine, clean, b)

\* Taking a buffer moves it from the ring to the completions.
LEMMA BuffersTake ==
    ASSUME SlotTheory, NEW from \in Int, NEW to \in Int, NEW ring, NEW owed \in Seq(Slots),
           NEW mine \in SUBSET Slots, NEW clean \in BOOLEAN, NEW b,
           Buffers(from, to, ring, owed, mine, clean, b), 1 <= Count(from, to)
    PROVE  FirstTaken(from, to, ring, owed, mine, clean, b)
<1> DEFINE n == Count(from, to)
           at(k) == (from + k) % Depth
           more == Append(owed, ring[from % Depth].req_id)
           len == Len(owed)
<1>1. n \in Nat /\ n > 0 /\ len \in Nat /\ Cardinality(mine) \in Nat
  <2>1. Cardinality(mine) \in Nat
    BY SlotSets, Zenon
  <2>2. n \in 0..(W - 1)
    BY CountType, Zenon
  <2> QED
    BY <2>1, <2>2
<1>2. Count(from + 1, to) = n - 1
  BY <1>1, CountLess
<1>3. /\ \A k \in 0..(n - 1) :
           /\ ring[at(k)] \in Desc /\ ring[at(k)].size = b
           /\ clean => ring[at(k)].ok
           /\ ring[at(k)].req_id \notin mine
           /\ \A j \in 0..(n - 1) : ring[at(j)].req_id = ring[at(k)].req_id => j = k
           /\ \A j \in 1..len : owed[j] # ring[at(k)].req_id
      /\ \A k \in 1..len :
           /\ owed[k] \notin mine
           /\ \A j \in 1..len : owed[j] = owed[k] => j = k
      /\ n + len + Cardinality(mine) <= Depth
      /\ clean => n + len + Cardinality(mine) = Depth
  BY Zenon DEF Buffers
<1>4. at(0) = from % Depth
  <2>1. from + 0 = from
    OBVIOUS
  <2> QED
    BY <2>1, Zenon
<1>5. ring[from % Depth].req_id \in Slots
  <2>1. 0 \in 0..(n - 1)
    BY <1>1
  <2>2. ring[at(0)] \in Desc
    BY <1>3, <2>1, Zenon
  <2> QED
    BY <1>4, <2>2, Zenon DEF Desc
<1>6. /\ Len(more) = len + 1 /\ more[len + 1] = ring[at(0)].req_id
      /\ \A k \in 1..len : more[k] = owed[k]
  BY <1>1, <1>4, <1>5
<1>7. \A k \in 0..((n - 1) - 1) :
        /\ ((from + 1) + k) % Depth = at(k + 1)
        /\ k + 1 \in 0..(n - 1) /\ k + 1 # 0
        /\ \A j \in 0..((n - 1) - 1) : j + 1 = k + 1 => j = k
  <2> SUFFICES ASSUME NEW k \in 0..((n - 1) - 1)
               PROVE  /\ ((from + 1) + k) % Depth = at(k + 1)
                      /\ k + 1 \in 0..(n - 1) /\ k + 1 # 0
                      /\ \A j \in 0..((n - 1) - 1) : j + 1 = k + 1 => j = k
    BY Zenon
  <2> HIDE DEF n
  <2>1. k \in Nat /\ (from + 1) + k = from + (k + 1)
    BY <1>1
  <2>2. k + 1 \in 0..(n - 1) /\ k + 1 # 0
    BY <1>1
  <2>3. \A j \in 0..((n - 1) - 1) : j + 1 = k + 1 => j = k
    BY <1>1
  <2> QED
    BY <2>1, <2>2, <2>3, Zenon
<1>8. 0 \in 0..(n - 1) /\ \A k \in 1..(len + 1) : k = len + 1 \/ k \in 1..len
  BY <1>1
<1> HIDE DEF n, at, more, len
<1>9. ASSUME NEW k \in 1..(len + 1)
      PROVE  /\ more[k] \notin mine
             /\ \A j \in 1..(len + 1) : more[j] = more[k] => j = k
  <2>1. CASE k = len + 1
    <3>1. more[k] = ring[at(0)].req_id /\ more[k] \notin mine
      BY <1>3, <1>6, <1>8, <2>1, Zenon
    <3>2. \A j \in 1..len : more[j] # more[k]
      BY <1>3, <1>6, <1>8, <3>1, Zenon
    <3> QED
      BY <1>8, <2>1, <3>1, <3>2, Zenon
  <2>2. CASE k \in 1..len
    <3>1. more[k] = owed[k] /\ more[k] \notin mine
      BY <1>3, <1>6, <2>2, Zenon
    <3>2. more[len + 1] # more[k]
      BY <1>3, <1>6, <1>8, <2>2, <3>1, Zenon
    <3>3. \A j \in 1..len : more[j] = more[k] => j = k
      BY <1>3, <1>6, <2>2, <3>1, Zenon
    <3> QED
      BY <1>8, <3>1, <3>2, <3>3, Zenon
  <2> QED
    BY <1>8, <2>1, <2>2, Zenon
<1>10. ASSUME NEW k \in 0..((n - 1) - 1)
       PROVE  /\ ring[((from + 1) + k) % Depth] \in Desc
              /\ ring[((from + 1) + k) % Depth].size = b
              /\ clean => ring[((from + 1) + k) % Depth].ok
              /\ ring[((from + 1) + k) % Depth].req_id \notin mine
              /\ \A j \in 0..((n - 1) - 1) :
                   ring[((from + 1) + j) % Depth].req_id = ring[((from + 1) + k) % Depth].req_id
                   => j = k
              /\ \A j \in 1..(len + 1) : more[j] # ring[((from + 1) + k) % Depth].req_id
  <2>1. ((from + 1) + k) % Depth = at(k + 1) /\ k + 1 \in 0..(n - 1) /\ k + 1 # 0
    BY <1>7, Zenon
  <2>2. \A j \in 1..(len + 1) : more[j] # ring[at(k + 1)].req_id
    <3>1. ring[at(0)].req_id # ring[at(k + 1)].req_id
      BY <1>3, <1>8, <2>1, Zenon
    <3>2. \A j \in 1..len : more[j] # ring[at(k + 1)].req_id
      <4>1. \A j \in 1..len : owed[j] # ring[at(k + 1)].req_id
        BY <1>3, <2>1, Zenon
      <4> QED
        BY ONLY <1>6, <4>1, Zenon
    <3> QED
      BY <1>6, <1>8, <3>1, <3>2, Zenon
  <2>3. \A j \in 0..((n - 1) - 1) :
          ring[((from + 1) + j) % Depth].req_id = ring[at(k + 1)].req_id => j = k
    BY <1>3, <1>7, <2>1, Zenon
  <2> QED
    BY <1>3, <2>1, <2>2, <2>3, Zenon
<1>11. /\ (n - 1) + (len + 1) + Cardinality(mine) <= Depth
       /\ clean => (n - 1) + (len + 1) + Cardinality(mine) = Depth
       /\ len < Depth
  BY <1>1, <1>3, RingSizes
<1>12. Buffers(from + 1, to, ring, more, mine, clean, b)
  BY <1>2, <1>6, <1>9, <1>10, <1>11, Zenon DEF Buffers
<1> QED
  BY <1>2, <1>3, <1>4, <1>8, <1>11, <1>12, Zenon DEF n, more, len, FirstTaken

\* The guest reads the first completion and has the buffer back.
FirstReaped(from, to, ring, owed, mine, clean, b) ==
    /\ owed[1] \in Slots
    /\ \A k \in 2..Len(owed) : owed[k] # owed[1]
    /\ \A k \in 0..(Count(from, to) - 1) : ring[(from + k) % Depth].req_id # owed[1]
    /\ Buffers(from, to, ring, Tail(owed), mine \cup {owed[1]}, clean, b)

\* Reading a completion moves a buffer from the completions to the guest.
LEMMA BuffersReap ==
    ASSUME SlotTheory, NEW from \in Int, NEW to \in Int, NEW ring,
           NEW owed \in Seq(Slots), owed # <<>>,
           NEW mine \in SUBSET Slots, NEW clean \in BOOLEAN, NEW b,
           Buffers(from, to, ring, owed, mine, clean, b)
    PROVE  FirstReaped(from, to, ring, owed, mine, clean, b)
<1> DEFINE n == Count(from, to)
           id(k) == ring[(from + k) % Depth].req_id
           less == Tail(owed)
           more == mine \cup {owed[1]}
           len == Len(owed)
<1>1. n \in Nat /\ len \in Nat /\ len > 0 /\ Cardinality(mine) \in Nat
  <2>1. Cardinality(mine) \in Nat
    BY SlotSets, Zenon
  <2>2. n \in 0..(W - 1)
    BY CountType, Zenon
  <2> QED
    BY <2>1, <2>2
<1>2. /\ \A k \in 0..(n - 1) :
           /\ ring[(from + k) % Depth] \in Desc /\ ring[(from + k) % Depth].size = b
           /\ clean => ring[(from + k) % Depth].ok
           /\ id(k) \notin mine
           /\ \A j \in 0..(n - 1) : id(j) = id(k) => j = k
           /\ \A j \in 1..len : owed[j] # id(k)
      /\ \A k \in 1..len :
           /\ owed[k] \notin mine
           /\ \A j \in 1..len : owed[j] = owed[k] => j = k
      /\ n + len + Cardinality(mine) <= Depth
      /\ clean => n + len + Cardinality(mine) = Depth
  BY Zenon DEF Buffers
<1>3. /\ Len(less) = len - 1 /\ 1 \in 1..len /\ owed[1] \in Slots
      /\ \A k \in 1..(len - 1) : less[k] = owed[k + 1] /\ k + 1 \in 1..len /\ k + 1 # 1
      /\ \A k \in 2..len : k \in 1..len /\ k # 1
      /\ \A j, k \in 1..(len - 1) : j + 1 = k + 1 => j = k
  BY <1>1
<1>4. owed[1] \notin mine
  BY <1>2, <1>3, Zenon
<1>5. Cardinality(more) = Cardinality(mine) + 1
  BY <1>3, <1>4, GiveSlot, Zenon
<1>6. \A x : x \in more <=> x \in mine \/ x = owed[1]
  BY Zenon
<1> HIDE DEF n, less, more, len
<1>7. ASSUME NEW k \in 1..(len - 1)
      PROVE  /\ less[k] \notin more
             /\ \A j \in 1..(len - 1) : less[j] = less[k] => j = k
  <2>1. less[k] \notin more
    BY <1>2, <1>3, <1>6, Zenon
  <2>2. ASSUME NEW j \in 1..(len - 1), less[j] = less[k] PROVE j = k
    <3>1. owed[j + 1] = owed[k + 1] /\ j + 1 \in 1..len /\ k + 1 \in 1..len
      BY <1>3, <2>2, Zenon
    <3>2. j + 1 = k + 1
      BY <1>2, <3>1, Zenon
    <3> QED
      BY <1>3, <3>2, Zenon
  <2> QED
    BY <2>1, <2>2, Zenon
<1>8. ASSUME NEW k \in 0..(n - 1)
      PROVE  /\ id(k) \notin more /\ id(k) # owed[1]
             /\ \A j \in 1..(len - 1) : less[j] # id(k)
  <2>1. id(k) \notin mine /\ \A j \in 1..len : owed[j] # id(k)
    BY <1>2, Zenon
  <2> QED
    BY <1>3, <1>6, <2>1, Zenon
<1>9. /\ n + (len - 1) + Cardinality(more) <= Depth
      /\ clean => n + (len - 1) + Cardinality(more) = Depth
  <2>1. /\ n + len + Cardinality(mine) <= Depth
        /\ clean => n + len + Cardinality(mine) = Depth
    BY <1>2, Zenon
  <2> QED
    BY <1>1, <1>5, <2>1
<1>10. Buffers(from, to, ring, less, more, clean, b)
  BY <1>2, <1>3, <1>7, <1>8, <1>9, Zenon DEF Buffers, n
<1>11. \A k \in 2..len : owed[k] # owed[1]
  BY <1>2, <1>3, Zenon
<1> QED
  BY <1>3, <1>8, <1>10, <1>11, Zenon DEF n, less, more, len, FirstReaped

\* The device passes over k buffers, which are lost.
LEMMA BuffersSkip ==
    ASSUME SlotTheory, NEW from \in Int, NEW to \in Int, NEW ring, NEW owed \in Seq(Slots),
           NEW mine \in SUBSET Slots, NEW clean \in BOOLEAN, NEW b,
           Buffers(from, to, ring, owed, mine, clean, b),
           NEW s \in Nat, s <= Count(from, to)
    PROVE  /\ Count(from + s, to) = Count(from, to) - s
           /\ Buffers(from + s, to, ring, owed, mine, FALSE, b)
<1> DEFINE n == Count(from, to)
           id(k) == ring[(from + k) % Depth].req_id
           len == Len(owed)
<1>1. n \in Nat /\ len \in Nat /\ Cardinality(mine) \in Nat
  <2>1. Cardinality(mine) \in Nat
    BY SlotSets, Zenon
  <2>2. n \in 0..(W - 1)
    BY CountType, Zenon
  <2> QED
    BY <2>1, <2>2
<1>2. Count(from + s, to) = n - s
  BY CountLess, Zenon
<1>3. /\ \A k \in 0..(n - 1) :
           /\ ring[(from + k) % Depth] \in Desc /\ ring[(from + k) % Depth].size = b
           /\ id(k) \notin mine
           /\ \A j \in 0..(n - 1) : id(j) = id(k) => j = k
           /\ \A j \in 1..len : owed[j] # id(k)
      /\ \A k \in 1..len :
           /\ owed[k] \notin mine
           /\ \A j \in 1..len : owed[j] = owed[k] => j = k
      /\ n + len + Cardinality(mine) <= Depth
  BY Zenon DEF Buffers
<1> HIDE DEF n
<1>4. \A k \in 0..((n - s) - 1) : s + k \in 0..(n - 1) /\ (from + s) + k = from + (s + k)
  BY <1>1
<1>5. \A j, k \in 0..((n - s) - 1) : s + j = s + k => j = k
  BY <1>1
<1> HIDE DEF len
<1>6. (n - s) + len + Cardinality(mine) <= Depth
  BY <1>1, <1>3, RingSizes
<1>7. ASSUME NEW k \in 0..((n - s) - 1)
      PROVE  /\ ring[((from + s) + k) % Depth] \in Desc
             /\ ring[((from + s) + k) % Depth].size = b
             /\ ring[((from + s) + k) % Depth].req_id \notin mine
             /\ \A j \in 0..((n - s) - 1) :
                  ring[((from + s) + j) % Depth].req_id = ring[((from + s) + k) % Depth].req_id
                  => j = k
             /\ \A j \in 1..len : owed[j] # ring[((from + s) + k) % Depth].req_id
  <2>1. /\ s + k \in 0..(n - 1)
        /\ ring[((from + s) + k) % Depth] = ring[(from + (s + k)) % Depth]
    BY <1>4, Zenon
  <2>2. ASSUME NEW j \in 0..((n - s) - 1),
               ring[((from + s) + j) % Depth].req_id = ring[((from + s) + k) % Depth].req_id
        PROVE  j = k
    <3>1. s + j \in 0..(n - 1) /\ id(s + j) = id(s + k)
      BY <1>4, <2>1, <2>2, Zenon
    <3>2. s + j = s + k
      BY <1>3, <2>1, <3>1, Zenon
    <3> QED
      BY <1>5, <3>2, Zenon
  <2> QED
    BY <1>3, <2>1, <2>2, Zenon
<1>8. Buffers(from + s, to, ring, owed, mine, FALSE, b)
  BY <1>2, <1>3, <1>6, <1>7, Zenon DEF Buffers, len
<1> QED
  BY <1>2, <1>8, Zenon DEF n

\* The front of the queue may wrap.
LEMMA BuffersWrap ==
    ASSUME NEW from \in Int, NEW to \in Int, NEW ring, NEW owed, NEW mine, NEW clean, NEW b
    PROVE  /\ Count(from % W, to) = Count(from, to)
           /\ Buffers(from % W, to, ring, owed, mine, clean, b)
              <=> Buffers(from, to, ring, owed, mine, clean, b)
<1>1. Count(from % W, to) = Count(from, to)
  BY CountWraps, Zenon
<1>2. \A k \in Int : ((from % W) + k) % Depth = (from + k) % Depth
  BY WrapAdd, Zenon
<1>3. \A k \in 0..(Count(from, to) - 1) : ((from % W) + k) % Depth = (from + k) % Depth
  BY <1>2
<1> QED
  BY <1>1, <1>3, Zenon DEF Buffers

\* A queue no buffer was posted to.
LEMMA BuffersFresh ==
    ASSUME SlotTheory, NEW ring, NEW b
    PROVE  Count(0, 0) = 0 /\ Buffers(0, 0, ring, <<>>, Slots, TRUE, b)
<1>1. 0 - 0 = 0 /\ 0 \in 0..(W - 1) /\ 0 - 1 = -1 /\ 0..(-1) = {}
  BY RingSizes
<1>2. Count(0, 0) = 0
  BY <1>1, ModSmall, Zenon DEF Count
<1>3. Cardinality(Slots) = Depth
  BY Zenon DEF SlotTheory
<1>4. Len(<<>>) = 0 /\ 1..0 = {} /\ 0 + 0 + Depth = Depth /\ Depth <= Depth
  BY RingSizes
<1> QED
  BY <1>1, <1>2, <1>3, <1>4, Zenon DEF Buffers

-----------------------------------------------------------------------------
(* What ena_rx_collect returns. *)

\* f counts the capacity of the first descriptors of q, up to k of them.
Counting(f, q, k) ==
    /\ f = [n \in 0..MaxDescs |-> f[n]]
    /\ \A n \in 0..MaxDescs :
         n <= k => f[n] = IF n = 0 THEN 0 ELSE f[n - 1] + At(q, n - 1).size

\* The sum is what it says.
LEMMA CapacityCounts ==
    ASSUME SlotTheory, NEW q
    PROVE  Counting(Capacity(q), q, MaxDescs)
<1> DEFINE body(f, n) == IF n = 0 THEN 0 ELSE f[n - 1] + At(q, n - 1).size
           S == {k \in Nat : \A f : ~Counting(f, q, k)}
<1>0. MaxDescs \in Nat
  BY BoundAssumption, Zenon
<1>1. ASSUME S # {} PROVE FALSE
  <2>1. PICK k \in S : \A j \in S : k <= j
    <3>1. S \in SUBSET Nat
      BY Zenon
    <3> QED
      BY <1>1, <3>1, Least, Zenon
  <2>2. k \in Nat
    BY Zenon
  <2>3. CASE k = 0
    <3> DEFINE f == [n \in 0..MaxDescs |-> 0]
    <3>1. Counting(f, q, 0)
      BY <1>0 DEF Counting
    <3> QED
      BY <2>1, <2>3, <3>1, Zenon
  <2>4. CASE k # 0
    <3>1. k - 1 \in Nat /\ ~(k <= k - 1)
      BY <2>2, <2>4
    <3>2. PICK f : Counting(f, q, k - 1)
      BY <2>1, <3>1, Zenon
    <3> DEFINE g == [n \in 0..MaxDescs |-> body(f, n)]
    <3>3. ASSUME NEW n \in 0..MaxDescs, n <= k PROVE g[n] = body(g, n)
      <4>1. CASE n = 0
        BY <4>1, Zenon
      <4>2. CASE n # 0
        <5>1. n - 1 \in 0..MaxDescs /\ n - 1 <= k - 1
          BY <1>0, <2>2, <3>3, <4>2
        <5>2. f[n - 1] = body(f, n - 1)
          BY <3>2, <5>1, Zenon DEF Counting
        <5>3. g[n - 1] = body(f, n - 1)
          BY <5>1, Zenon
        <5> QED
          BY <4>2, <5>2, <5>3, Zenon
      <4> QED
        BY <4>1, <4>2, Zenon
    <3>4. g = [n \in 0..MaxDescs |-> g[n]]
      BY Zenon
    <3> HIDE DEF g
    <3>5. Counting(g, q, k)
      BY <3>3, <3>4, Zenon DEF Counting
    <3> QED
      BY <2>1, <3>5, Zenon
  <2> QED
    BY <2>3, <2>4, Zenon
<1>2. PICK f : Counting(f, q, MaxDescs)
  BY <1>0, <1>1, Zenon
<1>3. f = [n \in 0..MaxDescs |-> body(f, n)]
  <2>1. \A n \in 0..MaxDescs : n <= MaxDescs
    BY <1>0
  <2>2. \A n \in 0..MaxDescs : f[n] = body(f, n)
    BY <1>2, <2>1, Zenon DEF Counting
  <2>3. f = [n \in 0..MaxDescs |-> f[n]]
    BY <1>2, Zenon DEF Counting
  <2> QED
    BY <2>2, <2>3, Zenon
<1>4. Capacity(q) = [n \in 0..MaxDescs |-> body(Capacity(q), n)]
  BY <1>3, Zenon DEF Capacity
<1> HIDE DEF S
<1>5. \A n \in 0..MaxDescs : Capacity(q)[n] = body(Capacity(q), n)
  BY <1>4, Zenon
<1>6. Capacity(q) = [n \in 0..MaxDescs |-> Capacity(q)[n]]
  BY <1>4, <1>5, Zenon
<1> QED
  BY <1>5, <1>6, Zenon DEF Counting

\* The least number of buffers of size b that hold len bytes.
LEMMA Ceiling ==
    ASSUME NEW len \in Nat \ {0}, NEW b \in Nat \ {0}
    PROVE  /\ (len + b - 1) \div b \in Nat \ {0}
           /\ ((len + b - 1) \div b - 1) * b < len
           /\ \A n \in Nat : n * b >= len <=> n >= (len + b - 1) \div b
<1> DEFINE need == (len + b - 1) \div b
           r == (len + b - 1) % b
<1>1. need \in Int /\ r \in 0..(b - 1) /\ len + b - 1 = b * need + r
  <2>1. len + b - 1 \in Int
    OBVIOUS
  <2> QED
    BY <2>1, DivMod, Zenon
<1> HIDE DEF need, r
<1>2. b * need >= len /\ b * need <= len + b - 1
  BY <1>1
<1>3. need >= 1
  <2>1. CASE need <= 0
    <3>1. b * need <= 0
      BY <1>1, <2>1
    <3> QED
      BY <1>1, <1>2, <3>1
  <2> QED
    BY <1>1, <2>1
<1>4. (need - 1) * b < len
  <2>1. (need - 1) * b = b * need - b
    BY <1>1
  <2> QED
    BY <1>1, <1>2, <2>1
<1>5. ASSUME NEW n \in Nat PROVE n * b >= len <=> n >= need
  <2>1. CASE n >= need
    <3>1. n * b >= b * need
      BY <1>1, <2>1
    <3> QED
      BY <1>1, <1>2, <2>1, <3>1
  <2>2. CASE n <= need - 1
    <3>1. n * b <= (need - 1) * b
      BY <1>1, <2>2
    <3>2. n * b \in Int /\ (need - 1) * b \in Int
      BY <1>1
    <3> QED
      BY <1>1, <1>4, <2>2, <3>1, <3>2
  <2> QED
    BY <1>1, <2>1, <2>2
<1> QED
  BY <1>1, <1>3, <1>4, <1>5 DEF need

\* The descriptors of a queue are all of one size.
LEMMA CapacityOf ==
    ASSUME SlotTheory, NEW q \in Qs, NEW lim \in 0..MaxDescs,
           \A k \in 0..(lim - 1) : At(q, k).size = BufSize[q]
    PROVE  \A n \in 0..lim : Capacity(q)[n] = n * BufSize[q]
<1> DEFINE b == BufSize[q]
           cap == Capacity(q)
           S == {n \in 0..lim : cap[n] # n * b}
<1>0. MaxDescs \in Nat /\ b \in Nat \ {0} /\ lim \in Nat /\ lim <= MaxDescs
  BY BoundAssumption, SizeAssumption
<1>1. \A n \in 0..lim : cap[n] = IF n = 0 THEN 0 ELSE cap[n - 1] + At(q, n - 1).size
  <2>1. \A n \in 0..lim : n \in 0..MaxDescs /\ n <= MaxDescs
    BY <1>0
  <2> QED
    BY <2>1, CapacityCounts, Zenon DEF Counting
<1>2. ASSUME S # {} PROVE FALSE
  <2>1. PICK k \in S : \A j \in S : k <= j
    <3>1. S \in SUBSET Nat
      BY <1>0
    <3> QED
      BY <1>2, <3>1, Least, Zenon
  <2>2. k \in 0..lim /\ cap[k] # k * b
    BY Zenon
  <2>3. k # 0
    BY <1>0, <1>1, <2>2
  <2>4. k - 1 \in 0..lim /\ k - 1 \in 0..(lim - 1) /\ ~(k <= k - 1)
    BY <1>0, <2>2, <2>3
  <2>5. cap[k - 1] = (k - 1) * b
    BY <2>1, <2>4, Zenon
  <2>6. cap[k] = (k - 1) * b + b
    BY <1>1, <2>2, <2>3, <2>4, <2>5, Zenon
  <2>7. (k - 1) * b + b = k * b
    BY <1>0, <2>2
  <2> QED
    BY <2>2, <2>6, <2>7, Zenon
<1> QED
  BY <1>2, Zenon

\* ena_rx_collect on a queue whose descriptors are all of its size.
LEMMA CollectResult ==
    ASSUME SlotTheory, NEW q \in Qs, NEW len \in Nat \ {0}, Avail(q) \in Nat,
           \A k \in 0..(Avail(q) - 1) : At(q, k).size = BufSize[q]
    PROVE  LET need == (len + BufSize[q] - 1) \div BufSize[q]
               lim == IF Avail(q) < MaxDescs THEN Avail(q) ELSE MaxDescs
               reach == 1..(IF need < lim THEN need ELSE lim)
               wrong == {k \in reach : ~At(q, k - 1).ok}
           IN Collect(q, len) =
                IF wrong # {}
                THEN [n |-> -1, skip |-> CHOOSE k \in wrong : \A j \in wrong : k <= j]
                ELSE [n |-> IF need <= lim THEN need ELSE -1, skip |-> 0]
<1> DEFINE b == BufSize[q]
           a == Avail(q)
           cap == Capacity(q)
           need == (len + BufSize[q] - 1) \div BufSize[q]
           lim == IF a < MaxDescs THEN a ELSE MaxDescs
           top == IF need < lim THEN need ELSE lim
           wrong == {k \in 1..top : ~At(q, k - 1).ok}
           full == {Avail(q), MaxDescs}
           ends == {n \in 0..MaxDescs : n \in full \/ cap[n] >= len \/ ~At(q, n).ok}
           e == CHOOSE m \in ends : \A k \in ends : m <= k
           w == CHOOSE k \in wrong : \A j \in wrong : k <= j
<1>0. MaxDescs \in Nat /\ b \in Nat \ {0} /\ a \in Nat
  BY BoundAssumption, SizeAssumption, Zenon
<1>1. /\ lim \in Nat /\ lim \in 0..MaxDescs /\ lim <= a
      /\ \A n \in 0..lim : n \in full => n = lim
      /\ lim \in full
  BY <1>0
<1>2. /\ need \in Nat \ {0}
      /\ \A n \in Nat : n * b >= len <=> n >= need
  BY <1>0, Ceiling, Zenon
<1>3. \A n \in 0..lim : cap[n] = n * b /\ n \in Nat
  <2>1. \A k \in 0..(lim - 1) : k \in 0..(a - 1)
    BY <1>0, <1>1
  <2>2. \A n \in 0..lim : n \in Nat
    BY <1>1
  <2> QED
    BY <1>1, <2>1, <2>2, CapacityOf, Zenon
<1>4. Collect(q, len) =
        IF cap[e] >= len THEN [n |-> e, skip |-> 0]
        ELSE [n |-> -1, skip |-> IF e \in full THEN 0 ELSE e + 1]
  BY Zenon DEF Collect
<1> HIDE DEF b, a, cap, need, lim, top, full
<1>5. lim \in ends /\ ends \in SUBSET Nat
  BY <1>0, <1>1
<1>6. e \in ends /\ \A k \in ends : e <= k
  <2>1. \E m \in ends : \A k \in ends : m <= k
    BY <1>5, Least, Zenon
  <2> QED
    BY <2>1, Zenon
<1>7. e \in 0..lim /\ e \in Nat /\ cap[e] = e * b
  <2>1. e \in 0..lim
    BY <1>1, <1>5, <1>6
  <2> QED
    BY <1>3, <2>1, Zenon
<1>8. \A n \in 0..(e - 1) : At(q, n).ok /\ ~(n >= need)
  <2> SUFFICES ASSUME NEW n \in 0..(e - 1) PROVE At(q, n).ok /\ ~(n >= need)
    BY Zenon
  <2>1. n \in 0..MaxDescs /\ n \in 0..lim /\ n \in Nat /\ ~(e <= n)
    BY <1>0, <1>1, <1>7
  <2>2. n \notin ends
    BY <1>6, <2>1, Zenon
  <2>3. ~(cap[n] >= len) /\ At(q, n).ok
    BY <2>1, <2>2, Zenon
  <2> QED
    BY <1>2, <1>3, <2>1, <2>3, Zenon
<1>9. e \in full \/ e >= need \/ ~At(q, e).ok
  <2>1. e \in full \/ cap[e] >= len \/ ~At(q, e).ok
    BY <1>6, Zenon
  <2> QED
    BY <1>2, <1>7, <2>1, Zenon
<1>10. cap[e] >= len <=> e >= need
  BY <1>2, <1>7, Zenon
<1> HIDE DEF ends, e
<1>11. CASE e >= need
  <2>1. e = need /\ need <= lim /\ top = need
    <3>1. CASE e > need
      <4>1. need \in 0..(e - 1) /\ need >= need
        BY <1>2, <1>7, <3>1
      <4> QED
        BY <1>8, <4>1, Zenon
    <3>2. e = need
      BY <1>2, <1>7, <1>11, <3>1
    <3> QED
      BY <1>1, <1>2, <1>7, <3>2 DEF top
  <2>2. wrong = {}
    <3>1. \A k \in 1..top : k - 1 \in 0..(e - 1)
      BY <1>2, <1>7, <2>1
    <3> QED
      BY <1>8, <3>1, Zenon
  <2>3. Collect(q, len) = [n |-> need, skip |-> 0]
    BY <1>4, <1>10, <1>11, <2>1, Zenon
  <2> QED
    BY <2>1, <2>2, <2>3, Zenon DEF top, lim, a, need
<1>12. CASE ~(e >= need) /\ e = lim
  <2>1. ~(need <= lim) /\ top = lim /\ e \in full
    BY <1>1, <1>2, <1>7, <1>12 DEF top
  <2>2. wrong = {}
    <3>1. \A k \in 1..top : k - 1 \in 0..(e - 1)
      BY <1>1, <1>7, <1>12, <2>1
    <3> QED
      BY <1>8, <3>1, Zenon
  <2>3. Collect(q, len) = [n |-> -1, skip |-> 0]
    BY <1>4, <1>10, <1>12, <2>1, Zenon
  <2> QED
    BY <2>1, <2>2, <2>3, Zenon DEF top, lim, a, need
<1>13. CASE ~(e >= need) /\ e # lim
  <2>1. e \notin full
    BY <1>1, <1>7, <1>13, Zenon
  <2>2. e + 1 \in 1..top /\ (e + 1) - 1 = e /\ e + 1 \in Nat
    BY <1>1, <1>2, <1>7, <1>13 DEF top
  <2>3. e + 1 \in wrong
    BY <1>9, <1>13, <2>1, <2>2, Zenon
  <2>4. \A k \in wrong : k \in Nat /\ e + 1 <= k
    <3> SUFFICES ASSUME NEW k \in 1..top, ~At(q, k - 1).ok PROVE k \in Nat /\ e + 1 <= k
      BY Zenon
    <3>0. top \in Nat
      BY <1>1, <1>2, Zenon DEF top
    <3>1. k \in Nat /\ k - 1 \in Nat
      BY <3>0
    <3>2. k - 1 \notin 0..(e - 1)
      BY <1>8, Zenon
    <3> QED
      BY <1>7, <3>1, <3>2
  <2>5. w = e + 1
    <3>1. w \in wrong /\ \A j \in wrong : w <= j
      BY <2>3, <2>4, Zenon
    <3>2. w <= e + 1 /\ e + 1 <= w /\ w \in Nat
      BY <2>3, <2>4, <3>1, Zenon
    <3> HIDE DEF w
    <3> QED
      BY <2>2, <3>2
  <2>6. Collect(q, len) = [n |-> -1, skip |-> e + 1]
    BY <1>4, <1>10, <1>13, <2>1, Zenon
  <2>7. wrong # {}
    BY <2>3, Zenon
  <2> QED
    BY <2>5, <2>6, <2>7, Zenon DEF top, lim, a, need
<1> QED
  BY <1>11, <1>12, <1>13, Zenon

-----------------------------------------------------------------------------
(* The queues, one by one. *)

\* The ids and the descriptors of a sequence of completions.
LEMMA IdsType ==
    ASSUME NEW f \in Seq(Note)
    PROVE  /\ Ids(f) \in Seq(Slots) /\ Len(Ids(f)) = Len(f)
           /\ Cdescs(f) \in Seq(Cdesc) /\ Len(Cdescs(f)) = Len(f)
           /\ \A k \in 1..Len(f) : /\ Ids(f)[k] = f[k].cdesc.req_id
                                   /\ Cdescs(f)[k] = f[k].cdesc
                                   /\ f[k] \in Note /\ f[k].cdesc \in Cdesc
<1>1. Len(f) \in Nat /\ DOMAIN f = 1..Len(f) /\ \A k \in 1..Len(f) : f[k] \in Note
  OBVIOUS
<1>2. \A k \in 1..Len(f) : f[k].cdesc \in Cdesc /\ f[k].cdesc.req_id \in Slots
  BY <1>1, Zenon DEF Note, Cdesc
<1>3. Ids(f) = [k \in 1..Len(f) |-> f[k].cdesc.req_id]
  BY <1>1, Zenon DEF Ids
<1>4. Cdescs(f) = [k \in 1..Len(f) |-> f[k].cdesc]
  BY <1>1, Zenon DEF Cdescs
<1>5. Ids(f) \in Seq(Slots) /\ Len(Ids(f)) = Len(f)
  BY <1>1, <1>2, <1>3
<1>6. Cdescs(f) \in Seq(Cdesc) /\ Len(Cdescs(f)) = Len(f)
  BY <1>1, <1>2, <1>4
<1> QED
  BY <1>1, <1>2, <1>3, <1>4, <1>5, <1>6, Zenon

\* The ids and the descriptors with one more completion ...
LEMMA IdsAppend ==
    ASSUME NEW f \in Seq(Note), NEW x \in Note
    PROVE  /\ Ids(Append(f, x)) = Append(Ids(f), x.cdesc.req_id)
           /\ Cdescs(Append(f, x)) = Append(Cdescs(f), x.cdesc)
<1> DEFINE g == Append(f, x)
           n == Len(f)
<1>1. /\ g \in Seq(Note) /\ Len(g) = n + 1 /\ n \in Nat /\ g[n + 1] = x
      /\ \A k \in 1..n : g[k] = f[k]
      /\ \A k \in 1..(n + 1) : k \in 1..n \/ k = n + 1
  OBVIOUS
<1> HIDE DEF g, n
<1>2. /\ Ids(g) \in Seq(Slots) /\ Len(Ids(g)) = n + 1
      /\ Cdescs(g) \in Seq(Cdesc) /\ Len(Cdescs(g)) = n + 1
      /\ \A k \in 1..(n + 1) : Ids(g)[k] = g[k].cdesc.req_id /\ Cdescs(g)[k] = g[k].cdesc
  BY <1>1, IdsType, Zenon
<1>3. /\ Ids(f) \in Seq(Slots) /\ Len(Ids(f)) = n
      /\ Cdescs(f) \in Seq(Cdesc) /\ Len(Cdescs(f)) = n
      /\ \A k \in 1..n : Ids(f)[k] = f[k].cdesc.req_id /\ Cdescs(f)[k] = f[k].cdesc
  BY IdsType, Zenon DEF n
<1>4. x.cdesc \in Cdesc /\ x.cdesc.req_id \in Slots
  BY Zenon DEF Note, Cdesc
<1>5. ASSUME NEW T, NEW s \in Seq(T), NEW t \in Seq(T), NEW y \in T,
             Len(s) = n, Len(t) = n + 1, t[n + 1] = y, \A k \in 1..n : t[k] = s[k]
      PROVE  t = Append(s, y)
  <2> DEFINE u == Append(s, y)
  <2>1. u \in Seq(T) /\ Len(u) = n + 1 /\ u[n + 1] = y /\ \A k \in 1..n : u[k] = s[k]
    BY <1>1, <1>5
  <2> HIDE DEF u
  <2>2. \A k \in 1..(n + 1) : t[k] = u[k]
    BY <1>1, <1>5, <2>1, Zenon
  <2>3. t = u
    BY <1>1, <1>5, <2>1, <2>2
  <2> QED
    BY <2>3, Zenon DEF u
<1>6. /\ Ids(g)[n + 1] = x.cdesc.req_id /\ Cdescs(g)[n + 1] = x.cdesc
      /\ \A k \in 1..n : Ids(g)[k] = Ids(f)[k] /\ Cdescs(g)[k] = Cdescs(f)[k]
  <2>1. n + 1 \in 1..(n + 1) /\ \A k \in 1..n : k \in 1..(n + 1)
    BY <1>1
  <2> QED
    BY <1>1, <1>2, <1>3, <2>1, Zenon
<1>7. Ids(g) = Append(Ids(f), x.cdesc.req_id)
  BY <1>2, <1>3, <1>4, <1>5, <1>6, Zenon
<1>8. Cdescs(g) = Append(Cdescs(f), x.cdesc)
  BY <1>2, <1>3, <1>4, <1>5, <1>6, Zenon
<1> QED
  BY <1>7, <1>8, Zenon DEF g

\* ... and without the first.
LEMMA IdsTail ==
    ASSUME NEW f \in Seq(Note), f # <<>>
    PROVE  /\ Tail(f) \in Seq(Note) /\ Len(Tail(f)) = Len(f) - 1
           /\ \A k \in 1..(Len(f) - 1) : Tail(f)[k] = f[k + 1] /\ k + 1 \in 1..Len(f)
           /\ Ids(f) # <<>> /\ Cdescs(f) # <<>> /\ 1 \in 1..Len(f) /\ Head(f) = f[1]
           /\ Ids(Tail(f)) = Tail(Ids(f)) /\ Cdescs(Tail(f)) = Tail(Cdescs(f))
           /\ Head(Cdescs(f)) = f[1].cdesc
<1> DEFINE g == Tail(f)
           n == Len(f)
<1>1. /\ g \in Seq(Note) /\ Len(g) = n - 1 /\ n \in Nat /\ n > 0 /\ Head(f) = f[1]
      /\ 1 \in 1..n /\ \A k \in 1..(n - 1) : g[k] = f[k + 1] /\ k + 1 \in 1..n
  OBVIOUS
<1> HIDE DEF g, n
<1>2. /\ Ids(g) \in Seq(Slots) /\ Len(Ids(g)) = n - 1
      /\ Cdescs(g) \in Seq(Cdesc) /\ Len(Cdescs(g)) = n - 1
      /\ \A k \in 1..(n - 1) : Ids(g)[k] = g[k].cdesc.req_id /\ Cdescs(g)[k] = g[k].cdesc
  BY <1>1, IdsType, Zenon
<1>3. /\ Ids(f) \in Seq(Slots) /\ Len(Ids(f)) = n
      /\ Cdescs(f) \in Seq(Cdesc) /\ Len(Cdescs(f)) = n
      /\ \A k \in 1..n : Ids(f)[k] = f[k].cdesc.req_id /\ Cdescs(f)[k] = f[k].cdesc
  BY IdsType, Zenon DEF n
<1>5. ASSUME NEW T, NEW s \in Seq(T), NEW t \in Seq(T),
             Len(s) = n, Len(t) = n - 1, \A k \in 1..(n - 1) : t[k] = s[k + 1]
      PROVE  t = Tail(s) /\ s # <<>> /\ Head(s) = s[1]
  <2> DEFINE u == Tail(s)
  <2>1. u \in Seq(T) /\ Len(u) = n - 1 /\ (\A k \in 1..(n - 1) : u[k] = s[k + 1])
        /\ s # <<>> /\ Head(s) = s[1]
    BY <1>1, <1>5
  <2> HIDE DEF u
  <2>2. \A k \in 1..(n - 1) : t[k] = u[k]
    BY <1>5, <2>1, Zenon
  <2>3. t = u
    BY <1>1, <1>5, <2>1, <2>2
  <2> QED
    BY <2>1, <2>3, Zenon DEF u
<1>6. \A k \in 1..(n - 1) : Ids(g)[k] = Ids(f)[k + 1] /\ Cdescs(g)[k] = Cdescs(f)[k + 1]
  <2> SUFFICES ASSUME NEW k \in 1..(n - 1)
               PROVE  Ids(g)[k] = Ids(f)[k + 1] /\ Cdescs(g)[k] = Cdescs(f)[k + 1]
    BY Zenon
  <2>1. g[k] = f[k + 1] /\ k + 1 \in 1..n
    BY <1>1, Zenon
  <2>2. Ids(g)[k] = g[k].cdesc.req_id /\ Cdescs(g)[k] = g[k].cdesc
    BY <1>2, Zenon
  <2>3. Ids(f)[k + 1] = f[k + 1].cdesc.req_id /\ Cdescs(f)[k + 1] = f[k + 1].cdesc
    BY <1>3, <2>1, Zenon
  <2> QED
    BY <2>1, <2>2, <2>3, Zenon
<1>7. Ids(g) = Tail(Ids(f)) /\ Ids(f) # <<>>
  BY <1>2, <1>3, <1>5, <1>6, Zenon
<1>8. Cdescs(g) = Tail(Cdescs(f)) /\ Cdescs(f) # <<>> /\ Head(Cdescs(f)) = Cdescs(f)[1]
  BY <1>2, <1>3, <1>5, <1>6, Zenon
<1> QED
  BY <1>1, <1>3, <1>7, <1>8, Zenon DEF g, n

\* A table with one entry replaced.
LEMMA Replaced ==
    ASSUME NEW S, NEW T, NEW g \in [S -> T], NEW q \in S, NEW v \in T,
           NEW h, h = [g EXCEPT ![q] = v]
    PROVE  h \in [S -> T] /\ \A p \in S : p # q => h[p] = g[p]
BY Zenon

\* What the types of the variables give for one queue.
LEMMA QueueTypes ==
    ASSUME Inv, NEW q \in Qs
    PROVE  /\ sq[q] \in [used : BOOLEAN, head : 0..(W - 1), tail : 0..(W - 1)]
           /\ sq[q].head \in Int /\ sq[q].tail \in Int /\ tail[q] \in Int
           /\ Avail(q) \in Nat /\ Done(q) \in Nat /\ Front(q) \in Int
           /\ Count(Front(q), tail[q]) \in Nat
           /\ sring[q] \in [Slots -> Desc \cup {BlankDesc}]
           /\ free[q] \in SUBSET Slots /\ fifo[q] \in Seq(Note) /\ Ids(fifo[q]) \in Seq(Slots)
           /\ (q \notin bad) \in BOOLEAN /\ BufSize[q] \in Nat \ {0}
<1>1. sq[q] \in [used : BOOLEAN, head : 0..(W - 1), tail : 0..(W - 1)] /\ tail[q] \in 0..(W - 1)
  BY Zenon DEF Inv, Shape
<1>2. sq[q].head \in Int /\ sq[q].tail \in Int /\ tail[q] \in Int
  BY <1>1
<1>3. Avail(q) \in Nat
  <2>1. sq[q].tail - sq[q].head \in Int
    BY <1>2
  <2>2. (sq[q].tail - sq[q].head) % W \in 0..(W - 1)
    BY <2>1, WrapIndex, Zenon
  <2> QED
    BY <2>2 DEF Avail
<1>4. Done(q) \in Nat
  <2>1. CASE Busy(q)
    <3>1. rx.i \in 1..Len(rx.desc) /\ Len(rx.desc) \in Nat
      BY <2>1 DEF Busy, Inv, Handler
    <3> QED
      BY <2>1, <3>1 DEF Done
  <2>2. CASE ~Busy(q)
    BY <2>2, Zenon DEF Done
  <2> QED
    BY <2>1, <2>2, Zenon
<1>5. Front(q) \in Int
  BY <1>2, <1>4 DEF Front
<1>6. Count(Front(q), tail[q]) \in Nat
  <2>1. Count(Front(q), tail[q]) \in 0..(W - 1)
    BY <1>2, <1>5, CountType, Zenon
  <2> QED
    BY <2>1
<1>7. sring[q] \in [Slots -> Desc \cup {BlankDesc}]
  BY Zenon DEF Inv, Shape
<1>8. free[q] \in SUBSET Slots /\ fifo[q] \in Seq(Note)
  BY Zenon DEF Inv, Shape
<1> QED
  BY <1>1, <1>2, <1>3, <1>4, <1>5, <1>6, <1>7, <1>8, IdsType, SizeAssumption, Zenon

\* A queue nothing happens to.
LEMMA SubmissionKept ==
    ASSUME NEW q, Submission(q), sq'[q] = sq[q], Done(q)' = Done(q), tail'[q] = tail[q],
           sring'[q] = sring[q], fifo'[q] = fifo[q], free'[q] = free[q],
           q \in bad' <=> q \in bad
    PROVE  Submission(q)'
BY Zenon DEF Submission, Front, Avail

\* Its completion ring.
LEMMA CompletionKept ==
    ASSUME NEW q, Completion(q), cring'[q] = cring[q], cq'[q] = cq[q],
           driver'[q] = driver[q], fifo'[q] = fifo[q]
    PROVE  Completion(q)'
BY Zenon DEF Completion

\* Its buffers and frames.
LEMMA DeliveryKept ==
    ASSUME NEW q, Delivery(q), mem'[q] = mem[q], fifo'[q] = fifo[q], prev'[q] = prev[q],
           Busy(q)' <=> Busy(q), Busy(q) => rx'.off = rx.off
    PROVE  Delivery(q)'
BY Zenon DEF Delivery, Chain

-----------------------------------------------------------------------------
(* The initial state, and a queue that is created anew. *)

\* No completions, no ids.
LEMMA NoIds == Ids(<<>>) = <<>> /\ Cdescs(<<>>) = <<>>
BY DEF Ids, Cdescs

\* A completion ring of zeros is empty.
LEMMA FreshRing ==
    /\ [s \in Slots |-> BlankEntry] \in [Slots -> [phase : BOOLEAN, data : Cdesc \cup {Nothing}]]
    /\ Start \in Position
    /\ Holds([s \in Slots |-> BlankEntry], Start, Start, <<>>)
<1> DEFINE ring == [s \in Slots |-> BlankEntry]
<1>1. BlankEntry \in [phase : BOOLEAN, data : Cdesc \cup {Nothing}]
  BY Zenon DEF BlankEntry
<1>2. \A i \in Slots : ring[i].phase = FALSE
  BY Zenon DEF BlankEntry
<1>3. ring \in [Slots -> [phase : BOOLEAN, data : Cdesc \cup {Nothing}]]
  BY <1>1, Zenon
<1> HIDE DEF ring
<1>4. Start \in Position /\ Holds(ring, Start, Start, <<>>)
  BY <1>2, StartHolds, Zenon
<1> QED
  BY <1>3, <1>4, Zenon DEF ring

\* No completion is unfinished.
LEMMA FreshChain ==
    ASSUME NEW busy, NEW off
    PROVE  Chain(<<>> \o <<>>, busy, off)
BY DEF Chain

\* Nothing is posted.
LEMMA FreshAvail == (0 - 0) % W = 0 /\ 0 \in 0..(W - 1)
BY RingSizes, ModSmall

\* The device as it is realized.
LEMMA InitInv ==
    ASSUME SlotTheory, Init
    PROVE  Inv
<1>0. rx = Idle /\ \A q : ~Busy(q) /\ Done(q) = 0
  BY Zenon DEF Init, Busy, Done
<1>1. Shape
  <2>1. sq \in [Qs -> [used : BOOLEAN, head : 0..(W - 1), tail : 0..(W - 1)]]
    BY FreshAvail, Zenon DEF Init
  <2>2. cq \in [Qs -> Position] /\ driver \in [Qs -> Position]
    BY FreshRing, Zenon DEF Init
  <2>3. sring \in [Qs -> [Slots -> Desc \cup {BlankDesc}]]
    BY Zenon DEF Init
  <2>4. cring \in [Qs -> [Slots -> [phase : BOOLEAN, data : Cdesc \cup {Nothing}]]]
    BY FreshRing, Zenon DEF Init
  <2>5. mem \in [Qs -> [Slots -> Chunk \cup {Nothing}]]
    BY Zenon DEF Init
  <2>6. tail \in [Qs -> 0..(W - 1)] /\ bad \subseteq Qs /\ free \in [Qs -> SUBSET Slots]
    BY FreshAvail, Zenon DEF Init
  <2>7. fifo \in [Qs -> Seq(Note)] /\ prev \in [Qs -> Seq(Note)]
    <3>1. <<>> \in Seq(Note)
      OBVIOUS
    <3> QED
      BY <3>1, Zenon DEF Init
  <2> QED
    BY <2>1, <2>2, <2>3, <2>4, <2>5, <2>6, <2>7, Zenon DEF Shape
<1>2. Counts
  <2>1. /\ held = <<>> /\ flushing = FALSE /\ rx_pkts = 0 /\ rx_drops = 0 /\ filtered = 0
        /\ arrived = 0
    BY Zenon DEF Init
  <2>2. <<>> \in Seq(Frames) /\ Len(<<>>) = 0
    OBVIOUS
  <2>3. FramesAccounted
    BY <1>0, <2>1, <2>2 DEF FramesAccounted
  <2> QED
    <3>1. 0 <= MaxHeld /\ 0 <= MaxArrivals /\ 0 \in Nat /\ FALSE \in BOOLEAN
      BY BoundAssumption
    <3> QED
      BY <1>0, <2>1, <2>2, <2>3, <3>1, Zenon DEF Counts
<1>3. Handler
  BY <1>0, Zenon DEF Handler
<1>4. ASSUME NEW q \in Qs PROVE Submission(q) /\ Completion(q) /\ Delivery(q)
  <2>1. /\ sq[q] = [used |-> FALSE, head |-> 0, tail |-> 0] /\ tail[q] = 0
        /\ fifo[q] = <<>> /\ prev[q] = <<>> /\ free[q] = Slots /\ q \notin bad
    BY Zenon DEF Init
  <2>2. cq[q] = Start /\ driver[q] = Start /\ cring[q] = [s \in Slots |-> BlankEntry]
    BY Zenon DEF Init
  <2>3. Front(q) = 0 /\ Avail(q) = 0
    BY <1>0, <2>1, FreshAvail DEF Front, Avail
  <2>4. Count(0, 0) = 0 /\ Buffers(0, 0, sring[q], <<>>, Slots, TRUE, BufSize[q])
    BY BuffersFresh, Zenon
  <2>5. Submission(q)
    <3>1. (q \notin bad) = TRUE /\ ~sq[q].used /\ sq[q].head = 0 /\ sq[q].tail = 0
      BY <2>1
    <3>2. Buffers(Front(q), tail[q], sring[q], Ids(fifo[q]), free[q], q \notin bad, BufSize[q])
      BY <2>1, <2>3, <2>4, <3>1, NoIds, Zenon
    <3>3. Avail(q) <= Done(q) + Count(Front(q), tail[q])
      BY <1>0, <2>1, <2>3, <2>4
    <3> QED
      BY <3>1, <3>2, <3>3, Zenon DEF Submission
  <2>6. Completion(q)
    BY <2>1, <2>2, NoIds, FreshRing, Zenon DEF Completion
  <2>7. Delivery(q)
    <3>1. Len(<<>>) = 0 /\ 1..0 = {} /\ 0 <= 1
      OBVIOUS
    <3> QED
      BY <2>1, <3>1, FreshChain, Zenon DEF Delivery
  <2> QED
    BY <2>5, <2>6, <2>7, Zenon
<1> QED
  BY <1>1, <1>2, <1>3, <1>4, Zenon DEF Inv, Queues

-----------------------------------------------------------------------------
(* ena_rx_receive_iov up to its loop. *)

\* The descriptors the device knows of are posted, and of the queue's size.
LEMMA AvailPosted ==
    ASSUME Inv, NEW q \in Qs, rx = Idle
    PROVE  /\ Avail(q) <= Count(sq[q].head, tail[q])
           /\ Done(q) = 0 /\ Front(q) = sq[q].head
           /\ \A k \in 0..(Avail(q) - 1) :
                /\ At(q, k) \in Desc /\ At(q, k).size = BufSize[q]
                /\ q \notin bad => At(q, k).ok
<1>1. Done(q) = 0
  BY Zenon DEF Done, Busy
<1>2. Front(q) = sq[q].head
  BY <1>1, QueueTypes DEF Front
<1>3. Submission(q)
  BY Zenon DEF Inv, Queues
<1>4. Avail(q) <= Count(sq[q].head, tail[q])
  <2>1. Avail(q) <= 0 + Count(sq[q].head, tail[q])
    BY <1>1, <1>2, <1>3, Zenon DEF Submission
  <2>2. Count(sq[q].head, tail[q]) \in Nat
    BY <1>2, QueueTypes, Zenon
  <2> QED
    BY <2>1, <2>2
<1>5. \A k \in 0..(Avail(q) - 1) : k \in 0..(Count(sq[q].head, tail[q]) - 1)
  <2>1. Avail(q) \in Nat /\ Count(sq[q].head, tail[q]) \in Nat
    BY <1>2, QueueTypes, Zenon
  <2> QED
    BY <1>4, <2>1
<1>6. Buffers(sq[q].head, tail[q], sring[q], Ids(fifo[q]), free[q], q \notin bad, BufSize[q])
  BY <1>2, <1>3, Zenon DEF Submission
<1>7. \A k \in 0..(Count(sq[q].head, tail[q]) - 1) :
        /\ sring[q][(sq[q].head + k) % Depth] \in Desc
        /\ sring[q][(sq[q].head + k) % Depth].size = BufSize[q]
        /\ q \notin bad => sring[q][(sq[q].head + k) % Depth].ok
  BY <1>6, Zenon DEF Buffers
<1>8. \A k \in 0..(Avail(q) - 1) : /\ At(q, k) \in Desc /\ At(q, k).size = BufSize[q]
                                   /\ q \notin bad => At(q, k).ok
  BY <1>5, <1>7, Zenon DEF At
<1> QED
  BY <1>1, <1>2, <1>4, <1>8, Zenon

\* ena_rx_collect takes what the frame needs, or passes over a bad descriptor.
LEMMA CollectFacts ==
    ASSUME SlotTheory, Inv, rx = Idle, NEW q \in Qs, NEW len \in Nat \ {0}
    PROVE  LET c == Collect(q, len)
           IN \/ /\ c.n \in Nat \ {0} /\ c.n <= Avail(q)
                 /\ (c.n - 1) * BufSize[q] < len /\ len <= c.n * BufSize[q]
              \/ /\ c.n = -1 /\ c.skip \in Nat /\ c.skip <= Avail(q)
                 /\ c.skip # 0 => q \in bad
<1> DEFINE b == BufSize[q]
           a == Avail(q)
           need == (len + BufSize[q] - 1) \div BufSize[q]
           lim == IF a < MaxDescs THEN a ELSE MaxDescs
           top == IF need < lim THEN need ELSE lim
           wrong == {k \in 1..top : ~At(q, k - 1).ok}
           w == CHOOSE k \in wrong : \A j \in wrong : k <= j
           c == Collect(q, len)
<1>0. MaxDescs \in Nat /\ b \in Nat \ {0} /\ a \in Nat
  BY BoundAssumption, QueueTypes, Zenon
<1>1. \A k \in 0..(a - 1) : At(q, k).size = b /\ (q \notin bad => At(q, k).ok)
  BY AvailPosted, Zenon
<1>2. c = IF wrong # {} THEN [n |-> -1, skip |-> w]
          ELSE [n |-> IF need <= lim THEN need ELSE -1, skip |-> 0]
  BY <1>0, <1>1, CollectResult, Zenon
<1>3. /\ need \in Nat \ {0} /\ (need - 1) * b < len
      /\ \A n \in Nat : n * b >= len <=> n >= need
  BY <1>0, Ceiling, Zenon
<1> HIDE DEF b, a, need, c
<1>4. lim \in Nat /\ lim <= a /\ top \in Nat /\ top <= a
  BY <1>0, <1>3
<1> HIDE DEF lim, top
<1>5. CASE wrong # {}
  <2>1. wrong \in SUBSET Nat
    BY <1>4
  <2>2. w \in wrong
    <3>1. \E k \in wrong : \A j \in wrong : k <= j
      BY <1>5, <2>1, Least, Zenon
    <3> QED
      BY <3>1, Zenon
  <2> HIDE DEF w
  <2>3. w \in 1..top /\ ~At(q, w - 1).ok
    BY <2>2, Zenon
  <2>4. w \in Nat /\ w <= a /\ w - 1 \in 0..(a - 1)
    BY <1>0, <1>4, <2>3
  <2>5. q \in bad
    BY <1>1, <2>3, <2>4, Zenon
  <2>6. c.n = -1 /\ c.skip = w
    BY <1>2, <1>5, Zenon
  <2> QED
    BY <2>4, <2>5, <2>6, Zenon DEF a, c
<1>6. CASE wrong = {} /\ need <= lim
  <2>1. c.n = need
    BY <1>2, <1>6, Zenon
  <2>2. need \in Nat \ {0} /\ need <= a
    BY <1>0, <1>3, <1>4, <1>6
  <2>3. len <= need * b
    <3>1. need >= need /\ need \in Nat
      BY <1>3
    <3>2. need * b >= len
      BY <1>3, <3>1, Zenon
    <3>3. need * b \in Int
      BY <1>0, <1>3
    <3> QED
      BY <3>2, <3>3, Zenon
  <2> QED
    BY <1>3, <2>1, <2>2, <2>3, Zenon DEF a, b, c
<1>7. CASE wrong = {} /\ ~(need <= lim)
  <2>1. c.n = -1 /\ c.skip = 0
    BY <1>2, <1>7, Zenon
  <2>2. c.n = -1 /\ c.skip \in Nat /\ c.skip <= a /\ ~(c.skip # 0)
    BY <1>0, <2>1
  <2> QED
    BY <2>2, Zenon DEF a, c
<1> QED
  BY <1>5, <1>6, <1>7, Zenon

\* Buffers the device passes over, or none.
LEMMA SkipInv ==
    ASSUME SlotTheory, Inv, rx = Idle, NEW q \in Qs,
           NEW s \in Nat, s <= Avail(q), s # 0 => q \in bad,
           sq' = [sq EXCEPT ![q].head = (@ + s) % W], rx' = rx,
           UNCHANGED <<cq, guest, cring, mem, fifo>>
    PROVE  Shape' /\ Handler' /\ Queues'
<1>0. /\ sring' = sring /\ tail' = tail /\ driver' = driver /\ free' = free /\ prev' = prev
      /\ bad' = bad /\ cq' = cq /\ cring' = cring /\ mem' = mem /\ fifo' = fifo
  BY Zenon DEF guest
<1>1. /\ sq[q].head \in Int /\ sq[q].tail \in Int /\ sq[q].head + s \in Int
      /\ sq \in [Qs -> [used : BOOLEAN, head : 0..(W - 1), tail : 0..(W - 1)]]
  <2>1. sq[q].head \in Int /\ sq[q].tail \in Int
    BY QueueTypes, Zenon
  <2> QED
    BY <2>1 DEF Inv, Shape
<1>2. (sq[q].head + s) % W \in 0..(W - 1)
  BY <1>1, WrapIndex, Zenon
<1>3. /\ sq'[q] = [sq[q] EXCEPT !.head = (sq[q].head + s) % W]
      /\ \A p \in Qs : p # q => sq'[p] = sq[p]
      /\ sq' \in [Qs -> [used : BOOLEAN, head : 0..(W - 1), tail : 0..(W - 1)]]
  BY <1>1, <1>2, Zenon
<1>4. /\ sq'[q].used = sq[q].used /\ sq'[q].tail = sq[q].tail
      /\ sq'[q].head = (sq[q].head + s) % W
  <2>1. sq[q] \in [used : BOOLEAN, head : 0..(W - 1), tail : 0..(W - 1)]
    BY <1>1, Zenon
  <2> QED
    BY <1>3, <2>1, Zenon
<1>5. Shape'
  BY <1>0, <1>3, Zenon DEF Inv, Shape
<1>6. Handler'
  BY Zenon DEF Handler
<1>7. \A p : (Busy(p)' <=> Busy(p)) /\ ~Busy(p) /\ Done(p)' = 0 /\ Done(p) = 0
  BY Zenon DEF Busy, Done
<1>8. \A p \in Qs : Submission(p) /\ Completion(p) /\ Delivery(p)
  BY Zenon DEF Inv, Queues
<1>9. \A p \in Qs : Completion(p)'
  BY <1>0, <1>8, CompletionKept, Zenon
<1>10. \A p \in Qs : Delivery(p)'
  BY <1>0, <1>7, <1>8, DeliveryKept, Zenon
<1>11. ASSUME NEW p \in Qs, p # q PROVE Submission(p)'
  <2>1. sq'[p] = sq[p] /\ Done(p)' = Done(p)
    BY <1>3, <1>7, <1>11, Zenon
  <2> QED
    BY <1>0, <1>8, <2>1, SubmissionKept, Zenon
<1>12. Submission(q)'
  <2>1. CASE s = 0
    <3>1. sq[q].head + 0 = sq[q].head /\ sq[q].head \in 0..(W - 1)
      BY <1>1
    <3>2. sq'[q] = sq[q]
      BY <1>1, <1>3, <2>1, <3>1, ModSmall
    <3> QED
      BY <1>0, <1>7, <1>8, <3>2, SubmissionKept, Zenon
  <2>2. CASE s # 0
    <3> DEFINE h == sq[q].head
               n == Count(h, tail[q])
    <3>1. h \in Int /\ h + s \in Int /\ tail[q] \in Int /\ n \in Nat /\ Avail(q) \in Nat
      BY <1>1, QueueTypes, AvailPosted, Zenon
    <3>2. s <= n /\ Avail(q) <= n /\ Front(q) = h
      <4>1. Avail(q) <= n /\ Front(q) = h
        BY AvailPosted, Zenon
      <4> QED
        BY <3>1, <4>1
    <3>3. Buffers(h, tail[q], sring[q], Ids(fifo[q]), free[q], q \notin bad, BufSize[q])
      BY <1>8, <3>2, Zenon DEF Submission
    <3>4. /\ Count(h + s, tail[q]) = n - s
          /\ Buffers(h + s, tail[q], sring[q], Ids(fifo[q]), free[q], FALSE, BufSize[q])
      BY <3>1, <3>2, <3>3, BuffersSkip, QueueTypes, Zenon
    <3>5. /\ Count((h + s) % W, tail[q]) = n - s
          /\ Buffers((h + s) % W, tail[q], sring[q], Ids(fifo[q]), free[q], FALSE, BufSize[q])
      BY <3>1, <3>4, BuffersWrap, Zenon
    <3>6. Front(q)' = (h + s) % W
      <4>1. (h + s) % W \in Int
        BY <1>2
      <4>2. Front(q)' = sq'[q].head + 0
        BY <1>7, Zenon DEF Front
      <4> QED
        BY <1>4, <4>1, <4>2
    <3>7. Avail(q)' = Avail(q) - s
      <4>1. Avail(q) = Count(h, sq[q].tail)
        BY Zenon DEF Avail, Count
      <4>2. Count(h + s, sq[q].tail) = Count(h, sq[q].tail) - s
        BY <1>1, <4>1, CountLess, Zenon
      <4>3. Count((h + s) % W, sq[q].tail) = Count(h + s, sq[q].tail)
        BY <1>1, CountWraps, Zenon
      <4>4. Avail(q)' = Count((h + s) % W, sq[q].tail)
        BY <1>4, Zenon DEF Avail, Count
      <4> QED
        BY <4>1, <4>2, <4>3, <4>4, Zenon
    <3>8. (q \notin bad) = FALSE /\ bad' = bad
      BY <1>0, <2>2, Zenon
    <3>9. Buffers(Front(q)', tail'[q], sring'[q], Ids(fifo'[q]), free'[q],
                  q \notin bad', BufSize[q])
      BY <1>0, <3>5, <3>6, <3>8, Zenon
    <3>10. Avail(q)' <= Done(q)' + Count(Front(q)', tail'[q])
      <4>1. Count(Front(q)', tail'[q]) = n - s /\ Done(q)' = 0
        BY <1>0, <1>7, <3>5, <3>6, Zenon
      <4> HIDE DEF n
      <4> QED
        BY <3>1, <3>2, <3>7, <4>1
    <3>11. sq'[q].used
      <4>1. sq[q].used
        <5>1. SUFFICES ASSUME ~sq[q].used PROVE FALSE
          BY Zenon
        <5>2. sq[q].head = 0 /\ sq[q].tail = 0
          BY <1>8, <5>1, Zenon DEF Submission
        <5>3. Avail(q) = 0
          BY <5>2, FreshAvail, Zenon DEF Avail
        <5> QED
          BY <2>2, <5>3
      <4> QED
        BY <1>4, <4>1, Zenon
    <3> QED
      BY <3>9, <3>10, <3>11, Zenon DEF Submission
  <2> QED
    BY <2>1, <2>2, Zenon
<1> QED
  BY <1>5, <1>6, <1>9, <1>10, <1>11, <1>12, Zenon DEF Queues

\* Steps that leave the queues and the handler alone.
LEMMA SameQueues ==
    ASSUME Inv, UNCHANGED <<sq, cq, rx, guest, cring, mem, fifo>>
    PROVE  Shape' /\ Handler' /\ Queues'
<1>0. /\ sring' = sring /\ tail' = tail /\ driver' = driver /\ free' = free /\ prev' = prev
      /\ bad' = bad /\ cq' = cq /\ cring' = cring /\ mem' = mem /\ fifo' = fifo /\ sq' = sq
      /\ rx' = rx
  BY Zenon DEF guest
<1>1. Shape'
  BY <1>0, Zenon DEF Inv, Shape
<1>2. Handler'
  BY <1>0, Zenon DEF Inv, Handler, Avail, At, Piece
<1>3. \A p : (Busy(p)' <=> Busy(p)) /\ Done(p)' = Done(p)
  BY <1>0, Zenon DEF Busy, Done
<1>4. \A p \in Qs : Submission(p) /\ Completion(p) /\ Delivery(p)
  BY Zenon DEF Inv, Queues
<1>5. \A p \in Qs : Submission(p)' /\ Completion(p)' /\ Delivery(p)'
  BY <1>0, <1>3, <1>4, SubmissionKept, CompletionKept, DeliveryKept, Zenon
<1> QED
  BY <1>1, <1>2, <1>5, Zenon DEF Queues

\* A record of the handler is not Idle.
HandlerType == [pc : {"dma", "push"}, q : Qs, frame : Frames, off : Nat, i : Nat, desc : Seq(Desc)]

\* The handler at work is not idle.
LEMMA HandlerBusy ==
    ASSUME NEW r \in HandlerType
    PROVE  r # Idle
BY DEF HandlerType, Idle

\* The handler has the buffers for its frame.
LEMMA StartInv ==
    ASSUME Inv, rx = Idle, NEW q \in Qs, sq[q].used, NEW f \in Frames, NEW n \in Nat \ {0},
           n <= Avail(q), (n - 1) * BufSize[q] < f.len, f.len <= n * BufSize[q],
           rx' = [pc |-> "dma", q |-> q, frame |-> f, off |-> 0, i |-> 1, desc |-> Descs(q, n)],
           UNCHANGED <<sq, cq, guest, cring, mem, fifo>>
    PROVE  Shape' /\ Handler' /\ Queues' /\ rx' # Idle
<1>0. /\ sring' = sring /\ tail' = tail /\ driver' = driver /\ free' = free /\ prev' = prev
      /\ bad' = bad /\ cq' = cq /\ cring' = cring /\ mem' = mem /\ fifo' = fifo /\ sq' = sq
  BY Zenon DEF guest
<1>1. /\ Descs(q, n) \in Seq(Desc) /\ Len(Descs(q, n)) = n
      /\ \A k \in 1..n : Descs(q, n)[k] = At(q, k - 1)
  <2>1. Avail(q) \in Nat
    BY QueueTypes, Zenon
  <2>2. \A k \in 1..n : k - 1 \in 0..(Avail(q) - 1)
    BY ONLY <2>1, n \in Nat \ {0}, n <= Avail(q)
  <2>3. \A k \in 1..n : At(q, k - 1) \in Desc
    BY <2>2, AvailPosted, Zenon
  <2>4. Descs(q, n) = [k \in 1..n |-> At(q, k - 1)]
    BY Zenon DEF Descs
  <2> QED
    BY <2>3, <2>4
<1>2. /\ rx'.pc = "dma" /\ rx'.q = q /\ rx'.frame = f /\ rx'.off = 0 /\ rx'.i = 1
      /\ rx'.desc = Descs(q, n)
  BY Zenon
<1>3. rx' \in HandlerType
  BY <1>1, Zenon DEF HandlerType
<1>4. rx' # Idle
  BY <1>3, HandlerBusy, Zenon
<1>5. \A p : ~Busy(p) /\ Done(p)' = 0 /\ Done(p) = 0 /\ (Busy(p)' <=> p = q)
  BY <1>2, <1>4 DEF Busy, Done
<1>6. \A p \in Qs : Submission(p) /\ Completion(p) /\ Delivery(p)
  BY Zenon DEF Inv, Queues
<1>7. \A p \in Qs : Completion(p)'
  BY <1>0, <1>6, CompletionKept, Zenon
<1>8. \A p \in Qs : Submission(p)'
  BY <1>0, <1>5, <1>6, SubmissionKept, Zenon
<1>9. \A p \in Qs : p # q => Delivery(p)'
  BY <1>0, <1>5, <1>6, DeliveryKept, Zenon
<1> DEFINE s == prev[q] \o fifo[q]
<1>10. s = <<>> \/ s[Len(s)].cdesc.last
  BY <1>5, <1>6, Zenon DEF Delivery, Chain
<1>11. Delivery(q)'
  <2>1. Chain(s, Busy(q)', rx'.off)
    <3>1. Chain(s, Busy(q), rx.off)
      BY <1>6, Zenon DEF Delivery
    <3> QED
      BY <1>10, <3>1, Zenon DEF Chain
  <2>2. /\ \A k \in 1..Len(fifo[q]) : mem[q][fifo[q][k].cdesc.req_id] = fifo[q][k].chunk
        /\ Len(prev[q]) <= 1
    BY <1>6, Zenon DEF Delivery
  <2> QED
    BY <1>0, <2>1, <2>2, Zenon DEF Delivery
<1>12. Shape'
  BY <1>0, Zenon DEF Inv, Shape
<1>13. Handler'
  <2>1. 1 \in 1..n /\ 0 = (1 - 1) * BufSize[q] /\ "dma" # "push"
    <3>1. BufSize[q] \in Nat
      BY QueueTypes, Zenon
    <3> QED
      BY <3>1
  <2>2. Avail(q)' = Avail(q) /\ \A k : At(q, k)' = At(q, k)
    BY <1>0, Zenon DEF Avail, At
  <2>3. \A k \in 1..n : rx'.desc[k] = At(q, k - 1)'
    BY <1>1, <1>2, <2>2, Zenon
  <2>4. 1 = 1 <=> (s = <<>> \/ s[Len(s)].cdesc.last)
    BY <1>10, Zenon
  <2> HIDE DEF s
  <2> QED
    BY <1>0, <1>1, <1>2, <1>3, <2>1, <2>2, <2>3, <2>4, Zenon DEF Handler, HandlerType, s
<1> QED
  BY <1>4, <1>7, <1>8, <1>9, <1>11, <1>12, <1>13, Zenon DEF Queues

\* ena_rx_receive_iov up to its loop: the queues are in order, and the frame is
\* counted or in progress.
LEMMA ReceiveInv ==
    ASSUME SlotTheory, Inv, rx = Idle, NEW f \in Frames, Receive(f),
           UNCHANGED <<cq, guest, cring, mem, fifo>>
    PROVE  /\ Shape' /\ Handler' /\ Queues'
           /\ rx_pkts' = rx_pkts /\ rx_drops' \in Nat /\ filtered' \in Nat
           /\ rx_drops' + filtered' + (IF rx' = Idle THEN 0 ELSE 1) = rx_drops + filtered + 1
<1>0. rx_drops \in Nat /\ filtered \in Nat
  BY Zenon DEF Inv, Counts
<1>1. CASE Drop /\ UNCHANGED sq
  <2>1. rx' = rx /\ rx_pkts' = rx_pkts /\ rx_drops' = rx_drops + 1 /\ filtered' = filtered
    BY <1>1, Zenon DEF Drop
  <2>2. Shape' /\ Handler' /\ Queues'
    BY <1>1, <2>1, SameQueues, Zenon
  <2> QED
    BY <1>0, <2>1, <2>2
<1>2. CASE filtered' = filtered + 1 /\ UNCHANGED <<sq, rx, rx_pkts, rx_drops>>
  <2>1. rx' = rx /\ rx_pkts' = rx_pkts /\ rx_drops' = rx_drops /\ sq' = sq
    BY <1>2, Zenon
  <2>2. Shape' /\ Handler' /\ Queues'
    BY <2>1, SameQueues, Zenon
  <2> QED
    BY <1>0, <1>2, <2>1, <2>2
<1>3. ASSUME f.ours, NEW q \in RxSq(f.bucket),
             LET c == Collect(q, f.len) IN
             \/ /\ c.n < 0
                /\ sq' = [sq EXCEPT ![q].head = (@ + c.skip) % W]
                /\ Drop
             \/ /\ c.n >= 0
                /\ rx' = [pc |-> "dma", q |-> q, frame |-> f, off |-> 0, i |-> 1,
                          desc |-> Descs(q, c.n)]
                /\ UNCHANGED <<sq, rx_pkts, rx_drops, filtered>>
      PROVE  /\ Shape' /\ Handler' /\ Queues'
             /\ rx_pkts' = rx_pkts /\ rx_drops' \in Nat /\ filtered' \in Nat
             /\ rx_drops' + filtered' + (IF rx' = Idle THEN 0 ELSE 1) = rx_drops + filtered + 1
  <2> DEFINE c == Collect(q, f.len)
  <2>1. q \in Qs /\ sq[q].used
    BY Zenon DEF RxSq, Used
  <2>2. f.len \in Nat \ {0}
    BY <1>3, FrameAssumption DEF Frame
  <2>3. \/ /\ c.n \in Nat \ {0} /\ c.n <= Avail(q)
           /\ (c.n - 1) * BufSize[q] < f.len /\ f.len <= c.n * BufSize[q]
        \/ /\ c.n = -1 /\ c.skip \in Nat /\ c.skip <= Avail(q)
           /\ c.skip # 0 => q \in bad
    BY <2>1, <2>2, CollectFacts, Zenon
  <2> HIDE DEF c
  <2>4. CASE /\ c.n < 0
             /\ sq' = [sq EXCEPT ![q].head = (@ + c.skip) % W]
             /\ Drop
    <3>1. rx' = rx /\ rx_pkts' = rx_pkts /\ rx_drops' = rx_drops + 1 /\ filtered' = filtered
      BY <2>4, Zenon DEF Drop
    <3>2. c.skip \in Nat /\ c.skip <= Avail(q) /\ (c.skip # 0 => q \in bad)
      BY <2>3, <2>4
    <3>3. Shape' /\ Handler' /\ Queues'
      BY <2>1, <2>4, <3>1, <3>2, SkipInv, Zenon
    <3> QED
      BY <1>0, <3>1, <3>3
  <2>5. CASE /\ c.n >= 0
             /\ rx' = [pc |-> "dma", q |-> q, frame |-> f, off |-> 0, i |-> 1,
                       desc |-> Descs(q, c.n)]
             /\ UNCHANGED <<sq, rx_pkts, rx_drops, filtered>>
    <3>1. rx_pkts' = rx_pkts /\ rx_drops' = rx_drops /\ filtered' = filtered /\ sq' = sq
      BY <2>5, Zenon
    <3>2. /\ c.n \in Nat \ {0} /\ c.n <= Avail(q)
          /\ (c.n - 1) * BufSize[q] < f.len /\ f.len <= c.n * BufSize[q]
      <4>1. ~(-1 >= 0)
        OBVIOUS
      <4> QED
        BY <2>3, <2>5, <4>1, Zenon
    <3>3. Shape' /\ Handler' /\ Queues' /\ rx' # Idle
      BY <2>1, <2>5, <3>1, <3>2, StartInv, Zenon
    <3> QED
      BY <1>0, <3>1, <3>3, Zenon
  <2> QED
    BY <1>3, <2>4, <2>5, Zenon DEF c
<1> QED
  BY <1>1, <1>2, <1>3, Zenon DEF Receive

-----------------------------------------------------------------------------
(* The net layer. *)

\* What Counts says, for the leaves below.
LEMMA CountsMeans ==
    Counts <=> /\ held \in Seq(Frames) /\ Len(held) <= MaxHeld /\ flushing \in BOOLEAN
               /\ rx_pkts \in Nat /\ rx_drops \in Nat /\ filtered \in Nat
               /\ arrived \in Nat /\ arrived <= MaxArrivals
               /\ flushing => held # <<>>
               /\ rx # Idle /\ held # <<>> => flushing
               /\ arrived = Len(held) + rx_pkts + rx_drops + filtered
                            + (IF rx = Idle THEN 0 ELSE 1)
               /\ rx = Idle /\ ~flushing /\ held # <<>> => \A q \in Used : Avail(q) = 0
BY Zenon DEF Counts, FramesAccounted, Ready4Handler

\* A frame that the handler took, with the frames that are held after it.
LEMMA TakenCounts ==
    ASSUME Inv, rx = Idle, NEW more \in Nat, more <= 1,
           held' \in Seq(Frames), Len(held') + 1 = Len(held) + more,
           flushing' = (held' # <<>>), arrived' = arrived + more, arrived' <= MaxArrivals,
           rx_pkts' = rx_pkts, rx_drops' \in Nat, filtered' \in Nat,
           rx_drops' + filtered' + (IF rx' = Idle THEN 0 ELSE 1) = rx_drops + filtered + 1
    PROVE  Counts'
<1>1. /\ held \in Seq(Frames) /\ Len(held) <= MaxHeld
      /\ rx_pkts \in Nat /\ rx_drops \in Nat /\ filtered \in Nat /\ arrived \in Nat
      /\ arrived = Len(held) + rx_pkts + rx_drops + filtered + 0
  BY CountsMeans, Zenon DEF Inv
<1>2. Len(held) \in Nat /\ Len(held') \in Nat /\ MaxHeld \in Nat /\ more \in Nat
  BY <1>1, BoundAssumption
<1>3. Len(held') <= MaxHeld
  BY ONLY <1>1, <1>2, Len(held') + 1 = Len(held) + more, more <= 1
<1>4. arrived' = Len(held') + rx_pkts' + rx_drops' + filtered' + (IF rx' = Idle THEN 0 ELSE 1)
  <2> DEFINE z == IF rx' = Idle THEN 0 ELSE 1
  <2>1. z \in Nat /\ rx_drops' + filtered' + z = rx_drops + filtered + 1
    BY Zenon
  <2> HIDE DEF z
  <2>2. /\ arrived' = arrived + more /\ Len(held') + 1 = Len(held) + more
        /\ rx_pkts' = rx_pkts /\ rx_drops' \in Nat /\ filtered' \in Nat
    BY Zenon
  <2>3. rx_pkts \in Nat /\ rx_drops \in Nat /\ filtered \in Nat /\ arrived \in Nat
        /\ arrived = Len(held) + rx_pkts + rx_drops + filtered + 0
    BY <1>1, Zenon
  <2>4. arrived + more = Len(held') + rx_pkts + (rx_drops + filtered + 1)
    BY ONLY <1>2, <2>2, <2>3
  <2>5. arrived + more = Len(held') + rx_pkts + (rx_drops' + filtered' + z)
    BY <2>1, <2>4, Zenon
  <2>6. arrived' = Len(held') + rx_pkts' + rx_drops' + filtered' + z
    <3>1. arrived + more = Len(held') + rx_pkts + rx_drops' + filtered' + z
      <4>1. /\ Len(held') \in Nat /\ rx_pkts \in Nat /\ rx_drops' \in Nat
            /\ filtered' \in Nat /\ z \in Nat
        BY <1>2, <2>1, <2>2, <2>3, Zenon
      <4>2. Len(held') + rx_pkts + (rx_drops' + filtered' + z)
              = Len(held') + rx_pkts + rx_drops' + filtered' + z
        BY ONLY <4>1
      <4> QED
        BY <2>5, <4>2, Zenon
    <3> QED
      BY <2>2, <3>1, Zenon
  <2> QED
    BY <2>6, Zenon DEF z
<1>5. flushing' \in BOOLEAN /\ (flushing' <=> held' # <<>>)
  BY Zenon
<1>6. arrived' \in Nat
  BY ONLY <1>1, <1>2, arrived' = arrived + more
<1> QED
  BY <1>1, <1>3, <1>4, <1>5, <1>6, Zenon DEF Counts, FramesAccounted, Ready4Handler

\* A frame is held back, or received; those held follow it.
LEMMA ArriveInv ==
    ASSUME SlotTheory, Inv, NEW f \in Frames, Arrive(f)
    PROVE  Inv'
<1>0. /\ rx = Idle /\ ~flushing /\ arrived < MaxArrivals /\ arrived' = arrived + 1
      /\ UNCHANGED <<guest, cring, mem, fifo>>
  BY Zenon DEF Arrive, Ready4Handler
<1>1. /\ held \in Seq(Frames) /\ Len(held) <= MaxHeld
      /\ rx_pkts \in Nat /\ rx_drops \in Nat /\ filtered \in Nat /\ arrived \in Nat
      /\ arrived = Len(held) + rx_pkts + rx_drops + filtered + (IF rx = Idle THEN 0 ELSE 1)
  BY CountsMeans, Zenon DEF Inv
<1>2. MaxArrivals \in Nat /\ MaxHeld \in Nat
  BY BoundAssumption, Zenon
<1>3. CASE /\ ~CanReceive /\ Len(held) < MaxHeld
           /\ held' = Append(held, f)
           /\ UNCHANGED <<flushing, filtered, device>>
  <2>1. /\ sq' = sq /\ cq' = cq /\ rx' = rx /\ rx_pkts' = rx_pkts /\ rx_drops' = rx_drops
        /\ filtered' = filtered /\ flushing' = flushing
    BY <1>3, Zenon DEF device
  <2>2. Shape' /\ Handler' /\ Queues'
    BY <1>0, <2>1, SameQueues, Zenon
  <2>3. held' \in Seq(Frames) /\ Len(held') = Len(held) + 1 /\ Len(held) \in Nat
    BY <1>1, <1>3
  <2>4. /\ Len(held') <= MaxHeld /\ arrived' \in Nat /\ arrived' <= MaxArrivals
        /\ arrived' = Len(held') + rx_pkts' + rx_drops' + filtered' + 0
    BY <1>0, <1>1, <1>2, <1>3, <2>1, <2>3
  <2>5. (\A q \in Used : Avail(q) = 0)'
    <3>1. \A q \in Used : Avail(q) = 0
      BY <1>3, Zenon DEF CanReceive
    <3> QED
      BY <2>1, <3>1, Zenon DEF Used, Avail
  <2>6. flushing' = FALSE /\ rx' = Idle /\ flushing' \in BOOLEAN
    <3>1. flushing = FALSE
      BY <1>0, Zenon DEF Inv, Counts
    <3> QED
      BY <1>0, <2>1, <3>1, Zenon
  <2>7. Counts'
    BY <1>1, <2>1, <2>3, <2>4, <2>5, <2>6, Zenon DEF Counts, FramesAccounted, Ready4Handler
  <2> QED
    BY <2>2, <2>7, Zenon DEF Inv
<1>4. CASE Receive(f) /\ flushing' = (held # <<>>) /\ UNCHANGED <<held, cq>>
  <2>1. cq' = cq /\ held' = held
    BY <1>4, Zenon
  <2>2. /\ Shape' /\ Handler' /\ Queues'
        /\ rx_pkts' = rx_pkts /\ rx_drops' \in Nat /\ filtered' \in Nat
        /\ rx_drops' + filtered' + (IF rx' = Idle THEN 0 ELSE 1) = rx_drops + filtered + 1
    BY <1>0, <1>4, <2>1, ReceiveInv, Zenon
  <2>3. arrived' <= MaxArrivals /\ 1 \in Nat /\ 1 <= 1 /\ held' \in Seq(Frames)
        /\ flushing' = (held' # <<>>)
    BY <1>0, <1>1, <1>2, <1>4, <2>1
  <2>4. Len(held') + 1 = Len(held) + 1
    BY <2>1, Zenon
  <2>5. Counts'
    BY <1>0, <2>2, <2>3, <2>4, TakenCounts, Zenon
  <2> QED
    BY <2>2, <2>5, Zenon DEF Inv
<1> QED
  BY <1>3, <1>4, Zenon DEF Arrive

\* The next held frame is received.
LEMMA FlushInv ==
    ASSUME SlotTheory, Inv, Flush
    PROVE  Inv'
<1>0. /\ rx = Idle /\ flushing /\ held' = Tail(held) /\ flushing' = (held' # <<>>)
      /\ Receive(Head(held)) /\ arrived' = arrived /\ cq' = cq
      /\ UNCHANGED <<guest, cring, mem, fifo>>
  BY Zenon DEF Flush
<1>1. /\ held \in Seq(Frames) /\ held # <<>> /\ arrived \in Nat /\ arrived <= MaxArrivals
  BY <1>0, CountsMeans, Zenon DEF Inv
<1>2. /\ Head(held) \in Frames /\ Tail(held) \in Seq(Frames)
      /\ Len(Tail(held)) + 1 = Len(held) + 0 /\ arrived = arrived + 0 /\ 0 \in Nat /\ 0 <= 1
  BY <1>1
<1>3. /\ Shape' /\ Handler' /\ Queues'
      /\ rx_pkts' = rx_pkts /\ rx_drops' \in Nat /\ filtered' \in Nat
      /\ rx_drops' + filtered' + (IF rx' = Idle THEN 0 ELSE 1) = rx_drops + filtered + 1
  BY <1>0, <1>2, ReceiveInv, Zenon
<1>4. Counts'
  <2>1. arrived' = arrived + 0 /\ arrived' <= MaxArrivals
    BY <1>0, <1>1, <1>2, Zenon
  <2>2. held' \in Seq(Frames) /\ Len(held') + 1 = Len(held) + 0
    BY <1>0, <1>2, Zenon
  <2> QED
    BY <1>0, <1>2, <1>3, <2>1, <2>2, TakenCounts, Zenon
<1> QED
  BY <1>3, <1>4, Zenon DEF Inv

-----------------------------------------------------------------------------
(* Doorbells, and queues that come and go. *)

\* A step between handlers that changes the registers of queue q alone.
LEMMA RegisterInv ==
    ASSUME Inv, rx = Idle, rx' = rx, NEW q \in Qs,
           sq' \in [Qs -> [used : BOOLEAN, head : 0..(W - 1), tail : 0..(W - 1)]],
           \A p \in Qs : p # q => sq'[p] = sq[p],
           UNCHANGED <<cq, guest, cring, mem, fifo>>, Submission(q)'
    PROVE  Shape' /\ Handler' /\ Queues'
<1>0. /\ sring' = sring /\ tail' = tail /\ driver' = driver /\ free' = free /\ prev' = prev
      /\ bad' = bad /\ cq' = cq /\ cring' = cring /\ mem' = mem /\ fifo' = fifo
  BY Zenon DEF guest
<1>1. Shape'
  BY <1>0, Zenon DEF Inv, Shape
<1>2. Handler'
  BY Zenon DEF Handler
<1>3. \A p : (Busy(p)' <=> Busy(p)) /\ ~Busy(p) /\ Done(p)' = Done(p)
  BY Zenon DEF Busy, Done
<1>4. \A p \in Qs : Submission(p) /\ Completion(p) /\ Delivery(p)
  BY Zenon DEF Inv, Queues
<1>5. \A p \in Qs : Completion(p)'
  BY <1>0, <1>4, CompletionKept, Zenon
<1>6. \A p \in Qs : Delivery(p)'
  BY <1>0, <1>3, <1>4, DeliveryKept, Zenon
<1>7. \A p \in Qs : p # q => Submission(p)'
  BY <1>0, <1>3, <1>4, SubmissionKept, Zenon
<1> QED
  BY <1>1, <1>2, <1>5, <1>6, <1>7, Zenon DEF Queues

\* The guest rings: what it posted is the device's.
LEMMA RingInv ==
    ASSUME Inv, NEW q \in Qs, Ring(q)
    PROVE  Inv'
<1>0. /\ rx = Idle /\ ~flushing /\ sq[q].used /\ rx' = rx
      /\ sq' = [sq EXCEPT ![q].tail = tail[q]]
      /\ flushing' = (held # <<>>)
      /\ held' = held /\ arrived' = arrived /\ filtered' = filtered
      /\ rx_pkts' = rx_pkts /\ rx_drops' = rx_drops
      /\ UNCHANGED <<cq, guest, cring, mem, fifo>>
  BY Zenon DEF Ring, Doorbell, Ready4Handler
<1>1. /\ sq \in [Qs -> [used : BOOLEAN, head : 0..(W - 1), tail : 0..(W - 1)]]
      /\ tail[q] \in 0..(W - 1)
  BY Zenon DEF Inv, Shape
<1>2. /\ sq' \in [Qs -> [used : BOOLEAN, head : 0..(W - 1), tail : 0..(W - 1)]]
      /\ \A p \in Qs : p # q => sq'[p] = sq[p]
      /\ sq'[q] = [sq[q] EXCEPT !.tail = tail[q]]
  BY <1>0, <1>1, Zenon
<1>3. sq'[q].used = sq[q].used /\ sq'[q].head = sq[q].head /\ sq'[q].tail = tail[q]
  <2>1. sq[q] \in [used : BOOLEAN, head : 0..(W - 1), tail : 0..(W - 1)]
    BY <1>1, Zenon
  <2> QED
    BY <1>2, <2>1, Zenon
<1>4. sring' = sring /\ tail' = tail /\ free' = free /\ bad' = bad /\ fifo' = fifo
  BY <1>0, Zenon DEF guest
<1>5. Submission(q)'
  <2>1. Done(q)' = 0 /\ Front(q)' = Front(q) /\ Front(q) = sq[q].head
    BY <1>0, <1>3, AvailPosted, Zenon DEF Front, Done, Busy
  <2>2. Buffers(Front(q), tail[q], sring[q], Ids(fifo[q]), free[q], q \notin bad, BufSize[q])
    BY Zenon DEF Inv, Queues, Submission
  <2>3. Buffers(Front(q)', tail'[q], sring'[q], Ids(fifo'[q]), free'[q],
                q \notin bad', BufSize[q])
    BY <1>4, <2>1, <2>2, Zenon
  <2>4. Avail(q)' = Count(Front(q)', tail'[q])
    BY <1>3, <1>4, <2>1, Zenon DEF Avail, Count
  <2>5. Avail(q)' <= Done(q)' + Count(Front(q)', tail'[q])
    <3>1. Count(Front(q), tail[q]) \in Nat
      BY QueueTypes, Zenon
    <3>2. \A n \in Nat : n <= 0 + n
      OBVIOUS
    <3> QED
      BY <1>4, <2>1, <2>4, <3>1, <3>2, Zenon
  <2> QED
    BY <1>0, <1>3, <2>3, <2>5, Zenon DEF Submission
<1>6. Shape' /\ Handler' /\ Queues'
  BY <1>0, <1>2, <1>5, RegisterInv, Zenon
<1>7. Counts'
  BY <1>0, CountsMeans, Zenon DEF Inv, Counts, FramesAccounted, Ready4Handler
<1> QED
  BY <1>6, <1>7, Zenon DEF Inv

\* A queue is created: it has no buffer yet, so what is held stays held.
LEMMA CreateInv ==
    ASSUME Inv, NEW q \in Qs, Create(q)
    PROVE  Inv'
<1>0. /\ rx = Idle /\ ~flushing /\ ~sq[q].used /\ rx' = rx
      /\ sq' = [sq EXCEPT ![q].used = TRUE]
      /\ held' = held /\ flushing' = flushing /\ arrived' = arrived /\ filtered' = filtered
      /\ rx_pkts' = rx_pkts /\ rx_drops' = rx_drops
      /\ UNCHANGED <<cq, guest, cring, mem, fifo>>
  BY Zenon DEF Create, Ready4Handler, net
<1>1. sq \in [Qs -> [used : BOOLEAN, head : 0..(W - 1), tail : 0..(W - 1)]]
  BY Zenon DEF Inv, Shape
<1>2. /\ sq' \in [Qs -> [used : BOOLEAN, head : 0..(W - 1), tail : 0..(W - 1)]]
      /\ \A p \in Qs : p # q => sq'[p] = sq[p]
      /\ sq'[q] = [sq[q] EXCEPT !.used = TRUE]
  BY <1>0, <1>1, Zenon
<1>3. sq'[q].used /\ sq'[q].head = sq[q].head /\ sq'[q].tail = sq[q].tail
  <2>1. sq[q] \in [used : BOOLEAN, head : 0..(W - 1), tail : 0..(W - 1)]
    BY <1>1, Zenon
  <2> QED
    BY <1>2, <2>1, Zenon
<1>4. sring' = sring /\ tail' = tail /\ free' = free /\ bad' = bad /\ fifo' = fifo
  BY <1>0, Zenon DEF guest
<1>5. Submission(q)
  BY Zenon DEF Inv, Queues
<1>6. Avail(q)' = Avail(q) /\ Front(q)' = Front(q) /\ Done(q)' = Done(q)
  BY <1>0, <1>3, Zenon DEF Avail, Front, Done, Busy
<1>7. Submission(q)'
  BY <1>3, <1>4, <1>5, <1>6, Zenon DEF Submission
<1>8. Shape' /\ Handler' /\ Queues'
  BY <1>0, <1>2, <1>7, RegisterInv, Zenon
<1>9. \A p \in Qs : p # q => (sq'[p].used <=> sq[p].used) /\ Avail(p)' = Avail(p)
  BY <1>2, Zenon DEF Avail
<1>10. Avail(q) = 0
  <2>1. sq[q].head = 0 /\ sq[q].tail = 0
    BY <1>0, <1>5, Zenon DEF Submission
  <2> QED
    BY <2>1, FreshAvail, Zenon DEF Avail
<1>11. (\A p \in Used : Avail(p) = 0) => (\A p \in Used : Avail(p) = 0)'
  BY <1>6, <1>9, <1>10, Zenon DEF Used
<1>12. Counts'
  BY <1>0, <1>11, CountsMeans, Zenon DEF Inv, Counts, FramesAccounted, Ready4Handler
<1> QED
  BY <1>8, <1>12, Zenon DEF Inv

-----------------------------------------------------------------------------
(* The loop of ena_rx_receive_iov. *)

\* What Handler says of the frame in progress, by name.
LEMMA HandlerMeans ==
    ASSUME Inv, rx # Idle
    PROVE  /\ rx \in HandlerType /\ rx.q \in Qs /\ rx.frame \in Frames
           /\ rx.off \in Nat /\ rx.i \in Nat /\ rx.desc \in Seq(Desc)
           /\ sq[rx.q].used /\ Len(rx.desc) <= Avail(rx.q) /\ rx.i \in 1..Len(rx.desc)
           /\ rx.off = (rx.i - 1) * BufSize[rx.q]
           /\ (Len(rx.desc) - 1) * BufSize[rx.q] < rx.frame.len
           /\ rx.frame.len <= Len(rx.desc) * BufSize[rx.q]
           /\ \A k \in rx.i..Len(rx.desc) : rx.desc[k] = At(rx.q, k - 1)
           /\ rx.pc = "push" => mem[rx.q][rx.desc[rx.i].req_id] =
                [frame |-> rx.frame, off |-> rx.off,
                 len |-> Piece(rx.desc[rx.i], rx.frame.len - rx.off)]
           /\ Busy(rx.q) /\ Done(rx.q) = rx.i - 1
<1>1. rx \in HandlerType
  BY Zenon DEF Inv, Handler, HandlerType
<1>2. /\ rx.q \in Qs /\ rx.frame \in Frames
      /\ rx.off \in Nat /\ rx.i \in Nat /\ rx.desc \in Seq(Desc)
  BY <1>1, Zenon DEF HandlerType
<1>3. /\ sq[rx.q].used /\ Len(rx.desc) <= Avail(rx.q) /\ rx.i \in 1..Len(rx.desc)
      /\ rx.off = (rx.i - 1) * BufSize[rx.q]
      /\ (Len(rx.desc) - 1) * BufSize[rx.q] < rx.frame.len
      /\ rx.frame.len <= Len(rx.desc) * BufSize[rx.q]
      /\ \A k \in rx.i..Len(rx.desc) : rx.desc[k] = At(rx.q, k - 1)
      /\ rx.pc = "push" => mem[rx.q][rx.desc[rx.i].req_id] =
                [frame |-> rx.frame, off |-> rx.off,
                 len |-> Piece(rx.desc[rx.i], rx.frame.len - rx.off)]
  BY Zenon DEF Inv, Handler
<1>4. Busy(rx.q) /\ Done(rx.q) = rx.i - 1
  BY Zenon DEF Busy, Done
<1> QED
  BY <1>1, <1>2, <1>3, <1>4, Zenon

\* The buffer that is filled next is the first one posted.
LEMMA NextBuffer ==
    ASSUME SlotTheory, Inv, rx # Idle
    PROVE  LET q == rx.q
               d == rx.desc[rx.i]
           IN /\ Front(q) = sq[q].head + (rx.i - 1) /\ Front(q) \in Int
              /\ Count(Front(q), tail[q]) \in Nat
              /\ Len(rx.desc) - (rx.i - 1) <= Count(Front(q), tail[q])
              /\ Count(Front(q), tail[q]) > 0
              /\ d = sring[q][Front(q) % Depth]
              /\ d \in Desc /\ d.req_id \in Slots /\ d.size = BufSize[q]
              /\ d.req_id \notin free[q]
              /\ \A k \in 1..Len(fifo[q]) : fifo[q][k].cdesc.req_id # d.req_id
<1> DEFINE q == rx.q
           d == rx.desc[rx.i]
           n == Len(rx.desc)
           c == Count(Front(q), tail[q])
           i == rx.i
<1>1. q \in Qs /\ n \in Nat /\ i \in 1..n /\ n <= Avail(q) /\ Done(q) = i - 1
  <2>1. rx.desc \in Seq(Desc)
    BY HandlerMeans, Zenon
  <2>2. n \in Nat
    BY <2>1
  <2> QED
    BY <2>2, HandlerMeans, Zenon
<1>2. Submission(q)
  BY <1>1, Zenon DEF Inv, Queues
<1>3. Front(q) = sq[q].head + (i - 1)
  BY <1>1, Zenon DEF Front
<1>4. /\ Front(q) \in Int /\ c \in Nat /\ Avail(q) \in Nat /\ tail[q] \in Int
      /\ Ids(fifo[q]) \in Seq(Slots) /\ fifo[q] \in Seq(Note) /\ free[q] \in SUBSET Slots
      /\ (q \notin bad) \in BOOLEAN
  BY <1>1, QueueTypes, Zenon
<1>5. Avail(q) <= (i - 1) + c
  BY <1>1, <1>2, Zenon DEF Submission
<1> HIDE DEF q, n, i, c
<1>6. n - (i - 1) <= c /\ c > 0
  BY <1>1, <1>4, <1>5
<1>7. d = sring[q][Front(q) % Depth]
  <2>1. i \in i..n
    BY <1>1
  <2>2. d = At(q, i - 1)
    BY <2>1, HandlerMeans, Zenon DEF i, n, q
  <2> QED
    BY <1>3, <2>2, Zenon DEF At
<1> HIDE DEF d
<1>8. Buffers(Front(q), tail[q], sring[q], Ids(fifo[q]), free[q], q \notin bad, BufSize[q])
  BY <1>2, Zenon DEF Submission
<1>9. /\ d \in Desc /\ d.size = BufSize[q] /\ d.req_id \notin free[q]
      /\ \A j \in 1..Len(Ids(fifo[q])) : Ids(fifo[q])[j] # d.req_id
  <2>1. 1 <= Count(Front(q), tail[q])
    BY <1>4, <1>6 DEF c
  <2>2. FirstTaken(Front(q), tail[q], sring[q], Ids(fifo[q]), free[q], q \notin bad, BufSize[q])
    BY <1>4, <1>8, <2>1, BuffersTake, Zenon
  <2> QED
    BY <1>7, <2>2, Zenon DEF FirstTaken
<1>10. \A k \in 1..Len(fifo[q]) : fifo[q][k].cdesc.req_id # d.req_id
  <2>1. /\ Len(Ids(fifo[q])) = Len(fifo[q])
        /\ \A k \in 1..Len(fifo[q]) : Ids(fifo[q])[k] = fifo[q][k].cdesc.req_id
    BY <1>4, IdsType, Zenon
  <2> QED
    BY ONLY <1>9, <2>1, Zenon
<1>11. d.req_id \in Slots
  BY <1>9, Zenon DEF Desc
<1> QED
  BY <1>3, <1>4, <1>6, <1>7, <1>9, <1>10, <1>11, Zenon DEF d, q, n, i, c

\* The chunk fills the buffer, unless it is the last one.
LEMMA NextPiece ==
    ASSUME SlotTheory, Inv, rx # Idle
    PROVE  LET len == Piece(rx.desc[rx.i], rx.frame.len - rx.off)
           IN /\ len \in Nat \ {0} /\ rx.off + len <= rx.frame.len
              /\ rx.off + len = rx.frame.len <=> rx.i = Len(rx.desc)
              /\ rx.i < Len(rx.desc) => rx.off + len = rx.i * BufSize[rx.q]
              /\ rx.off = 0 <=> rx.i = 1
<1> DEFINE b == BufSize[rx.q]
           n == Len(rx.desc)
           i == rx.i
           l == rx.frame.len
           o == rx.off
           len == Piece(rx.desc[rx.i], rx.frame.len - rx.off)
<1>1. b \in Nat \ {0} /\ n \in Nat /\ i \in 1..n /\ l \in Nat
  <2>1. rx.desc \in Seq(Desc) /\ rx.frame \in Frames /\ rx.q \in Qs /\ i \in 1..n
    BY HandlerMeans, Zenon
  <2>2. b \in Nat \ {0}
    BY <2>1, SizeAssumption, Zenon
  <2>3. l \in Nat
    BY <2>1, FrameAssumption, Zenon DEF Frame
  <2> QED
    BY <2>1, <2>2, <2>3
<1>2. o = (i - 1) * b /\ (n - 1) * b < l /\ l <= n * b
  BY HandlerMeans, Zenon
<1>3. len = IF b < l - o THEN b ELSE l - o
  BY NextBuffer, Zenon DEF Piece
<1> HIDE DEF b, n, i, l, o, len
<1>4. o \in Nat /\ i * b = o + b /\ i * b \in Nat
  <2>1. \A x, y \in Int : (x - 1) * y = x * y - y /\ x * y \in Int
    OBVIOUS
  <2>2. i \in Int /\ b \in Int /\ i - 1 \in Nat
    BY <1>1
  <2>3. (i - 1) * b = i * b - b /\ i * b \in Int
    BY <2>1, <2>2, Zenon
  <2>4. (i - 1) * b \in Nat
    <3>1. \A x, y \in Nat : x * y \in Nat
      OBVIOUS
    <3> QED
      BY <1>1, <2>2, <3>1, Zenon
  <2> QED
    BY <1>1, <1>2, <2>3, <2>4
<1>5. CASE i = n
  <2>1. l <= o + b /\ o < l
    BY <1>1, <1>2, <1>4, <1>5, Zenon
  <2>2. len = l - o
    BY <1>1, <1>3, <1>4, <2>1
  <2>3. len \in Nat \ {0} /\ o + len = l
    BY <1>1, <1>4, <2>1, <2>2
  <2>4. o + len <= l /\ ~(i < n)
    BY <1>1, <1>5, <2>3
  <2>5. o = 0 <=> i = 1
    BY <1>1, <1>4
  <2> QED
    BY <1>5, <2>3, <2>4, <2>5, Zenon DEF b, n, i, l, o, len
<1>6. CASE i # n
  <2>1. i <= n - 1 /\ i < n /\ n - 1 \in Nat
    BY <1>1, <1>6
  <2>2. i * b <= (n - 1) * b
    <3>1. \A x, y, z \in Nat : x <= y => x * z <= y * z
      OBVIOUS
    <3> QED
      BY <1>1, <2>1, <3>1
  <2>3. o + b < l
    <3>1. (n - 1) * b \in Int
      BY <1>1, <2>1
    <3> QED
      BY <1>1, <1>2, <1>4, <2>2, <3>1
  <2>4. len = b
    BY <1>1, <1>3, <1>4, <2>3
  <2>5. /\ len \in Nat \ {0} /\ o + len <= l /\ ~(o + len = l) /\ o + len = i * b
    BY <1>1, <1>4, <2>3, <2>4
  <2>6. o = 0 <=> i = 1
    BY <1>1, <1>4
  <2> QED
    BY <1>6, <2>5, <2>6, Zenon DEF b, n, i, l, o, len
<1> QED
  BY <1>5, <1>6, Zenon

\* A chunk goes to a buffer that nobody else has.
LEMMA WriteChunkInv ==
    ASSUME SlotTheory, Inv, WriteChunk
    PROVE  Inv'
<1>a. rx # Idle
  BY DEF WriteChunk, Idle
<1>b. PICK q \in Qs : q = rx.q
  BY <1>a, HandlerMeans, Zenon
<1> DEFINE d == rx.desc[rx.i]
           x == [frame |-> rx.frame, off |-> rx.off, len |-> Piece(d, rx.frame.len - rx.off)]
<1>0. /\ rx.pc = "dma" /\ mem' = [mem EXCEPT ![q][d.req_id] = x]
      /\ rx' = [rx EXCEPT !.pc = "push"]
      /\ sq' = sq /\ cq' = cq /\ cring' = cring /\ fifo' = fifo
      /\ sring' = sring /\ tail' = tail /\ driver' = driver /\ free' = free /\ prev' = prev
      /\ bad' = bad
      /\ held' = held /\ flushing' = flushing /\ arrived' = arrived /\ filtered' = filtered
      /\ rx_pkts' = rx_pkts /\ rx_drops' = rx_drops
  BY <1>b, Zenon DEF WriteChunk, net, guest
<1>1. rx # Idle /\ q = rx.q
  BY <1>a, <1>b, Zenon
<1>2. q \in Qs /\ rx \in HandlerType /\ rx.frame \in Frames /\ rx.off \in Nat
  BY <1>1, HandlerMeans, Zenon
<1>3. /\ rx' \in HandlerType /\ rx'.pc = "push" /\ rx'.q = q /\ rx'.frame = rx.frame
      /\ rx'.off = rx.off /\ rx'.i = rx.i /\ rx'.desc = rx.desc
  BY <1>0, <1>1, <1>2, Zenon DEF HandlerType
<1>4. rx' # Idle
  BY <1>3, HandlerBusy, Zenon
<1>5. /\ d.req_id \in Slots
      /\ \A k \in 1..Len(fifo[q]) : fifo[q][k].cdesc.req_id # d.req_id
  BY <1>1, NextBuffer, Zenon
<1>6. x \in Chunk
  <2>1. Piece(d, rx.frame.len - rx.off) \in Nat
    BY <1>1, NextPiece, Zenon
  <2> QED
    BY <1>2, <2>1, Zenon DEF Chunk
<1> HIDE DEF d, x
<1>7. /\ mem' \in [Qs -> [Slots -> Chunk \cup {Nothing}]]
      /\ \A p \in Qs : p # q => mem'[p] = mem[p]
      /\ mem'[q][d.req_id] = x
      /\ \A s \in Slots : s # d.req_id => mem'[q][s] = mem[q][s]
  <2>1. mem \in [Qs -> [Slots -> Chunk \cup {Nothing}]]
    BY Zenon DEF Inv, Shape
  <2> QED
    BY <1>0, <1>2, <1>5, <1>6, <2>1, Zenon
<1>8. Shape'
  BY <1>0, <1>7, Zenon DEF Inv, Shape
<1>9. \A p : (Busy(p)' <=> Busy(p)) /\ Done(p)' = Done(p)
  BY <1>1, <1>3, <1>4, Zenon DEF Busy, Done
<1>10. \A p \in Qs : Submission(p) /\ Completion(p) /\ Delivery(p)
  BY Zenon DEF Inv, Queues
<1>11. \A p \in Qs : Submission(p)' /\ Completion(p)'
  BY <1>0, <1>9, <1>10, SubmissionKept, CompletionKept, Zenon
<1>12. \A p \in Qs : p # q => Delivery(p)'
  BY <1>0, <1>3, <1>7, <1>9, <1>10, DeliveryKept, Zenon
<1>13. Delivery(q)'
  <2>1. /\ \A k \in 1..Len(fifo[q]) : mem[q][fifo[q][k].cdesc.req_id] = fifo[q][k].chunk
        /\ Len(prev[q]) <= 1
        /\ Chain(prev[q] \o fifo[q], Busy(q), rx.off)
    BY <1>2, <1>10, Zenon DEF Delivery
  <2>2. \A k \in 1..Len(fifo[q]) : fifo[q][k].cdesc.req_id \in Slots
    <3>1. fifo[q] \in Seq(Note)
      BY <1>2, QueueTypes, Zenon
    <3>2. \A k \in 1..Len(fifo[q]) : fifo[q][k].cdesc \in Cdesc
      BY <3>1, IdsType, Zenon
    <3> QED
      BY <3>2, Zenon DEF Cdesc
  <2>3. \A k \in 1..Len(fifo[q]) : mem'[q][fifo[q][k].cdesc.req_id] = fifo[q][k].chunk
    BY <1>5, <1>7, <2>1, <2>2, Zenon
  <2>4. Busy(q)' = Busy(q)
    BY <1>9, Zenon DEF Busy
  <2>5. fifo' = fifo /\ prev' = prev /\ rx'.off = rx.off
    BY <1>0, <1>3, Zenon
  <2> QED
    BY ONLY <2>1, <2>3, <2>4, <2>5, Zenon DEF Delivery
<1>14. Handler'
  <2>1. Avail(q)' = Avail(q) /\ \A k : At(q, k)' = At(q, k)
    BY <1>0, Zenon DEF Avail, At
  <2>2. /\ sq[q].used /\ Len(rx.desc) <= Avail(q) /\ rx.i \in 1..Len(rx.desc)
        /\ rx.off = (rx.i - 1) * BufSize[q]
        /\ (Len(rx.desc) - 1) * BufSize[q] < rx.frame.len
        /\ rx.frame.len <= Len(rx.desc) * BufSize[q]
        /\ \A k \in rx.i..Len(rx.desc) : rx.desc[k] = At(q, k - 1)
        /\ rx.i = 1 <=> (prev[q] \o fifo[q] = <<>>
                         \/ (prev[q] \o fifo[q])[Len(prev[q] \o fifo[q])].cdesc.last)
    BY <1>1, Zenon DEF Inv, Handler
  <2>3. mem'[q][rx.desc[rx.i].req_id] =
          [frame |-> rx.frame, off |-> rx.off,
           len |-> Piece(rx.desc[rx.i], rx.frame.len - rx.off)]
    BY <1>7, Zenon DEF d, x
  <2>4. /\ sq'[q].used /\ Len(rx'.desc) <= Avail(q)' /\ rx'.i \in 1..Len(rx'.desc)
        /\ rx'.off = (rx'.i - 1) * BufSize[q]
        /\ (Len(rx'.desc) - 1) * BufSize[q] < rx'.frame.len
        /\ rx'.frame.len <= Len(rx'.desc) * BufSize[q]
        /\ \A k \in rx'.i..Len(rx'.desc) : rx'.desc[k] = At(q, k - 1)'
    <3>1. /\ sq' = sq /\ rx'.desc = rx.desc /\ rx'.i = rx.i /\ rx'.off = rx.off
          /\ rx'.frame = rx.frame
      BY <1>0, <1>3, Zenon
    <3> QED
      BY ONLY <2>1, <2>2, <3>1, Zenon
  <2>5. mem'[q][rx'.desc[rx'.i].req_id] =
          [frame |-> rx'.frame, off |-> rx'.off,
           len |-> Piece(rx'.desc[rx'.i], rx'.frame.len - rx'.off)]
    BY <1>3, <2>3, Zenon
  <2>6. rx'.i = 1 <=> (prev'[q] \o fifo'[q] = <<>>
                       \/ (prev'[q] \o fifo'[q])[Len(prev'[q] \o fifo'[q])].cdesc.last)
    BY <1>0, <1>3, <2>2, Zenon
  <2> QED
    BY <1>3, <2>4, <2>5, <2>6, Zenon DEF Handler, HandlerType
<1>15. Counts'
  BY <1>0, <1>1, <1>4, Zenon DEF Inv, Counts, FramesAccounted, Ready4Handler
<1> QED
  BY <1>8, <1>11, <1>12, <1>13, <1>14, <1>15, Zenon DEF Inv, Queues

\* A completion that goes on where the last one ends.
LEMMA ChainAppend ==
    ASSUME NEW s \in Seq(Note), NEW x \in Note, NEW busy, NEW off, Chain(s, busy, off),
           NoteTrue(x), x.chunk.off = off,
           s = <<>> \/ s[Len(s)].cdesc.last => off = 0
    PROVE  LET t == Append(s, x)
           IN /\ \A k \in 1..Len(t) : NoteTrue(t[k])
              /\ \A k \in 1..(Len(t) - 1) : Follows(t[k], t[k + 1])
              /\ t # <<>> /\ t[Len(t)] = x
<1> DEFINE t == Append(s, x)
           n == Len(s)
<1>1. /\ n \in Nat /\ Len(t) = n + 1 /\ t[n + 1] = x /\ \A k \in 1..n : t[k] = s[k]
      /\ t # <<>> /\ (s # <<>> <=> n # 0)
  OBVIOUS
<1> HIDE DEF t
<1>2. /\ \A k \in 1..n : NoteTrue(s[k])
      /\ \A k \in 1..(n - 1) : Follows(s[k], s[k + 1])
      /\ s # <<>> => s[n].cdesc.last \/ off = s[n].chunk.off + s[n].chunk.len
  BY Zenon DEF Chain
<1> HIDE DEF n
<1>3. \A k \in 1..(n + 1) : k = n + 1 \/ k \in 1..n
  BY <1>1
<1>4. \A k \in 1..Len(t) : NoteTrue(t[k])
  BY <1>1, <1>2, <1>3, Zenon
<1>5. ASSUME NEW k \in 1..(Len(t) - 1) PROVE Follows(t[k], t[k + 1])
  <2>1. CASE k = n
    <3>1. s # <<>> /\ n \in 1..n
      BY <1>1, <1>5, <2>1
    <3>2. x.chunk.off = IF s[n].cdesc.last THEN 0 ELSE s[n].chunk.off + s[n].chunk.len
      BY <1>2, <3>1, Zenon DEF n
    <3> QED
      BY <1>1, <2>1, <3>1, <3>2, Zenon DEF Follows
  <2>2. CASE k # n
    <3>1. k \in 1..(n - 1) /\ k \in 1..n /\ k + 1 \in 1..n
      BY <1>1, <1>5, <2>2
    <3> QED
      BY <1>1, <1>2, <3>1, Zenon
  <2> QED
    BY <2>1, <2>2, Zenon
<1> QED
  BY <1>1, <1>4, <1>5, Zenon DEF t

\* A completion is appended to all the guest has read and not read.
LEMMA AppendLast ==
    ASSUME NEW r \in Seq(Note), NEW s \in Seq(Note), NEW x \in Note
    PROVE  r \o s \in Seq(Note) /\ r \o Append(s, x) = Append(r \o s, x)
<1>1. r \o s \in Seq(Note) /\ Append(s, x) \in Seq(Note)
  OBVIOUS
<1> DEFINE a == r \o Append(s, x)
           b == Append(r \o s, x)
<1>2. a \in Seq(Note) /\ b \in Seq(Note) /\ Len(a) = Len(b)
  OBVIOUS
<1>3. \A k \in 1..Len(b) : a[k] = b[k]
  OBVIOUS
<1> QED
  BY <1>1, <1>2, <1>3

\* The queue whose completion is written: the buffer of the chunk is owed to the
\* guest, and the completions are the frame's so far.
Pushed(q, len) ==
    /\ cring' \in [Qs -> [Slots -> [phase : BOOLEAN, data : Cdesc \cup {Nothing}]]]
    /\ cq' \in [Qs -> Position] /\ fifo' \in [Qs -> Seq(Note)]
    /\ \A p \in Qs : p # q => /\ cring'[p] = cring[p] /\ cq'[p] = cq[p]
                              /\ fifo'[p] = fifo[p]
    /\ Completion(q)'
    /\ Count(Front(q) + 1, tail[q]) = Count(Front(q), tail[q]) - 1
    /\ Buffers(Front(q) + 1, tail[q], sring[q], Ids(fifo'[q]), free[q], q \notin bad,
               BufSize[q])
    /\ \A k \in 1..Len(fifo'[q]) : mem[q][fifo'[q][k].cdesc.req_id] = fifo'[q][k].chunk
    /\ LET t == prev[q] \o fifo'[q]
       IN /\ \A k \in 1..Len(t) : NoteTrue(t[k])
          /\ \A k \in 1..(Len(t) - 1) : Follows(t[k], t[k + 1])
          /\ t # <<>> /\ t[Len(t)].chunk.off = rx.off /\ t[Len(t)].chunk.len = len
          /\ t[Len(t)].cdesc.last <=> rx.i = Len(rx.desc)

\* ena_rx_push_cdesc has room, and announces the chunk that is in the buffer.
LEMMA PushQueue ==
    ASSUME SlotTheory, Inv, rx # Idle, rx.pc = "push", NEW q \in Qs, q = rx.q,
           NEW len, len = Piece(rx.desc[rx.i], rx.frame.len - rx.off),
           cring' = [cring EXCEPT ![q] = Write(@, cq[q], NewCdesc(len))],
           cq' = [cq EXCEPT ![q] = Advance(@)],
           fifo' = [fifo EXCEPT ![q] = Append(@, [cdesc |-> NewCdesc(len), chunk |->
                      [frame |-> rx.frame, off |-> rx.off, len |-> len]])],
           driver' = driver
    PROVE  Pushed(q, len)
<1> DEFINE d == rx.desc[rx.i]
           c == NewCdesc(len)
           x == [frame |-> rx.frame, off |-> rx.off, len |-> len]
           y == [cdesc |-> c, chunk |-> x]
           f == fifo[q]
           D == Cdesc \cup {Nothing}
<1>1. /\ len \in Nat \ {0}
      /\ rx.off + len = rx.frame.len <=> rx.i = Len(rx.desc)
      /\ rx.off = 0 <=> rx.i = 1
  BY NextPiece, Zenon
<1>2. /\ rx.frame \in Frames /\ rx.off \in Nat /\ d.req_id \in Slots
      /\ d = sring[q][Front(q) % Depth]
  BY HandlerMeans, NextBuffer, Zenon
<1>3. /\ c \in Cdesc /\ c.req_id = d.req_id /\ (c.first <=> rx.i = 1)
      /\ c.last <=> rx.i = Len(rx.desc)
  BY ONLY <1>1, <1>2, Zenon DEF NewCdesc, Cdesc
<1>4. x \in Chunk /\ x.frame = rx.frame /\ x.off = rx.off /\ x.len = len
  BY ONLY <1>1, <1>2, Zenon DEF Chunk
<1> HIDE DEF d, c, x
<1>5. y \in Note /\ y.cdesc = c /\ y.chunk = x
  BY <1>3, <1>4, Zenon DEF Note
<1> HIDE DEF y
<1>6. NoteTrue(y)
  <2>1. y.chunk.off = rx.off /\ y.chunk.len = len /\ y.chunk.frame.len = rx.frame.len
    BY <1>4, <1>5, Zenon
  <2>2. (y.cdesc.first <=> rx.i = 1) /\ (y.cdesc.last <=> rx.i = Len(rx.desc))
    BY <1>3, <1>5, Zenon
  <2> QED
    BY <1>1, <2>1, <2>2, Zenon DEF NoteTrue
<1>7. /\ cring \in [Qs -> [Slots -> [phase : BOOLEAN, data : D]]] /\ cq \in [Qs -> Position]
      /\ driver \in [Qs -> Position] /\ fifo \in [Qs -> Seq(Note)] /\ prev \in [Qs -> Seq(Note)]
  BY Zenon DEF Inv, Shape
<1> HIDE DEF D
<1>8. /\ cring[q] \in [Slots -> [phase : BOOLEAN, data : D]] /\ cq[q] \in Position
      /\ driver[q] \in Position /\ f \in Seq(Note) /\ prev[q] \in Seq(Note)
  BY <1>7, Zenon
<1>9. Submission(q) /\ Completion(q) /\ Delivery(q)
  BY Zenon DEF Inv, Queues
<1>10. FirstTaken(Front(q), tail[q], sring[q], Ids(f), free[q], q \notin bad, BufSize[q])
  <2>1. /\ Front(q) \in Int /\ tail[q] \in Int /\ Ids(f) \in Seq(Slots) /\ free[q] \in SUBSET Slots
        /\ (q \notin bad) \in BOOLEAN /\ Count(Front(q), tail[q]) \in Nat
    BY QueueTypes, Zenon
  <2>2. 1 <= Count(Front(q), tail[q])
    <3>1. Count(Front(q), tail[q]) > 0
      BY NextBuffer, Zenon
    <3> QED
      BY ONLY <2>1, <3>1
  <2>3. Buffers(Front(q), tail[q], sring[q], Ids(f), free[q], q \notin bad, BufSize[q])
    BY <1>9, Zenon DEF Submission
  <2> QED
    BY <2>1, <2>2, <2>3, BuffersTake, Zenon
<1>11. /\ Cdescs(f) \in Seq(D) /\ Len(Cdescs(f)) < Depth /\ c \in D
  <2>1. Cdescs(f) \in Seq(Cdesc) /\ Len(Cdescs(f)) = Len(f) /\ Len(Ids(f)) = Len(f)
    BY <1>8, IdsType, Zenon
  <2>2. Len(Ids(f)) < Depth
    BY <1>10, Zenon DEF FirstTaken
  <2> QED
    BY ONLY <1>3, <2>1, <2>2 DEF D
<1>12. /\ Write(cring[q], cq[q], c) \in [Slots -> [phase : BOOLEAN, data : D]]
       /\ Advance(cq[q]) \in Position
       /\ Holds(Write(cring[q], cq[q], c), Advance(cq[q]), driver[q], Append(Cdescs(f), c))
  BY <1>8, <1>9, <1>11, WriteHoldsAny, Zenon DEF Completion
<1>13. /\ Ids(Append(f, y)) = Append(Ids(f), d.req_id)
       /\ Cdescs(Append(f, y)) = Append(Cdescs(f), c)
  BY <1>3, <1>5, <1>8, IdsAppend, Zenon
<1>14. /\ cring'[q] = Write(cring[q], cq[q], c) /\ cq'[q] = Advance(cq[q])
       /\ fifo'[q] = Append(f, y)
  BY <1>7, Zenon DEF c, x, y
<1>15. /\ cring' \in [Qs -> [Slots -> [phase : BOOLEAN, data : D]]]
       /\ \A p \in Qs : p # q => cring'[p] = cring[p]
  BY <1>7, <1>12, Zenon DEF c
<1>16. cq' \in [Qs -> Position] /\ \A p \in Qs : p # q => cq'[p] = cq[p]
  <2>1. /\ q \in Qs /\ cq \in [Qs -> Position] /\ Advance(cq[q]) \in Position
        /\ cq' = [cq EXCEPT ![q] = Advance(cq[q])]
    BY <1>7, <1>12, Zenon
  <2> QED
    BY ONLY <2>1, Replaced, Zenon
<1>17. fifo' \in [Qs -> Seq(Note)] /\ \A p \in Qs : p # q => fifo'[p] = fifo[p]
  <2>1. Append(f, y) \in Seq(Note)
    BY ONLY <1>5, <1>8
  <2>2. q \in Qs /\ fifo \in [Qs -> Seq(Note)] /\ fifo' = [fifo EXCEPT ![q] = Append(f, y)]
    BY <1>7, Zenon DEF c, x, y
  <2> QED
    BY ONLY <2>1, <2>2, Replaced, Zenon
<1>18. Completion(q)'
  BY <1>12, <1>13, <1>14, Zenon DEF Completion
<1>19. /\ Count(Front(q) + 1, tail[q]) = Count(Front(q), tail[q]) - 1
       /\ Buffers(Front(q) + 1, tail[q], sring[q], Ids(fifo'[q]), free[q], q \notin bad, BufSize[q])
  BY <1>2, <1>10, <1>13, <1>14, Zenon DEF FirstTaken
<1>20. \A k \in 1..Len(fifo'[q]) : mem[q][fifo'[q][k].cdesc.req_id] = fifo'[q][k].chunk
  <2>1. mem[q][c.req_id] = x
    BY <1>3, HandlerMeans, Zenon DEF d, x
  <2>2. \A k \in 1..Len(f) : mem[q][f[k].cdesc.req_id] = f[k].chunk
    BY <1>9, Zenon DEF Delivery
  <2> HIDE DEF f
  <2>3. \A k \in 1..Len(Append(f, y)) : \/ Append(f, y)[k] = y
                                        \/ k \in 1..Len(f) /\ Append(f, y)[k] = f[k]
    BY ONLY <1>5, <1>8
  <2>4. ASSUME NEW k \in 1..Len(Append(f, y))
        PROVE  mem[q][Append(f, y)[k].cdesc.req_id] = Append(f, y)[k].chunk
    <3>1. CASE Append(f, y)[k] = y
      BY <1>5, <2>1, <3>1, Zenon
    <3>2. CASE k \in 1..Len(f) /\ Append(f, y)[k] = f[k]
      BY <2>2, <3>2, Zenon
    <3> QED
      BY <2>3, <3>1, <3>2, Zenon
  <2> QED
    BY <1>14, <2>4, Zenon
<1>21. LET t == prev[q] \o fifo'[q]
       IN /\ \A k \in 1..Len(t) : NoteTrue(t[k])
          /\ \A k \in 1..(Len(t) - 1) : Follows(t[k], t[k + 1])
          /\ t # <<>> /\ t[Len(t)] = y
  <2> DEFINE s == prev[q] \o f
  <2>1. s \in Seq(Note) /\ prev[q] \o fifo'[q] = Append(s, y)
    <3>1. s \in Seq(Note) /\ prev[q] \o Append(f, y) = Append(s, y)
      BY <1>5, <1>8, AppendLast, Zenon
    <3> QED
      BY <1>14, <3>1, Zenon
  <2>2. Chain(s, Busy(q), rx.off)
    BY <1>9, Zenon DEF Delivery
  <2>3. s = <<>> \/ s[Len(s)].cdesc.last => rx.off = 0
    BY <1>1, Zenon DEF Inv, Handler
  <2>4. y.chunk.off = rx.off
    BY <1>4, <1>5, Zenon
  <2> HIDE DEF s
  <2>5. LET t == Append(s, y)
        IN /\ \A k \in 1..Len(t) : NoteTrue(t[k])
           /\ \A k \in 1..(Len(t) - 1) : Follows(t[k], t[k + 1])
           /\ t # <<>> /\ t[Len(t)] = y
    BY ONLY <1>5, <1>6, <2>1, <2>2, <2>3, <2>4, ChainAppend, Zenon
  <2> QED
    BY ONLY <2>1, <2>5, Zenon
<1>22. LET t == prev[q] \o fifo'[q]
       IN /\ t[Len(t)].chunk.off = rx.off /\ t[Len(t)].chunk.len = len
          /\ t[Len(t)].cdesc.last <=> rx.i = Len(rx.desc)
  BY <1>3, <1>4, <1>5, <1>21, Zenon
<1> QED
  BY ONLY <1>15, <1>16, <1>17, <1>18, <1>19, <1>20, <1>21, <1>22, Zenon DEF D, Pushed

\* The completion of a chunk that is not the last.
LEMMA PushMoreInv ==
    ASSUME Inv, rx # Idle, NEW q \in Qs, q = rx.q, rx.i < Len(rx.desc), NEW len \in Nat,
           rx.off + len = rx.i * BufSize[q],
           rx' = [rx EXCEPT !.pc = "dma", !.i = @ + 1, !.off = @ + len],
           sq' = sq, mem' = mem, UNCHANGED guest,
           Pushed(q, len)
    PROVE  /\ Submission(q)' /\ Chain(prev'[q] \o fifo'[q], Busy(q)', rx'.off) /\ Handler'
           /\ rx' # Idle /\ rx'.q = q
<1>p. /\ Count(Front(q) + 1, tail[q]) = Count(Front(q), tail[q]) - 1
      /\ Buffers(Front(q) + 1, tail[q], sring[q], Ids(fifo'[q]), free[q], q \notin bad,
                 BufSize[q])
      /\ LET t == prev[q] \o fifo'[q]
         IN /\ \A k \in 1..Len(t) : NoteTrue(t[k])
            /\ \A k \in 1..(Len(t) - 1) : Follows(t[k], t[k + 1])
            /\ t # <<>> /\ t[Len(t)].chunk.off = rx.off /\ t[Len(t)].chunk.len = len
            /\ t[Len(t)].cdesc.last <=> rx.i = Len(rx.desc)
  BY Zenon DEF Pushed
<1>0. /\ sring' = sring /\ tail' = tail /\ free' = free /\ prev' = prev /\ bad' = bad
  BY Zenon DEF guest
<1>1. rx \in HandlerType /\ rx.i \in Nat /\ rx.off \in Nat
  BY HandlerMeans, Zenon
<1>2. /\ rx' \in HandlerType /\ rx'.pc = "dma" /\ rx'.q = q /\ rx'.frame = rx.frame
      /\ rx'.off = rx.off + len /\ rx'.i = rx.i + 1 /\ rx'.desc = rx.desc
  <2>1. rx.i + 1 \in Nat /\ rx.off + len \in Nat
    BY ONLY <1>1, len \in Nat
  <2> QED
    BY <1>1, <2>1, Zenon DEF HandlerType
<1>3. rx' # Idle
  BY <1>2, HandlerBusy, Zenon
<1>4. Busy(q)' /\ Done(q)' = rx.i /\ Done(q) = rx.i - 1
  <2>1. Done(q)' = (rx.i + 1) - 1 /\ Done(q) = rx.i - 1
    BY <1>2, <1>3, Zenon DEF Busy, Done
  <2>2. Busy(q)'
    BY <1>2, <1>3, Zenon DEF Busy
  <2> QED
    BY ONLY <1>1, <2>1, <2>2
<1>5. Front(q)' = Front(q) + 1
  <2>1. sq[q].head \in Int
    BY QueueTypes, Zenon
  <2>2. Front(q)' = sq[q].head + rx.i /\ Front(q) = sq[q].head + (rx.i - 1)
    BY <1>4, Zenon DEF Front
  <2> QED
    BY ONLY <1>1, <2>1, <2>2
<1>6. Submission(q)'
  <2>1. Buffers(Front(q)', tail'[q], sring'[q], Ids(fifo'[q]), free'[q],
                q \notin bad', BufSize[q])
    BY <1>p, <1>0, <1>5, Zenon
  <2>2. Avail(q)' = Avail(q)
    BY Zenon DEF Avail
  <2>3. Avail(q) <= (rx.i - 1) + Count(Front(q), tail[q]) /\ Avail(q) \in Nat
        /\ Count(Front(q), tail[q]) \in Nat
    BY <1>4, QueueTypes, Zenon DEF Inv, Queues, Submission
  <2>4. Count(Front(q)', tail'[q]) = Count(Front(q), tail[q]) - 1
    BY <1>p, <1>0, <1>5, Zenon
  <2>5. Avail(q)' <= Done(q)' + Count(Front(q)', tail'[q])
    BY ONLY <1>1, <1>4, <2>2, <2>3, <2>4
  <2>6. sq'[q].used
    BY HandlerMeans, Zenon
  <2> QED
    BY <2>1, <2>5, <2>6, Zenon DEF Submission
<1>7. rx.i # Len(rx.desc)
  <2>1. rx.desc \in Seq(Desc)
    BY HandlerMeans, Zenon
  <2> QED
    BY ONLY <1>1, <2>1, rx.i < Len(rx.desc)
<1>8. Chain(prev'[q] \o fifo'[q], Busy(q)', rx'.off)
  BY <1>p, <1>0, <1>2, <1>4, Zenon DEF Chain
<1>9. Handler'
  <2>1. Avail(q)' = Avail(q) /\ \A k : At(q, k)' = At(q, k)
    BY <1>0, Zenon DEF Avail, At
  <2>2. /\ sq[q].used /\ Len(rx.desc) <= Avail(q) /\ rx.i \in 1..Len(rx.desc)
        /\ (Len(rx.desc) - 1) * BufSize[q] < rx.frame.len
        /\ rx.frame.len <= Len(rx.desc) * BufSize[q]
        /\ \A k \in rx.i..Len(rx.desc) : rx.desc[k] = At(q, k - 1)
        /\ rx.desc \in Seq(Desc)
    BY HandlerMeans, Zenon
  <2>3. /\ rx.i + 1 \in 1..Len(rx.desc) /\ (rx.i + 1) - 1 = rx.i
        /\ \A k \in (rx.i + 1)..Len(rx.desc) : k \in rx.i..Len(rx.desc)
        /\ rx.i + 1 # 1
    <3>1. Len(rx.desc) \in Nat
      BY ONLY <2>2
    <3> QED
      BY ONLY <1>1, <2>2, <3>1, rx.i < Len(rx.desc)
  <2>4. /\ sq'[q].used /\ Len(rx'.desc) <= Avail(q)' /\ rx'.i \in 1..Len(rx'.desc)
        /\ rx'.off = (rx'.i - 1) * BufSize[q]
        /\ (Len(rx'.desc) - 1) * BufSize[q] < rx'.frame.len
        /\ rx'.frame.len <= Len(rx'.desc) * BufSize[q]
        /\ \A k \in rx'.i..Len(rx'.desc) : rx'.desc[k] = At(q, k - 1)'
    BY <1>2, <2>1, <2>2, <2>3, Zenon
  <2>5. rx'.pc # "push"
    BY <1>2, Zenon
  <2>6. rx'.i = 1 <=> (prev'[q] \o fifo'[q] = <<>>
                       \/ (prev'[q] \o fifo'[q])[Len(prev'[q] \o fifo'[q])].cdesc.last)
    BY <1>p, <1>0, <1>2, <1>7, <2>3, Zenon
  <2> QED
    BY ONLY <1>2, <2>4, <2>5, <2>6, Zenon DEF Handler, HandlerType
<1> QED
  BY <1>2, <1>3, <1>6, <1>8, <1>9, Zenon

\* The last completion of a frame: the buffers leave the queue.
LEMMA PushLastInv ==
    ASSUME Inv, rx # Idle, NEW q \in Qs, q = rx.q, rx.i = Len(rx.desc),
           rx' = Idle, Consume(q, Len(rx.desc)), UNCHANGED guest,
           NEW len, Pushed(q, len)
    PROVE  /\ sq' \in [Qs -> [used : BOOLEAN, head : 0..(W - 1), tail : 0..(W - 1)]]
           /\ \A p \in Qs : p # q => sq'[p] = sq[p]
           /\ Submission(q)' /\ Chain(prev'[q] \o fifo'[q], Busy(q)', rx'.off)
<1> DEFINE h == sq[q].head
           n == Len(rx.desc)
           c == Count(Front(q), tail[q])
<1>p. /\ Count(Front(q) + 1, tail[q]) = Count(Front(q), tail[q]) - 1
      /\ Buffers(Front(q) + 1, tail[q], sring[q], Ids(fifo'[q]), free[q], q \notin bad,
                 BufSize[q])
      /\ LET t == prev[q] \o fifo'[q]
         IN /\ \A k \in 1..Len(t) : NoteTrue(t[k])
            /\ \A k \in 1..(Len(t) - 1) : Follows(t[k], t[k + 1])
            /\ t # <<>> /\ t[Len(t)].chunk.off = rx.off /\ t[Len(t)].chunk.len = len
            /\ t[Len(t)].cdesc.last <=> rx.i = Len(rx.desc)
  BY Zenon DEF Pushed
<1>0. /\ sring' = sring /\ tail' = tail /\ free' = free /\ prev' = prev /\ bad' = bad
  BY Zenon DEF guest
<1>1. n \in Nat /\ n >= 1 /\ n <= Avail(q) /\ Done(q) = n - 1 /\ sq[q].used
  <2>1. rx.desc \in Seq(Desc) /\ rx.i \in 1..n /\ n <= Avail(q) /\ Done(q) = n - 1 /\ sq[q].used
    BY HandlerMeans, Zenon
  <2>2. n \in Nat
    BY <2>1
  <2> HIDE DEF n
  <2> QED
    BY <2>1, <2>2
<1>2. /\ h \in Int /\ sq[q].tail \in Int /\ tail[q] \in Int /\ Avail(q) \in Nat /\ c \in Nat
      /\ sq[q] \in [used : BOOLEAN, head : 0..(W - 1), tail : 0..(W - 1)]
  BY QueueTypes, Zenon
<1>3. sq \in [Qs -> [used : BOOLEAN, head : 0..(W - 1), tail : 0..(W - 1)]]
  BY Zenon DEF Inv, Shape
<1>4. h + n \in Int /\ Front(q) + 1 = h + n
  <2>1. Front(q) = h + (n - 1)
    BY <1>1, Zenon DEF Front
  <2> HIDE DEF h, n
  <2> QED
    BY <1>1, <1>2, <2>1
<1>5. (h + n) % W \in 0..(W - 1)
  BY <1>4, WrapIndex, Zenon
<1>6. sq' = [sq EXCEPT ![q].head = (h + n) % W]
  BY Zenon DEF Consume
<1> HIDE DEF n, c
<1>7. /\ sq' \in [Qs -> [used : BOOLEAN, head : 0..(W - 1), tail : 0..(W - 1)]]
      /\ \A p \in Qs : p # q => sq'[p] = sq[p]
      /\ sq'[q] = [sq[q] EXCEPT !.head = (h + n) % W]
  BY ONLY <1>3, <1>5, <1>6, q \in Qs, Zenon
<1>8. sq'[q].used = sq[q].used /\ sq'[q].tail = sq[q].tail /\ sq'[q].head = (h + n) % W
  BY ONLY <1>2, <1>7, Zenon
<1>9. ~Busy(q)' /\ Done(q)' = 0
  BY Zenon DEF Busy, Done
<1>10. Front(q)' = (h + n) % W
  <2>1. Front(q)' = ((h + n) % W) + 0
    BY <1>8, <1>9, Zenon DEF Front
  <2>2. (h + n) % W \in Int
    BY <1>5
  <2> QED
    BY ONLY <2>1, <2>2
<1>11. /\ Count((h + n) % W, tail[q]) = c - 1
       /\ Buffers((h + n) % W, tail[q], sring[q], Ids(fifo'[q]), free[q], q \notin bad, BufSize[q])
  <2>1. /\ Count(h + n, tail[q]) = c - 1
        /\ Buffers(h + n, tail[q], sring[q], Ids(fifo'[q]), free[q], q \notin bad, BufSize[q])
    BY ONLY <1>p, <1>4, Zenon DEF c
  <2> QED
    BY ONLY <1>2, <1>4, <2>1, BuffersWrap, Zenon
<1>12. Buffers(Front(q)', tail'[q], sring'[q], Ids(fifo'[q]), free'[q], q \notin bad', BufSize[q])
  BY <1>0, <1>10, <1>11, Zenon
<1>13. Avail(q)' = Avail(q) - n
  <2>1. Avail(q) = Count(h, sq[q].tail)
    BY Zenon DEF Avail, Count
  <2>2. Count(h + n, sq[q].tail) = Count(h, sq[q].tail) - n
    <3>1. n <= Count(h, sq[q].tail)
      BY ONLY <1>1, <2>1, Zenon
    <3> QED
      BY ONLY <1>1, <1>2, <3>1, CountLess, Zenon
  <2>3. Count((h + n) % W, sq[q].tail) = Count(h + n, sq[q].tail)
    BY <1>2, <1>4, CountWraps, Zenon
  <2>4. Avail(q)' = Count((h + n) % W, sq[q].tail)
    BY <1>8, Zenon DEF Avail, Count
  <2> QED
    BY <2>1, <2>2, <2>3, <2>4, Zenon
<1>14. Avail(q)' <= Done(q)' + Count(Front(q)', tail'[q])
  <2>1. Avail(q) <= (n - 1) + c
    BY <1>1, Zenon DEF Inv, Queues, Submission, c
  <2>2. Count(Front(q)', tail'[q]) = c - 1
    BY <1>0, <1>10, <1>11, Zenon
  <2>3. Avail(q) - n <= 0 + (c - 1)
    BY ONLY <1>1, <1>2, <2>1
  <2> QED
    BY <1>9, <1>13, <2>2, <2>3, Zenon
<1>15. Submission(q)'
  BY <1>1, <1>8, <1>12, <1>14, Zenon DEF Submission
<1>16. Chain(prev'[q] \o fifo'[q], Busy(q)', rx'.off)
  BY <1>p, <1>0, Zenon DEF Chain
<1> QED
  BY <1>7, <1>15, <1>16, Zenon

\* A completion is written, and after the last one the frame is counted.
LEMMA PushChunkInv ==
    ASSUME SlotTheory, Inv, PushChunk
    PROVE  Inv'
<1>a. rx # Idle /\ rx.pc = "push"
  BY DEF PushChunk, Idle
<1>b. PICK q \in Qs : q = rx.q
  BY <1>a, HandlerMeans, Zenon
<1>c. PICK len : len = Piece(rx.desc[rx.i], rx.frame.len - rx.off)
  BY Zenon
<1>0. /\ cring' = [cring EXCEPT ![q] = Write(@, cq[q], NewCdesc(len))]
      /\ cq' = [cq EXCEPT ![q] = Advance(@)]
      /\ fifo' = [fifo EXCEPT ![q] = Append(@, [cdesc |-> NewCdesc(len), chunk |->
                    [frame |-> rx.frame, off |-> rx.off, len |-> len]])]
      /\ \/ /\ rx.i < Len(rx.desc)
            /\ rx' = [rx EXCEPT !.pc = "dma", !.i = @ + 1, !.off = @ + len]
            /\ UNCHANGED <<sq, rx_pkts>>
         \/ /\ rx.i = Len(rx.desc)
            /\ rx' = Idle
            /\ Consume(q, Len(rx.desc))
            /\ rx_pkts' = rx_pkts + 1
      /\ UNCHANGED <<rx_drops, net, guest, mem>>
  BY <1>b, <1>c, Zenon DEF PushChunk
<1>1. /\ sring' = sring /\ tail' = tail /\ driver' = driver /\ free' = free /\ prev' = prev
      /\ bad' = bad /\ mem' = mem /\ rx_drops' = rx_drops
      /\ held' = held /\ flushing' = flushing /\ arrived' = arrived /\ filtered' = filtered
      /\ UNCHANGED guest
  BY <1>0, Zenon DEF net, guest
<1>2. Pushed(q, len)
  BY <1>a, <1>b, <1>c, <1>0, <1>1, PushQueue, Zenon
<1>3. /\ sq' \in [Qs -> [used : BOOLEAN, head : 0..(W - 1), tail : 0..(W - 1)]]
      /\ \A p \in Qs : p # q => sq'[p] = sq[p]
      /\ Submission(q)' /\ Chain(prev'[q] \o fifo'[q], Busy(q)', rx'.off) /\ Handler'
      /\ \A p \in Qs : p # q => ~Busy(p)'
      /\ Counts'
  <2>1. CASE /\ rx.i < Len(rx.desc)
             /\ rx' = [rx EXCEPT !.pc = "dma", !.i = @ + 1, !.off = @ + len]
             /\ UNCHANGED <<sq, rx_pkts>>
    <3>1. sq' = sq /\ rx_pkts' = rx_pkts
      BY <2>1, Zenon
    <3>2. len \in Nat /\ rx.off + len = rx.i * BufSize[q]
      <4>1. len \in Nat \ {0} /\ rx.off + len = rx.i * BufSize[q]
        BY <1>a, <1>b, <1>c, <2>1, NextPiece, Zenon
      <4> QED
        BY <4>1, Zenon
    <3>3. /\ Submission(q)' /\ Chain(prev'[q] \o fifo'[q], Busy(q)', rx'.off) /\ Handler'
          /\ rx' # Idle /\ rx'.q = q
      BY <1>a, <1>b, <1>1, <1>2, <2>1, <3>1, <3>2, PushMoreInv, Zenon
    <3>4. Counts'
      BY <1>a, <1>1, <3>1, <3>3, Zenon DEF Inv, Counts, FramesAccounted, Ready4Handler
    <3>5. \A p \in Qs : p # q => ~Busy(p)'
      BY <3>3, Zenon DEF Busy
    <3>6. sq \in [Qs -> [used : BOOLEAN, head : 0..(W - 1), tail : 0..(W - 1)]]
      BY Zenon DEF Inv, Shape
    <3> QED
      BY <3>1, <3>3, <3>4, <3>5, <3>6, Zenon
  <2>2. CASE /\ rx.i = Len(rx.desc)
             /\ rx' = Idle
             /\ Consume(q, Len(rx.desc))
             /\ rx_pkts' = rx_pkts + 1
    <3>1. /\ sq' \in [Qs -> [used : BOOLEAN, head : 0..(W - 1), tail : 0..(W - 1)]]
          /\ \A p \in Qs : p # q => sq'[p] = sq[p]
          /\ Submission(q)' /\ Chain(prev'[q] \o fifo'[q], Busy(q)', rx'.off)
      BY <1>a, <1>b, <1>1, <1>2, <2>2, PushLastInv, Zenon
    <3>2. Handler' /\ \A p \in Qs : ~Busy(p)'
      BY <2>2, Zenon DEF Handler, Busy
    <3>3. Counts'
      <4>1. /\ held \in Seq(Frames) /\ Len(held) <= MaxHeld /\ flushing \in BOOLEAN
            /\ rx_pkts \in Nat /\ rx_drops \in Nat /\ filtered \in Nat
            /\ arrived \in Nat /\ arrived <= MaxArrivals
            /\ flushing => held # <<>>
            /\ held # <<>> => flushing
            /\ arrived = Len(held) + rx_pkts + rx_drops + filtered + 1
        BY <1>a, CountsMeans, Zenon DEF Inv
      <4>2. Len(held) \in Nat
        BY <4>1
      <4>3. /\ arrived = Len(held) + (rx_pkts + 1) + rx_drops + filtered + 0
            /\ rx_pkts + 1 \in Nat
        BY ONLY <4>1, <4>2
      <4> QED
        BY <1>1, <2>2, <4>1, <4>3, Zenon DEF Counts, FramesAccounted, Ready4Handler
    <3> QED
      BY <3>1, <3>2, <3>3, Zenon
  <2> QED
    BY <1>0, <2>1, <2>2, Zenon
<1>4. Shape'
  BY <1>1, <1>2, <1>3, Zenon DEF Inv, Shape, Pushed
<1>5. \A p \in Qs : Submission(p) /\ Completion(p) /\ Delivery(p)
  BY Zenon DEF Inv, Queues
<1>6. ASSUME NEW p \in Qs, p # q
      PROVE  Submission(p)' /\ Completion(p)' /\ Delivery(p)'
  <2>1. ~Busy(p) /\ ~Busy(p)'
    BY <1>b, <1>3, <1>6, Zenon DEF Busy
  <2>2. Done(p) = 0 /\ Done(p)' = 0
    BY <2>1, Zenon DEF Done
  <2>3. cring'[p] = cring[p] /\ cq'[p] = cq[p] /\ fifo'[p] = fifo[p] /\ sq'[p] = sq[p]
    BY <1>2, <1>3, <1>6, Zenon DEF Pushed
  <2> QED
    BY <1>1, <1>5, <2>1, <2>2, <2>3, SubmissionKept, CompletionKept, DeliveryKept, Zenon
<1>7. Delivery(q)'
  <2>1. Len(prev[q]) <= 1
    BY <1>5, Zenon DEF Delivery
  <2> QED
    BY <1>1, <1>2, <1>3, <2>1, Zenon DEF Delivery, Pushed
<1>8. Completion(q)'
  BY <1>2, Zenon DEF Pushed
<1> QED
  BY <1>3, <1>4, <1>6, <1>7, <1>8, Zenon DEF Inv, Queues
=============================================================================
