----------------------------- MODULE EnaRxProofs -----------------------------
(***************************************************************************)
(* The receive path is safe for any number of queues, any depth of the     *)
(* rings, any frames and buffer sizes: the guest and the commands that end *)
(* queues keep the invariant of EnaRxHandlerProofs as well, and it implies *)
(* the invariants of EnaRx.  The facts on finite sets come last, with the  *)
(* theorems that need them.                                                *)
(***************************************************************************)
EXTENDS EnaRxHandlerProofs

-----------------------------------------------------------------------------
(* Queues that go. *)

\* The queues that are left are as they were, and the others are fresh.
LEMMA ForgetInv ==
    ASSUME SlotTheory, Inv, rx = Idle, rx' = rx, NEW gone \in SUBSET Qs, Forget(gone)
    PROVE  /\ Shape' /\ Handler' /\ Queues'
           /\ \A p \in Qs : p \in gone \/ sq'[p] = sq[p]
           /\ \A p \in gone : ~sq'[p].used
<1> DEFINE New(f, x) == [p \in Qs |-> IF p \in gone THEN x ELSE f[p]]
           fresh == [used |-> FALSE, head |-> 0, tail |-> 0]
           blank == [s \in Slots |-> BlankEntry]
<1>1. /\ sq' = New(sq, fresh)
      /\ cq' = New(cq, Start) /\ driver' = New(driver, Start)
      /\ sring' = New(sring, [s \in Slots |-> BlankDesc])
      /\ cring' = New(cring, blank)
      /\ mem' = New(mem, [s \in Slots |-> Nothing])
      /\ tail' = New(tail, 0) /\ free' = New(free, Slots)
      /\ fifo' = New(fifo, <<>>) /\ prev' = New(prev, <<>>)
      /\ bad' = bad \ gone
  BY Zenon DEF Forget
<1>2. ASSUME NEW p \in Qs, p \notin gone
      PROVE  /\ sq'[p] = sq[p] /\ cq'[p] = cq[p] /\ driver'[p] = driver[p]
             /\ sring'[p] = sring[p] /\ cring'[p] = cring[p] /\ mem'[p] = mem[p]
             /\ tail'[p] = tail[p] /\ free'[p] = free[p] /\ fifo'[p] = fifo[p]
             /\ prev'[p] = prev[p] /\ (p \in bad' <=> p \in bad)
  BY <1>1, <1>2, Zenon
<1>3. ASSUME NEW p \in Qs, p \in gone
      PROVE  /\ sq'[p] = fresh /\ cq'[p] = Start /\ driver'[p] = Start
             /\ cring'[p] = blank
             /\ tail'[p] = 0 /\ free'[p] = Slots /\ fifo'[p] = <<>> /\ prev'[p] = <<>>
             /\ p \notin bad'
  BY <1>1, <1>3, Zenon
<1>4. Shape'
  <2>0. Shape
    BY Zenon DEF Inv
  <2>1. \A S, f, x : f \in [Qs -> S] /\ x \in S => New(f, x) \in [Qs -> S]
    BY Zenon
  <2> HIDE DEF New
  <2>2. W \in Nat \ {0}
    BY RingSizes, Zenon
  <2>3. 0 \in 0..(W - 1) /\ fresh \in [used : BOOLEAN, head : 0..(W - 1), tail : 0..(W - 1)]
    BY ONLY <2>2
  <2>4. /\ blank \in [Slots -> [phase : BOOLEAN, data : Cdesc \cup {Nothing}]]
        /\ Start \in Position
    BY FreshRing, Zenon
  <2>5. /\ [s \in Slots |-> BlankDesc] \in [Slots -> Desc \cup {BlankDesc}]
        /\ [s \in Slots |-> Nothing] \in [Slots -> Chunk \cup {Nothing}]
    BY Zenon
  <2>6. <<>> \in Seq(Note) /\ Slots \in SUBSET Slots
    OBVIOUS
  <2>7. sq' \in [Qs -> [used : BOOLEAN, head : 0..(W - 1), tail : 0..(W - 1)]]
    BY <1>1, <2>0, <2>1, <2>3, Zenon DEF Shape
  <2>8. cq' \in [Qs -> Position] /\ driver' \in [Qs -> Position]
    BY <1>1, <2>0, <2>1, <2>4, Zenon DEF Shape
  <2>9. sring' \in [Qs -> [Slots -> Desc \cup {BlankDesc}]]
    BY <1>1, <2>0, <2>1, <2>5, Zenon DEF Shape
  <2>10. cring' \in [Qs -> [Slots -> [phase : BOOLEAN, data : Cdesc \cup {Nothing}]]]
    BY <1>1, <2>0, <2>1, <2>4, Zenon DEF Shape
  <2>11. mem' \in [Qs -> [Slots -> Chunk \cup {Nothing}]]
    BY <1>1, <2>0, <2>1, <2>5, Zenon DEF Shape
  <2>12. tail' \in [Qs -> 0..(W - 1)] /\ free' \in [Qs -> SUBSET Slots]
    BY <1>1, <2>0, <2>1, <2>3, <2>6, Zenon DEF Shape
  <2>13. fifo' \in [Qs -> Seq(Note)] /\ prev' \in [Qs -> Seq(Note)]
    BY <1>1, <2>0, <2>1, <2>6, Zenon DEF Shape
  <2>14. bad' \subseteq Qs
    BY <1>1, <2>0, Zenon DEF Shape
  <2> QED
    BY <2>7, <2>8, <2>9, <2>10, <2>11, <2>12, <2>13, <2>14, Zenon DEF Shape
<1>5. Handler'
  BY Zenon DEF Handler
<1>6. \A p : (Busy(p)' <=> Busy(p)) /\ ~Busy(p) /\ Done(p)' = 0 /\ Done(p) = 0
  BY Zenon DEF Busy, Done
<1>7. \A p \in Qs : Submission(p) /\ Completion(p) /\ Delivery(p)
  BY Zenon DEF Inv, Queues
<1>8. ASSUME NEW p \in Qs, p \notin gone
      PROVE  Submission(p)' /\ Completion(p)' /\ Delivery(p)'
  BY <1>2, <1>6, <1>7, <1>8, SubmissionKept, CompletionKept, DeliveryKept, Zenon
<1>9. ASSUME NEW p \in Qs, p \in gone
      PROVE  Submission(p)' /\ Completion(p)' /\ Delivery(p)'
  <2>1. sq'[p].head = 0 /\ sq'[p].tail = 0
    BY <1>3, <1>9
  <2>2. Front(p)' = 0
    BY <1>6, <2>1 DEF Front
  <2>3. Avail(p)' = 0
    BY <2>1, FreshAvail, Zenon DEF Avail
  <2>4. Submission(p)'
    <3>1. Count(0, 0) = 0 /\ Buffers(0, 0, sring'[p], <<>>, Slots, TRUE, BufSize[p])
      BY BuffersFresh, Zenon
    <3>2. (p \notin bad') = TRUE
      BY <1>3, <1>9, Zenon
    <3>3. Buffers(Front(p)', tail'[p], sring'[p], Ids(fifo'[p]), free'[p],
                  p \notin bad', BufSize[p])
      BY <1>3, <1>9, <2>2, <3>1, <3>2, NoIds, Zenon
    <3>4. Avail(p)' <= Done(p)' + Count(Front(p)', tail'[p])
      <4>1. 0 <= 0 + 0
        OBVIOUS
      <4> QED
        BY <1>3, <1>6, <1>9, <2>2, <2>3, <3>1, <4>1, Zenon
    <3> QED
      BY <2>1, <3>3, <3>4, Zenon DEF Submission
  <2>5. Completion(p)'
    BY <1>3, <1>9, FreshRing, NoIds, Zenon DEF Completion
  <2>6. Delivery(p)'
    <3>1. Len(<<>>) = 0 /\ 1..0 = {} /\ 0 <= 1
      OBVIOUS
    <3>2. fifo'[p] = <<>> /\ prev'[p] = <<>>
      BY <1>3, <1>9, Zenon
    <3> QED
      BY <3>1, <3>2, FreshChain, Zenon DEF Delivery
  <2> QED
    BY <2>4, <2>5, <2>6, Zenon
<1>10. \A p \in gone : ~sq'[p].used
  BY <1>3
<1> QED
  BY <1>2, <1>4, <1>5, <1>8, <1>9, <1>10, Zenon DEF Queues

\* ena_destroy_sq: what is held stays held, the other queues are as they were.
LEMMA DestroyInv ==
    ASSUME SlotTheory, Inv, NEW q \in Qs, Destroy(q)
    PROVE  Inv'
<1>0. /\ rx = Idle /\ ~flushing /\ Forget({q})
      /\ rx' = rx /\ rx_pkts' = rx_pkts /\ rx_drops' = rx_drops
      /\ held' = held /\ flushing' = flushing /\ arrived' = arrived /\ filtered' = filtered
  BY Zenon DEF Destroy, Ready4Handler, net
<1>1. {q} \in SUBSET Qs
  BY Zenon
<1>2. /\ Shape' /\ Handler' /\ Queues'
      /\ \A p \in Qs : p \in {q} \/ sq'[p] = sq[p]
      /\ \A p \in {q} : ~sq'[p].used
  BY <1>0, <1>1, ForgetInv, Zenon
<1>3. (\A p \in Used : Avail(p) = 0) => (\A p \in Used : Avail(p) = 0)'
  <2>1. ASSUME \A p \in Used : Avail(p) = 0, NEW p \in Qs, sq'[p].used
        PROVE  Avail(p)' = 0
    <3>1. sq'[p] = sq[p]
      BY <1>2, <2>1, Zenon
    <3> QED
      BY <2>1, <3>1, Zenon DEF Used, Avail
  <2> QED
    BY <2>1, Zenon DEF Used
<1>4. Counts'
  BY <1>0, <1>3, CountsMeans, Zenon DEF Inv, Counts, FramesAccounted, Ready4Handler
<1> QED
  BY <1>2, <1>4, Zenon DEF Inv

\* ena_dev_reset: every queue is gone; what is held counts as arrived since.
LEMMA DevResetInv ==
    ASSUME SlotTheory, Inv, DevReset
    PROVE  Inv'
<1>0. /\ rx = Idle /\ ~flushing /\ Forget(Qs) /\ rx' = rx /\ held' = held /\ flushing' = flushing
      /\ rx_pkts' = 0 /\ rx_drops' = 0 /\ filtered' = 0 /\ arrived' = Len(held)
  BY Zenon DEF DevReset, Ready4Handler
<1>1. Qs \in SUBSET Qs
  BY Zenon
<1>2. Shape' /\ Handler' /\ Queues' /\ \A p \in Qs : ~sq'[p].used
  BY <1>0, <1>1, ForgetInv, Zenon
<1>3. /\ held \in Seq(Frames) /\ Len(held) <= MaxHeld /\ flushing \in BOOLEAN
      /\ rx_pkts \in Nat /\ rx_drops \in Nat /\ filtered \in Nat
      /\ arrived \in Nat /\ arrived <= MaxArrivals
      /\ arrived = Len(held) + rx_pkts + rx_drops + filtered + 0
  BY <1>0, CountsMeans, Zenon DEF Inv
<1>4. Len(held) \in Nat /\ MaxArrivals \in Nat
  BY <1>3, BoundAssumption
<1>5. Len(held) <= MaxArrivals /\ Len(held) = Len(held) + 0 + 0 + 0 + 0 /\ 0 \in Nat
  BY ONLY <1>3, <1>4
<1>6. Counts'
  BY <1>0, <1>2, <1>3, <1>4, <1>5, Zenon DEF Counts, FramesAccounted, Ready4Handler, Used
<1> QED
  BY <1>2, <1>6, Zenon DEF Inv

-----------------------------------------------------------------------------
(* The guest. *)

\* The guest posts a buffer of its own, behind every descriptor in use.
LEMMA PostInv ==
    ASSUME SlotTheory, Inv, NEW q \in Qs, NEW ok \in Checks, Post(q, ok)
    PROVE  Inv'
<1>a. PICK id : id = CHOOSE i \in free[q] : \A j \in free[q] : i <= j
  BY Zenon
<1> DEFINE d == [req_id |-> id, size |-> BufSize[q], ok |-> ok]
           to == tail[q]
           n == Count(Front(q), to)
<1>0. /\ free[q] # {} /\ sring' = [sring EXCEPT ![q][tail[q] % Depth] = d]
      /\ free' = [free EXCEPT ![q] = @ \ {id}]
      /\ tail' = [tail EXCEPT ![q] = (@ + 1) % W]
      /\ bad' = IF ok THEN bad ELSE bad \cup {q}
      /\ UNCHANGED <<device, net, driver, prev, cring, mem, fifo>>
  BY <1>a, Zenon DEF Post
<1>1. /\ sq' = sq /\ cq' = cq /\ rx' = rx /\ rx_pkts' = rx_pkts /\ rx_drops' = rx_drops
      /\ driver' = driver /\ prev' = prev /\ cring' = cring /\ mem' = mem /\ fifo' = fifo
      /\ held' = held /\ flushing' = flushing /\ arrived' = arrived /\ filtered' = filtered
  BY <1>0, Zenon DEF device, net
<1>2. /\ Front(q) \in Int /\ to \in Int /\ n \in Nat /\ Avail(q) \in Nat /\ Done(q) \in Nat
      /\ sring[q] \in [Slots -> Desc \cup {BlankDesc}]
      /\ free[q] \in SUBSET Slots /\ Ids(fifo[q]) \in Seq(Slots)
      /\ (q \notin bad) \in BOOLEAN /\ BufSize[q] \in Nat \ {0}
  BY QueueTypes, Zenon
<1>3. id \in free[q] /\ id \in Slots
  <2>1. free[q] \in SUBSET Nat
    BY <1>2, RingSizes DEF Slots
  <2>2. \E i \in free[q] : \A j \in free[q] : i <= j
    BY <1>0, <2>1, Least, Zenon
  <2>3. id \in free[q]
    BY <1>a, <2>2, Zenon
  <2> QED
    BY <1>2, <2>3, Zenon
<1>4. d \in Desc /\ d.req_id = id /\ d.size = BufSize[q] /\ d.ok = ok
  BY <1>3, Zenon DEF Desc
<1> HIDE DEF d
<1>5. ok \in BOOLEAN
  BY BoundAssumption, Zenon
<1>6. /\ bad' \subseteq Qs /\ (q \notin bad') \in BOOLEAN
      /\ q \notin bad' => q \notin bad /\ d.ok
      /\ \A p \in Qs : p # q => (p \in bad' <=> p \in bad)
  <2>1. bad \subseteq Qs
    BY Zenon DEF Inv, Shape
  <2> QED
    BY <1>0, <1>4, <1>5, <2>1, Zenon
<1>7. to % Depth \in Slots /\ (to + 1) % W \in 0..(W - 1)
  <2>1. to + 1 \in Int
    BY <1>2
  <2> QED
    BY <1>2, <2>1, SlotType, WrapIndex, Zenon
<1>8. /\ sring'[q] = [sring[q] EXCEPT ![to % Depth] = d]
      /\ \A p \in Qs : p # q => sring'[p] = sring[p]
      /\ sring' \in [Qs -> [Slots -> Desc \cup {BlankDesc}]]
  <2>1. sring \in [Qs -> [Slots -> Desc \cup {BlankDesc}]]
    BY Zenon DEF Inv, Shape
  <2>2. sring' = [sring EXCEPT ![q] = [sring[q] EXCEPT ![to % Depth] = d]]
    BY <1>0, <2>1, Zenon
  <2>3. [sring[q] EXCEPT ![to % Depth] = d] \in [Slots -> Desc \cup {BlankDesc}]
    BY <1>2, <1>4, <1>7, Zenon
  <2> HIDE DEF to
  <2> QED
    BY ONLY <2>1, <2>2, <2>3, q \in Qs, Zenon
<1>9. /\ free'[q] = free[q] \ {d.req_id} /\ (\A p \in Qs : p # q => free'[p] = free[p])
      /\ free' \in [Qs -> SUBSET Slots]
      /\ tail'[q] = (to + 1) % W /\ (\A p \in Qs : p # q => tail'[p] = tail[p])
      /\ tail' \in [Qs -> 0..(W - 1)]
  <2>1. free \in [Qs -> SUBSET Slots] /\ tail \in [Qs -> 0..(W - 1)]
    BY Zenon DEF Inv, Shape
  <2>2. /\ free'[q] = free[q] \ {id} /\ (\A p \in Qs : p # q => free'[p] = free[p])
        /\ free' \in [Qs -> SUBSET Slots]
    BY ONLY <1>0, <2>1, q \in Qs, Zenon
  <2>3. /\ tail'[q] = (to + 1) % W /\ (\A p \in Qs : p # q => tail'[p] = tail[p])
        /\ tail' \in [Qs -> 0..(W - 1)]
    BY ONLY <1>0, <1>7, <2>1, q \in Qs, Zenon
  <2> QED
    BY <1>4, <2>2, <2>3, Zenon
<1>10. Shape'
  BY <1>1, <1>6, <1>8, <1>9, Zenon DEF Inv, Shape
<1>11. \A p : (Busy(p)' <=> Busy(p)) /\ Done(p)' = Done(p)
  BY <1>1, Zenon DEF Busy, Done
<1>12. \A p \in Qs : Submission(p) /\ Completion(p) /\ Delivery(p)
  BY Zenon DEF Inv, Queues
<1>13. \A p \in Qs : Completion(p)' /\ Delivery(p)'
  BY <1>1, <1>11, <1>12, CompletionKept, DeliveryKept, Zenon
<1>14. \A p \in Qs : p # q => Submission(p)'
  BY <1>1, <1>6, <1>8, <1>9, <1>11, <1>12, SubmissionKept, Zenon
<1>15. /\ Count(Front(q), (to + 1) % W) = n + 1
       /\ \A k \in 0..(n - 1) : sring'[q][(Front(q) + k) % Depth] = sring[q][(Front(q) + k) % Depth]
       /\ Buffers(Front(q), (to + 1) % W, sring'[q], Ids(fifo[q]), free[q] \ {d.req_id},
                  q \notin bad', BufSize[q])
  <2> DEFINE good == q \notin bad'
  <2>1. Buffers(Front(q), to, sring[q], Ids(fifo[q]), free[q], q \notin bad, BufSize[q])
    BY <1>12, Zenon DEF Submission
  <2>2. Buffers(Front(q), to, sring[q], Ids(fifo[q]), free[q], good, d.size)
    BY <1>4, <1>6, <2>1, Zenon DEF Buffers
  <2>3. d \in Desc /\ d.req_id \in free[q] /\ good \in BOOLEAN /\ (good => d.ok)
    BY <1>3, <1>4, <1>6, Zenon
  <2> HIDE DEF good, to
  <2>4. OnePosted(Front(q), to, sring[q], Ids(fifo[q]), free[q], good, d)
    BY <1>2, <2>2, <2>3, BuffersPost, Zenon
  <2> QED
    BY <1>4, <1>8, <2>4, Zenon DEF good, OnePosted
<1>16. Front(q)' = Front(q) /\ Avail(q)' = Avail(q)
  BY <1>1, <1>11, Zenon DEF Front, Avail
<1>17. Submission(q)'
  <2>1. Buffers(Front(q)', tail'[q], sring'[q], Ids(fifo'[q]), free'[q],
                q \notin bad', BufSize[q])
    BY <1>1, <1>9, <1>15, <1>16, Zenon
  <2>2. Avail(q) <= Done(q) + n /\ (~sq[q].used => sq[q].head = 0 /\ sq[q].tail = 0)
    BY <1>12, Zenon DEF Submission
  <2> HIDE DEF n
  <2>3. Avail(q) <= Done(q) + (n + 1)
    BY ONLY <1>2, <2>2
  <2>4. Avail(q)' <= Done(q)' + Count(Front(q)', tail'[q])
    BY <1>9, <1>11, <1>15, <1>16, <2>3, Zenon
  <2> QED
    BY <1>1, <2>1, <2>2, <2>4, Zenon DEF Submission
<1>18. Handler'
  <2>0. CASE rx = Idle
    BY <1>1, <2>0, Zenon DEF Handler
  <2>1. CASE rx # Idle
    <3>1. PICK r \in Qs : r = rx.q
      BY <2>1, HandlerMeans, Zenon
    <3>2. \A k \in rx.i..Len(rx.desc) : At(r, k - 1)' = At(r, k - 1)
      <4>1. CASE r # q
        BY <1>1, <1>8, <4>1, Zenon DEF At
      <4>2. CASE r = q
        <5>1. SUFFICES ASSUME NEW k \in rx.i..Len(rx.desc)
                       PROVE  At(q, k - 1)' = At(q, k - 1)
          BY <4>2, Zenon
        <5>2. /\ Front(q) = sq[q].head + (rx.i - 1) /\ Len(rx.desc) - (rx.i - 1) <= n
              /\ rx.i \in Nat /\ sq[q].head \in Int /\ rx.desc \in Seq(Desc)
          BY <2>1, <3>1, <4>2, NextBuffer, HandlerMeans, QueueTypes, Zenon
        <5>3. Len(rx.desc) \in Nat
          BY ONLY <5>2
        <5> HIDE DEF n
        <5>4. k - rx.i \in 0..(n - 1) /\ sq[q].head + (k - 1) = Front(q) + (k - rx.i)
          <6>1. Front(q) \in Int /\ n \in Nat
            BY <1>2, Zenon
          <6>2. k \in Int /\ rx.i <= k /\ k <= Len(rx.desc)
            BY ONLY <5>2, <5>3, k \in rx.i..Len(rx.desc)
          <6> DEFINE h == sq[q].head
                     i == rx.i
                     l == Len(rx.desc)
                     f == Front(q)
          <6>3. /\ f = h + (i - 1) /\ l - (i - 1) <= n /\ i <= k /\ k <= l
                /\ h \in Int /\ i \in Nat /\ l \in Nat /\ n \in Nat /\ f \in Int /\ k \in Int
            BY <5>2, <5>3, <6>1, <6>2, Zenon
          <6> HIDE DEF h, i, l, f
          <6>4. k - i \in 0..(n - 1) /\ h + (k - 1) = f + (k - i)
            BY ONLY <6>3
          <6> QED
            BY <6>4, Zenon DEF h, i, f
        <5> QED
          BY <1>1, <1>15, <5>4, Zenon DEF At, n
      <4> QED
        BY <4>1, <4>2, Zenon
    <3>3. Avail(r)' = Avail(r)
      BY <1>1, Zenon DEF Avail
    <3>4. /\ rx \in HandlerType /\ sq[r].used /\ Len(rx.desc) <= Avail(r)
          /\ rx.i \in 1..Len(rx.desc)
          /\ rx.off = (rx.i - 1) * BufSize[r]
          /\ (Len(rx.desc) - 1) * BufSize[r] < rx.frame.len
          /\ rx.frame.len <= Len(rx.desc) * BufSize[r]
          /\ \A k \in rx.i..Len(rx.desc) : rx.desc[k] = At(r, k - 1)
          /\ rx.pc = "push" => mem[r][rx.desc[rx.i].req_id] =
               [frame |-> rx.frame, off |-> rx.off,
                len |-> Piece(rx.desc[rx.i], rx.frame.len - rx.off)]
          /\ rx.i = 1 <=> (prev[r] \o fifo[r] = <<>>
                           \/ (prev[r] \o fifo[r])[Len(prev[r] \o fifo[r])].cdesc.last)
      BY <2>1, <3>1, Zenon DEF Inv, Handler, HandlerType
    <3> QED
      BY <1>1, <3>1, <3>2, <3>3, <3>4, Zenon DEF Handler, HandlerType
  <2> QED
    BY <2>0, <2>1, Zenon
<1>19. Counts'
  <2>1. Used' = Used /\ \A p : Avail(p)' = Avail(p)
    BY <1>1, Zenon DEF Used, Avail
  <2> QED
    BY <1>1, <2>1, Zenon DEF Inv, Counts, FramesAccounted, Ready4Handler
<1> QED
  BY <1>10, <1>13, <1>14, <1>17, <1>18, <1>19, Zenon DEF Inv, Queues

\* What the guest has read before the last completion does not matter.
LEMMA ChainSuffix ==
    ASSUME NEW r \in Seq(Note), NEW f \in Seq(Note), f # <<>>, NEW busy, NEW off,
           Chain(r \o f, busy, off)
    PROVE  LET s == r \o f
               t == <<Head(f)>> \o Tail(f)
           IN /\ Chain(t, busy, off) /\ s # <<>> /\ t # <<>>
              /\ s[Len(s)] = t[Len(t)]
<1> DEFINE s == r \o f
           m == Len(r)
           n == Len(f)
<1>1. <<Head(f)>> \o Tail(f) = f
  OBVIOUS
<1>2. /\ m \in Nat /\ n \in Nat /\ n > 0 /\ Len(s) = m + n /\ s # <<>>
      /\ \A k \in 1..n : s[m + k] = f[k]
  OBVIOUS
<1>3. /\ \A k \in 1..Len(s) : NoteTrue(s[k])
      /\ \A k \in 1..(Len(s) - 1) : Follows(s[k], s[k + 1])
      /\ s # <<>> =>
           s[Len(s)].cdesc.last \/ (busy /\ off = s[Len(s)].chunk.off + s[Len(s)].chunk.len)
  BY Zenon DEF Chain
<1> HIDE DEF s, m, n
<1>4. \A k \in 1..n : m + k \in 1..(m + n)
  BY ONLY <1>2
<1>5. \A k \in 1..(n - 1) :
        m + k \in 1..((m + n) - 1) /\ (m + k) + 1 = m + (k + 1) /\ k \in 1..n /\ k + 1 \in 1..n
  BY ONLY <1>2
<1>6. \A k \in 1..n : NoteTrue(f[k])
  BY <1>2, <1>3, <1>4, Zenon
<1>7. ASSUME NEW k \in 1..(n - 1) PROVE Follows(f[k], f[k + 1])
  <2>1. Follows(s[m + k], s[(m + k) + 1])
    BY <1>2, <1>3, <1>5, Zenon
  <2>2. s[m + k] = f[k] /\ s[m + (k + 1)] = f[k + 1]
    BY <1>2, <1>5, Zenon
  <2> QED
    BY <1>5, <2>1, <2>2, Zenon
<1>8. n \in 1..n
  BY ONLY <1>2
<1>9. s[Len(s)] = f[n]
  BY <1>2, <1>8, Zenon
<1>10. Chain(f, busy, off)
  BY <1>2, <1>3, <1>6, <1>7, <1>9, Zenon DEF Chain, n
<1> QED
  BY <1>1, <1>2, <1>9, <1>10, Zenon DEF s, n

\* The guest reads a completion: the buffer is its own again, and no buffer that
\* the device still has is touched.
LEMMA ReapInv ==
    ASSUME SlotTheory, Inv, NEW q \in Qs, Reap(q)
    PROVE  Inv'
<1> DEFINE f == fifo[q]
           id == f[1].cdesc.req_id
           old == prev[q] \o f
           new == <<Head(f)>> \o Tail(f)
<1>1. /\ sq' = sq /\ cq' = cq /\ rx' = rx /\ rx_pkts' = rx_pkts /\ rx_drops' = rx_drops
      /\ sring' = sring /\ tail' = tail /\ bad' = bad /\ cring' = cring
      /\ held' = held /\ flushing' = flushing /\ arrived' = arrived /\ filtered' = filtered
  BY Zenon DEF Reap, device, net
<1>2. /\ Front(q) \in Int /\ tail[q] \in Int
      /\ free[q] \in SUBSET Slots /\ f \in Seq(Note) /\ Ids(f) \in Seq(Slots)
      /\ (q \notin bad) \in BOOLEAN
  BY QueueTypes, Zenon
<1>3. /\ prev[q] \in Seq(Note) /\ cq[q] \in Position /\ driver[q] \in Position
      /\ cring[q] \in [Slots -> [phase : BOOLEAN, data : Cdesc \cup {Nothing}]]
  BY Zenon DEF Inv, Shape
<1>4. \A p \in Qs : Submission(p) /\ Completion(p) /\ Delivery(p)
  BY Zenon DEF Inv, Queues
<1>5. Holds(cring[q], cq[q], driver[q], Cdescs(f))
  BY <1>4, Zenon DEF Completion
<1>6. /\ Cdescs(f) # <<>> /\ cring[q][driver[q].idx % Depth].data = Head(Cdescs(f))
      /\ Advance(driver[q]) \in Position
      /\ Holds(cring[q], cq[q], Advance(driver[q]), Tail(Cdescs(f)))
  <2>1. Cdescs(f) \in Seq(Cdesc)
    BY <1>2, IdsType, Zenon
  <2>2. Cdescs(f) \in Seq(Cdesc \cup {Nothing})
    BY ONLY <2>1
  <2>3. Ready(cring[q], driver[q])
    BY Zenon DEF Reap
  <2> QED
    BY <1>3, <1>5, <2>2, <2>3, ReadHoldsAny, Zenon
<1>7. f # <<>>
  BY <1>6, NoIds, Zenon
<1>8. /\ Tail(f) \in Seq(Note) /\ Len(Tail(f)) = Len(f) - 1
      /\ \A k \in 1..(Len(f) - 1) : Tail(f)[k] = f[k + 1] /\ k + 1 \in 1..Len(f)
      /\ Ids(f) # <<>> /\ 1 \in 1..Len(f) /\ Head(f) = f[1]
      /\ Ids(Tail(f)) = Tail(Ids(f)) /\ Cdescs(Tail(f)) = Tail(Cdescs(f))
      /\ Head(Cdescs(f)) = f[1].cdesc
  BY <1>2, <1>7, IdsTail, Zenon
<1>9. /\ \A k \in 1..Len(f) : Ids(f)[k] = f[k].cdesc.req_id /\ f[k] \in Note
      /\ Len(Ids(f)) = Len(f)
  BY <1>2, IdsType, Zenon
<1>10. Ids(f)[1] = id /\ Head(f) \in Note
  BY <1>8, <1>9, Zenon
<1>11. /\ id \in Slots
       /\ \A k \in 2..Len(f) : f[k].cdesc.req_id # id
       /\ \A k \in 0..(Count(Front(q), tail[q]) - 1) :
            sring[q][(Front(q) + k) % Depth].req_id # id
       /\ Buffers(Front(q), tail[q], sring[q], Ids(Tail(f)), free[q] \cup {id}, q \notin bad,
                  BufSize[q])
  <2>1. Buffers(Front(q), tail[q], sring[q], Ids(f), free[q], q \notin bad, BufSize[q])
    BY <1>4, Zenon DEF Submission
  <2>2. FirstReaped(Front(q), tail[q], sring[q], Ids(f), free[q], q \notin bad, BufSize[q])
    BY <1>2, <1>8, <2>1, BuffersReap, Zenon
  <2>3. Len(f) \in Nat
    BY ONLY <1>2
  <2>4. \A k \in 2..Len(f) : k \in 1..Len(f)
    BY ONLY <2>3
  <2>5. /\ Ids(f)[1] \in Slots
        /\ \A k \in 2..Len(Ids(f)) : Ids(f)[k] # Ids(f)[1]
        /\ \A k \in 0..(Count(Front(q), tail[q]) - 1) :
             sring[q][(Front(q) + k) % Depth].req_id # Ids(f)[1]
        /\ Buffers(Front(q), tail[q], sring[q], Tail(Ids(f)), free[q] \cup {Ids(f)[1]},
                   q \notin bad, BufSize[q])
    BY <2>2, Zenon DEF FirstReaped
  <2>6. \A k \in 2..Len(f) : f[k].cdesc.req_id # Ids(f)[1]
    BY <1>9, <2>4, <2>5, Zenon
  <2>7. Ids(f)[1] = id /\ Ids(Tail(f)) = Tail(Ids(f))
    BY <1>8, <1>10, Zenon
  <2> HIDE DEF f, id
  <2> QED
    BY <2>5, <2>6, <2>7, Zenon
<1>12. /\ free' = [free EXCEPT ![q] = @ \cup {id}]
       /\ mem' = [mem EXCEPT ![q][id] = Nothing]
       /\ prev' = [prev EXCEPT ![q] = <<Head(f)>>]
       /\ driver' = [driver EXCEPT ![q] = Advance(@)]
       /\ fifo' = [fifo EXCEPT ![q] = Tail(@)]
  BY <1>6, <1>8, Zenon DEF Reap
<1> HIDE DEF id
<1>13. /\ free'[q] = free[q] \cup {id} /\ (\A p \in Qs : p # q => free'[p] = free[p])
       /\ free' \in [Qs -> SUBSET Slots]
  <2>1. free \in [Qs -> SUBSET Slots]
    BY Zenon DEF Inv, Shape
  <2> QED
    BY ONLY <1>11, <1>12, <2>1, q \in Qs, Zenon
<1>14. /\ mem' \in [Qs -> [Slots -> Chunk \cup {Nothing}]]
       /\ \A p \in Qs : p # q => mem'[p] = mem[p]
       /\ \A s \in Slots : s # id => mem'[q][s] = mem[q][s]
  <2>1. mem \in [Qs -> [Slots -> Chunk \cup {Nothing}]]
    BY Zenon DEF Inv, Shape
  <2>2. id \in Slots
    BY <1>11, Zenon
  <2> QED
    BY ONLY <1>12, <2>1, <2>2, q \in Qs, Zenon
<1>15. /\ prev' \in [Qs -> Seq(Note)] /\ prev'[q] = <<Head(f)>>
       /\ \A p \in Qs : p # q => prev'[p] = prev[p]
  <2>1. prev \in [Qs -> Seq(Note)]
    BY Zenon DEF Inv, Shape
  <2>2. <<Head(f)>> \in Seq(Note)
    BY ONLY <1>10
  <2> HIDE DEF f
  <2> QED
    BY ONLY <1>12, <2>1, <2>2, q \in Qs, Zenon
<1>16. /\ driver' \in [Qs -> Position] /\ driver'[q] = Advance(driver[q])
       /\ \A p \in Qs : p # q => driver'[p] = driver[p]
  <2>1. driver \in [Qs -> Position] /\ Advance(driver[q]) \in Position
    BY <1>6, Zenon DEF Inv, Shape
  <2> QED
    BY ONLY <1>12, <2>1, q \in Qs, Zenon
<1>17. /\ fifo' \in [Qs -> Seq(Note)] /\ fifo'[q] = Tail(f)
       /\ \A p \in Qs : p # q => fifo'[p] = fifo[p]
  <2>1. fifo \in [Qs -> Seq(Note)] /\ Tail(fifo[q]) \in Seq(Note)
    BY <1>8, Zenon DEF Inv, Shape
  <2> QED
    BY ONLY <1>12, <2>1, q \in Qs, Zenon DEF f
<1>18. Shape'
  BY <1>1, <1>13, <1>14, <1>15, <1>16, <1>17, Zenon DEF Inv, Shape
<1>19. \A p : (Busy(p)' <=> Busy(p)) /\ Done(p)' = Done(p)
  BY <1>1, Zenon DEF Busy, Done
<1>20. \A p \in Qs : p # q => Submission(p)' /\ Completion(p)' /\ Delivery(p)'
  BY <1>1, <1>4, <1>13, <1>14, <1>15, <1>16, <1>17, <1>19,
     SubmissionKept, CompletionKept, DeliveryKept, Zenon
<1>21. Submission(q)'
  <2>1. Front(q)' = Front(q) /\ Avail(q)' = Avail(q)
    BY <1>1, <1>19, Zenon DEF Front, Avail
  <2>2. /\ Avail(q) <= Done(q) + Count(Front(q), tail[q])
        /\ ~sq[q].used => sq[q].head = 0 /\ sq[q].tail = 0
    BY <1>4, Zenon DEF Submission
  <2>3. Buffers(Front(q)', tail'[q], sring'[q], Ids(fifo'[q]), free'[q],
                q \notin bad', BufSize[q])
    BY <1>1, <1>11, <1>13, <1>17, <2>1, Zenon
  <2> QED
    BY <1>1, <1>19, <2>1, <2>2, <2>3, Zenon DEF Submission
<1>22. Completion(q)'
  BY <1>1, <1>6, <1>8, <1>16, <1>17, Zenon DEF Completion
<1>23. /\ Chain(new, Busy(q), rx.off) /\ old # <<>> /\ new # <<>>
       /\ old[Len(old)] = new[Len(new)]
  <2>1. Chain(old, Busy(q), rx.off)
    BY <1>4, Zenon DEF Delivery
  <2> QED
    BY <1>2, <1>3, <1>7, <2>1, ChainSuffix, Zenon
<1>24. prev'[q] \o fifo'[q] = new
  BY <1>15, <1>17, Zenon
<1>25. Delivery(q)'
  <2>1. Len(prev'[q]) <= 1
    BY ONLY <1>15
  <2>2. ASSUME NEW k \in 1..Len(fifo'[q])
        PROVE  mem'[q][fifo'[q][k].cdesc.req_id] = fifo'[q][k].chunk
    <3>1. Len(f) \in Nat
      BY ONLY <1>2
    <3>2. k \in 1..(Len(f) - 1)
      BY <1>8, <1>17, <2>2, Zenon
    <3>3. k + 1 \in 2..Len(f) /\ k + 1 \in 1..Len(f)
      BY ONLY <3>1, <3>2
    <3>4. fifo'[q][k] = f[k + 1]
      BY <1>8, <1>17, <3>2, Zenon
    <3>5. f[k + 1].cdesc.req_id \in Slots
      <4>1. f[k + 1] \in Note
        BY <1>9, <3>3, Zenon
      <4> QED
        BY ONLY <4>1, Zenon DEF Note, Cdesc
    <3>6. mem[q][f[k + 1].cdesc.req_id] = f[k + 1].chunk
      BY <1>4, <3>3, Zenon DEF Delivery
    <3> QED
      BY <1>11, <1>14, <3>3, <3>4, <3>5, <3>6, Zenon
  <2>3. Busy(q)' = Busy(q) /\ rx'.off = rx.off
    BY <1>1, Zenon DEF Busy
  <2> QED
    BY <1>23, <1>24, <2>1, <2>2, <2>3, Zenon DEF Delivery
<1>26. Handler'
  <2>0. CASE rx = Idle
    BY <1>1, <2>0, Zenon DEF Handler
  <2>1. CASE rx # Idle
    <3>1. PICK r \in Qs : r = rx.q
      BY <2>1, HandlerMeans, Zenon
    <3>2. Avail(r)' = Avail(r) /\ \A k : At(r, k)' = At(r, k)
      BY <1>1, Zenon DEF Avail, At
    <3>3. /\ rx \in HandlerType /\ sq[r].used /\ Len(rx.desc) <= Avail(r)
          /\ rx.i \in 1..Len(rx.desc)
          /\ rx.off = (rx.i - 1) * BufSize[r]
          /\ (Len(rx.desc) - 1) * BufSize[r] < rx.frame.len
          /\ rx.frame.len <= Len(rx.desc) * BufSize[r]
          /\ \A k \in rx.i..Len(rx.desc) : rx.desc[k] = At(r, k - 1)
          /\ rx.pc = "push" => mem[r][rx.desc[rx.i].req_id] =
               [frame |-> rx.frame, off |-> rx.off,
                len |-> Piece(rx.desc[rx.i], rx.frame.len - rx.off)]
          /\ rx.i = 1 <=> (prev[r] \o fifo[r] = <<>>
                           \/ (prev[r] \o fifo[r])[Len(prev[r] \o fifo[r])].cdesc.last)
      BY <2>1, <3>1, Zenon DEF Inv, Handler, HandlerType
    <3>4. mem'[r][rx.desc[rx.i].req_id] = mem[r][rx.desc[rx.i].req_id]
      <4>1. CASE r # q
        BY <1>14, <4>1, Zenon
      <4>2. CASE r = q
        <5>1. /\ rx.desc[rx.i].req_id \in Slots
              /\ \A k \in 1..Len(f) : f[k].cdesc.req_id # rx.desc[rx.i].req_id
          BY <2>1, <3>1, <4>2, NextBuffer, Zenon
        <5>2. rx.desc[rx.i].req_id # id
          BY <1>8, <5>1, Zenon DEF id
        <5> QED
          BY <1>14, <4>2, <5>1, <5>2, Zenon
      <4> QED
        BY <4>1, <4>2, Zenon
    <3>5. rx.i = 1 <=> (prev'[r] \o fifo'[r] = <<>>
                        \/ (prev'[r] \o fifo'[r])[Len(prev'[r] \o fifo'[r])].cdesc.last)
      <4>1. CASE r # q
        BY <1>15, <1>17, <3>3, <4>1, Zenon
      <4>2. CASE r = q
        <5>1. rx.i = 1 <=> (old = <<>> \/ old[Len(old)].cdesc.last)
          BY <3>3, <4>2, Zenon
        <5>2. rx.i = 1 <=> (new = <<>> \/ new[Len(new)].cdesc.last)
          BY <1>23, <5>1, Zenon
        <5> QED
          BY <1>24, <4>2, <5>2, Zenon
      <4> QED
        BY <4>1, <4>2, Zenon
    <3> QED
      BY <1>1, <3>1, <3>2, <3>3, <3>4, <3>5, Zenon DEF Handler, HandlerType
  <2> QED
    BY <2>0, <2>1, Zenon
<1>27. Counts'
  <2>1. Used' = Used /\ \A p : Avail(p)' = Avail(p)
    BY <1>1, Zenon DEF Used, Avail
  <2> QED
    BY <1>1, <2>1, Zenon DEF Inv, Counts, FramesAccounted, Ready4Handler
<1> QED
  BY <1>18, <1>20, <1>21, <1>22, <1>25, <1>26, <1>27, Zenon DEF Inv, Queues

-----------------------------------------------------------------------------
(* Every step keeps the invariant. *)

\* The cases of Next.
LEMMA NextInv ==
    ASSUME SlotTheory, Inv, [Next]_vars
    PROVE  Inv'
<1>1. CASE UNCHANGED vars
  <2>1. /\ UNCHANGED <<sq, cq, rx, guest, cring, mem, fifo>>
        /\ sq' = sq /\ rx' = rx /\ rx_pkts' = rx_pkts /\ rx_drops' = rx_drops
        /\ held' = held /\ flushing' = flushing /\ arrived' = arrived /\ filtered' = filtered
    BY <1>1, Zenon DEF vars, device, net
  <2>2. Shape' /\ Handler' /\ Queues'
    BY <2>1, SameQueues, Zenon
  <2>3. Used' = Used /\ \A p : Avail(p)' = Avail(p)
    BY <2>1, Zenon DEF Used, Avail
  <2>4. Counts'
    BY <2>1, <2>3, Zenon DEF Inv, Counts, FramesAccounted, Ready4Handler
  <2> QED
    BY <2>2, <2>4, Zenon DEF Inv
<1>2. CASE \E f \in Frames : Arrive(f)
  BY <1>2, ArriveInv, Zenon
<1>3. CASE Flush \/ WriteChunk \/ PushChunk
  BY <1>3, FlushInv, WriteChunkInv, PushChunkInv, Zenon
<1>4. CASE \E q \in Qs : \/ \E ok \in Checks : Post(q, ok)
                         \/ Ring(q) \/ Reap(q) \/ Create(q) \/ Destroy(q)
  BY <1>4, PostInv, RingInv, ReapInv, CreateInv, DestroyInv, Zenon
<1>5. CASE DevReset
  BY <1>5, DevResetInv, Zenon
<1> QED
  BY <1>1, <1>2, <1>3, <1>4, <1>5, Zenon DEF Next

-----------------------------------------------------------------------------
(* What the invariant says. *)

\* Types and the bound of the counters.
LEMMA InvType ==
    ASSUME Inv
    PROVE  TypeOK
<1>1. /\ sq \in [Qs -> [used : BOOLEAN, head : 0..(W - 1), tail : 0..(W - 1)]]
      /\ cq \in [Qs -> Position] /\ driver \in [Qs -> Position]
      /\ tail \in [Qs -> 0..(W - 1)] /\ bad \subseteq Qs /\ free \in [Qs -> SUBSET Slots]
      /\ flushing \in BOOLEAN /\ Len(held) <= MaxHeld /\ held \in Seq(Frames)
  BY Zenon DEF Inv, Shape, Counts
<1>2. \A k \in DOMAIN held : held[k] \in Frames
  BY ONLY <1>1
<1>3. rx = Idle \/ (rx.pc \in {"dma", "push"} /\ rx.q \in Qs /\ rx.frame \in Frames)
  <2>1. rx = Idle \/ rx \in HandlerType
    BY HandlerMeans, Zenon
  <2> QED
    BY ONLY <2>1, Zenon DEF HandlerType
<1>4. ASSUME NEW q \in Qs, NEW s \in Slots
      PROVE  /\ sring[q][s] \in Desc \cup {BlankDesc}
             /\ cring[q][s].data \in Cdesc \cup {Nothing}
             /\ mem[q][s] \in Chunk \cup {Nothing}
  <2>1. /\ sring[q] \in [Slots -> Desc \cup {BlankDesc}]
        /\ cring[q] \in [Slots -> [phase : BOOLEAN, data : Cdesc \cup {Nothing}]]
        /\ mem[q] \in [Slots -> Chunk \cup {Nothing}]
    BY Zenon DEF Inv, Shape
  <2>2. sring[q][s] \in Desc \cup {BlankDesc} /\ mem[q][s] \in Chunk \cup {Nothing}
    BY <2>1, Zenon
  <2>3. cring[q][s] \in [phase : BOOLEAN, data : Cdesc \cup {Nothing}]
    BY <2>1, Zenon
  <2>4. cring[q][s].data \in Cdesc \cup {Nothing}
    BY ONLY <2>3, Zenon
  <2> QED
    BY <2>2, <2>4, Zenon
<1>5. rx_pkts + rx_drops + filtered <= MaxArrivals
  <2>1. /\ rx_pkts \in Nat /\ rx_drops \in Nat /\ filtered \in Nat /\ arrived \in Nat
        /\ arrived <= MaxArrivals
        /\ arrived = Len(held) + rx_pkts + rx_drops + filtered + (IF rx = Idle THEN 0 ELSE 1)
    BY Zenon DEF Inv, Counts, FramesAccounted
  <2>2. Len(held) \in Nat
    BY ONLY <1>1
  <2> QED
    BY ONLY <2>1, <2>2, BoundAssumption
<1> QED
  BY <1>1, <1>2, <1>3, <1>4, <1>5, Zenon DEF TypeOK

\* What is in the buffers and how the chunks follow each other.
LEMMA InvIntact ==
    ASSUME Inv
    PROVE  FramesIntact
<1> SUFFICES ASSUME NEW q \in Qs
             PROVE  LET s == prev[q] \o fifo[q] IN
        /\ \A k \in DOMAIN fifo[q] :
             mem[q][fifo[q][k].cdesc.req_id] = fifo[q][k].chunk
        /\ \A k \in DOMAIN s :
             LET c == s[k].chunk IN
             /\ s[k].cdesc.first <=> c.off = 0
             /\ s[k].cdesc.last <=> c.off + c.len = c.frame.len
             /\ IF k = Len(s)
                THEN s[k].cdesc.last \/ (rx # Idle /\ rx.q = q /\ rx.off = c.off + c.len)
                ELSE s[k + 1].chunk.off = IF s[k].cdesc.last THEN 0 ELSE c.off + c.len
  BY Zenon DEF FramesIntact
<1> DEFINE s == prev[q] \o fifo[q]
           n == Len(s)
<1>1. fifo[q] \in Seq(Note) /\ prev[q] \in Seq(Note)
  BY Zenon DEF Inv, Shape
<1>2. /\ DOMAIN fifo[q] = 1..Len(fifo[q]) /\ n \in Nat /\ DOMAIN s = 1..n
      /\ (s = <<>> => n = 0)
  <2>1. DOMAIN fifo[q] = 1..Len(fifo[q]) /\ s \in Seq(Note)
    BY ONLY <1>1
  <2> HIDE DEF s
  <2>2. n \in Nat /\ DOMAIN s = 1..n /\ (s = <<>> => n = 0)
    BY ONLY <2>1
  <2> QED
    BY <2>1, <2>2, Zenon
<1>3. /\ \A k \in 1..Len(fifo[q]) : mem[q][fifo[q][k].cdesc.req_id] = fifo[q][k].chunk
      /\ Chain(s, Busy(q), rx.off)
  BY Zenon DEF Inv, Queues, Delivery
<1>4. /\ \A k \in 1..n : NoteTrue(s[k])
      /\ \A k \in 1..(n - 1) : Follows(s[k], s[k + 1])
      /\ s # <<>> =>
           s[n].cdesc.last \/ (rx # Idle /\ rx.q = q /\ rx.off = s[n].chunk.off + s[n].chunk.len)
  BY <1>3, Zenon DEF Chain, Busy
<1> HIDE DEF s, n
<1>5. \A k \in 1..n : (k # n => k \in 1..(n - 1)) /\ n # 0
  BY ONLY <1>2
<1>6. ASSUME NEW k \in 1..n
      PROVE  /\ s[k].cdesc.first <=> s[k].chunk.off = 0
             /\ s[k].cdesc.last <=> s[k].chunk.off + s[k].chunk.len = s[k].chunk.frame.len
             /\ IF k = n
                THEN s[k].cdesc.last
                     \/ (rx # Idle /\ rx.q = q /\ rx.off = s[k].chunk.off + s[k].chunk.len)
                ELSE s[k + 1].chunk.off =
                       IF s[k].cdesc.last THEN 0 ELSE s[k].chunk.off + s[k].chunk.len
  <2>1. NoteTrue(s[k])
    BY <1>4, Zenon
  <2>2. CASE k = n
    BY <1>2, <1>4, <1>5, <2>1, <2>2, Zenon DEF NoteTrue
  <2>3. CASE k # n
    BY <1>4, <1>5, <2>1, <2>3, Zenon DEF NoteTrue, Follows
  <2> QED
    BY <2>2, <2>3, Zenon
<1> QED
  BY <1>2, <1>3, <1>6, Zenon DEF s, n

\* What ena_rx_collect returns when it is called.
LEMMA InvCollect ==
    ASSUME SlotTheory, Inv
    PROVE  CollectExact
<1> SUFFICES ASSUME rx = Idle, NEW q \in Used, NEW len \in 1..MaxFrame
             PROVE  LET need == (len + BufSize[q] - 1) \div BufSize[q]
                        lim == IF Avail(q) < MaxDescs THEN Avail(q) ELSE MaxDescs
                        reach == 1..(IF need < lim THEN need ELSE lim)
                        wrong == {k \in reach : ~At(q, k - 1).ok}
                    IN Collect(q, len) =
                         IF wrong # {}
                         THEN [n |-> -1, skip |-> CHOOSE k \in wrong : \A j \in wrong : k <= j]
                         ELSE [n |-> IF need <= lim THEN need ELSE -1, skip |-> 0]
  BY Zenon DEF CollectExact
<1>1. q \in Qs
  BY Zenon DEF Used
<1>2. len \in Nat \ {0}
  BY ONLY len \in 1..MaxFrame, BoundAssumption
<1>3. Avail(q) \in Nat
  BY <1>1, QueueTypes, Zenon
<1>4. \A k \in 0..(Avail(q) - 1) : At(q, k).size = BufSize[q]
  BY <1>1, AvailPosted, Zenon
<1> QED
  BY <1>1, <1>2, <1>3, <1>4, CollectResult, Zenon

\* The buffers that the device may still fill are those in the ring, from the
\* first one without a completion on.
LEMMA PostedIds ==
    ASSUME SlotTheory, Inv, NEW q \in Qs
    PROVE  LET n == Count(Front(q), tail[q])
           IN Posted(q) = [k \in 1..n |-> sring[q][(Front(q) + (k - 1)) % Depth].req_id]
<1> DEFINE n == Count(Front(q), tail[q])
           lim == IF Busy(q) THEN Len(rx.desc) ELSE 0
           slot == [k \in 1..n |-> (Front(q) + k - 1) % Depth]
<1>1. Posted(q) = [k \in DOMAIN slot |->
                     IF Done(q) + k <= lim THEN rx.desc[Done(q) + k].req_id
                     ELSE sring[q][slot[k]].req_id]
  BY Zenon DEF Posted, Done, Busy, Front, Count
<1>2. Front(q) \in Int /\ Done(q) \in Nat /\ n \in Nat /\ sq[q].head \in Int
  BY QueueTypes, Zenon
<1> HIDE DEF n
<1>3. \A k \in 1..n : /\ slot[k] = (Front(q) + (k - 1)) % Depth
  <2>1. \A k \in 1..n : Front(q) + k - 1 = Front(q) + (k - 1)
    BY ONLY <1>2, Zenon
  <2> QED
    BY <2>1, Zenon
<1>4. DOMAIN slot = 1..n
  BY Zenon
<1> HIDE DEF slot
<1>5. ASSUME NEW k \in 1..n, Done(q) + k <= lim
      PROVE  rx.desc[Done(q) + k].req_id = sring[q][(Front(q) + (k - 1)) % Depth].req_id
  <2>1. CASE Busy(q)
    <3>1. rx # Idle /\ rx.q = q
      BY <2>1, Zenon DEF Busy
    <3>2. /\ Done(q) = rx.i - 1 /\ rx.i \in Nat /\ rx.desc \in Seq(Desc)
          /\ \A j \in rx.i..Len(rx.desc) : rx.desc[j] = At(q, j - 1)
      BY <3>1, HandlerMeans, Zenon
    <3>3. Len(rx.desc) \in Nat /\ Done(q) + k <= Len(rx.desc)
      <4>1. Len(rx.desc) \in Nat
        BY ONLY <3>2
      <4> QED
        BY <1>5, <2>1, <4>1, Zenon
    <3> DEFINE l == Len(rx.desc)
               i == rx.i
               e == Done(q)
               h == sq[q].head
               f == Front(q)
    <3>4. /\ e = i - 1 /\ i \in Nat /\ l \in Nat /\ e + k <= l /\ e \in Nat /\ h \in Int
          /\ f = h + e
      BY <1>2, <3>2, <3>3, Zenon DEF Front
    <3> HIDE DEF l, i, e, h, f
    <3>5. e + k \in i..l /\ h + ((e + k) - 1) = f + (k - 1)
      BY ONLY <3>4, <1>2, k \in 1..n
    <3>6. rx.desc[e + k] = At(q, (e + k) - 1)
      BY <3>2, <3>5, Zenon DEF i, l
    <3>7. At(q, (e + k) - 1) = sring[q][(f + (k - 1)) % Depth]
      BY <3>5, Zenon DEF At, h
    <3> QED
      BY <3>6, <3>7, Zenon DEF e, f
  <2>2. CASE ~Busy(q)
    <3>1. Done(q) + k <= 0
      BY <1>5, <2>2, Zenon
    <3> QED
      BY ONLY <1>2, <3>1, k \in 1..n
  <2> QED
    BY <2>1, <2>2, Zenon
<1>6. \A k \in 1..n :
        (IF Done(q) + k <= lim THEN rx.desc[Done(q) + k].req_id ELSE sring[q][slot[k]].req_id)
          = sring[q][(Front(q) + (k - 1)) % Depth].req_id
  BY <1>3, <1>5, Zenon
<1> HIDE DEF lim
<1>7. Posted(q) = [k \in 1..n |-> sring[q][(Front(q) + (k - 1)) % Depth].req_id]
  BY <1>1, <1>4, <1>6, Zenon
<1> QED
  BY <1>7, Zenon DEF n

\* Two sequences that hold different things, without repetition.
LEMMA JoinDistinct ==
    ASSUME NEW T, NEW a \in Seq(T), NEW b \in Seq(T), NEW mine,
           \A j, k \in 1..Len(a) : a[j] = a[k] => j = k,
           \A j, k \in 1..Len(b) : b[j] = b[k] => j = k,
           \A j \in 1..Len(a) : \A k \in 1..Len(b) : b[k] # a[j],
           \A k \in 1..Len(a) : a[k] \notin mine,
           \A k \in 1..Len(b) : b[k] \notin mine
    PROVE  LET s == a \o b
           IN /\ Len(s) = Len(a) + Len(b)
              /\ \A j, k \in DOMAIN s : s[j] = s[k] => j = k
              /\ \A k \in DOMAIN s : s[k] \notin mine
<1> DEFINE s == a \o b
           m == Len(a)
           n == Len(b)
<1>1. m \in Nat /\ n \in Nat /\ Len(s) = m + n /\ DOMAIN s = 1..(m + n)
  OBVIOUS
<1>2. \A k \in 1..m : s[k] = a[k]
  OBVIOUS
<1>3. \A k \in 1..n : s[m + k] = b[k]
  OBVIOUS
<1> HIDE DEF s, m, n
<1>4. \A k \in 1..(m + n) : k \in 1..m \/ (k - m \in 1..n /\ m + (k - m) = k)
  BY ONLY <1>1
<1>5. \A j, k \in 1..(m + n) : j - m = k - m => j = k
  BY ONLY <1>1
<1>6. ASSUME NEW k \in 1..(m + n) PROVE s[k] \notin mine
  <2>1. CASE k \in 1..m
    BY <1>2, <2>1, Zenon DEF m
  <2>2. CASE k - m \in 1..n /\ m + (k - m) = k
    <3>1. s[k] = b[k - m]
      BY <1>3, <2>2, Zenon
    <3> QED
      BY <2>2, <3>1, Zenon DEF n
  <2> QED
    BY <1>4, <2>1, <2>2, Zenon
<1>7. ASSUME NEW j \in 1..(m + n), NEW k \in 1..(m + n), s[j] = s[k] PROVE j = k
  <2>1. CASE j \in 1..m /\ k \in 1..m
    BY <1>2, <1>7, <2>1, Zenon DEF m
  <2>2. CASE j \in 1..m /\ k - m \in 1..n /\ m + (k - m) = k
    <3>1. s[j] = a[j] /\ s[k] = b[k - m]
      BY <1>2, <1>3, <2>2, Zenon
    <3> QED
      BY <1>7, <2>2, <3>1, Zenon DEF m, n
  <2>3. CASE k \in 1..m /\ j - m \in 1..n /\ m + (j - m) = j
    <3>1. s[k] = a[k] /\ s[j] = b[j - m]
      BY <1>2, <1>3, <2>3, Zenon
    <3> QED
      BY <1>7, <2>3, <3>1, Zenon DEF m, n
  <2>4. CASE /\ k - m \in 1..n /\ m + (k - m) = k
             /\ j - m \in 1..n /\ m + (j - m) = j
    <3>1. s[k] = b[k - m] /\ s[j] = b[j - m]
      BY <1>3, <2>4, Zenon
    <3>2. j - m = k - m
      BY <1>7, <2>4, <3>1, Zenon DEF n
    <3> QED
      BY <1>5, <3>2, Zenon
  <2> QED
    BY <1>4, <2>1, <2>2, <2>3, <2>4, Zenon
<1> QED
  BY <1>1, <1>6, <1>7, Zenon DEF s, m, n

\* Who has the buffers.
LEMMA InvOwned ==
    ASSUME SlotTheory, Inv
    PROVE  BuffersOwned
<1> SUFFICES ASSUME NEW q \in Used
             PROVE  LET s == Posted(q) \o [k \in DOMAIN fifo[q] |-> fifo[q][k].cdesc.req_id] IN
                    /\ \A j, k \in DOMAIN s : s[j] = s[k] => j = k
                    /\ \A k \in DOMAIN s : s[k] \notin free[q]
                    /\ q \notin bad => Len(s) + Cardinality(free[q]) = Depth
  BY Zenon DEF BuffersOwned
<1> DEFINE n == Count(Front(q), tail[q])
           a == [k \in 1..n |-> sring[q][(Front(q) + (k - 1)) % Depth].req_id]
           b == Ids(fifo[q])
           s == Posted(q) \o b
<1>1. q \in Qs
  BY Zenon DEF Used
<1>2. n \in Nat /\ b \in Seq(Slots)
  BY <1>1, QueueTypes, Zenon
<1>3. Posted(q) = a
  BY <1>1, PostedIds, Zenon
<1>4. Buffers(Front(q), tail[q], sring[q], b, free[q], q \notin bad, BufSize[q])
  BY <1>1, Zenon DEF Inv, Queues, Submission
<1>5. /\ q \notin bad => n + Len(b) + Cardinality(free[q]) = Depth
      /\ \A k \in 0..(n - 1) :
           /\ sring[q][(Front(q) + k) % Depth] \in Desc
           /\ sring[q][(Front(q) + k) % Depth].req_id \notin free[q]
           /\ \A j \in 0..(n - 1) :
                sring[q][(Front(q) + j) % Depth].req_id = sring[q][(Front(q) + k) % Depth].req_id
                  => j = k
           /\ \A j \in 1..Len(b) : b[j] # sring[q][(Front(q) + k) % Depth].req_id
      /\ \A k \in 1..Len(b) :
           /\ b[k] \notin free[q]
           /\ \A j \in 1..Len(b) : b[j] = b[k] => j = k
  BY <1>4, Zenon DEF Buffers
<1> HIDE DEF n, b
<1>6. \A k \in 1..n : /\ k - 1 \in 0..(n - 1)
                      /\ \A j \in 1..n : j - 1 = k - 1 => j = k
  BY ONLY <1>2
<1>7. \A k \in 1..n : a[k] = sring[q][(Front(q) + (k - 1)) % Depth].req_id
  BY Zenon
<1>8. a \in Seq(Slots) /\ Len(a) = n
  <2>1. \A k \in 1..n : sring[q][(Front(q) + (k - 1)) % Depth] \in Desc
    BY <1>5, <1>6, Zenon
  <2>2. \A k \in 1..n : sring[q][(Front(q) + (k - 1)) % Depth].req_id \in Slots
    BY ONLY <2>1, Zenon DEF Desc
  <2> QED
    BY ONLY <1>2, <2>2
<1> HIDE DEF a
<1>9. ASSUME NEW k \in 1..n
      PROVE  /\ a[k] \notin free[q] /\ \A j \in 1..Len(b) : b[j] # a[k]
             /\ \A j \in 1..n : a[j] = a[k] => j = k
  <2>1. k - 1 \in 0..(n - 1) /\ a[k] = sring[q][(Front(q) + (k - 1)) % Depth].req_id
    BY <1>6, <1>7, Zenon
  <2>2. a[k] \notin free[q] /\ \A j \in 1..Len(b) : b[j] # a[k]
    BY <1>5, <2>1, Zenon
  <2>3. ASSUME NEW j \in 1..n, a[j] = a[k] PROVE j = k
    <3>1. j - 1 \in 0..(n - 1) /\ a[j] = sring[q][(Front(q) + (j - 1)) % Depth].req_id
      BY <1>6, <1>7, Zenon
    <3>2. j - 1 = k - 1
      BY <1>5, <2>1, <2>3, <3>1, Zenon
    <3> QED
      BY <1>6, <3>2, Zenon
  <2> QED
    BY <2>2, <2>3, Zenon
<1>10. /\ Len(a \o b) = Len(a) + Len(b)
       /\ \A j, k \in DOMAIN (a \o b) : (a \o b)[j] = (a \o b)[k] => j = k
       /\ \A k \in DOMAIN (a \o b) : (a \o b)[k] \notin free[q]
  <2>1. /\ \A j, k \in 1..Len(a) : a[j] = a[k] => j = k
        /\ \A j \in 1..Len(a) : \A k \in 1..Len(b) : b[k] # a[j]
        /\ \A k \in 1..Len(a) : a[k] \notin free[q]
    BY <1>8, <1>9, Zenon
  <2>2. /\ \A j, k \in 1..Len(b) : b[j] = b[k] => j = k
        /\ \A k \in 1..Len(b) : b[k] \notin free[q]
    BY <1>5, Zenon
  <2>3. a \in Seq(Slots) /\ b \in Seq(Slots)
    BY <1>2, <1>8, Zenon
  <2> QED
    BY ONLY <2>1, <2>2, <2>3, JoinDistinct, Zenon
<1>11. q \notin bad => Len(a \o b) + Cardinality(free[q]) = Depth
  BY <1>5, <1>8, <1>10, Zenon
<1> QED
  BY <1>3, <1>10, <1>11, Zenon DEF b, Ids

-----------------------------------------------------------------------------
(* The theory of finite sets, from here on. *)
INSTANCE FiniteSetTheorems

\* Slots are finitely many, and numbers have a least one.
LEMMA SlotsCount == SlotTheory
<1>1. 0 \in Int /\ Depth - 1 \in Int /\ ~(0 > Depth - 1) /\ (Depth - 1) - 0 + 1 = Depth
  BY RingSizes
<1>2. IsFiniteSet(Slots) /\ Cardinality(Slots) = Depth
  BY <1>1, FS_Interval, Zenon DEF Slots
<1>3. \A S \in SUBSET Slots : IsFiniteSet(S)
  BY <1>2, FS_Subset, Zenon
<1>4. \A S \in SUBSET Slots : Cardinality(S) \in Nat
  BY <1>3, FS_CardinalityType, Zenon
<1>5. \A S \in SUBSET Slots : \A x \in S : Cardinality(S \ {x}) = Cardinality(S) - 1
  BY <1>3, FS_RemoveElement, Zenon
<1>6. \A S \in SUBSET Slots : \A x \in Slots :
        x \notin S => Cardinality(S \cup {x}) = Cardinality(S) + 1
  BY <1>3, FS_AddElement, Zenon
<1>7. ASSUME NEW S \in SUBSET Nat, S # {} PROVE \E i \in S : \A j \in S : i <= j
  <2>1. PICK i \in S : \A j \in S : ~(<<j, i>> \in OpToRel(<, Nat))
    BY <1>7, WFMin, NatLessThanWellFounded, Zenon
  <2>2. \A j \in S : ~(j < i)
    BY <2>1, Zenon DEF OpToRel
  <2> QED
    BY <2>2
<1> QED
  BY <1>2, <1>4, <1>5, <1>6, <1>7, Zenon DEF SlotTheory

\* The invariant holds in every reachable state of the receive path.
THEOREM RxInvariant == Spec => []Inv
<1>1. Init => Inv
  BY SlotsCount, InitInv, Zenon
<1>2. Inv /\ [Next]_vars => Inv'
  BY SlotsCount, NextInv, Zenon
<1> QED
  BY <1>1, <1>2, PTL DEF Spec

\* The variables of the receive path keep their types, and the statistics never
\* count more frames than arrived.
THEOREM RxTypes == Spec => []TypeOK
BY RxInvariant, InvType, PTL

\* ena_rx_push_cdesc never overwrites a completion the guest has not read,
\* although ena_rx_receive_iov does not look for room in the CQ; and the guest
\* reads every completion once, in order.
THEOREM RxCompletions == Spec => []CompletionsHold
<1>1. Inv => CompletionsHold
  BY Zenon DEF Inv, Queues, Completion, CompletionsHold, Cdescs
<1> QED
  BY <1>1, RxInvariant, PTL

\* A buffer holds the chunk its completion was written for until the guest reads
\* that completion, and the completions of each CQ are whole frames: whatever
\* the guest posts, reads or rings between two memory accesses of the loop of
\* ena_rx_receive_iov.
THEOREM RxFramesIntact == Spec => []FramesIntact
BY RxInvariant, InvIntact, PTL

\* Every receive buffer has one owner, and none is lost unless a bad descriptor
\* was posted: what ena_rx_collect takes, sq->head skips and the guest reaps
\* never overlap.
THEOREM RxBuffersOwned == Spec => []BuffersOwned
<1>1. Inv => BuffersOwned
  BY SlotsCount, InvOwned, Zenon
<1> QED
  BY <1>1, RxInvariant, PTL

\* ena_rx_collect takes exactly as many buffers as the frame needs, or none and
\* passes over the ring up to the first bad descriptor the frame would reach.
THEOREM RxCollectExact == Spec => []CollectExact
<1>1. Inv => CollectExact
  BY SlotsCount, InvCollect, Zenon
<1> QED
  BY <1>1, RxInvariant, PTL

\* Every frame is accounted for by ena_rx_receive_iov and the net layer, and
\* none is held while a queue has a buffer (ena_rx_can_receive, ena_rx_doorbell).
THEOREM RxFramesAccounted == Spec => []FramesAccounted
<1>1. Inv => FramesAccounted
  BY Zenon DEF Inv, Counts
<1> QED
  BY <1>1, RxInvariant, PTL
=============================================================================
