---------------------------- MODULE EnaAenqProofs ----------------------------
(***************************************************************************)
(* The event queue, for every depth and every keep-alive interval.  Inv    *)
(* adds to the properties what makes them inductive: the credit never      *)
(* exceeds the entries that hold no unread event (CreditBound).            *)
(***************************************************************************)
EXTENDS EnaAenq, RingOpsProofs

\* Credit within the depth of the ring leaves every unread event alone.
CreditBound == Credit <= Depth => Credit + Len(fifo) <= Depth

\* What AenqPost changes or relies on.
QueueInv ==
    /\ ring \in [Slots -> Entry] /\ pos \in Position /\ driver \in Position
    /\ tail_reg \in 0..(W - 1) /\ head_db \in 0..(W - 1)
    /\ fifo \in Seq(Event) /\ msg \in BOOLEAN /\ quiet \in BOOLEAN
    /\ ready \in BOOLEAN /\ intr_mask \in BOOLEAN
    /\ AenqQueue /\ CreditBound /\ EventSignalled
    /\ ~ready => fifo = <<>>

Inv == TypeOK /\ QueueInv /\ KeepAliveArmed /\ LinkReported

-----------------------------------------------------------------------------
\* One entry less is one credit less.
LEMMA CreditStep ==
    ASSUME NEW h \in Int, NEW t \in Int, (h - t) % W # 0
    PROVE  (h - ((t + 1) % W)) % W = ((h - t) % W) - 1
<1> DEFINE q == (h - t) \div W
           r == (h - t) % W
<1>0. W \in Nat \ {0} /\ h - t \in Int /\ t + 1 \in Int
  BY RingSizes
<1>1. q \in Int /\ r \in 0..(W - 1) /\ h - t = W * q + r /\ r # 0
  BY <1>0, DivMod, Zenon
<1> HIDE DEF q, r
<1>2. (h - ((t + 1) % W)) % W = (h - (t + 1)) % W
  BY <1>0, SubMod, Zenon
<1>3. h - (t + 1) \in Int /\ h - (t + 1) = W * q + (r - 1) /\ r - 1 \in 0..(W - 1)
  BY <1>0, <1>1
<1>4. (h - (t + 1)) % W = r - 1
  BY <1>0, <1>1, <1>3, ModUnique, Zenon
<1> QED
  BY <1>2, <1>4, Zenon DEF r

-----------------------------------------------------------------------------
\* ena_aenq_post keeps the queue whole.
LEMMA PostInv ==
    ASSUME QueueInv, NEW gs, NEW group, NEW e \in Event, AenqPost(gs, group, e),
           UNCHANGED <<ready, head_db, driver, isr, intr_mask>>
    PROVE  /\ QueueInv'
           /\ CanPost(gs, group) => fifo' = Append(fifo, e)
           /\ ~CanPost(gs, group) => fifo' = fifo
<1>1. CASE ~CanPost(gs, group)
  <2>1. UNCHANGED <<ring, pos, tail_reg, fifo, msg, quiet>>
    BY <1>1, Zenon DEF AenqPost
  <2> QED
    BY <1>1, <2>1, Zenon DEF QueueInv, AenqQueue, CreditBound, Credit, EventSignalled
<1>2. CASE CanPost(gs, group)
  <2>1. /\ ring' = Write(ring, pos, e) /\ pos' = Advance(pos)
        /\ tail_reg' = pos'.idx /\ fifo' = Append(fifo, e) /\ AdminIntr
    BY <1>2, Zenon DEF AenqPost
  <2>2. ready /\ Credit <= Depth /\ Credit # 0
    BY <1>2, Zenon DEF CanPost
  <2>3. /\ Depth \in Nat \ {0} /\ W \in Nat \ {0}
        /\ head_db \in Int /\ pos.idx \in Int /\ Len(fifo) \in Nat
    BY RingSizes DEF QueueInv, Position
  <2>4. Credit \in 0..(W - 1)
    <3>1. head_db - pos.idx \in Int
      BY <2>3
    <3> QED
      BY <2>3, <3>1, DivMod, Zenon DEF Credit
  <2>5. Credit + Len(fifo) <= Depth
    BY <2>2, Zenon DEF QueueInv, CreditBound
  <2>6. Len(fifo) < Depth
    BY <2>2, <2>3, <2>4, <2>5
  <2>7. e \in Data /\ fifo \in Seq(Data)
    BY EventAssumption, Zenon DEF QueueInv
  <2>8. /\ ring' \in [Slots -> Entry] /\ pos' \in Position /\ AenqQueue'
    BY <2>1, <2>6, <2>7, WriteHolds, Zenon DEF QueueInv, AenqQueue
  <2>9. fifo' \in Seq(Event) /\ Len(fifo') = Len(fifo) + 1 /\ fifo' # <<>>
    BY <2>1 DEF QueueInv
  <2>10. pos'.idx = (pos.idx + 1) % W
    BY <2>1, AdvanceLemma, Zenon DEF QueueInv, AenqQueue, Holds
  <2>11. Credit' = Credit - 1
    <3>1. Credit' = (head_db - ((pos.idx + 1) % W)) % W
      BY <2>10, Zenon DEF Credit
    <3>2. (head_db - pos.idx) % W # 0
      BY <2>2, Zenon DEF Credit
    <3>3. (head_db - ((pos.idx + 1) % W)) % W = ((head_db - pos.idx) % W) - 1
      BY <2>3, <3>2, CreditStep, Zenon
    <3> QED
      BY <3>1, <3>3, Zenon DEF Credit
  <2>12. CreditBound'
    BY <2>3, <2>4, <2>5, <2>9, <2>11 DEF CreditBound
  <2>13. msg' \in BOOLEAN /\ quiet' \in BOOLEAN /\ (msg' \/ quiet')
    BY <2>1, Zenon DEF AdminIntr, QueueInv
  <2>14. tail_reg' \in 0..(W - 1)
    BY <2>1, <2>8, Zenon DEF Position
  <2>15. EventSignalled'
    BY <2>13, Zenon DEF EventSignalled
  <2> QED
    BY <1>2, <2>1, <2>2, <2>8, <2>9, <2>12, <2>13, <2>14, <2>15, Zenon DEF QueueInv
<1> QED
  BY <1>1, <1>2, Zenon

\* A link event that finds a free entry is the last one reported.
LEMMA LinkPost ==
    ASSUME QueueInv, NEW gs, NEW x \in {"up", "down"}, PostLinkChange(gs, x),
           UNCHANGED <<ready, head_db, driver, isr, intr_mask, view>>
    PROVE  /\ QueueInv'
           /\ missed' \in BOOLEAN
           /\ "link_change" \in gs /\ ~missed' => Reported(x)'
<1>1. /\ AenqPost(gs, "link_change", x) /\ x \in Event
      /\ missed' = ("link_change" \in gs /\ ~CanPost(gs, "link_change"))
  BY Zenon DEF PostLinkChange, Event
<1>2. QueueInv' /\ (CanPost(gs, "link_change") => fifo' = Append(fifo, x))
  BY <1>1, PostInv, Zenon
<1>3. ASSUME fifo' = Append(fifo, x) PROVE Reported(x)'
  <2>1. /\ Len(fifo') = Len(fifo) + 1 /\ fifo'[Len(fifo) + 1] = x /\ Len(fifo) \in Nat
    BY <1>3 DEF QueueInv
  <2>2. (Len(fifo) + 1) \in 1..Len(fifo')
    BY <2>1
  <2>3. \A j \in ((Len(fifo) + 1) + 1)..Len(fifo') : fifo'[j] = "keep_alive"
    BY <2>1
  <2> QED
    BY <2>1, <2>2, <2>3, Zenon DEF Reported
<1> QED
  BY <1>1, <1>2, <1>3, Zenon

\* A keep-alive event does not change the link state reported.
LEMMA KeepAliveKeeps ==
    ASSUME fifo \in Seq(Event), NEW x, Reported(x), view' = view,
           fifo' = Append(fifo, "keep_alive") \/ fifo' = fifo
    PROVE  Reported(x)'
<1>1. CASE fifo' = fifo
  BY <1>1, Zenon DEF Reported
<1>2. CASE fifo' = Append(fifo, "keep_alive")
  <2> DEFINE n == Len(fifo)
  <2>1. /\ n \in Nat /\ Len(fifo') = n + 1 /\ fifo'[n + 1] = "keep_alive"
        /\ \A j \in 1..n : fifo'[j] = fifo[j]
    BY <1>2
  <2> HIDE DEF n
  <2>2. CASE \E k \in 1..n : /\ fifo[k] = x
                             /\ \A j \in (k + 1)..n : fifo[j] = "keep_alive"
    <3>1. PICK k \in 1..n : /\ fifo[k] = x
                            /\ \A j \in (k + 1)..n : fifo[j] = "keep_alive"
      BY <2>2, Zenon
    <3>2. k \in 1..(n + 1) /\ fifo'[k] = x
      BY <2>1, <3>1
    <3>3. \A j \in (k + 1)..(n + 1) : fifo'[j] = "keep_alive"
      <4> SUFFICES ASSUME NEW j \in (k + 1)..(n + 1) PROVE fifo'[j] = "keep_alive"
        BY Zenon
      <4>1. j = n + 1 \/ (j \in (k + 1)..n /\ j \in 1..n)
        BY <2>1, <3>1
      <4> QED
        BY <2>1, <3>1, <4>1, Zenon
    <3> QED
      BY <2>1, <3>2, <3>3, Zenon DEF Reported
  <2>3. CASE view = x /\ \A j \in 1..n : fifo[j] = "keep_alive"
    <3>1. \A j \in 1..(n + 1) : j = n + 1 \/ j \in 1..n
      BY <2>1
    <3> QED
      BY <2>1, <2>3, <3>1, Zenon DEF Reported
  <2> QED
    BY <2>2, <2>3, Zenon DEF Reported, n
<1> QED
  BY <1>1, <1>2, Zenon

\* Reading the event at the front does not change it either.
LEMMA PollKeeps ==
    ASSUME fifo \in Seq(Event), fifo # <<>>, NEW x \in {"up", "down"}, Reported(x),
           fifo' = Tail(fifo),
           view' = IF Head(fifo) \in {"up", "down"} THEN Head(fifo) ELSE view
    PROVE  Reported(x)'
<1> DEFINE n == Len(fifo)
<1>1. /\ n \in Nat \ {0} /\ Len(fifo') = n - 1 /\ Head(fifo) = fifo[1]
      /\ \A j \in 1..(n - 1) : fifo'[j] = fifo[j + 1]
  OBVIOUS
<1> HIDE DEF n
<1>2. CASE \E k \in 1..n : /\ fifo[k] = x
                           /\ \A j \in (k + 1)..n : fifo[j] = "keep_alive"
  <2>1. PICK k \in 1..n : /\ fifo[k] = x
                          /\ \A j \in (k + 1)..n : fifo[j] = "keep_alive"
    BY <1>2, Zenon
  <2>2. CASE k = 1
    <3>1. view' = x
      BY <1>1, <2>1, <2>2, Zenon
    <3>2. \A j \in 1..(n - 1) : fifo'[j] = "keep_alive"
      <4> SUFFICES ASSUME NEW j \in 1..(n - 1) PROVE fifo'[j] = "keep_alive"
        BY Zenon
      <4>1. j + 1 \in (k + 1)..n
        BY <1>1, <2>2
      <4> QED
        BY <1>1, <2>1, <4>1, Zenon
    <3> QED
      BY <1>1, <3>1, <3>2, Zenon DEF Reported
  <2>3. CASE k > 1
    <3>1. k - 1 \in 1..(n - 1) /\ fifo'[k - 1] = x
      <4>1. k - 1 \in 1..(n - 1) /\ (k - 1) + 1 = k
        BY <1>1, <2>1, <2>3
      <4> QED
        BY <1>1, <2>1, <4>1, Zenon
    <3>2. \A j \in ((k - 1) + 1)..(n - 1) : fifo'[j] = "keep_alive"
      <4> SUFFICES ASSUME NEW j \in ((k - 1) + 1)..(n - 1) PROVE fifo'[j] = "keep_alive"
        BY Zenon
      <4>1. j \in 1..(n - 1) /\ j + 1 \in (k + 1)..n
        BY <1>1, <2>1, <2>3
      <4> QED
        BY <1>1, <2>1, <4>1, Zenon
    <3> QED
      BY <1>1, <3>1, <3>2, Zenon DEF Reported
  <2> QED
    BY <2>1, <2>2, <2>3
<1>3. CASE view = x /\ \A j \in 1..n : fifo[j] = "keep_alive"
  <2>1. 1 \in 1..n /\ \A j \in 1..(n - 1) : j + 1 \in 1..n
    BY <1>1
  <2>2. view' = x
    BY <1>1, <1>3, <2>1, Zenon
  <2> QED
    BY <1>1, <1>3, <2>1, <2>2 DEF Reported
<1> QED
  BY <1>2, <1>3, Zenon DEF Reported, n

-----------------------------------------------------------------------------
\* The blank ring is an empty queue.
LEMMA BlankHolds ==
    /\ Blank \in [Slots -> Entry] /\ Start \in Position
    /\ Holds(Blank, Start, Start, <<>>)
<1>1. [phase |-> FALSE, data |-> "keep_alive"] \in Entry
  BY EventAssumption, Zenon DEF Entry, Event
<1>2. Blank \in [Slots -> Entry] /\ \A i \in Slots : Blank[i].phase = FALSE
  BY <1>1, Zenon DEF Blank
<1> QED
  BY <1>2, StartHolds, Zenon

\* The state after a reset.
LEMMA ResetInv ==
    ASSUME ready = FALSE, head_db = 0, pos = Start, tail_reg = 0, groups = {},
           timer = NotArmed, intr_mask = FALSE, isr = "idle", driver = Start,
           view = "unknown", fifo = <<>>, ring = Blank, missed = FALSE,
           quiet = FALSE, link \in {"up", "down"}, msg \in BOOLEAN
    PROVE  Inv
<1>1. 0 \in 0..(W - 1) /\ W \in Nat \ {0} /\ Depth \in Nat \ {0}
  BY RingSizes
<1>2. AenqQueue
  BY BlankHolds, Zenon DEF AenqQueue
<1>0. <<>> \in Seq(Event)
  OBVIOUS
<1>3. TypeOK
  <2>1. /\ ready \in BOOLEAN /\ intr_mask \in BOOLEAN /\ missed \in BOOLEAN
        /\ quiet \in BOOLEAN /\ isr \in {"idle", "poll"} /\ groups \subseteq Groups
        /\ view \in {"up", "down", "unknown"} /\ timer \in {NotArmed} \cup 0..Interval
    BY Zenon
  <2> QED
    BY <1>0, <1>1, <2>1, BlankHolds, Zenon DEF TypeOK
<1>4. CreditBound
  <2>1. Start.idx = 0 /\ 0 - 0 = 0
    BY DEF Start
  <2>2. Credit = 0
    BY <1>1, <2>1, ModSmall, Zenon DEF Credit
  <2> QED
    BY <1>1, <2>2 DEF CreditBound
<1>5. QueueInv
  <2>1. EventSignalled
    BY Zenon DEF EventSignalled
  <2> QED
    BY <1>2, <1>3, <1>4, <2>1, Zenon DEF QueueInv, TypeOK
<1> QED
  BY <1>3, <1>5, Zenon DEF Inv, KeepAliveArmed, LinkReported

\* The device starts in that state.
LEMMA InitInv == Init => Inv
BY ResetInv, Zenon DEF Init

\* The link callback of the net layer.
LEMMA LinkStatusChangedInv == Inv /\ LinkStatusChanged => Inv'
<1> SUFFICES ASSUME Inv, LinkStatusChanged PROVE Inv'
  BY Zenon
<1>1. /\ link' \in {"up", "down"} /\ PostLinkChange(groups, link')
      /\ UNCHANGED <<ready, head_db, groups, timer, intr_mask, driver, isr, view>>
  BY Zenon DEF LinkStatusChanged, guest
<1>2. PICK x \in {"up", "down"} : link' = x
  BY <1>1, Zenon
<1>3. PostLinkChange(groups, x)
  BY <1>1, <1>2, Zenon
<1>4. QueueInv' /\ missed' \in BOOLEAN /\ ("link_change" \in groups /\ ~missed' => Reported(x)')
  BY <1>1, <1>3, LinkPost, Zenon DEF Inv
<1>5. LinkReported'
  BY <1>1, <1>2, <1>4, Zenon DEF LinkReported, Reported
<1>6. TypeOK'
  BY <1>1, <1>4, Zenon DEF Inv, TypeOK, QueueInv
<1> QED
  BY <1>1, <1>4, <1>5, <1>6, Zenon DEF Inv, KeepAliveArmed

\* The AENQ_CONFIG feature.
LEMMA AenqConfigInv ==
    ASSUME Inv, NEW gs \in SUBSET Groups, AenqConfig(gs)
    PROVE  Inv'
<1>1. /\ groups' = gs /\ timer' = IF "keep_alive" \in gs THEN Interval ELSE NotArmed
      /\ UNCHANGED <<ready, head_db, link, intr_mask, driver, isr, view>>
  BY Zenon DEF AenqConfig, guest
<1>2. link \in {"up", "down"}
  BY Zenon DEF Inv, TypeOK
<1>3. QueueInv' /\ missed' \in BOOLEAN /\ LinkReported'
  <2>1. CASE "link_change" \in gs
    <3>1. PostLinkChange(gs, link)
      BY <2>1, Zenon DEF AenqConfig
    <3>2. QueueInv' /\ missed' \in BOOLEAN /\ ("link_change" \in gs /\ ~missed' => Reported(link)')
      <4> DEFINE x == link
      <4>1. x \in {"up", "down"} /\ PostLinkChange(gs, x) /\ x' = x
        BY <1>1, <1>2, <3>1, Zenon
      <4> QED
        BY <1>1, <1>2, <3>1, LinkPost, Zenon DEF Inv, Reported
    <3> QED
      BY <1>1, <3>2, Zenon DEF LinkReported
  <2>2. CASE "link_change" \notin gs
    <3>1. UNCHANGED <<ring, pos, tail_reg, fifo, msg, quiet, missed>>
      BY <2>2, Zenon DEF AenqConfig
    <3>2. QueueInv'
      BY <1>1, <3>1, Zenon DEF Inv, QueueInv, AenqQueue, CreditBound, Credit, EventSignalled
    <3> QED
      BY <1>1, <2>2, <3>1, <3>2, Zenon DEF Inv, TypeOK, LinkReported
  <2> QED
    BY <2>1, <2>2, Zenon
<1>4. timer' \in {NotArmed} \cup 0..Interval /\ KeepAliveArmed'
  <2>1. Interval \in 0..Interval /\ Interval # NotArmed
    BY IntervalAssumption DEF NotArmed
  <2> QED
    BY <1>1, <2>1, Zenon DEF KeepAliveArmed
<1>5. TypeOK'
  BY <1>1, <1>3, <1>4, Zenon DEF Inv, TypeOK, QueueInv
<1> QED
  BY <1>3, <1>4, <1>5, Zenon DEF Inv

\* The keep-alive timer expires.
LEMMA KeepAliveInv == Inv /\ KeepAlive => Inv'
<1> SUFFICES ASSUME Inv, KeepAlive PROVE Inv'
  BY Zenon
<1>1. /\ AenqPost(groups, "keep_alive", "keep_alive") /\ timer = 0 /\ timer' = Interval
      /\ UNCHANGED <<ready, head_db, groups, link, intr_mask, driver, isr, view, missed>>
  BY Zenon DEF KeepAlive, guest
<1>2. QueueInv' /\ (fifo' = Append(fifo, "keep_alive") \/ fifo' = fifo)
  BY <1>1, PostInv, Zenon DEF Inv, Event
<1>3. LinkReported'
  <2>1. ASSUME Reported(link) PROVE Reported(link)'
    <3>1. PICK x : x = link
      BY Zenon
    <3>2. Reported(x)'
      BY <1>1, <1>2, <2>1, <3>1, KeepAliveKeeps, Zenon DEF Inv, TypeOK
    <3> QED
      BY <1>1, <3>1, <3>2, Zenon DEF Reported
  <2> QED
    BY <1>1, <2>1, Zenon DEF Inv, LinkReported
<1>4. timer' \in {NotArmed} \cup 0..Interval /\ KeepAliveArmed'
  <2>1. Interval \in 0..Interval /\ Interval # NotArmed /\ 0 # NotArmed
    BY IntervalAssumption DEF NotArmed
  <2> QED
    BY <1>1, <2>1, Zenon DEF Inv, KeepAliveArmed
<1>5. TypeOK'
  BY <1>1, <1>2, <1>4, Zenon DEF Inv, TypeOK, QueueInv
<1> QED
  BY <1>2, <1>3, <1>4, <1>5, Zenon DEF Inv

\* Time passes.
LEMMA TickInv == Inv /\ Tick => Inv'
<1> SUFFICES ASSUME Inv, Tick PROVE Inv'
  BY Zenon
<1>1. /\ timer > 0 /\ timer' = timer - 1
      /\ UNCHANGED <<ready, head_db, pos, tail_reg, groups, link, intr_mask, driver,
                     isr, view, ring, msg, fifo, missed, quiet>>
  BY Zenon DEF Tick, guest
<1>2. timer' \in 0..Interval /\ timer # NotArmed /\ timer' # NotArmed
  BY <1>1, IntervalAssumption DEF Inv, TypeOK, NotArmed
<1>3. QueueInv'
  BY <1>1, Zenon DEF Inv, QueueInv, AenqQueue, CreditBound, Credit, EventSignalled
<1>4. TypeOK'
  BY <1>1, <1>2 DEF Inv, TypeOK
<1> QED
  BY <1>1, <1>2, <1>3, <1>4, Zenon DEF Inv, KeepAliveArmed, LinkReported, Reported

\* The reset brings back the initial state, whatever the device was doing.
LEMMA DevResetInv == Inv /\ DevReset => Inv'
<1> SUFFICES ASSUME Inv, DevReset PROVE Inv'
  BY Zenon
<1>1. /\ ready' = FALSE /\ head_db' = 0 /\ pos' = Start /\ tail_reg' = 0
      /\ groups' = {} /\ timer' = NotArmed /\ intr_mask' = FALSE /\ isr' = "idle"
      /\ driver' = Start /\ view' = "unknown" /\ fifo' = <<>> /\ ring' = Blank
      /\ missed' = FALSE /\ quiet' = FALSE
      /\ link' \in {"up", "down"} /\ msg' \in BOOLEAN
  BY Zenon DEF DevReset, Inv, TypeOK
<1>2. /\ 0 \in 0..(W - 1) /\ W \in Nat \ {0} /\ Depth \in Nat \ {0}
      /\ <<>> \in Seq(Event) /\ {} \subseteq Groups
  BY RingSizes
<1>3. TypeOK'
  BY <1>1, <1>2, BlankHolds, Zenon DEF TypeOK
<1>4. AenqQueue' /\ EventSignalled'
  BY <1>1, BlankHolds, Zenon DEF AenqQueue, EventSignalled
<1>5. CreditBound'
  <2>1. Start.idx = 0 /\ 0 - 0 = 0
    BY DEF Start
  <2>2. Credit' = 0
    BY <1>1, <1>2, <2>1, ModSmall, Zenon DEF Credit
  <2> QED
    BY <1>1, <1>2, <2>2 DEF CreditBound
<1>6. QueueInv'
  BY <1>1, <1>3, <1>4, <1>5, Zenon DEF QueueInv, TypeOK
<1> QED
  BY <1>1, <1>3, <1>6, Zenon DEF Inv, KeepAliveArmed, LinkReported

\* The guest sets the queue up, with no credit beyond the depth of the new ring.
LEMMA WriteCapsInv == Inv /\ WriteCaps => Inv'
<1> SUFFICES ASSUME Inv, WriteCaps PROVE Inv'
  BY Zenon
<1>1. /\ ready' = TRUE /\ pos' = Start /\ tail_reg' = 0
      /\ ring' = Blank /\ driver' = Start /\ fifo' = <<>>
      /\ UNCHANGED <<head_db, groups, timer, link, intr_mask, isr, view,
                     msg, missed, quiet>>
  BY Zenon DEF WriteCaps
<1>2. tail_reg' \in 0..(W - 1) /\ <<>> \in Seq(Event)
  BY <1>1, RingSizes
<1>3. AenqQueue' /\ EventSignalled'
  BY <1>1, BlankHolds, Zenon DEF AenqQueue, EventSignalled
<1>4. CreditBound'
  <2> DEFINE a == head_db - 0
  <2>1. a \in Int /\ W \in Nat \ {0} /\ Depth \in Nat
    BY RingSizes DEF Inv, TypeOK
  <2>2. Credit' = a % W
    BY <1>1, Zenon DEF Credit, Start
  <2> HIDE DEF a
  <2>3. a % W \in 0..(W - 1)
    BY <2>1, DivMod, Zenon
  <2>4. (a % W) + 0 = a % W
    BY <2>1, <2>3
  <2>5. Len(fifo') = 0
    BY <1>1, Zenon
  <2>6. Credit' + Len(fifo') = Credit'
    BY <2>2, <2>4, <2>5, Zenon
  <2> QED
    BY <2>6, Zenon DEF CreditBound
<1>5. TypeOK'
  BY <1>1, <1>2, BlankHolds, Zenon DEF Inv, TypeOK
<1>6. QueueInv'
  BY <1>1, <1>3, <1>4, <1>5, Zenon DEF QueueInv, TypeOK
<1>7. KeepAliveArmed'
  BY <1>1, Zenon DEF Inv, KeepAliveArmed
<1>8. LinkReported'
  <2>1. CASE groups = {}
    BY <1>1, <2>1, Zenon DEF LinkReported
  <2>2. CASE ~ready
    BY <1>1, <2>2 DEF Inv, QueueInv, LinkReported, Reported
  <2> QED
    BY <2>1, <2>2, Zenon DEF WriteCaps
<1> QED
  BY <1>5, <1>6, <1>7, <1>8, Zenon DEF Inv

\* A head doorbell gives credit for the entries that are free, or none.
LEMMA WriteHeadDbInv == Inv /\ (WriteHeadDb \/ WriteHeadDbPast) => Inv'
<1> SUFFICES ASSUME Inv, WriteHeadDb \/ WriteHeadDbPast PROVE Inv'
  BY Zenon
<1>1. UNCHANGED <<ready, pos, tail_reg, groups, timer, link, intr_mask, driver, isr,
                  view, ring, msg, fifo, missed, quiet>>
  BY Zenon DEF WriteHeadDb, WriteHeadDbPast, guest
<1> DEFINE n == Len(fifo)
<1>2. /\ Depth \in Nat \ {0} /\ W \in Nat \ {0} /\ Depth < W /\ n \in Nat /\ n <= Depth
      /\ driver.idx \in Int /\ pos.idx = (driver.idx + n) % W
  BY RingSizes, DepthBelowW DEF Inv, QueueInv, AenqQueue, Holds, Position
<1>3. PICK k \in Depth..(W - 1) : head_db' = (driver.idx + k) % W /\ (k = Depth \/ n = 0)
  <2>1. CASE WriteHeadDb
    <3>1. Depth \in Depth..(W - 1)
      BY <1>2
    <3> QED
      BY <2>1, <3>1, Zenon DEF WriteHeadDb
  <2>2. CASE WriteHeadDbPast
    <3>1. \A k \in (Depth + 1)..(W - 1) : k \in Depth..(W - 1)
      BY <1>2
    <3> QED
      BY <2>2, <3>1, Zenon DEF WriteHeadDbPast
  <2> QED
    BY <2>1, <2>2, Zenon
<1>4. head_db' \in 0..(W - 1)
  <2>1. driver.idx + k \in Int
    BY <1>2
  <2> QED
    BY <1>2, <1>3, <2>1, DivMod, Zenon
<1> HIDE DEF n
<1>5. Credit' = k - n
  <2>1. driver.idx + k \in Int /\ driver.idx + n \in Int
    BY <1>2
  <2>2. (((driver.idx + k) % W) - ((driver.idx + n) % W)) % W
          = ((driver.idx + k) - (driver.idx + n)) % W
    BY <2>1, SubMod, Zenon
  <2>3. (driver.idx + k) - (driver.idx + n) = k - n /\ k - n \in 0..(W - 1)
    BY <1>2
  <2>4. (k - n) % W = k - n
    BY <2>3, ModSmall, Zenon
  <2> QED
    BY <1>1, <1>2, <1>3, <2>2, <2>3, <2>4, Zenon DEF Credit
<1>6. CreditBound'
  <2>1. k - n <= Depth => (k - n) + n <= Depth
    BY <1>2, <1>3
  <2> QED
    BY <1>1, <1>5, <2>1, Zenon DEF CreditBound, n
<1>7. QueueInv'
  BY <1>1, <1>4, <1>6, Zenon DEF Inv, QueueInv, AenqQueue, EventSignalled
<1>8. TypeOK'
  BY <1>1, <1>4 DEF Inv, TypeOK
<1> QED
  BY <1>1, <1>7, <1>8, Zenon DEF Inv, KeepAliveArmed, LinkReported, Reported

\* The guest masks or unmasks the admin interrupt.
LEMMA WriteIntrMaskInv == Inv /\ WriteIntrMask => Inv'
<1> SUFFICES ASSUME Inv, WriteIntrMask PROVE Inv'
  BY Zenon
<1>1. /\ intr_mask' \in BOOLEAN
      /\ UNCHANGED <<ready, head_db, pos, tail_reg, groups, timer, link, driver, isr,
                     view, ring, msg, fifo, missed, quiet>>
  BY Zenon DEF WriteIntrMask, guest, Inv, TypeOK
<1>2. QueueInv'
  BY <1>1, Zenon DEF Inv, QueueInv, AenqQueue, CreditBound, Credit, EventSignalled
<1>9. TypeOK'
  BY <1>1, <1>2 DEF Inv, TypeOK
<1>10. KeepAliveArmed' /\ LinkReported'
  BY <1>1, <1>2, Zenon DEF Inv, KeepAliveArmed, LinkReported, Reported
<1> QED
  BY <1>1, <1>2, <1>9, <1>10, Zenon DEF Inv

\* The guest's handler: entered, an event read, left.
LEMMA HandlerInv == Inv /\ (TakeMessage \/ Poll \/ Done) => Inv'
<1> SUFFICES ASSUME Inv, TakeMessage \/ Poll \/ Done PROVE Inv'
  BY Zenon
<1>0. /\ Ready(ring, driver) <=> fifo # <<>>
      /\ fifo # <<>> => /\ ring[driver.idx % Depth].data = Head(fifo)
                        /\ Advance(driver) \in Position
                        /\ Holds(ring, pos, Advance(driver), Tail(fifo))
  BY ReadHolds, EventAssumption, Zenon DEF Inv, QueueInv, AenqQueue
<1>1. CASE TakeMessage
  <2>1. /\ msg' = FALSE /\ isr' = "poll"
        /\ UNCHANGED <<ready, head_db, pos, tail_reg, groups, timer, link, intr_mask,
                       driver, view, ring, fifo, missed, quiet>>
    BY <1>1, Zenon DEF TakeMessage, device
  <2>2. QueueInv'
    BY <2>1, Zenon DEF Inv, QueueInv, AenqQueue, CreditBound, Credit, EventSignalled
  <2>9. TypeOK'
    BY <2>1, <2>2, Zenon DEF Inv, TypeOK
  <2>10. KeepAliveArmed' /\ LinkReported'
    BY <2>1, <2>2, Zenon DEF Inv, KeepAliveArmed, LinkReported, Reported
  <2> QED
    BY <2>1, <2>2, <2>9, <2>10, Zenon DEF Inv
<1>2. CASE Done
  <2>1. /\ isr' = "idle" /\ quiet' = FALSE
        /\ UNCHANGED <<ready, head_db, pos, tail_reg, groups, timer, link, intr_mask,
                       driver, view, ring, msg, fifo, missed>>
    BY <1>2, Zenon DEF Done, device
  <2>2. fifo = <<>>
    BY <1>0, <1>2, Zenon DEF Done
  <2>3. QueueInv'
    BY <2>1, <2>2, Zenon DEF Inv, QueueInv, AenqQueue, CreditBound, Credit, EventSignalled
  <2>9. TypeOK'
    BY <2>1, <2>3, Zenon DEF Inv, TypeOK
  <2>10. KeepAliveArmed' /\ LinkReported'
    BY <2>1, <2>3, Zenon DEF Inv, KeepAliveArmed, LinkReported, Reported
  <2> QED
    BY <2>1, <2>3, <2>9, <2>10, Zenon DEF Inv
<1>3. CASE Poll
  <2>1. /\ fifo # <<>> /\ driver' = Advance(driver) /\ fifo' = Tail(fifo)
        /\ view' = IF Head(fifo) \in {"up", "down"} THEN Head(fifo) ELSE view
        /\ isr = "poll"
        /\ UNCHANGED <<ready, head_db, pos, tail_reg, groups, timer, link, intr_mask,
                       isr, ring, msg, missed, quiet>>
    BY <1>0, <1>3, Zenon DEF Poll, device
  <2>2. fifo \in Seq(Event)
    BY Zenon DEF Inv, TypeOK
  <2>3. fifo' \in Seq(Event) /\ Len(fifo') = Len(fifo) - 1 /\ Len(fifo) \in Nat
    BY <2>1, <2>2
  <2>4. AenqQueue' /\ driver' \in Position
    BY <1>0, <2>1, Zenon DEF AenqQueue
  <2>5. CreditBound'
    <3>1. Credit' = Credit
      BY <2>1, Zenon DEF Credit
    <3>2. Credit \in Int
      <4> DEFINE a == head_db - pos.idx
      <4>1. a \in Int /\ W \in Nat \ {0}
        BY RingSizes DEF Inv, TypeOK, Position
      <4>2. Credit = a % W
        BY Zenon DEF Credit
      <4> HIDE DEF a
      <4>3. a % W \in 0..(W - 1)
        BY <4>1, DivMod, Zenon
      <4> QED
        BY <4>1, <4>2, <4>3
    <3> QED
      BY <2>3, <3>1, <3>2, RingSizes DEF Inv, QueueInv, CreditBound
  <2>6. QueueInv'
    BY <2>1, <2>3, <2>4, <2>5, Zenon DEF Inv, QueueInv, EventSignalled
  <2>7. LinkReported'
    <3>1. ASSUME Reported(link) PROVE Reported(link)'
      <4>1. PICK x \in {"up", "down"} : x = link
        BY Zenon DEF Inv, TypeOK
      <4>2. Reported(x)
        BY <3>1, <4>1, Zenon
      <4>3. Reported(x)'
        BY <2>1, <2>2, <4>2, PollKeeps, Zenon
      <4> QED
        BY <2>1, <4>1, <4>3, Zenon DEF Reported
    <3> QED
      BY <2>1, <3>1, Zenon DEF Inv, LinkReported
  <2>8. view' \in {"up", "down", "unknown"}
    BY <2>1, Zenon DEF Inv, TypeOK
  <2>9. TypeOK'
    BY <2>1, <2>3, <2>4, <2>8, Zenon DEF Inv, TypeOK
  <2> QED
    BY <2>1, <2>6, <2>7, <2>9, Zenon DEF Inv, KeepAliveArmed
<1> QED
  BY <1>1, <1>2, <1>3, Zenon

\* Every step of the device and of the guest preserves the invariant.
LEMMA NextInv == Inv /\ [Next]_vars => Inv'
<1> SUFFICES ASSUME Inv, [Next]_vars PROVE Inv'
  BY Zenon
<1>1. CASE UNCHANGED vars
  <2>1. TypeOK'
    BY <1>1 DEF vars, device, guest, Inv, TypeOK
  <2>2. QueueInv'
    BY <1>1, Zenon DEF vars, device, guest, Inv, QueueInv, AenqQueue, CreditBound, Credit,
                EventSignalled
  <2>3. KeepAliveArmed' /\ LinkReported'
    BY <1>1, Zenon DEF vars, device, guest, Inv, KeepAliveArmed, LinkReported, Reported
  <2> QED
    BY <2>1, <2>2, <2>3, Zenon DEF Inv
<1>2. ASSUME NEW gs \in SUBSET Groups, AenqConfig(gs) PROVE Inv'
  BY <1>2, AenqConfigInv, Zenon
<1> QED
  BY <1>1, <1>2, LinkStatusChangedInv, KeepAliveInv, TickInv, DevResetInv, WriteCapsInv,
     WriteHeadDbInv, WriteIntrMaskInv, HandlerInv, Zenon DEF Next

\* The event queue of ena_aenq_post delivers every event it accepts, in order,
\* never overwrites an unread one, keeps the timer and the link reports in step
\* with the enabled groups and leaves no event unsignalled that was not masked.
THEOREM AenqSafety ==
    Spec => [](TypeOK /\ AenqQueue /\ KeepAliveArmed /\ LinkReported /\ EventSignalled)
<1>1. Inv => TypeOK /\ AenqQueue /\ KeepAliveArmed /\ LinkReported /\ EventSignalled
  BY Zenon DEF Inv, QueueInv
<1> QED
  BY <1>1, InitInv, NextInv, PTL DEF Spec

\* The keep-alive timer runs exactly while its group is enabled.
THEOREM KeepAliveInStep == Spec => []KeepAliveArmed
BY AenqSafety, PTL

\* The guest has been told the present link state, unless the queue was full.
THEOREM LinkInStep == Spec => []LinkReported
BY AenqSafety, PTL

\* No event of ena_aenq_post is left without an interrupt that was not masked.
THEOREM EventsSignalled == Spec => []EventSignalled
BY AenqSafety, PTL

-----------------------------------------------------------------------------
\* The ring holds the unread events, before and after a step.
LEMMA UnreadFifo ==
    /\ Inv => Unread = fifo
    /\ Inv' => Unread' = fifo'
<1>1. ASSUME Inv PROVE Unread = fifo
  BY <1>1, ContentsHolds, EventAssumption, Zenon DEF Inv, QueueInv, AenqQueue, Unread
<1>2. ASSUME Inv' PROVE Unread' = fifo'
  BY <1>2, ContentsHolds, EventAssumption, Zenon DEF Inv, QueueInv, AenqQueue, Unread
<1> QED
  BY <1>1, <1>2, Zenon

\* ena_aenq_post offers the event to the service, which has room for what the
\* credit check lets through.
LEMMA PostOffers ==
    ASSUME Inv, Inv', NEW gs, NEW group, NEW e \in Event, AenqPost(gs, group, e)
    PROVE  Service!Offer(gs, group, e)
<1>1. Unread = fifo /\ Unread' = fifo'
  BY UnreadFifo, Zenon
<1>2. CASE ~CanPost(gs, group)
  BY <1>1, <1>2, Zenon DEF AenqPost, Service!Offer
<1>3. CASE CanPost(gs, group)
  <2>1. group \in gs /\ fifo' = Append(fifo, e)
    BY <1>3, Zenon DEF AenqPost, CanPost
  <2>2. Len(fifo') = Len(fifo) + 1 /\ Len(fifo) \in Nat
    <3>1. fifo \in Seq(Event)
      BY Zenon DEF Inv, TypeOK
    <3> QED
      BY <2>1, <3>1
  <2>3. Len(fifo') <= Depth
    BY Zenon DEF Inv, QueueInv, AenqQueue, Holds
  <2>4. Len(fifo) < Depth
    BY <2>2, <2>3, RingSizes
  <2> QED
    BY <1>1, <2>1, <2>4, Zenon DEF Service!Offer
<1> QED
  BY <1>2, <1>3, Zenon

\* A device that starts is a service that starts.
LEMMA ServiceInit == Init => Service!Init
<1> SUFFICES ASSUME Init PROVE Service!Init
  BY Zenon
<1>1. Unread = <<>>
  BY InitInv, UnreadFifo, Zenon DEF Init
<1> QED
  BY <1>1, Zenon DEF Init, Service!Init

\* Every step of device and guest is a step of the service or none.
LEMMA ServiceStep == Inv /\ Inv' /\ [Next]_vars => [Service!Next]_(Service!vars)
<1> SUFFICES ASSUME Inv, Inv', [Next]_vars
             PROVE  Service!Next \/ UNCHANGED Service!vars
  BY Zenon
<1>0. Unread = fifo /\ Unread' = fifo'
  BY UnreadFifo, Zenon
<1>1. CASE LinkStatusChanged
  <2>1. /\ link' \in {"up", "down"} \ {link} /\ UNCHANGED <<groups, view>>
        /\ AenqPost(groups, "link_change", link') /\ link' \in Event
    BY <1>1, Zenon DEF LinkStatusChanged, PostLinkChange, guest, Event
  <2> QED
    BY <2>1, PostOffers, Zenon DEF Service!Next, Service!LinkChange
<1>2. ASSUME NEW gs \in SUBSET Groups, AenqConfig(gs) PROVE Service!Next
  <2>1. /\ groups' = gs /\ UNCHANGED <<link, view>>
        /\ gs \in SUBSET {"link_change", "keep_alive"} /\ link \in Event
    BY <1>2, Zenon DEF AenqConfig, guest, Groups, Inv, TypeOK, Event
  <2>2. Service!Offer(gs, "link_change", link)
    <3>1. CASE "link_change" \in gs
      BY <1>2, <2>1, <3>1, PostOffers, Zenon DEF AenqConfig, PostLinkChange
    <3>2. CASE "link_change" \notin gs
      BY <1>0, <1>2, <3>2, Zenon DEF AenqConfig, Service!Offer
    <3> QED
      BY <3>1, <3>2, Zenon
  <2> QED
    BY <2>1, <2>2, Zenon DEF Service!Next, Service!Configure
<1>3. CASE KeepAlive
  <2>1. /\ UNCHANGED <<groups, link, view>>
        /\ AenqPost(groups, "keep_alive", "keep_alive") /\ "keep_alive" \in Event
    BY <1>3, Zenon DEF KeepAlive, guest, Event
  <2> QED
    BY <2>1, PostOffers, Zenon DEF Service!Next, Service!KeepAlive
<1>4. CASE DevReset
  BY <1>0, <1>4, Zenon DEF DevReset, Service!Next, Service!Reset
<1>5. CASE WriteCaps
  <2>1. UNCHANGED <<groups, link, view>> /\ fifo' = <<>> /\ (groups = {} \/ fifo = <<>>)
    BY <1>5, Zenon DEF WriteCaps, Inv, QueueInv
  <2> QED
    BY <1>0, <2>1, Zenon DEF Service!Next, Service!SetUp, Service!vars
<1>6. CASE Poll
  <2>1. /\ ring \in [Slots -> Entry] /\ pos \in Position /\ driver \in Position
        /\ fifo \in Seq(Data) /\ Holds(ring, pos, driver, fifo)
    BY EventAssumption, Zenon DEF Inv, QueueInv, AenqQueue
  <2>2. fifo # <<>> /\ ring[driver.idx % Depth].data = Head(fifo)
    BY <1>6, <2>1, ReadHolds, Zenon DEF Poll
  <2>3. /\ fifo' = Tail(fifo) /\ UNCHANGED <<groups, link>>
        /\ view' = IF Head(fifo) \in {"up", "down"} THEN Head(fifo) ELSE view
    BY <1>6, <2>2, Zenon DEF Poll, device
  <2> QED
    BY <1>0, <2>2, <2>3, Zenon DEF Service!Next, Service!Take
<1>7. CASE Tick \/ WriteHeadDb \/ WriteHeadDbPast \/ WriteIntrMask \/ TakeMessage \/ Done
           \/ UNCHANGED vars
  <2>1. UNCHANGED <<groups, link, fifo, view>>
    BY <1>7, Zenon DEF Tick, WriteHeadDb, WriteHeadDbPast, WriteIntrMask, TakeMessage, Done,
                vars, device, guest
  <2> QED
    BY <1>0, <2>1, Zenon DEF Service!vars
<1> QED
  BY <1>1, <1>2, <1>3, <1>4, <1>5, <1>6, <1>7, Zenon DEF Next

\* The ring of ena_aenq_post and the guest that polls it implement the queue of
\* events that EventService describes, for every depth and index width.
THEOREM AenqImplementsService == Spec => ImplementsService
<1>1. Spec => []Inv
  BY InitInv, NextInv, PTL DEF Spec
<1> QED
  BY <1>1, ServiceInit, ServiceStep, PTL DEF Spec, ImplementsService, Service!Spec
=============================================================================
