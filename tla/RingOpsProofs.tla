---------------------------- MODULE RingOpsProofs ----------------------------
(***************************************************************************)
(* The operators of RingOps keep the ring a queue, for every depth.        *)
(***************************************************************************)
EXTENDS RingOps, TLAPS

-----------------------------------------------------------------------------
\* Remainders.
LEMMA DivMod ==
    ASSUME NEW a \in Int, NEW d \in Nat \ {0}
    PROVE  /\ a \div d \in Int
           /\ a % d \in 0..(d - 1)
           /\ a = d * (a \div d) + (a % d)
OBVIOUS

\* Quotient and remainder are unique.
LEMMA ModUnique ==
    ASSUME NEW a \in Int, NEW d \in Nat \ {0}, NEW q \in Int, NEW r \in 0..(d - 1),
           a = d * q + r
    PROVE  a % d = r
<1> DEFINE q2 == a \div d
           r2 == a % d
<1>1. q2 \in Int /\ r2 \in 0..(d - 1) /\ a = d * q2 + r2
  BY DivMod
<1> HIDE DEF q2, r2
<1>2. CASE q >= q2 + 1
  <2>1. d * q >= d * (q2 + 1)
    BY <1>1, <1>2
  <2> QED
    BY <1>1, <2>1
<1>3. CASE q2 >= q + 1
  <2>1. d * q2 >= d * (q + 1)
    BY <1>1, <1>3
  <2> QED
    BY <1>1, <2>1
<1>4. CASE q = q2
  <2>1. r = r2
    BY <1>1, <1>4
  <2> QED
    BY <2>1 DEF r2
<1> QED
  BY <1>1, <1>2, <1>3, <1>4

\* A remainder by a multiple of d does not change the remainder by d.
LEMMA ModMod ==
    ASSUME NEW a \in Int, NEW d \in Nat \ {0}, NEW m \in Int,
           NEW w \in Nat \ {0}
    PROVE  w = m * d => (a % w) % d = a % d
<1>0. SUFFICES ASSUME w = m * d PROVE (a % w) % d = a % d
  OBVIOUS
<1> DEFINE q == a \div w
           r == a % w
           q2 == r \div d
           r2 == r % d
<1>1. q \in Int /\ r \in Int /\ a = w * q + r
  BY DivMod
<1> HIDE DEF q, r
<1>2. q2 \in Int /\ r2 \in 0..(d - 1) /\ r = d * q2 + r2
  BY <1>1, DivMod
<1> HIDE DEF q2, r2
<1>3. w * q = d * (m * q)
  BY <1>0, <1>1
<1>4. m * q + q2 \in Int /\ d * (m * q + q2) = d * (m * q) + d * q2
  BY <1>1, <1>2
<1>5. a = d * (m * q + q2) + r2
  BY <1>1, <1>2, <1>3, <1>4
<1>6. a % d = r2
  BY <1>2, <1>4, <1>5, ModUnique, Zenon
<1> QED
  BY <1>6 DEF r2, r

\* A remainder may be taken before an addition.
LEMMA ModAdd ==
    ASSUME NEW a \in Int, NEW b \in Int, NEW d \in Nat \ {0}
    PROVE  ((a % d) + b) % d = (a + b) % d
<1> DEFINE q == a \div d
           r == a % d
           q2 == (r + b) \div d
           r2 == (r + b) % d
<1>1. q \in Int /\ r \in Int /\ a = d * q + r
  BY DivMod
<1> HIDE DEF q, r
<1>2. q2 \in Int /\ r2 \in 0..(d - 1) /\ r + b = d * q2 + r2
  BY <1>1, DivMod
<1> HIDE DEF q2, r2
<1>3. a + b = d * (q + q2) + r2
  <2>1. d * (q + q2) = d * q + d * q2
    BY <1>1, <1>2
  <2> QED
    BY <1>1, <1>2, <2>1
<1>4. a + b \in Int /\ q + q2 \in Int
  BY <1>1, <1>2
<1>5. (a + b) % d = r2
  BY <1>2, <1>3, <1>4, ModUnique, Zenon
<1> QED
  BY <1>5 DEF r2, r

\* Two numbers less than d apart have different remainders.
LEMMA ModClose ==
    ASSUME NEW a \in Int, NEW b \in Int, NEW d \in Nat \ {0}, a < b, b - a < d
    PROVE  a % d # b % d
<1> SUFFICES ASSUME a % d = b % d PROVE FALSE
  OBVIOUS
<1> DEFINE q == a \div d
           q2 == b \div d
           r == a % d
<1>1. q \in Int /\ q2 \in Int /\ r \in Int /\ a = d * q + r /\ b = d * q2 + r
  BY DivMod
<1> HIDE DEF q, q2, r
<1>2. CASE q2 >= q + 1
  <2>1. d * q2 >= d * (q + 1)
    BY <1>1, <1>2
  <2> QED
    BY <1>1, <2>1
<1>3. CASE q2 <= q
  <2>1. d * q2 <= d * q
    BY <1>1, <1>3
  <2> QED
    BY <1>1, <2>1
<1> QED
  BY <1>1, <1>2, <1>3
-----------------------------------------------------------------------------
\* The facts about Depth and W the lemmas below use.
LEMMA RingSizes ==
    /\ Depth \in Nat \ {0} /\ 2 * Depth \in Nat \ {0} /\ W \in Nat \ {0}
    /\ \E m \in Int : W = m * (2 * Depth)
    /\ \E m \in Int : W = m * Depth
<1>1. PICK m \in 1..W : W = m * (2 * Depth)
  BY RingAssumption
<1>2. m \in Int /\ 2 * m \in Int /\ Depth \in Int
  BY RingAssumption
<1>3. W = (2 * m) * Depth
  BY <1>1, <1>2
<1>4. W # 0
  BY <1>1
<1>5. Depth \in Nat \ {0} /\ 2 * Depth \in Nat \ {0}
  BY RingAssumption
<1> QED
  BY <1>1, <1>2, <1>3, <1>4, <1>5, RingAssumption

\* A slot and a phase do not depend on the wrap of the index.
LEMMA WrapIndex ==
    ASSUME NEW a \in Int
    PROVE  /\ a % W \in 0..(W - 1)
           /\ (a % W) % Depth = a % Depth
           /\ PhaseOf(a % W) = PhaseOf(a)
<1>1. a % W \in 0..(W - 1)
  BY RingSizes, DivMod, Zenon
<1>2. (a % W) % Depth = a % Depth
  <2>1. PICK m \in Int : W = m * Depth
    BY RingSizes
  <2>2. Depth \in Nat \ {0} /\ W \in Nat \ {0}
    BY RingSizes
  <2>3. W = m * Depth => (a % W) % Depth = a % Depth
    BY <2>2, ModMod, Zenon
  <2> QED
    BY <2>1, <2>3, Zenon
<1>3. (a % W) % (2 * Depth) = a % (2 * Depth)
  <2>1. PICK m \in Int : W = m * (2 * Depth)
    BY RingSizes
  <2>2. 2 * Depth \in Nat \ {0} /\ W \in Nat \ {0}
    BY RingSizes
  <2>3. W = m * (2 * Depth) => (a % W) % (2 * Depth) = a % (2 * Depth)
    BY <2>2, ModMod, Zenon
  <2> QED
    BY <2>1, <2>3, Zenon
<1> QED
  BY <1>1, <1>2, <1>3 DEF PhaseOf

\* One lap later the slot is the same and the phase is the other one.
LEMMA NextLap ==
    ASSUME NEW a \in Int
    PROVE  /\ (a + Depth) % Depth = a % Depth
           /\ PhaseOf(a + Depth) = ~PhaseOf(a)
<1>1. (a + Depth) % Depth = a % Depth
  <2> DEFINE q == a \div Depth
             r == a % Depth
  <2>1. q \in Int /\ r \in 0..(Depth - 1) /\ a = Depth * q + r
    BY RingSizes, DivMod, Zenon
  <2> HIDE DEF q, r
  <2>2. q + 1 \in Int /\ a + Depth \in Int /\ a + Depth = Depth * (q + 1) + r
    BY <2>1, RingSizes
  <2>3. (a + Depth) % Depth = r
    BY <2>1, <2>2, RingSizes, ModUnique
  <2> QED
    BY <2>3 DEF r
<1>2. PhaseOf(a + Depth) = ~PhaseOf(a)
  <2> DEFINE d2 == 2 * Depth
             q == a \div d2
             r == a % d2
  <2>0. Depth \in Nat \ {0} /\ d2 \in Nat \ {0} /\ d2 = Depth + Depth
    BY RingSizes
  <2> HIDE DEF d2
  <2>1. q \in Int /\ r \in 0..(d2 - 1) /\ a = d2 * q + r
    BY <2>0, DivMod, Zenon
  <2> HIDE DEF q, r
  <2>2. CASE r < Depth
    <3>1. r + Depth \in 0..(d2 - 1) /\ a + Depth = d2 * q + (r + Depth) /\ a + Depth \in Int
      BY <2>0, <2>1, <2>2
    <3>2. (a + Depth) % d2 = r + Depth
      BY <2>0, <2>1, <3>1, ModUnique
    <3>3. ~((a + Depth) % d2 < Depth)
      BY <2>0, <2>1, <3>2
    <3> QED
      BY <2>2, <3>3 DEF PhaseOf, d2, r
  <2>3. CASE ~(r < Depth)
    <3>1. r - Depth \in 0..(d2 - 1) /\ q + 1 \in Int /\ a + Depth \in Int
      BY <2>0, <2>1, <2>3
    <3>2. d2 * (q + 1) = d2 * q + d2
      BY <2>0, <2>1
    <3>3. a + Depth = d2 * (q + 1) + (r - Depth)
      BY <2>0, <2>1, <3>2
    <3>4. (a + Depth) % d2 = r - Depth
      BY <2>0, <3>1, <3>3, ModUnique, Zenon
    <3>5. (a + Depth) % d2 < Depth
      BY <2>0, <2>1, <3>4
    <3> QED
      BY <2>3, <3>5 DEF PhaseOf, d2, r
  <2> QED
    BY <2>2, <2>3
<1> QED
  BY <1>1, <1>2

\* A phase is a truth value.
LEMMA PhaseBoolean ==
    ASSUME NEW a
    PROVE  PhaseOf(a) \in BOOLEAN
BY DEF PhaseOf

\* The phase changes exactly when the index comes back to the first slot.
LEMMA PhaseStep ==
    ASSUME NEW a \in Int
    PROVE  PhaseOf(a + 1) = IF (a + 1) % Depth = 0 THEN ~PhaseOf(a) ELSE PhaseOf(a)
<1> DEFINE d2 == 2 * Depth
           q == a \div d2
           r == a % d2
<1>0. Depth \in Nat \ {0} /\ d2 \in Nat \ {0} /\ d2 = Depth + Depth
  BY RingSizes
<1> HIDE DEF d2
<1>1. q \in Int /\ r \in 0..(d2 - 1) /\ a = d2 * q + r
  BY <1>0, DivMod, Zenon
<1> HIDE DEF q, r
<1>2. d2 * q = Depth * (2 * q) /\ 2 * q \in Int /\ a + 1 \in Int
  BY <1>0, <1>1
<1>3. /\ d2 * (q + 1) = d2 * q + d2
      /\ Depth * (2 * q + 1) = Depth * (2 * q) + Depth
      /\ Depth * (2 * q + 2) = Depth * (2 * q) + d2
      /\ 2 * q + 1 \in Int /\ 2 * q + 2 \in Int /\ q + 1 \in Int
  BY <1>0, <1>1
<1>4. PhaseOf(a) <=> r < Depth
  BY DEF PhaseOf, r, d2
<1>5. PhaseOf(a + 1) <=> (a + 1) % d2 < Depth
  BY DEF PhaseOf, d2
<1>6. CASE r + 1 < Depth
  <2>1. r + 1 \in 0..(d2 - 1) /\ r + 1 \in 0..(Depth - 1) /\ r + 1 # 0
    BY <1>0, <1>1, <1>6
  <2>2. a + 1 = d2 * q + (r + 1)
    BY <1>0, <1>1
  <2>3. (a + 1) % d2 = r + 1
    <3> DEFINE a1 == a + 1
               r1 == r + 1
    <3>1. a1 \in Int /\ r1 \in 0..(d2 - 1) /\ a1 = d2 * q + r1
      BY <2>1, <2>2
    <3> HIDE DEF a1, r1
    <3>2. a1 % d2 = r1
      BY <1>0, <1>1, <3>1, ModUnique, Zenon
    <3> QED
      BY <3>2 DEF a1, r1
  <2>4. (a + 1) % Depth = r + 1
    <3>1. a + 1 = Depth * (2 * q) + (r + 1)
      BY <1>0, <1>1, <1>2
    <3> QED
      BY <1>0, <1>2, <2>1, <3>1, ModUnique, Zenon
  <2>5. r < Depth
    BY <1>0, <1>1, <1>6
  <2>6. PhaseOf(a) /\ PhaseOf(a + 1)
    BY <1>4, <1>5, <1>6, <2>3, <2>5
  <2>7. (a + 1) % Depth # 0
    BY <2>1, <2>4
  <2> QED
    BY <2>6, <2>7, PhaseBoolean, Zenon
<1>7. CASE r + 1 = Depth
  <2>1. r + 1 \in 0..(d2 - 1) /\ 0 \in 0..(Depth - 1)
    BY <1>0, <1>1, <1>7
  <2>2. a + 1 = d2 * q + (r + 1) /\ a + 1 = Depth * (2 * q + 1) + 0
    BY <1>0, <1>1, <1>2, <1>3, <1>7
  <2>3. (a + 1) % d2 = r + 1
    BY <1>0, <1>1, <1>2, <2>1, <2>2, ModUnique
  <2>4. (a + 1) % Depth = 0
    BY <1>0, <1>1, <1>2, <1>3, <2>1, <2>2, ModUnique
  <2>5. r < Depth /\ ~(r + 1 < Depth)
    BY <1>0, <1>1, <1>7
  <2>6. PhaseOf(a) /\ ~PhaseOf(a + 1)
    BY <1>4, <1>5, <2>3, <2>5
  <2> QED
    BY <2>4, <2>6, PhaseBoolean
<1>8. CASE Depth < r + 1 /\ r + 1 < d2
  <2>1. r + 1 \in 0..(d2 - 1) /\ r + 1 - Depth \in 0..(Depth - 1) /\ r + 1 - Depth # 0
    BY <1>0, <1>1, <1>8
  <2>2. a + 1 = d2 * q + (r + 1) /\ a + 1 = Depth * (2 * q + 1) + (r + 1 - Depth)
    BY <1>0, <1>1, <1>2, <1>3
  <2>3. (a + 1) % d2 = r + 1
    BY <1>0, <1>1, <1>2, <2>1, <2>2, ModUnique
  <2>4. (a + 1) % Depth = r + 1 - Depth
    BY <1>0, <1>1, <1>2, <1>3, <2>1, <2>2, ModUnique, Zenon
  <2>5. ~(r < Depth) /\ ~(r + 1 < Depth)
    BY <1>0, <1>1, <1>8
  <2>6. ~PhaseOf(a) /\ ~PhaseOf(a + 1)
    BY <1>4, <1>5, <2>3, <2>5
  <2>7. (a + 1) % Depth # 0
    BY <2>1, <2>4
  <2> QED
    BY <2>6, <2>7, PhaseBoolean
<1>9. CASE r + 1 = d2
  <2>1. 0 \in 0..(d2 - 1) /\ 0 \in 0..(Depth - 1)
    BY <1>0
  <2>2. a + 1 = d2 * (q + 1) + 0 /\ a + 1 = Depth * (2 * q + 2) + 0
    BY <1>0, <1>1, <1>2, <1>3, <1>9
  <2>3. (a + 1) % d2 = 0
    BY <1>0, <1>1, <1>2, <1>3, <2>1, <2>2, ModUnique
  <2>4. (a + 1) % Depth = 0
    BY <1>0, <1>1, <1>2, <1>3, <2>1, <2>2, ModUnique
  <2>5. ~(r < Depth) /\ 0 < Depth
    BY <1>0, <1>1, <1>9
  <2>6. ~PhaseOf(a) /\ PhaseOf(a + 1)
    BY <1>4, <1>5, <2>3, <2>5
  <2> QED
    BY <2>4, <2>6, PhaseBoolean
<1>10. r + 1 < Depth \/ r + 1 = Depth \/ (Depth < r + 1 /\ r + 1 < d2) \/ r + 1 = d2
  BY <1>0, <1>1
<1> QED
  BY <1>6, <1>7, <1>8, <1>9, <1>10

\* A position advances to the next index with that index's phase.
LEMMA AdvanceLemma ==
    ASSUME NEW p \in Position, p.phase = PhaseOf(p.idx)
    PROVE  /\ Advance(p) \in Position
           /\ Advance(p).idx = (p.idx + 1) % W
           /\ Advance(p).phase = PhaseOf(Advance(p).idx)
<1>1. p.idx \in Int /\ p.idx + 1 \in Int
  BY RingSizes DEF Position
<1>2. /\ (p.idx + 1) % W \in 0..(W - 1)
      /\ ((p.idx + 1) % W) % Depth = (p.idx + 1) % Depth
      /\ PhaseOf((p.idx + 1) % W) = PhaseOf(p.idx + 1)
  BY <1>1, WrapIndex
<1>3. PhaseOf(p.idx + 1) =
        IF (p.idx + 1) % Depth = 0 THEN ~PhaseOf(p.idx) ELSE PhaseOf(p.idx)
  BY <1>1, PhaseStep
<1>4. p.phase \in BOOLEAN
  BY DEF Position
<1>5. Advance(p) = [idx |-> (p.idx + 1) % W,
                    phase |-> IF (p.idx + 1) % Depth = 0 THEN ~p.phase ELSE p.phase]
  BY <1>2 DEF Advance
<1> DEFINE idx == (p.idx + 1) % W
           phase == IF (p.idx + 1) % Depth = 0 THEN ~p.phase ELSE p.phase
<1>6. phase = PhaseOf(idx)
  BY <1>2, <1>3, Zenon
<1>7. idx \in 0..(W - 1) /\ phase \in BOOLEAN /\ Advance(p) = [idx |-> idx, phase |-> phase]
  BY <1>2, <1>4, <1>5, Zenon
<1> HIDE DEF idx, phase
<1>8. Advance(p) \in Position /\ Advance(p).idx = idx /\ Advance(p).phase = phase
  BY <1>7 DEF Position
<1>9. Advance(p).phase = PhaseOf(Advance(p).idx)
  BY <1>6, <1>8, Zenon
<1> QED
  BY <1>8, <1>9 DEF idx

\* An index may wrap before an addition.
LEMMA WrapAdd ==
    ASSUME NEW a \in Int, NEW k \in Int
    PROVE  /\ ((a % W) + k) % W = (a + k) % W
           /\ ((a % W) + k) % Depth = (a + k) % Depth
           /\ PhaseOf((a % W) + k) = PhaseOf(a + k)
<1>1. Depth \in Nat \ {0} /\ 2 * Depth \in Nat \ {0} /\ W \in Nat \ {0}
  BY RingSizes
<1>2. ((a % W) + k) % W = (a + k) % W
  BY <1>1, ModAdd, Zenon
<1>3. (a % W) + k \in Int /\ a + k \in Int
  BY <1>1, DivMod
<1>4. /\ (((a % W) + k) % W) % Depth = ((a % W) + k) % Depth
      /\ PhaseOf(((a % W) + k) % W) = PhaseOf((a % W) + k)
  BY <1>3, WrapIndex, Zenon
<1>5. ((a + k) % W) % Depth = (a + k) % Depth /\ PhaseOf((a + k) % W) = PhaseOf(a + k)
  BY <1>3, WrapIndex, Zenon
<1> QED
  BY <1>2, <1>4, <1>5, Zenon

\* A ring of old-phase entries is an empty queue.
LEMMA StartHolds ==
    ASSUME NEW ring, \A i \in Slots : ring[i].phase = FALSE
    PROVE  Start \in Position /\ Holds(ring, Start, Start, <<>>)
<1>1. Depth \in Nat \ {0} /\ 2 * Depth \in Nat \ {0} /\ W \in Nat \ {0}
  BY RingSizes
<1>2. \A k \in Slots : k % Depth = k /\ PhaseOf(k) = TRUE
  <2> SUFFICES ASSUME NEW k \in Slots PROVE k % Depth = k /\ PhaseOf(k) = TRUE
    BY Zenon
  <2>1. k \in 0..(Depth - 1) /\ k \in 0..(2 * Depth - 1) /\ k \in Int
    BY <1>1 DEF Slots
  <2>2. k % Depth = k
    <3>1. k = Depth * 0 + k
      BY <1>1, <2>1
    <3> QED
      BY <1>1, <2>1, <3>1, ModUnique
  <2>3. k % (2 * Depth) = k
    <3>1. k = (2 * Depth) * 0 + k
      BY <1>1, <2>1
    <3> QED
      BY <1>1, <2>1, <3>1, ModUnique
  <2>4. k < Depth
    BY <1>1, <2>1
  <2> QED
    BY <2>2, <2>3, <2>4 DEF PhaseOf
<1>3. 0 \in Slots /\ 0 \in 0..(W - 1)
  BY <1>1 DEF Slots
<1>4. Start \in Position /\ Start.idx = 0 /\ Start.phase = TRUE
  BY <1>3 DEF Start, Position
<1>5. Len(<<>>) = 0 /\ 0 <= Depth /\ (0 + 0) % W = 0
  <2>1. 0 = W * 0 + 0
    BY <1>1
  <2> QED
    BY <1>1, <1>3, <2>1, ModUnique
<1>6. \A k \in Slots : 0 + k = k /\ ~(k < 0)
  BY <1>1 DEF Slots
<1>7. PhaseOf(0) = TRUE
  BY <1>2, <1>3
<1>8. \A k \in Slots : ring[(Start.idx + k) % Depth].phase = ~PhaseOf(Start.idx + k)
  BY <1>2, <1>4, <1>6, Zenon
<1> QED
  BY <1>4, <1>5, <1>6, <1>7, <1>8, Zenon DEF Holds

\* The device adds at the end of the queue, whatever set D the entries are of.
LEMMA WriteHoldsAny ==
    ASSUME NEW D, NEW ring \in [Slots -> [phase : BOOLEAN, data : D]],
           NEW p \in Position, NEW c \in Position,
           NEW fifo \in Seq(D), NEW d \in D,
           Holds(ring, p, c, fifo), Len(fifo) < Depth
    PROVE  /\ Write(ring, p, d) \in [Slots -> [phase : BOOLEAN, data : D]]
           /\ Advance(p) \in Position
           /\ Holds(Write(ring, p, d), Advance(p), c, Append(fifo, d))
<1> DEFINE n == Len(fifo)
           ring2 == Write(ring, p, d)
           p2 == Advance(p)
           fifo2 == Append(fifo, d)
<1>1. Depth \in Nat \ {0} /\ W \in Nat \ {0} /\ n \in Nat /\ n < Depth
  BY RingSizes
<1>2. c.idx \in Int /\ c.idx + n \in Int /\ c.idx + (n + 1) \in Int
  BY <1>1 DEF Position
<1>3. p.idx = (c.idx + n) % W /\ p.phase = PhaseOf(p.idx) /\ c.phase = PhaseOf(c.idx)
  BY DEF Holds
<1>4. /\ p2 \in Position /\ p2.idx = (p.idx + 1) % W /\ p2.phase = PhaseOf(p2.idx)
  BY <1>3, AdvanceLemma
<1>5. p2.idx = (c.idx + (n + 1)) % W
  <2>0. 1 \in Int
    OBVIOUS
  <2>1. (((c.idx + n) % W) + 1) % W = ((c.idx + n) + 1) % W
    BY <1>2, <2>0, WrapAdd, Zenon
  <2>2. (c.idx + n) + 1 = c.idx + (n + 1)
    BY <1>1, <1>2
  <2> QED
    BY <1>3, <1>4, <2>1, <2>2
<1>6. p.idx % Depth = (c.idx + n) % Depth /\ p.phase = PhaseOf(c.idx + n)
  BY <1>2, <1>3, WrapIndex, Zenon
<1>7. \A k \in Int : k % Depth \in Slots
  BY <1>1, DivMod, Zenon DEF Slots
<1>8. [phase |-> p.phase, data |-> d] \in [phase : BOOLEAN, data : D]
  BY DEF Position
<1>9. ring2 = [ring EXCEPT ![(c.idx + n) % Depth] = [phase |-> p.phase, data |-> d]]
  BY <1>6, Zenon DEF Write
<1>10. ring2 \in [Slots -> [phase : BOOLEAN, data : D]]
  BY <1>8, <1>9, Zenon
<1>11. /\ ring2[(c.idx + n) % Depth] = [phase |-> PhaseOf(c.idx + n), data |-> d]
  BY <1>2, <1>6, <1>7, <1>9
<1>12. ASSUME NEW k \in Slots, k # n
       PROVE  ring2[(c.idx + k) % Depth] = ring[(c.idx + k) % Depth]
  <2>1. k \in Int /\ c.idx + k \in Int /\ k < Depth /\ k >= 0
    BY <1>1, <1>2 DEF Slots
  <2>2. c.idx \in Int /\ n \in Int /\ n >= 0 /\ n < Depth /\ Depth \in Int
    BY <1>1, <1>2
  <2>3. k \in Int /\ k < Depth /\ k >= 0
    BY <2>1
  <2> HIDE DEF n
  <2>4. (c.idx + k) % Depth # (c.idx + n) % Depth
    <3>1. CASE k < n
      <4> DEFINE a == c.idx + k
                 b == c.idx + n
      <4>1. a \in Int /\ b \in Int /\ a < b /\ b - a < Depth
        BY ONLY <2>2, <2>3, <3>1
      <4> HIDE DEF a, b
      <4>2. Depth \in Nat \ {0}
        BY RingSizes
      <4>3. a % Depth # b % Depth
        BY ONLY <4>1, <4>2, ModClose, Zenon
      <4> QED
        BY <4>3 DEF a, b
    <3>2. CASE k > n
      <4> DEFINE a == c.idx + n
                 b == c.idx + k
      <4>1. a \in Int /\ b \in Int /\ a < b /\ b - a < Depth
        BY ONLY <2>2, <2>3, <3>2
      <4> HIDE DEF a, b
      <4>2. Depth \in Nat \ {0}
        BY RingSizes
      <4>3. a % Depth # b % Depth
        BY ONLY <4>1, <4>2, ModClose, Zenon
      <4> QED
        BY <4>3 DEF a, b
    <3> QED
      BY <1>12, <2>2, <2>3, <3>1, <3>2
  <2>5. (c.idx + k) % Depth \in Slots
    BY <1>7, <2>1
  <2> QED
    BY <1>9, <2>4, <2>5
<1>13. fifo2 \in Seq(D) /\ Len(fifo2) = n + 1 /\ fifo2[n + 1] = d
       /\ \A k \in Slots : k < n => fifo2[k + 1] = fifo[k + 1]
  BY <1>1 DEF Slots
<1> HIDE DEF n, ring2, p2, fifo2
<1>14. ASSUME NEW k \in Slots
       PROVE  LET e == ring2[(c.idx + k) % Depth]
              IN IF k < Len(fifo2)
                 THEN e = [phase |-> PhaseOf(c.idx + k), data |-> fifo2[k + 1]]
                 ELSE e.phase = ~PhaseOf(c.idx + k)
  <2>0. k \in Nat
    BY <1>1 DEF Slots
  <2>1. CASE k = n
    <3>1. k < Len(fifo2)
      BY <1>1, <1>13, <2>1
    <3> QED
      BY <1>11, <1>13, <2>1, <3>1
  <2>2. CASE k < n
    <3>1. k < Len(fifo2) /\ k # n
      BY <1>1, <1>13, <2>0, <2>2
    <3>2. ring[(c.idx + k) % Depth] = [phase |-> PhaseOf(c.idx + k), data |-> fifo[k + 1]]
      BY <2>2 DEF Holds, n
    <3> QED
      BY <1>12, <1>13, <2>2, <3>1, <3>2
  <2>3. CASE k > n
    <3>1. ~(k < Len(fifo2)) /\ k # n /\ ~(k < n)
      BY <1>1, <1>13, <2>0, <2>3
    <3>2. ring[(c.idx + k) % Depth].phase = ~PhaseOf(c.idx + k)
      BY <3>1, Zenon DEF Holds, n
    <3> QED
      BY <1>12, <3>1, <3>2
  <2> QED
    BY <1>1, <2>0, <2>1, <2>2, <2>3
<1>15. Len(fifo2) <= Depth /\ p2.idx = (c.idx + Len(fifo2)) % W
  BY <1>1, <1>5, <1>13
<1>16. Holds(ring2, p2, c, fifo2)
  BY <1>3, <1>4, <1>14, <1>15 DEF Holds
<1> QED
  BY <1>4, <1>10, <1>16 DEF ring2, p2, fifo2

\* The same for the entries of the ring.
LEMMA WriteHolds ==
    ASSUME NEW ring \in [Slots -> Entry], NEW p \in Position, NEW c \in Position,
           NEW fifo \in Seq(Data), NEW d \in Data,
           Holds(ring, p, c, fifo), Len(fifo) < Depth
    PROVE  /\ Write(ring, p, d) \in [Slots -> Entry]
           /\ Advance(p) \in Position
           /\ Holds(Write(ring, p, d), Advance(p), c, Append(fifo, d))
BY WriteHoldsAny DEF Entry

\* The guest sees an entry exactly when the queue is not empty, and takes the
\* one at its front.
LEMMA ReadHoldsAny ==
    ASSUME NEW D, NEW ring \in [Slots -> [phase : BOOLEAN, data : D]],
           NEW p \in Position, NEW c \in Position,
           NEW fifo \in Seq(D), Holds(ring, p, c, fifo)
    PROVE  /\ Ready(ring, c) <=> fifo # <<>>
           /\ fifo # <<>> => /\ ring[c.idx % Depth].data = Head(fifo)
                             /\ Advance(c) \in Position
                             /\ Holds(ring, p, Advance(c), Tail(fifo))
<1> DEFINE n == Len(fifo)
           c2 == Advance(c)
           fifo2 == Tail(fifo)
<1>1. Depth \in Nat \ {0} /\ W \in Nat \ {0} /\ n \in Nat /\ n <= Depth
  BY RingSizes DEF Holds
<1>2. c.idx \in Int /\ c.idx + 0 = c.idx /\ 0 \in Slots /\ c.phase \in BOOLEAN
  BY <1>1 DEF Position, Slots
<1>3. p.idx = (c.idx + n) % W /\ p.phase = PhaseOf(p.idx) /\ c.phase = PhaseOf(c.idx)
  BY DEF Holds
<1>4. n = 0 <=> fifo = <<>>
  OBVIOUS
<1>5. CASE n = 0
  <2>1. ~(0 < Len(fifo))
    BY <1>5
  <2>2. ring[(c.idx + 0) % Depth].phase = ~PhaseOf(c.idx + 0)
    BY <1>2, <2>1, Zenon DEF Holds
  <2>3. ~Ready(ring, c)
    BY <1>2, <1>3, <2>2 DEF Ready
  <2> QED
    BY <1>4, <1>5, <2>3
<1>6. CASE n # 0
  <2>1. 0 < Len(fifo) /\ 0 + 1 = 1
    BY <1>1, <1>6
  <2>2. ring[(c.idx + 0) % Depth] = [phase |-> PhaseOf(c.idx + 0), data |-> fifo[0 + 1]]
    BY <1>2, <2>1 DEF Holds
  <2>3. ring[c.idx % Depth].phase = PhaseOf(c.idx) /\ ring[c.idx % Depth].data = Head(fifo)
    BY <1>2, <2>1, <2>2
  <2>4. Ready(ring, c)
    BY <1>3, <2>3, Zenon DEF Ready
  <2>5. c2 \in Position /\ c2.idx = (c.idx + 1) % W /\ c2.phase = PhaseOf(c2.idx)
    BY <1>3, AdvanceLemma
  <2>6. /\ fifo2 \in Seq(D) /\ Len(fifo2) = n - 1
        /\ \A k \in Slots : k < n - 1 => fifo2[k + 1] = fifo[(k + 1) + 1]
    BY <1>1, <1>6 DEF Slots
  <2>7. /\ c.idx + 1 \in Int
        /\ \A k \in Int : /\ (c2.idx + k) % W = ((c.idx + 1) + k) % W
                          /\ (c2.idx + k) % Depth = ((c.idx + 1) + k) % Depth
                          /\ PhaseOf(c2.idx + k) = PhaseOf((c.idx + 1) + k)
    <3> DEFINE b == c.idx + 1
    <3>1. b \in Int /\ c2.idx = b % W
      BY <1>2, <2>5
    <3> HIDE DEF b
    <3>2. \A k \in Int : /\ ((b % W) + k) % W = (b + k) % W
                         /\ ((b % W) + k) % Depth = (b + k) % Depth
                         /\ PhaseOf((b % W) + k) = PhaseOf(b + k)
      BY <3>1, WrapAdd, Zenon
    <3> QED
      BY <3>1, <3>2, Zenon DEF b
  <2>8. p.idx = (c2.idx + (n - 1)) % W
    <3>1. n - 1 \in Int /\ (c.idx + 1) + (n - 1) = c.idx + n
      BY <1>1, <1>2
    <3> QED
      BY <1>3, <2>7, <3>1, Zenon
  <2> HIDE DEF n, c2, fifo2
  <2>9. ASSUME NEW k \in Slots
        PROVE  LET e == ring[(c2.idx + k) % Depth]
               IN IF k < Len(fifo2)
                  THEN e = [phase |-> PhaseOf(c2.idx + k), data |-> fifo2[k + 1]]
                  ELSE e.phase = ~PhaseOf(c2.idx + k)
    <3>0. /\ k \in Int /\ k \in Nat /\ k < Depth
          /\ \A a, b \in Int : (a + 1) + b = a + (b + 1)
      BY <1>1 DEF Slots
    <3>1. k \in Int /\ k \in Nat /\ k < Depth /\ (c.idx + 1) + k = c.idx + (k + 1)
      BY <1>2, <3>0, Zenon
    <3>2. /\ (c2.idx + k) % Depth = (c.idx + (k + 1)) % Depth
          /\ PhaseOf(c2.idx + k) = PhaseOf(c.idx + (k + 1))
      BY <2>7, <3>1
    <3>3. CASE k + 1 < Depth
      <4>1. k + 1 \in Slots
        BY <1>1, <3>1, <3>3 DEF Slots
      <4>2. (k < Len(fifo2)) <=> (k + 1 < n)
        BY <1>1, <2>6, <3>1
      <4>3. CASE k + 1 < n
        <5>1. ring[(c.idx + (k + 1)) % Depth]
                = [phase |-> PhaseOf(c.idx + (k + 1)), data |-> fifo[(k + 1) + 1]]
          BY <4>1, <4>3 DEF Holds, n
        <5>2. k < n - 1
          BY <1>1, <3>1, <4>3
        <5> QED
          BY <2>6, <3>2, <4>2, <4>3, <5>1, <5>2
      <4>4. CASE ~(k + 1 < n)
        <5>1. ring[(c.idx + (k + 1)) % Depth].phase = ~PhaseOf(c.idx + (k + 1))
          BY <4>1, <4>4, Zenon DEF Holds, n
        <5> QED
          BY <3>2, <4>2, <4>4, <5>1
      <4> QED
        BY <4>3, <4>4
    <3>4. CASE k + 1 = Depth
      <4>1. ~(k < Len(fifo2))
        BY <1>1, <2>6, <3>1, <3>4
      <4>2. /\ (c.idx + (k + 1)) % Depth = c.idx % Depth
            /\ PhaseOf(c.idx + (k + 1)) = ~PhaseOf(c.idx)
        BY <1>2, <3>4, NextLap
      <4>3. ring[(c2.idx + k) % Depth].phase = ~PhaseOf(c2.idx + k)
        BY <2>3, <3>2, <4>2, PhaseBoolean
      <4> QED
        BY <4>1, <4>3
    <3> QED
      BY <1>1, <3>1, <3>3, <3>4
  <2>10. Len(fifo2) <= Depth /\ p.idx = (c2.idx + Len(fifo2)) % W
    BY <1>1, <2>6, <2>8
  <2>11. Holds(ring, p, c2, fifo2)
    BY <1>3, <2>5, <2>9, <2>10 DEF Holds
  <2> QED
    BY <2>3, <2>4, <2>5, <2>11, <1>4, <1>6 DEF c2, fifo2
<1> QED
  BY <1>5, <1>6

\* The same for the entries of the ring.
LEMMA ReadHolds ==
    ASSUME NEW ring \in [Slots -> Entry], NEW p \in Position, NEW c \in Position,
           NEW fifo \in Seq(Data), Holds(ring, p, c, fifo)
    PROVE  /\ Ready(ring, c) <=> fifo # <<>>
           /\ fifo # <<>> => /\ ring[c.idx % Depth].data = Head(fifo)
                             /\ Advance(c) \in Position
                             /\ Holds(ring, p, Advance(c), Tail(fifo))
BY ReadHoldsAny DEF Entry

-----------------------------------------------------------------------------
\* A difference of indices may be taken before or after they wrap.
LEMMA SubMod ==
    ASSUME NEW a \in Int, NEW b \in Int
    PROVE  /\ ((a % W) - (b % W)) % W = (a - b) % W
           /\ (a - (b % W)) % W = (a - b) % W
<1> DEFINE q1 == a \div W
           r1 == a % W
           q2 == b \div W
           r2 == b % W
           q3 == (a - b) \div W
           r3 == (a - b) % W
<1>0. W \in Nat \ {0} /\ a - b \in Int
  BY RingSizes
<1>1. q1 \in Int /\ r1 \in Int /\ a = W * q1 + r1
  BY <1>0, DivMod
<1>2. q2 \in Int /\ r2 \in Int /\ b = W * q2 + r2
  BY <1>0, DivMod
<1>3. q3 \in Int /\ r3 \in 0..(W - 1) /\ a - b = W * q3 + r3
  BY <1>0, DivMod
<1> HIDE DEF q1, r1, q2, r2, q3, r3
<1>4. W * (q3 - q1 + q2) = W * q3 - W * q1 + W * q2 /\ q3 - q1 + q2 \in Int
  BY <1>0, <1>1, <1>2, <1>3
<1>5. W * (q3 + q2) = W * q3 + W * q2 /\ q3 + q2 \in Int
  BY <1>0, <1>2, <1>3
<1>6. r1 - r2 = W * (q3 - q1 + q2) + r3 /\ r1 - r2 \in Int
  BY <1>0, <1>1, <1>2, <1>3, <1>4
<1>7. a - r2 = W * (q3 + q2) + r3 /\ a - r2 \in Int
  BY <1>0, <1>2, <1>3, <1>5
<1>8. (r1 - r2) % W = r3
  BY <1>0, <1>3, <1>4, <1>6, ModUnique, Zenon
<1>9. (a - r2) % W = r3
  BY <1>0, <1>3, <1>5, <1>7, ModUnique, Zenon
<1> QED
  BY <1>8, <1>9 DEF r1, r2, r3

\* A number within the range of the indices is its own remainder.
LEMMA ModSmall ==
    ASSUME NEW a \in 0..(W - 1)
    PROVE  a % W = a
<1>1. a = W * 0 + a /\ a \in Int
  BY RingSizes
<1> QED
  BY <1>1, RingSizes, ModUnique

\* A ring has room for its entries twice over before an index comes back.
LEMMA DepthBelowW == Depth < W
<1>1. PICK m \in 1..W : W = m * (2 * Depth)
  BY RingAssumption
<1>2. Depth \in Nat \ {0} /\ W \in Nat \ {0} /\ m \in Nat /\ m >= 1
  BY <1>1, RingSizes
<1>3. m * (2 * Depth) >= 2 * Depth
  BY <1>2
<1> QED
  BY <1>1, <1>2, <1>3

\* The ring between the two positions says what fifo says: the difference of the
\* indices counts the entries and no entry is of another lap.
LEMMA ContentsHolds ==
    ASSUME NEW ring, NEW p, NEW c \in Position,
           NEW fifo \in Seq(Data), Holds(ring, p, c, fifo)
    PROVE  Contents(ring, p, c) = fifo
<1> DEFINE n == Len(fifo)
<1>1. /\ Depth \in Nat \ {0} /\ W \in Nat \ {0} /\ Depth < W /\ n \in Nat /\ n <= Depth
      /\ c.idx \in Int /\ p.idx = (c.idx + n) % W
  BY RingSizes, DepthBelowW DEF Holds, Position
<1> HIDE DEF n
<1>2. (p.idx - c.idx) % W = n
  <2>1. c.idx + n \in Int /\ c.idx \in 0..(W - 1)
    BY <1>1 DEF Position
  <2>2. c.idx % W = c.idx
    BY <2>1, ModSmall
  <2>3. (((c.idx + n) % W) - (c.idx % W)) % W = ((c.idx + n) - c.idx) % W
    BY <1>1, <2>1, SubMod, Zenon
  <2>4. (c.idx + n) - c.idx = n /\ n \in 0..(W - 1)
    BY <1>1
  <2>5. n % W = n
    BY <2>4, ModSmall
  <2> QED
    BY <1>1, <2>2, <2>3, <2>4, <2>5, Zenon
<1>3. ASSUME NEW k \in 1..n PROVE ring[(c.idx + (k - 1)) % Depth].data = fifo[k]
  <2>1. k - 1 \in Slots /\ k - 1 < n /\ (k - 1) + 1 = k
    BY <1>1 DEF Slots
  <2>2. ring[(c.idx + (k - 1)) % Depth]
          = [phase |-> PhaseOf(c.idx + (k - 1)), data |-> fifo[(k - 1) + 1]]
    BY <2>1 DEF Holds, n
  <2> QED
    BY <2>1, <2>2
<1>4. fifo = [k \in 1..n |-> fifo[k]]
  BY DEF n
<1>5. [k \in 1..n |-> ring[(c.idx + (k - 1)) % Depth].data] = [k \in 1..n |-> fifo[k]]
  BY <1>3, Zenon
<1> QED
  BY <1>2, <1>4, <1>5, Zenon DEF Contents
=============================================================================
