------------------------------- MODULE RingOps -------------------------------
(***************************************************************************)
(* The rings the device writes and the guest polls: the IO completion      *)
(* queues (ena_cq_push), the admin completion queue (ena_admin_process)    *)
(* and the event queue (ena_aenq_post).  All three work the same way: a    *)
(* 16-bit index that wraps on its own, an entry at index modulo depth, and *)
(* a phase that flips whenever the index comes back to the first slot.  No *)
(* index passes between the two sides: the guest takes an entry when its   *)
(* phase bit is the phase the guest has reached.  A position is an index   *)
(* and a phase; both sides keep one and advance it alike.                  *)
(***************************************************************************)
EXTENDS Integers, Sequences

CONSTANTS
    Depth,      \* entries of the ring
    W,          \* 2^16: the indices wrap here
    Data        \* what an entry says, its phase bit apart

\* Depths are powers of two up to 2^15, so an even number of laps fits in W.
ASSUME RingAssumption ==
    /\ Depth \in Nat \ {0}
    /\ W \in Nat
    /\ \E m \in 1..W : W = m * (2 * Depth)

Slots == 0..(Depth - 1)
Position == [idx : 0..(W - 1), phase : BOOLEAN]
Entry == [phase : BOOLEAN, data : Data]

\* The position of a ring that was just set up.
Start == [idx |-> 0, phase |-> TRUE]

\* Mutant: the phase never flips.
AdvanceNoFlip(p) == [idx |-> (p.idx + 1) % W, phase |-> p.phase]

\* The step of an index and its phase past one entry.
Advance(p) ==
    LET idx == (p.idx + 1) % W
    IN [idx |-> idx, phase |-> IF idx % Depth = 0 THEN ~p.phase ELSE p.phase]

\* The entry the device writes at its position.
Write(ring, p, d) ==
    [ring EXCEPT ![p.idx % Depth] = [phase |-> p.phase, data |-> d]]

\* The guest at position c finds an entry it has not taken yet.
Ready(ring, c) == ring[c.idx % Depth].phase = c.phase

\* The phase of the lap an index is on.
PhaseOf(idx) == idx % (2 * Depth) < Depth

\* The ring, read from the guest's position c up to the device's position p,
\* holds exactly the entries of fifo, and what lies beyond does not look new:
\* no entry is lost, repeated, reordered or taken early.
Holds(ring, p, c, fifo) ==
    /\ Len(fifo) <= Depth
    /\ p.idx = (c.idx + Len(fifo)) % W
    /\ p.phase = PhaseOf(p.idx)
    /\ c.phase = PhaseOf(c.idx)
    /\ \A k \in Slots :
         LET e == ring[(c.idx + k) % Depth]
         IN IF k < Len(fifo)
            THEN e = [phase |-> PhaseOf(c.idx + k), data |-> fifo[k + 1]]
            ELSE e.phase = ~PhaseOf(c.idx + k)

\* What the ring says from the guest's position c up to the device's position p.
Contents(ring, p, c) ==
    [k \in 1..((p.idx - c.idx) % W) |-> ring[(c.idx + (k - 1)) % Depth].data]
=============================================================================
