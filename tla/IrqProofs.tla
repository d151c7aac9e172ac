----------------------------- MODULE IrqProofs -----------------------------
(***************************************************************************)
(* Interrupts, for any set of vectors and CQs and any range of moderation  *)
(* delays: what the functions of hw/ena.c preserve (IrqOps), what the      *)
(* device keeps under any sequence of handlers (EnaVector), and that no    *)
(* wakeup is lost between it and the threads of the guest (IrqWakeup).     *)
(***************************************************************************)
EXTENDS IrqWakeup, TLAPS

\* The relation between mask, pending flags and timer that every function of
\* hw/ena.c keeps: the timer runs only while unmasked, and a pending flag on
\* an unmasked vector has the timer running.
Consistent(i) ==
    /\ Armed(i) => i.unmasked
    /\ i.unmasked /\ Pending(i) => Armed(i)

\* ena_dev_reset leaves a well-formed, masked, quiet vector.
LEMMA ResetLemma ==
    ASSUME NEW i, i.msix \in BOOLEAN
    PROVE  /\ IrqReset(i) \in Irq
           /\ Consistent(IrqReset(i))
           /\ ~Armed(IrqReset(i)) /\ ~Pending(IrqReset(i))
           /\ IrqReset(i).msix = i.msix
  BY MaxDelayAssumption DEF IrqReset, Irq, Consistent, Armed, Pending, NotArmed

\* ena_irq_fire sends the message and leaves the vector masked and quiet.
LEMMA FireLemma ==
    ASSUME NEW i \in Irq
    PROVE  /\ IrqFire(i) \in Irq
           /\ IrqFire(i).msix
           /\ ~IrqFire(i).unmasked
           /\ ~Armed(IrqFire(i)) /\ ~Pending(IrqFire(i))
  BY MaxDelayAssumption, Zenon DEF IrqFire, Irq, Armed, Pending, NotArmed

\* ena_irq_schedule sends the message at once or leaves the timer running, no
\* later than it was; with a delay it changes nothing else.
LEMMA ScheduleLemma ==
    ASSUME NEW i \in Irq, NEW delay \in 0..MaxDelay
    PROVE  LET new == IrqSchedule(i, delay) IN
           /\ new \in Irq
           /\ new = IrqFire(i) \/
              /\ Armed(new)
              /\ Armed(i) => new.moder_timer <= i.moder_timer
              /\ new.unmasked = i.unmasked
              /\ new.rx_pending = i.rx_pending
              /\ new.tx_pending = i.tx_pending
              /\ new.tx_delay_us = i.tx_delay_us
              /\ new.msix = i.msix
  <1>1. CASE delay = 0
    BY <1>1, FireLemma, Zenon DEF IrqSchedule
  <1>2. CASE delay # 0
    BY <1>2, MaxDelayAssumption
       DEF IrqSchedule, ModAnticipate, Irq, Armed, NotArmed
  <1>3. QED
    BY <1>1, <1>2, Zenon

\* ena_cq_intr keeps the vector consistent; the completion ends up in a sent
\* message, a running timer or, on a masked vector, a pending flag; what was
\* sent, running or pending before is not lost.
LEMMA CompletionLemma ==
    ASSUME NEW i \in Irq, NEW is_tx \in BOOLEAN
    PROVE  LET new == IrqCompletion(i, is_tx) IN
           /\ new \in Irq
           /\ Consistent(i) => Consistent(new)
           /\ i.unmasked => Armed(new) \/ new.msix
           /\ ~i.unmasked => Pending(new) /\ ~new.unmasked
           /\ Armed(i) \/ i.msix => Armed(new) \/ new.msix
           /\ i.msix => new.msix
           /\ ~i.msix /\ new.msix => i.unmasked /\ ~new.unmasked
           /\ new.unmasked => i.unmasked
           /\ i.unmasked /\ ~new.unmasked => new = IrqFire(i)
           /\ Armed(i) /\ Armed(new) => new.moder_timer <= i.moder_timer
  <1> DEFINE new == IrqCompletion(i, is_tx)
             delay == IF is_tx THEN i.tx_delay_us ELSE i.rx_delay_us
  <1>1. delay \in 0..MaxDelay
    BY Zenon DEF Irq
  <1>2. CASE i.unmasked
    <2>1. new = IrqSchedule(i, delay)
      BY <1>2, Zenon DEF IrqCompletion
    <2>2. CASE new = IrqFire(i)
      BY <1>1, <1>2, <2>2, FireLemma, Zenon DEF Consistent
    <2>3. CASE new # IrqFire(i)
      BY <1>1, <1>2, <2>1, <2>3, ScheduleLemma DEF Consistent, Pending
    <2>4. QED
      BY <2>2, <2>3, Zenon
  <1>3. CASE ~i.unmasked
    <2>1. /\ new \in Irq
          /\ new.unmasked = i.unmasked
          /\ new.moder_timer = i.moder_timer
          /\ new.msix = i.msix
          /\ is_tx => new.tx_pending
          /\ ~is_tx => new.rx_pending
      BY <1>3, Zenon DEF IrqCompletion, Irq
    <2>2. i.moder_timer \in Int
      BY MaxDelayAssumption DEF Irq, NotArmed
    <2>3. QED
      BY <1>3, <2>1, <2>2 DEF Consistent, Armed, Pending
  <1>4. QED
    BY <1>2, <1>3, Zenon

\* ena_cq_unmask_write keeps the vector consistent.  Unmasking turns every
\* pending flag into a sent message or a running timer, and never puts off a
\* timer that runs.
LEMMA UnmaskWriteLemma ==
    ASSUME NEW i \in Irq, NEW val \in UnmaskVal, Consistent(i)
    PROVE  LET new == IrqUnmaskWrite(i, val) IN
           /\ new \in Irq
           /\ Consistent(new)
           /\ i.msix => new.msix
           /\ val.unmask /\ (Pending(i) \/ Armed(i)) => Armed(new) \/ new.msix
           /\ val.unmask => new.unmasked \/ new.msix
           /\ Armed(new) \/ Pending(new) => Armed(i) \/ Pending(i)
           /\ val.unmask /\ ~new.unmasked => ~Armed(new) /\ ~Pending(new)
           /\ Armed(i) /\ Armed(new) => new.moder_timer <= i.moder_timer
  <1> DEFINE new  == IrqUnmaskWrite(i, val)
             base == [SetDelays(i, val) EXCEPT !.unmasked = val.unmask]
             mid  == ScheduleRx(base)
             Goal(n) ==
               /\ n \in Irq
               /\ Consistent(n)
               /\ i.msix => n.msix
               /\ val.unmask /\ (Pending(i) \/ Armed(i)) => Armed(n) \/ n.msix
               /\ val.unmask => n.unmasked \/ n.msix
               /\ Armed(n) \/ Pending(n) => Armed(i) \/ Pending(i)
               /\ val.unmask /\ ~n.unmasked => ~Armed(n) /\ ~Pending(n)
               /\ Armed(i) /\ Armed(n) => n.moder_timer <= i.moder_timer
  <1>1. SUFFICES Goal(new)
    BY Zenon
  <1>2. /\ base \in Irq
        /\ base.unmasked = val.unmask
        /\ base.rx_pending = i.rx_pending
        /\ base.tx_pending = i.tx_pending
        /\ base.moder_timer = i.moder_timer
        /\ base.msix = i.msix
    BY Zenon DEF SetDelays, Irq, UnmaskVal
  <1>3. new = IF val.unmask THEN ScheduleTx(mid)
              ELSE [base EXCEPT !.moder_timer = NotArmed]
    BY Zenon DEF IrqUnmaskWrite
  <1>4. mid = IF base.rx_pending THEN IrqSchedule(base, base.rx_delay_us) ELSE base
    BY Zenon DEF ScheduleRx
  <1> HIDE DEF new, base, mid
  <1>5. i.moder_timer \in Int
    BY MaxDelayAssumption DEF Irq, NotArmed
  <1>a. i.moder_timer <= i.moder_timer
    BY <1>5
  <1>6. CASE val.unmask
    <2>1. /\ mid \in Irq
          /\ \/ mid = IrqFire(base) /\ i.rx_pending
             \/ /\ mid.unmasked
                /\ mid.rx_pending = i.rx_pending
                /\ mid.tx_pending = i.tx_pending
                /\ mid.msix = i.msix
                /\ i.rx_pending => Armed(mid)
                /\ ~i.rx_pending => mid.moder_timer = i.moder_timer
                /\ Armed(i) => Armed(mid) /\ mid.moder_timer <= i.moder_timer
      <3>1. CASE i.rx_pending
        <4>1. mid = IrqSchedule(base, base.rx_delay_us)
          BY <1>2, <1>4, <3>1, Zenon
        <4>2. base.rx_delay_us \in 0..MaxDelay
          BY <1>2, Zenon DEF Irq
        <4>3. mid \in Irq /\ (mid = IrqFire(base) \/
              /\ Armed(mid)
              /\ Armed(base) => mid.moder_timer <= base.moder_timer
              /\ mid.unmasked = base.unmasked
              /\ mid.rx_pending = base.rx_pending
              /\ mid.tx_pending = base.tx_pending
              /\ mid.msix = base.msix)
          BY <1>2, <4>1, <4>2, ScheduleLemma, Zenon
        <4>4. QED
          BY <1>2, <1>6, <3>1, <4>3, Zenon DEF Armed
      <3>2. CASE ~i.rx_pending
        <4>1. mid = base
          BY <1>2, <1>4, <3>2, Zenon
        <4>2. QED
          BY <1>2, <1>a, <1>6, <3>2, <4>1, Zenon DEF Armed
      <3>3. QED
        BY <3>1, <3>2, Zenon
    <2>2. mid.tx_delay_us \in 0..MaxDelay
      BY <2>1, Zenon DEF Irq
    <2>3. new = IF mid.tx_pending THEN IrqSchedule(mid, mid.tx_delay_us) ELSE mid
      BY <1>3, <1>6, Zenon DEF ScheduleTx
    <2>4. CASE mid = IrqFire(base) /\ i.rx_pending
      <3>1. /\ mid.msix /\ ~mid.unmasked /\ ~mid.tx_pending
            /\ ~Armed(mid) /\ ~Pending(mid)
        BY <1>2, <2>4, FireLemma, Zenon DEF Pending
      <3>2. new = mid
        BY <2>3, <3>1, Zenon
      <3>3. QED
        BY <2>1, <2>4, <3>1, <3>2, Zenon DEF Consistent, Pending
    <2>5. CASE i.tx_pending /\ ~(mid = IrqFire(base) /\ i.rx_pending)
      <3>1. new = IrqSchedule(mid, mid.tx_delay_us)
        BY <2>1, <2>3, <2>5, Zenon
      <3>2. CASE new = IrqFire(mid)
        <4>1. /\ new \in Irq /\ new.msix /\ ~new.unmasked
              /\ ~Armed(new) /\ ~Pending(new)
          BY <2>1, <3>2, FireLemma, Zenon
        <4>2. QED
          BY <2>5, <4>1, Zenon DEF Consistent
      <3>3. CASE new # IrqFire(mid)
        <4>1. /\ new \in Irq
              /\ Armed(new)
              /\ Armed(mid) => new.moder_timer <= mid.moder_timer
              /\ new.unmasked = mid.unmasked
              /\ new.rx_pending = mid.rx_pending
              /\ new.tx_pending = mid.tx_pending
              /\ new.msix = mid.msix
          BY <2>1, <2>2, <3>1, <3>3, ScheduleLemma, Zenon
        <4>2. new.moder_timer \in Int /\ mid.moder_timer \in Int
          BY <2>1, <4>1, MaxDelayAssumption DEF Irq, NotArmed
        <4>3. ASSUME Armed(mid), mid.moder_timer <= i.moder_timer
              PROVE  new.moder_timer <= i.moder_timer
          BY <1>5, <4>1, <4>2, <4>3
        <4>4. QED
          BY <2>1, <2>5, <4>1, <4>3, Zenon DEF Consistent, Pending
      <3>4. QED
        BY <3>2, <3>3, Zenon
    <2>6. CASE ~i.tx_pending /\ ~(mid = IrqFire(base) /\ i.rx_pending)
      <3>1. new = mid
        BY <2>1, <2>3, <2>6, Zenon
      <3>2. QED
        BY <2>1, <2>6, <3>1, Zenon DEF Consistent, Pending, Armed
    <2>7. QED
      BY <2>4, <2>5, <2>6, Zenon
  <1>7. CASE ~val.unmask
    <2>1. new = [base EXCEPT !.moder_timer = NotArmed]
      BY <1>3, <1>7, Zenon
    <2>2. QED
      BY <1>2, <1>7, <2>1, Zenon DEF Consistent, Pending, Armed, Irq
  <1>8. QED
    BY <1>6, <1>7, Zenon

\* A tick brings a running timer closer and changes nothing else.
LEMMA TickLemma ==
    ASSUME NEW i \in Irq
    PROVE  LET new == IrqTick(i) IN
           /\ new \in Irq
           /\ new.unmasked = i.unmasked
           /\ new.rx_pending = i.rx_pending
           /\ new.tx_pending = i.tx_pending
           /\ new.msix = i.msix
           /\ Armed(new) <=> Armed(i)
           /\ new.moder_timer <= i.moder_timer
  BY MaxDelayAssumption DEF IrqTick, Irq, Armed, NotArmed

-----------------------------------------------------------------------------
(* EnaVector: the device alone. *)

\* The type invariant and the three safety invariants of EnaVector, vector by
\* vector; together they are inductive.
VecInv ==
    /\ irq \in [Vectors -> Irq] /\ binding \in [Cqs -> CqBinding] /\ unsig \subseteq Vectors
    /\ \A v \in Vectors :
        Consistent(irq[v]) /\ (Armed(irq[v]) \/ Pending(irq[v]) => v \in unsig)

\* The invariant says what EnaVector checks.
LEMMA VecInvMeans ==
    VecInv => /\ VectorTypeOK /\ TimerOnlyUnmasked
              /\ PendingScheduled /\ NoSpuriousInterrupt
  BY Zenon DEF VecInv, VectorTypeOK, TimerOnlyUnmasked, PendingScheduled,
     NoSpuriousInterrupt, Consistent

\* A step that replaces the state of one vector keeps the invariant when the
\* new state is consistent and owes an interrupt only for a completion.
LEMMA VecOneVector ==
    ASSUME VecInv, NEW v \in Vectors, NEW new \in Irq,
           irq' = [irq EXCEPT ![v] = new],
           Consistent(new),
           unsig' \subseteq Vectors, unsig \ {v} \subseteq unsig',
           Armed(new) \/ Pending(new) => v \in unsig',
           binding' \in [Cqs -> CqBinding]
    PROVE  VecInv'
  <1>1. irq' \in [Vectors -> Irq]
    BY Zenon DEF VecInv
  <1>2. \A w \in Vectors : irq'[w] = IF w = v THEN new ELSE irq[w]
    BY Zenon DEF VecInv
  <1>3. ASSUME NEW w \in Vectors
        PROVE  Consistent(irq'[w]) /\ (Armed(irq'[w]) \/ Pending(irq'[w]) => w \in unsig')
    BY <1>2, <1>3, Zenon DEF VecInv
  <1>4. QED
    BY <1>1, <1>3, Zenon DEF VecInv

\* The vectors as ena_realize leaves them.
LEMMA VecInitInv == VectorInit => VecInv
  <1>1. /\ NewIrq \in Irq /\ ~Armed(NewIrq) /\ ~Pending(NewIrq)
    <2> DEFINE quiet == [msix |-> FALSE]
    <2>1. quiet.msix \in BOOLEAN /\ NewIrq = IrqReset(quiet)
      BY Zenon DEF NewIrq
    <2> HIDE DEF quiet
    <2>2. QED
      BY <2>1, ResetLemma
  <1>2. Unbound \in CqBinding
    BY Zenon DEF Unbound, CqBinding
  <1>3. QED
    BY <1>1, <1>2, Zenon DEF VectorInit, VecInv, Consistent

\* A completion leaves its vector with a message or with something that will
\* raise one, and is unsignalled until then.
LEMMA VecCqIntrInv ==
    ASSUME VecInv, NEW c \in Cqs, NEW is_tx \in BOOLEAN, CqIntr(c, is_tx)
    PROVE  VecInv'
  <1> DEFINE v   == binding[c].msix_vector
             new == IrqCompletion(irq[v], is_tx)
  <1>1. v \in Vectors
    BY Zenon DEF CqIntr, HasVector
  <1>2. /\ irq' = [irq EXCEPT ![v] = new]
        /\ unsig' = IF irq[v].unmasked /\ ~new.unmasked
                    THEN unsig \ {v} ELSE unsig \cup {v}
        /\ binding' = binding
    BY Zenon DEF CqIntr
  <1> HIDE DEF v
  <1>3. /\ irq[v] \in Irq /\ Consistent(irq[v])
        /\ Armed(irq[v]) \/ Pending(irq[v]) => v \in unsig
    BY <1>1, Zenon DEF VecInv
  <1>4. /\ new \in Irq /\ Consistent(new)
        /\ irq[v].unmasked /\ ~new.unmasked => new = IrqFire(irq[v])
    BY <1>3, CompletionLemma, Zenon
  <1>5. irq[v].unmasked /\ ~new.unmasked => ~Armed(new) /\ ~Pending(new)
    BY <1>3, <1>4, FireLemma, Zenon
  <1> HIDE DEF new
  <1>6. /\ unsig' \subseteq Vectors /\ unsig \ {v} \subseteq unsig'
        /\ binding' \in [Cqs -> CqBinding]
    BY <1>1, <1>2, Zenon DEF VecInv
  <1>7. Armed(new) \/ Pending(new) => v \in unsig'
    BY <1>1, <1>2, <1>5, Zenon
  <1>8. QED
    BY <1>1, <1>2, <1>4, <1>6, <1>7, VecOneVector, Zenon

\* A write of the unmask register raises only what was owed.
LEMMA VecCqUnmaskWriteInv ==
    ASSUME VecInv, NEW c \in Cqs, NEW val \in UnmaskVal, CqUnmaskWrite(c, val)
    PROVE  VecInv'
  <1> DEFINE v   == binding[c].msix_vector
             new == IrqUnmaskWrite(irq[v], val)
  <1>1. v \in Vectors
    BY Zenon DEF CqUnmaskWrite, HasVector
  <1>2. /\ irq' = [irq EXCEPT ![v] = new]
        /\ unsig' = IF val.unmask /\ ~new.unmasked THEN unsig \ {v} ELSE unsig
        /\ binding' = binding
    BY Zenon DEF CqUnmaskWrite
  <1> HIDE DEF v
  <1>3. /\ irq[v] \in Irq /\ Consistent(irq[v])
        /\ Armed(irq[v]) \/ Pending(irq[v]) => v \in unsig
    BY <1>1, Zenon DEF VecInv
  <1>4. /\ new \in Irq /\ Consistent(new)
        /\ Armed(new) \/ Pending(new) => Armed(irq[v]) \/ Pending(irq[v])
        /\ val.unmask /\ ~new.unmasked => ~Armed(new) /\ ~Pending(new)
    BY <1>3, UnmaskWriteLemma, Zenon
  <1> HIDE DEF new
  <1>5. /\ unsig' \subseteq Vectors /\ unsig \ {v} \subseteq unsig'
        /\ binding' \in [Cqs -> CqBinding]
    BY <1>1, <1>2, Zenon DEF VecInv
  <1>6. Armed(new) \/ Pending(new) => v \in unsig'
    BY <1>1, <1>2, <1>3, <1>4, Zenon
  <1>7. QED
    BY <1>1, <1>2, <1>4, <1>5, <1>6, VecOneVector, Zenon

\* The timer of a vector expires, or the guest takes its message.
LEMMA VecStepInv ==
    ASSUME VecInv, NEW v \in Vectors, ModerTimer(v) \/ TakeMessage(v)
    PROVE  VecInv'
  <1>0. /\ irq[v] \in Irq /\ Consistent(irq[v])
        /\ Armed(irq[v]) \/ Pending(irq[v]) => v \in unsig
        /\ binding \in [Cqs -> CqBinding] /\ unsig \subseteq Vectors
    BY Zenon DEF VecInv
  <1>1. CASE ModerTimer(v)
    <2>1. /\ IrqFire(irq[v]) \in Irq
          /\ ~Armed(IrqFire(irq[v])) /\ ~Pending(IrqFire(irq[v]))
      BY <1>0, FireLemma, Zenon
    <2>2. Consistent(IrqFire(irq[v]))
      BY <2>1, Zenon DEF Consistent
    <2>3. irq' = [irq EXCEPT ![v] = IrqFire(irq[v])] /\ unsig' = unsig \ {v} /\ binding' = binding
      BY <1>1, Zenon DEF ModerTimer
    <2>4. unsig' \subseteq Vectors /\ unsig \ {v} \subseteq unsig' /\ binding' \in [Cqs -> CqBinding]
      BY <1>0, <2>3, Zenon
    <2>5. QED
      BY <2>1, <2>2, <2>3, <2>4, VecOneVector, Zenon
  <1>2. CASE TakeMessage(v)
    <2> DEFINE new == [irq[v] EXCEPT !.msix = FALSE]
    <2>1. irq' = [irq EXCEPT ![v] = new] /\ unsig' = unsig /\ binding' = binding
      BY <1>2, Zenon DEF TakeMessage, VecInv
    <2>2. /\ new \in Irq
          /\ new.unmasked = irq[v].unmasked /\ new.moder_timer = irq[v].moder_timer
          /\ new.rx_pending = irq[v].rx_pending /\ new.tx_pending = irq[v].tx_pending
      BY <1>0, Zenon DEF Irq
    <2> HIDE DEF new
    <2>3. Consistent(new) /\ (Armed(new) \/ Pending(new) => v \in unsig)
      BY <1>0, <2>2, Zenon DEF Consistent, Armed, Pending
    <2>4. unsig' \subseteq Vectors /\ unsig \ {v} \subseteq unsig' /\ binding' \in [Cqs -> CqBinding]
      BY <1>0, <2>1, Zenon
    <2>5. QED
      BY <2>1, <2>2, <2>3, <2>4, VecOneVector, Zenon
  <1>3. QED
    BY <1>1, <1>2, Zenon

\* The clock moves, or the device is reset: all vectors at once.
LEMMA VecAllInv ==
    ASSUME VecInv, Tick \/ ResetVectors
    PROVE  VecInv'
  <1>1. CASE Tick
    <2>1. irq' = [v \in Vectors |-> IrqTick(irq[v])] /\ unsig' = unsig /\ binding' = binding
      BY <1>1, Zenon DEF Tick
    <2>2. ASSUME NEW v \in Vectors
          PROVE  /\ irq'[v] \in Irq
                 /\ Consistent(irq'[v])
                 /\ Armed(irq'[v]) \/ Pending(irq'[v]) => v \in unsig
      <3>1. irq'[v] = IrqTick(irq[v]) /\ irq[v] \in Irq
        BY <2>1, Zenon DEF VecInv
      <3>2. QED
        BY <3>1, TickLemma DEF Consistent, Pending, VecInv
    <2>3. QED
      BY <2>1, <2>2, Zenon DEF VecInv
  <1>2. CASE ResetVectors
    <2>1. irq' = [v \in Vectors |-> IrqReset(irq[v])] /\ unsig' = {}
      BY <1>2, Zenon DEF ResetVectors
    <2>2. binding' \in [Cqs -> CqBinding]
      BY <1>2, Zenon DEF ResetVectors, Unbound, CqBinding
    <2>3. ASSUME NEW v \in Vectors
          PROVE  /\ irq'[v] \in Irq /\ Consistent(irq'[v])
                 /\ ~Armed(irq'[v]) /\ ~Pending(irq'[v])
      <3>1. irq[v].msix \in BOOLEAN
        BY Zenon DEF VecInv, Irq
      <3>2. QED
        BY <2>1, <3>1, ResetLemma
    <2>4. QED
      BY <2>1, <2>2, <2>3, Zenon DEF VecInv
  <1>3. QED
    BY <1>1, <1>2, Zenon

\* Creating or destroying a queue leaves the vectors alone.
LEMMA VecQueueInv ==
    ASSUME VecInv, NEW c \in Cqs,
           \/ UnbindCq(c)
           \/ \E intr \in BOOLEAN, v \in Vectors \cup {NoVector} : BindCq(c, intr, v)
    PROVE  VecInv'
  <1>1. irq' = irq /\ unsig' = unsig
    BY Zenon DEF UnbindCq, BindCq
  <1>2. binding' \in [Cqs -> CqBinding]
    <2>1. CASE UnbindCq(c)
      BY <2>1, Zenon DEF UnbindCq, VecInv, CqBinding
    <2>2. ASSUME NEW intr \in BOOLEAN, NEW v \in Vectors \cup {NoVector},
                 BindCq(c, intr, v)
          PROVE  binding' \in [Cqs -> CqBinding]
      BY <2>2, Zenon DEF BindCq, VecInv, CqBinding
    <2>3. QED
      BY <2>1, <2>2, Zenon
  <1>3. QED
    BY <1>1, <1>2, Zenon DEF VecInv

\* Every handler keeps the invariant.
LEMMA VecNextInv == VecInv /\ [VectorNext]_vectors => VecInv'
  <1> SUFFICES ASSUME VecInv, [VectorNext]_vectors PROVE VecInv'
    BY Zenon
  <1>1. ASSUME NEW c \in Cqs, NEW is_tx \in BOOLEAN, CqIntr(c, is_tx) PROVE VecInv'
    BY <1>1, VecCqIntrInv, Zenon
  <1>2. ASSUME NEW c \in Cqs, NEW val \in UnmaskVal, CqUnmaskWrite(c, val)
        PROVE  VecInv'
    BY <1>2, VecCqUnmaskWriteInv, Zenon
  <1>3. ASSUME NEW c \in Cqs,
               \/ UnbindCq(c)
               \/ \E intr \in BOOLEAN, v \in Vectors \cup {NoVector} : BindCq(c, intr, v)
        PROVE  VecInv'
    BY <1>3, VecQueueInv, Zenon
  <1>4. ASSUME NEW v \in Vectors, ModerTimer(v) \/ TakeMessage(v) PROVE VecInv'
    BY <1>4, VecStepInv, Zenon
  <1>5. CASE Tick \/ ResetVectors
    BY <1>5, VecAllInv, Zenon
  <1>6. CASE UNCHANGED vectors
    BY <1>6, Zenon DEF vectors, VecInv
  <1>7. QED
    BY <1>1, <1>2, <1>3, <1>4, <1>5, <1>6, Zenon DEF VectorNext

\* In every reachable state of the interrupt code a moderation timer runs only
\* on an unmasked vector, a pending completion on an unmasked vector has its
\* timer running, and whatever will raise an interrupt stands for a completion
\* no earlier interrupt covered.
THEOREM VectorSafety ==
    VectorSpec => [](/\ VectorTypeOK /\ TimerOnlyUnmasked
                   /\ PendingScheduled /\ NoSpuriousInterrupt)
BY VecInvMeans, VecInitInv, VecNextInv, PTL DEF VectorSpec

\* No moderation timer runs on a masked vector.
THEOREM TimersUnmasked == VectorSpec => []TimerOnlyUnmasked
BY VectorSafety, PTL

\* ena_irq_fire is never due without a completion that it signals.
THEOREM InterruptsFounded == VectorSpec => []NoSpuriousInterrupt
BY VectorSafety, PTL

\* One step of the interrupt code never moves a running timer to a later time.
Closer ==
    \A v \in Vectors :
        Armed(irq[v]) /\ Armed(irq'[v]) => irq'[v].moder_timer <= irq[v].moder_timer

\* No handler postpones an interrupt that is due.
LEMMA TimerStep == VecInv /\ [VectorNext]_vectors => Closer
  <1> SUFFICES ASSUME VecInv, [VectorNext]_vectors, NEW v \in Vectors,
                      Armed(irq[v]), Armed(irq'[v])
               PROVE  irq'[v].moder_timer <= irq[v].moder_timer
    BY Zenon DEF Closer
  <1>1. irq[v] \in Irq /\ Consistent(irq[v]) /\ DOMAIN irq = Vectors
    BY Zenon DEF VecInv
  <1>2. irq[v].moder_timer <= irq[v].moder_timer
    BY <1>1, MaxDelayAssumption DEF Irq, NotArmed
  <1>3. ASSUME irq'[v] = irq[v]
        PROVE  irq'[v].moder_timer <= irq[v].moder_timer
    BY <1>2, <1>3, Zenon
  <1>4. ASSUME NEW c \in Cqs, NEW is_tx \in BOOLEAN, CqIntr(c, is_tx)
        PROVE  irq'[v].moder_timer <= irq[v].moder_timer
    <2>1. irq' = [irq EXCEPT ![binding[c].msix_vector] =
                          IrqCompletion(irq[binding[c].msix_vector], is_tx)]
      BY <1>4, Zenon DEF CqIntr
    <2>2. CASE binding[c].msix_vector = v
      <3>1. irq'[v] = IrqCompletion(irq[v], is_tx)
        BY <1>1, <2>1, <2>2, Zenon
      <3>2. QED
        BY <1>1, <3>1, CompletionLemma
    <2>3. CASE binding[c].msix_vector # v
      BY <1>1, <1>3, <2>1, <2>3, Zenon
    <2>4. QED
      BY <2>2, <2>3, Zenon
  <1>5. ASSUME NEW c \in Cqs, NEW val \in UnmaskVal, CqUnmaskWrite(c, val)
        PROVE  irq'[v].moder_timer <= irq[v].moder_timer
    <2>1. irq' = [irq EXCEPT ![binding[c].msix_vector] =
                          IrqUnmaskWrite(irq[binding[c].msix_vector], val)]
      BY <1>5, Zenon DEF CqUnmaskWrite
    <2>2. CASE binding[c].msix_vector = v
      <3>1. irq'[v] = IrqUnmaskWrite(irq[v], val) /\ val \in UnmaskVal
        BY <1>1, <2>1, <2>2, Zenon
      <3>2. QED
        BY <1>1, <3>1, UnmaskWriteLemma
    <2>3. CASE binding[c].msix_vector # v
      BY <1>1, <1>3, <2>1, <2>3, Zenon
    <2>4. QED
      BY <2>2, <2>3, Zenon
  <1>6. ASSUME NEW w \in Vectors, ModerTimer(w)
        PROVE  irq'[v].moder_timer <= irq[v].moder_timer
    <2>1. irq' = [irq EXCEPT ![w] = IrqFire(irq[w])]
      BY <1>6, Zenon DEF ModerTimer
    <2>2. v # w
      BY <1>1, <2>1, FireLemma, Zenon
    <2>3. QED
      BY <1>1, <1>3, <2>1, <2>2, Zenon
  <1>7. ASSUME NEW w \in Vectors, TakeMessage(w)
        PROVE  irq'[v].moder_timer <= irq[v].moder_timer
    <2>1. irq'[v].moder_timer = irq[v].moder_timer
      BY <1>1, <1>7, Zenon DEF TakeMessage, Irq
    <2>2. QED
      BY <1>2, <2>1, Zenon
  <1>8. CASE Tick
    <2>1. irq'[v] = IrqTick(irq[v])
      BY <1>8, Zenon DEF Tick
    <2>2. QED
      BY <1>1, <2>1, TickLemma, Zenon
  <1>9. CASE ResetVectors
    <2>1. irq'[v] = IrqReset(irq[v]) /\ irq[v].msix \in BOOLEAN
      BY <1>1, <1>9, Zenon DEF ResetVectors, Irq
    <2>2. QED
      BY <2>1, ResetLemma
  <1>10. ASSUME irq' = irq
         PROVE  irq'[v].moder_timer <= irq[v].moder_timer
    BY <1>3, <1>10, Zenon
  <1>11. QED
    BY <1>4, <1>5, <1>6, <1>7, <1>8, <1>9, <1>10, Zenon
       DEF VectorNext, vectors, BindCq, UnbindCq

\* Once ena_irq_schedule has armed a moderation timer, no completion, register
\* write or queue change makes its interrupt later.
THEOREM InterruptNeverPostponed == VectorSpec => NeverPostponed
  <1>1. VecInv /\ [VectorNext]_vectors =>
            [\A v \in Vectors : Armed(irq[v]) /\ Armed(irq'[v]) =>
                irq'[v].moder_timer <= irq[v].moder_timer]_vectors
    BY TimerStep, Zenon DEF Closer
  <1>2. QED
    BY <1>1, VecInitInv, VecNextInv, PTL DEF VectorSpec, NeverPostponed

-----------------------------------------------------------------------------
(* IrqWakeup: the guest runs beside the handlers. *)

\* A sleeping thread left its vector unmasked, or a message is waiting for it.
WaitArmed ==
    \A v \in Vectors : thread[v] = "wait" => irq[v].unmasked \/ irq[v].msix

\* Only existing CQs hold unread completions or are being pushed to.
UnreadUsed ==
    /\ \A c \in unread : binding[c].used
    /\ handler.busy => binding[handler.cq].used

VectorsConsistent == \A v \in Vectors : Consistent(irq[v])

\* The types, but for the history.
WakeupTypes ==
    /\ irq \in [Vectors -> Irq]
    /\ binding \in [Cqs -> CqBinding]
    /\ handler \in {NoHandler} \cup [busy : {TRUE}, cq : Cqs, is_tx : BOOLEAN]
    /\ unread \subseteq Cqs
    /\ thread \in [Vectors -> {"poll", "wait", "mask"}]
    /\ todo \in [Vectors -> SUBSET Cqs]

\* What a sleeping thread, or one that has looked at c, can count on.
IInv ==
    /\ WakeupTypes
    /\ VectorsConsistent
    /\ WaitArmed
    /\ UnreadUsed
    /\ NoLostWakeup
    /\ LateCompletionPending

\* Nothing is owed to the guest when it starts.
LEMMA InitInv == WakeupInit => IInv
  <1> SUFFICES ASSUME WakeupInit PROVE IInv
    BY Zenon
  <1> DEFINE new == IrqReset([msix |-> FALSE])
  <1>1. new \in Irq /\ Consistent(new)
    BY MaxDelayAssumption DEF IrqReset, Irq, Consistent, Armed, Pending, NotArmed
  <1> HIDE DEF new
  <1>2. irq = [v \in Vectors |-> new]
    BY Zenon DEF WakeupInit, VectorInit, NewIrq, new
  <1>3. Unbound \in CqBinding
    BY Zenon DEF Unbound, CqBinding
  <1>4. WakeupTypes
    BY <1>1, <1>2, <1>3, Zenon DEF WakeupInit, VectorInit, WakeupTypes
  <1>5. VectorsConsistent
    BY <1>1, <1>2, Zenon DEF VectorsConsistent
  <1>6. WaitArmed
    BY Zenon DEF WakeupInit, VectorInit, WaitArmed
  <1>7. UnreadUsed
    BY Zenon DEF WakeupInit, VectorInit, UnreadUsed, NoHandler
  <1>8. NoLostWakeup /\ LateCompletionPending
    BY Zenon DEF WakeupInit, VectorInit, NoLostWakeup, LateCompletionPending
  <1>9. QED
    BY <1>4, <1>5, <1>6, <1>7, <1>8, Zenon DEF IInv

\* Facts about one vector.
LEMMA VectorInv ==
    ASSUME IInv, NEW v \in Vectors
    PROVE  irq[v] \in Irq /\ Consistent(irq[v])
  BY Zenon DEF IInv, WakeupTypes, VectorsConsistent

\* A running handler works on a CQ.
LEMMA HandlerType ==
    ASSUME IInv, handler.busy
    PROVE  handler.cq \in Cqs /\ handler.is_tx \in BOOLEAN
  <1>1. handler # NoHandler
    BY DEF NoHandler
  <1>2. handler \in [busy : {TRUE}, cq : Cqs, is_tx : BOOLEAN]
    BY <1>1, Zenon DEF IInv, WakeupTypes
  <1>3. QED
    BY <1>2, Zenon

\* A push makes a completion readable and still has ena_cq_intr to come.
LEMMA PushInv ==
    ASSUME IInv, NEW c \in Cqs, NEW is_tx \in BOOLEAN, Push(c, is_tx)
    PROVE  IInv'
  <1>1. /\ irq' = irq /\ binding' = binding /\ thread' = thread /\ todo' = todo
        /\ handler = NoHandler /\ binding[c].used
        /\ handler' = [busy |-> TRUE, cq |-> c, is_tx |-> is_tx]
        /\ unread' = unread \cup {c}
    BY Zenon DEF Push, vectors, Bql
  <1>2. IntrComing(c)' /\ \A d \in Cqs : ~IntrComing(d)
    BY <1>1, Zenon DEF IntrComing, NoHandler
  <1>3. WakeupTypes'
    BY <1>1, Zenon DEF IInv, WakeupTypes
  <1>4. VectorsConsistent' /\ WaitArmed'
    BY <1>1, Zenon DEF IInv, VectorsConsistent, WaitArmed
  <1>5. UnreadUsed'
    BY <1>1, Zenon DEF IInv, UnreadUsed
  <1>6. NoLostWakeup'
    BY <1>1, <1>2, Zenon DEF IInv, NoLostWakeup, CqsOf, MessageComing
  <1>7. LateCompletionPending'
    BY <1>1, <1>2, Zenon DEF IInv, LateCompletionPending, CqsOf, MessageComing
  <1>8. QED
    BY <1>3, <1>4, <1>5, <1>6, <1>7, Zenon DEF IInv

\* A completion on a vector that owes one already.
LEMMA PushMoreInv ==
    ASSUME IInv, PushMore
    PROVE  IInv'
  <1>1. /\ irq' = irq /\ binding' = binding /\ thread' = thread /\ todo' = todo
        /\ handler' = handler /\ handler.busy
        /\ unread' = unread \cup {handler.cq}
    BY Zenon DEF PushMore, vectors
  <1>2. handler.cq \in Cqs
    BY <1>1, HandlerType, Zenon
  <1>3. WakeupTypes'
    BY <1>1, <1>2, Zenon DEF IInv, WakeupTypes
  <1>4. VectorsConsistent' /\ WaitArmed'
    BY <1>1, Zenon DEF IInv, VectorsConsistent, WaitArmed
  <1>5. UnreadUsed'
    BY <1>1, Zenon DEF IInv, UnreadUsed
  <1>6. NoLostWakeup'
    BY <1>1, Zenon DEF IInv, NoLostWakeup, CqsOf, MessageComing, IntrComing
  <1>7. LateCompletionPending'
    BY <1>1, Zenon DEF IInv, LateCompletionPending, CqsOf, MessageComing, IntrComing
  <1>8. QED
    BY <1>3, <1>4, <1>5, <1>6, <1>7, Zenon DEF IInv

\* ena_cq_intr turns "the handler will call it" into a pending flag, a running
\* timer or a message, and takes none of those away from other CQs.
LEMMA HandlerEndsInv ==
    ASSUME IInv, HandlerEnds
    PROVE  IInv'
  <1> DEFINE d  == handler.cq
             w  == binding[d].msix_vector
             tx == handler.is_tx
  <1>1. /\ binding' = binding /\ unread' = unread /\ thread' = thread /\ todo' = todo
        /\ handler.busy /\ handler' = NoHandler
        /\ irq' = IF HasVector(binding[d]) THEN [irq EXCEPT ![w] = IrqCompletion(irq[w], tx)]
                  ELSE irq
    BY Zenon DEF HandlerEnds, CqIntr, vectors, guest
  <1>2. d \in Cqs /\ tx \in BOOLEAN
    BY <1>1, HandlerType, Zenon
  <1>3. ~handler'.busy
    BY <1>1, Zenon DEF NoHandler
  <1> HIDE DEF tx
  <1>4. ASSUME NEW v \in Vectors
        PROVE  \/ irq'[v] = irq[v] /\ (HasVector(binding[d]) => v # w)
               \/ irq'[v] = IrqCompletion(irq[v], tx) /\ v = w /\ HasVector(binding[d])
    BY <1>1, Zenon DEF IInv, WakeupTypes
  <1>5. ASSUME NEW v \in Vectors
        PROVE  /\ irq'[v] \in Irq /\ Consistent(irq'[v])
               /\ Armed(irq[v]) \/ irq[v].msix => Armed(irq'[v]) \/ irq'[v].msix
               /\ Pending(irq[v]) => Pending(irq'[v]) \/ Armed(irq'[v]) \/ irq'[v].msix
               /\ irq[v].unmasked \/ irq[v].msix => irq'[v].unmasked \/ irq'[v].msix
    <2>1. irq[v] \in Irq /\ Consistent(irq[v])
      BY VectorInv, Zenon
    <2>2. CASE irq'[v] = irq[v]
      BY <2>1, <2>2, Zenon
    <2>3. CASE irq'[v] = IrqCompletion(irq[v], tx)
      <3>1. /\ irq'[v] \in Irq /\ Consistent(irq'[v])
            /\ irq[v].unmasked => Armed(irq'[v]) \/ irq'[v].msix
            /\ ~irq[v].unmasked => Pending(irq'[v])
            /\ Armed(irq[v]) \/ irq[v].msix => Armed(irq'[v]) \/ irq'[v].msix
            /\ irq[v].msix => irq'[v].msix
        BY <1>2, <2>1, <2>3, CompletionLemma
      <3>2. QED
        BY <3>1, Zenon DEF Consistent
    <2>4. QED
      BY <1>4, <2>2, <2>3, Zenon
  <1>6. ASSUME NEW v \in Vectors, d \in CqsOf(v)
        PROVE  /\ irq[v].unmasked => Armed(irq'[v]) \/ irq'[v].msix
               /\ ~irq[v].unmasked => Pending(irq'[v])
    <2>1. HasVector(binding[d]) /\ v = w
      BY <1>6, Zenon DEF CqsOf, HasVector
    <2>2. irq'[v] = IrqCompletion(irq[v], tx)
      BY <1>4, <2>1, Zenon
    <2>3. QED
      BY <1>2, <2>2, VectorInv, CompletionLemma
  <1>7. WakeupTypes'
    <2>1. irq' \in [Vectors -> Irq]
      <3>1. irq' = [v \in Vectors |-> irq'[v]]
        BY <1>1, Zenon DEF IInv, WakeupTypes
      <3>2. QED
        BY <3>1, <1>5, Zenon
    <2>2. QED
      BY <1>1, <2>1, Zenon DEF IInv, WakeupTypes
  <1>8. VectorsConsistent' /\ WaitArmed'
    BY <1>1, <1>5, Zenon DEF IInv, VectorsConsistent, WaitArmed
  <1>9. UnreadUsed'
    BY <1>1, <1>3, Zenon DEF IInv, UnreadUsed
  <1>10. NoLostWakeup'
    <2> SUFFICES ASSUME NEW v \in Vectors, NEW c \in CqsOf(v) \cap unread,
                        thread[v] = "wait"
                 PROVE  Armed(irq'[v]) \/ irq'[v].msix
      BY <1>1, Zenon DEF NoLostWakeup, CqsOf, MessageComing
    <2>1. CASE c = d
      BY <1>5, <1>6, <2>1, Zenon DEF IInv, WaitArmed
    <2>2. CASE c # d
      BY <1>5, <2>2, Zenon DEF IInv, NoLostWakeup, MessageComing, IntrComing
    <2>3. QED
      BY <2>1, <2>2, Zenon
  <1>11. LateCompletionPending'
    <2> SUFFICES ASSUME NEW v \in Vectors, NEW c \in CqsOf(v) \cap unread,
                        thread[v] = "poll", c \notin todo[v]
                 PROVE  Pending(irq'[v]) \/ Armed(irq'[v]) \/ irq'[v].msix
      BY <1>1, Zenon DEF LateCompletionPending, CqsOf, MessageComing
    <2>1. CASE c = d
      BY <1>6, <2>1, Zenon
    <2>2. CASE c # d
      BY <1>5, <2>2, Zenon DEF IInv, LateCompletionPending, MessageComing, IntrComing
    <2>3. QED
      BY <2>1, <2>2, Zenon
  <1>12. QED
    BY <1>7, <1>8, <1>9, <1>10, <1>11, Zenon DEF IInv

\* A step that changes only the timers keeps what is coming, coming.
LEMMA TimerStepInv ==
    ASSUME IInv, TimePasses \/ \E v \in Vectors : Expire(v)
    PROVE  IInv'
  <1>1. /\ binding' = binding /\ unread' = unread /\ thread' = thread /\ todo' = todo
        /\ handler' = handler
    BY Zenon DEF TimePasses, Tick, guest, Expire, ModerTimer
  <1>2. /\ irq' = [v \in Vectors |-> irq'[v]]
        /\ \A v \in Vectors : \/ irq'[v] = IrqTick(irq[v])
                              \/ irq'[v] = IrqFire(irq[v])
                              \/ irq'[v] = irq[v]
    BY DEF TimePasses, Tick, guest, Expire, ModerTimer, IInv, WakeupTypes
  <1>3. ASSUME NEW v \in Vectors
        PROVE  /\ irq'[v] \in Irq /\ Consistent(irq'[v])
               /\ Armed(irq[v]) \/ irq[v].msix => Armed(irq'[v]) \/ irq'[v].msix
               /\ Pending(irq[v]) => Pending(irq'[v]) \/ irq'[v].msix
               /\ irq[v].unmasked \/ irq[v].msix => irq'[v].unmasked \/ irq'[v].msix
    <2>1. irq[v] \in Irq /\ Consistent(irq[v])
      BY VectorInv, Zenon
    <2>2. CASE irq'[v] = IrqTick(irq[v])
      BY <2>1, <2>2, TickLemma DEF Consistent, Pending
    <2>3. CASE irq'[v] = IrqFire(irq[v])
      BY <2>1, <2>3, FireLemma, Zenon DEF Consistent
    <2>4. QED
      BY <1>2, <2>1, <2>2, <2>3, Zenon
  <1>4. WakeupTypes'
    BY <1>1, <1>2, <1>3, Zenon DEF IInv, WakeupTypes
  <1>5. VectorsConsistent' /\ WaitArmed'
    BY <1>1, <1>3, Zenon DEF IInv, VectorsConsistent, WaitArmed
  <1>6. UnreadUsed'
    BY <1>1, Zenon DEF IInv, UnreadUsed
  <1>7. NoLostWakeup'
    BY <1>1, <1>3, Zenon DEF IInv, NoLostWakeup, CqsOf, MessageComing, IntrComing
  <1>8. LateCompletionPending'
    BY <1>1, <1>3, Zenon DEF IInv, LateCompletionPending, CqsOf, MessageComing, IntrComing
  <1>9. QED
    BY <1>4, <1>5, <1>6, <1>7, <1>8, Zenon DEF IInv

\* A new CQ holds nothing; a destroyed one is nobody's.
LEMMA QueueStepInv ==
    ASSUME IInv, NEW c \in Cqs,
           \/ DropCq(c)
           \/ \E intr \in BOOLEAN, v \in Vectors \cup {NoVector} : AddCq(c, intr, v)
    PROVE  IInv'
  <1>1. CASE DropCq(c)
    <2>1. /\ irq' = irq /\ handler' = handler /\ thread' = thread
          /\ handler = NoHandler
          /\ unread' = unread \ {c}
          /\ todo' = [v \in Vectors |-> todo[v] \ {c}]
          /\ binding' = [binding EXCEPT ![c].used = FALSE]
      BY <1>1, Zenon DEF DropCq, UnbindCq, Bql
    <2> DEFINE new == [binding[c] EXCEPT !.used = FALSE]
    <2>2. binding' \in [Cqs -> CqBinding] /\ \A e \in Cqs : e # c => binding'[e] = binding[e]
      <3>1. binding[c] \in CqBinding
        BY Zenon DEF IInv, WakeupTypes
      <3>2. new \in CqBinding
        BY <3>1, Zenon DEF CqBinding
      <3>3. binding' = [binding EXCEPT ![c] = new]
        BY <2>1, Zenon
      <3> HIDE DEF new
      <3>4. QED
        BY <3>2, <3>3, Zenon DEF IInv, WakeupTypes
    <2>3. WakeupTypes'
      BY <2>1, <2>2, Zenon DEF IInv, WakeupTypes
    <2>4. VectorsConsistent' /\ WaitArmed'
      BY <2>1, Zenon DEF IInv, VectorsConsistent, WaitArmed
    <2>5. UnreadUsed'
      BY <2>1, <2>2, Zenon DEF IInv, UnreadUsed, NoHandler, WakeupTypes
    <2>6. \A v \in Vectors : CqsOf(v)' \cap unread' \subseteq CqsOf(v) \cap unread
      BY <2>1, <2>2, Zenon DEF CqsOf
    <2>7. NoLostWakeup'
      BY <2>1, <2>6, Zenon DEF IInv, NoLostWakeup, MessageComing, IntrComing
    <2>8. LateCompletionPending'
      BY <2>1, <2>6, Zenon DEF IInv, LateCompletionPending, MessageComing, IntrComing
    <2>9. QED
      BY <2>3, <2>4, <2>5, <2>7, <2>8, Zenon DEF IInv
  <1>2. ASSUME NEW intr \in BOOLEAN, NEW w \in Vectors \cup {NoVector}, AddCq(c, intr, w)
        PROVE  IInv'
    <2>1. /\ irq' = irq /\ handler' = handler /\ thread' = thread
          /\ handler = NoHandler
          /\ unread' = unread /\ todo' = todo
          /\ ~binding[c].used
          /\ binding' = [binding EXCEPT ![c] = [used |-> TRUE, intr_enabled |-> intr,
                                      msix_vector |-> w]]
      BY <1>2, Zenon DEF AddCq, BindCq, guest, Bql
    <2>2. binding' \in [Cqs -> CqBinding] /\ \A e \in Cqs : e # c => binding'[e] = binding[e]
      BY <2>1, Zenon DEF IInv, WakeupTypes, CqBinding
    <2>3. c \notin unread
      BY <2>1, Zenon DEF IInv, UnreadUsed
    <2>4. WakeupTypes'
      BY <2>1, <2>2, Zenon DEF IInv, WakeupTypes
    <2>5. VectorsConsistent' /\ WaitArmed'
      BY <2>1, Zenon DEF IInv, VectorsConsistent, WaitArmed
    <2>6. UnreadUsed'
      BY <2>1, <2>2, <2>3, Zenon DEF IInv, UnreadUsed, NoHandler, WakeupTypes
    <2>7. \A v \in Vectors : CqsOf(v)' \cap unread' \subseteq CqsOf(v) \cap unread
      BY <2>1, <2>2, <2>3, Zenon DEF CqsOf
    <2>8. NoLostWakeup'
      BY <2>1, <2>7, Zenon DEF IInv, NoLostWakeup, MessageComing, IntrComing
    <2>9. LateCompletionPending'
      BY <2>1, <2>7, Zenon DEF IInv, LateCompletionPending, MessageComing, IntrComing
    <2>10. QED
      BY <2>4, <2>5, <2>6, <2>8, <2>9, Zenon DEF IInv
  <1>3. QED
    BY <1>1, <1>2, Zenon

\* ena_dev_reset ends every CQ and with it what it owed.
LEMMA StartOverInv ==
    ASSUME IInv, StartOver
    PROVE  IInv'
  <1>1. /\ irq' = [v \in Vectors |-> IrqReset(irq[v])]
        /\ binding' = [c \in Cqs |-> Unbound]
        /\ unread' = {} /\ handler' = handler /\ handler = NoHandler
        /\ thread' = [v \in Vectors |-> "poll"]
        /\ todo' = [v \in Vectors |-> {}]
    BY Zenon DEF StartOver, ResetVectors, Bql
  <1>2. ASSUME NEW v \in Vectors
        PROVE  IrqReset(irq[v]) \in Irq /\ Consistent(IrqReset(irq[v]))
    <2>1. irq[v].msix \in BOOLEAN
      BY VectorInv, Zenon DEF Irq
    <2>2. QED
      BY <2>1, ResetLemma
  <1>3. Unbound \in CqBinding
    BY Zenon DEF Unbound, CqBinding
  <1>4. WakeupTypes'
    BY <1>1, <1>2, <1>3, Zenon DEF WakeupTypes
  <1>5. VectorsConsistent'
    BY <1>1, <1>2, Zenon DEF VectorsConsistent
  <1>6. WaitArmed' /\ NoLostWakeup' /\ LateCompletionPending'
    BY <1>1, Zenon DEF WaitArmed, NoLostWakeup, LateCompletionPending
  <1>7. UnreadUsed'
    BY <1>1, Zenon DEF UnreadUsed, NoHandler
  <1>8. QED
    BY <1>4, <1>5, <1>6, <1>7, Zenon DEF IInv

\* The guest reads a completion.
LEMMA PollCqInv ==
    ASSUME IInv, NEW v \in Vectors, NEW c \in Cqs, PollCq(v, c)
    PROVE  IInv'
  <1>1. /\ irq' = irq /\ binding' = binding /\ handler' = handler /\ thread' = thread
        /\ unread' = unread \ {c}
        /\ todo' = [todo EXCEPT ![v] = todo[v] \ {c}]
    BY Zenon DEF PollCq, vectors
  <1>2. WakeupTypes'
    BY <1>1, Zenon DEF IInv, WakeupTypes
  <1>3. VectorsConsistent' /\ WaitArmed'
    BY <1>1, Zenon DEF IInv, VectorsConsistent, WaitArmed
  <1>4. UnreadUsed'
    BY <1>1, Zenon DEF IInv, UnreadUsed
  <1>5. NoLostWakeup'
    BY <1>1, Zenon DEF IInv, NoLostWakeup, CqsOf, MessageComing, IntrComing
  <1>6. LateCompletionPending'
    <2> SUFFICES ASSUME NEW w \in Vectors, NEW d \in CqsOf(w) \cap unread, d # c,
                        thread[w] = "poll", d \notin todo'[w]
                 PROVE  Pending(irq[w]) \/ MessageComing(w) \/ IntrComing(d)
      BY <1>1, Zenon DEF LateCompletionPending, CqsOf, MessageComing, IntrComing
    <2>1. d \notin todo[w]
      BY <1>1, Zenon DEF IInv, WakeupTypes
    <2>2. QED
      BY <2>1, Zenon DEF IInv, LateCompletionPending
  <1>7. QED
    BY <1>2, <1>3, <1>4, <1>5, <1>6, Zenon DEF IInv

\* A write to the unmask register through a CQ of v is one to v.
LEMMA UnmaskThrough ==
    ASSUME NEW v, NEW val, \E c \in CqsOf(v) : CqUnmaskWrite(c, val)
    PROVE  irq' = [irq EXCEPT ![v] = IrqUnmaskWrite(irq[v], val)] /\ binding' = binding
  <1>1. PICK c \in CqsOf(v) : CqUnmaskWrite(c, val)
    BY Zenon
  <1>2. binding[c].msix_vector = v
    BY Zenon DEF CqsOf
  <1> QED
    BY <1>1, <1>2, Zenon DEF CqUnmaskWrite

\* Re-arming turns what is pending into a message or a running timer, so the
\* thread may sleep.
LEMMA RearmInv ==
    ASSUME IInv, NEW v \in Vectors, NEW val \in UnmaskVal, Rearm(v, val)
    PROVE  IInv'
  <1> DEFINE new == IrqUnmaskWrite(irq[v], val)
  <1>1. /\ binding' = binding /\ unread' = unread /\ todo' = todo /\ handler' = handler
        /\ handler = NoHandler
        /\ todo[v] = {} /\ thread[v] = "poll" /\ val.unmask
        /\ irq' = [irq EXCEPT ![v] = new]
        /\ thread' = [thread EXCEPT ![v] = "wait"]
    BY UnmaskThrough, Zenon DEF Rearm, Bql
  <1>2. /\ new \in Irq /\ Consistent(new)
        /\ irq[v].msix => new.msix
        /\ Pending(irq[v]) \/ Armed(irq[v]) => Armed(new) \/ new.msix
        /\ new.unmasked \/ new.msix
    BY <1>1, VectorInv, UnmaskWriteLemma, Zenon
  <1> HIDE DEF new
  <1>3. /\ irq'[v] = new /\ thread'[v] = "wait"
        /\ \A w \in Vectors : w # v => irq'[w] = irq[w] /\ thread'[w] = thread[w]
    BY <1>1, Zenon DEF IInv, WakeupTypes
  <1>4. WakeupTypes'
    BY <1>1, <1>2, Zenon DEF IInv, WakeupTypes
  <1>5. VectorsConsistent' /\ WaitArmed'
    BY <1>2, <1>3, Zenon DEF IInv, VectorsConsistent, WaitArmed
  <1>6. UnreadUsed'
    BY <1>1, Zenon DEF IInv, UnreadUsed
  <1>7. \A c \in Cqs : ~IntrComing(c)
    BY <1>1, Zenon DEF IntrComing, NoHandler
  <1>8. NoLostWakeup'
    <2> SUFFICES ASSUME NEW w \in Vectors, NEW c \in CqsOf(w) \cap unread,
                        thread'[w] = "wait"
                 PROVE  Armed(irq'[w]) \/ irq'[w].msix
      BY <1>1, Zenon DEF NoLostWakeup, CqsOf, MessageComing
    <2>1. c \in Cqs
      BY Zenon DEF CqsOf
    <2>2. CASE w = v
      <3>1. Pending(irq[v]) \/ Armed(irq[v]) \/ irq[v].msix
        BY <1>1, <1>7, <2>1, <2>2, Zenon DEF IInv, LateCompletionPending, MessageComing
      <3>2. QED
        BY <1>2, <1>3, <2>2, <3>1, Zenon
    <2>3. CASE w # v
      BY <1>3, <1>7, <2>1, <2>3, Zenon DEF IInv, NoLostWakeup, MessageComing
    <2>4. QED
      BY <2>2, <2>3, Zenon
  <1>9. LateCompletionPending'
    <2> SUFFICES ASSUME NEW w \in Vectors, NEW c \in CqsOf(w) \cap unread,
                        thread'[w] = "poll", c \notin todo[w]
                 PROVE  Pending(irq'[w]) \/ Armed(irq'[w]) \/ irq'[w].msix
      BY <1>1, Zenon DEF LateCompletionPending, CqsOf, MessageComing
    <2>1. w # v /\ c \in Cqs
      BY <1>3, Zenon DEF CqsOf
    <2>2. QED
      BY <1>3, <1>7, <2>1, Zenon DEF IInv, LateCompletionPending, MessageComing
  <1>10. QED
    BY <1>4, <1>5, <1>6, <1>8, <1>9, Zenon DEF IInv

\* A thread that starts a round of polling has every CQ of its vector to look
\* at, so nothing is claimed of that vector.
LEMMA WakeInv ==
    ASSUME IInv, NEW v \in Vectors, Wake(v) \/ GiveUp(v)
    PROVE  IInv'
  <1>1. /\ binding' = binding /\ unread' = unread /\ handler' = handler
        /\ \A w \in Vectors : w # v => /\ irq'[w] = irq[w]
                                       /\ thread'[w] = thread[w]
                                       /\ todo'[w] = todo[w]
        /\ thread'[v] # "wait"
        /\ thread'[v] = "poll" => todo'[v] = CqsOf(v)
        /\ thread' \in [Vectors -> {"poll", "wait", "mask"}]
    BY DEF Wake, TakeMessage, GiveUp, vectors, IInv, WakeupTypes
  <1>2. todo' \in [Vectors -> SUBSET Cqs]
    BY DEF Wake, TakeMessage, GiveUp, vectors, IInv, WakeupTypes, CqsOf
  <1>3. irq' \in [Vectors -> Irq] /\ Consistent(irq'[v])
    <2>1. CASE irq' = irq
      BY <2>1, VectorInv, Zenon DEF IInv, WakeupTypes
    <2>2. CASE Wake(v)
      <3> DEFINE new == [irq[v] EXCEPT !.msix = FALSE]
      <3>1. irq' = [irq EXCEPT ![v] = new]
        BY <2>2, Zenon DEF Wake, TakeMessage
      <3>2. /\ new \in Irq
            /\ new.unmasked = irq[v].unmasked /\ new.moder_timer = irq[v].moder_timer
            /\ new.rx_pending = irq[v].rx_pending /\ new.tx_pending = irq[v].tx_pending
        BY VectorInv, Zenon DEF Irq
      <3> HIDE DEF new
      <3>3. Consistent(new)
        BY <3>2, VectorInv, Zenon DEF Consistent, Armed, Pending
      <3>4. QED
        BY <3>1, <3>2, <3>3, Zenon DEF IInv, WakeupTypes
    <2>3. QED
      BY <2>1, <2>2, Zenon DEF GiveUp, vectors
  <1>4. WakeupTypes'
    BY <1>1, <1>2, <1>3, Zenon DEF IInv, WakeupTypes
  <1>5. VectorsConsistent' /\ WaitArmed'
    BY <1>1, <1>3, Zenon DEF IInv, VectorsConsistent, WaitArmed
  <1>6. UnreadUsed'
    BY <1>1, Zenon DEF IInv, UnreadUsed
  <1>7. NoLostWakeup'
    BY <1>1 DEF IInv, NoLostWakeup, CqsOf, MessageComing, IntrComing
  <1>8. LateCompletionPending'
    <2>1. \A w \in Vectors : CqsOf(w)' = CqsOf(w)
      BY <1>1, Zenon DEF CqsOf
    <2>2. QED
      BY <1>1, <2>1 DEF IInv, LateCompletionPending, MessageComing, IntrComing
  <1>9. QED
    BY <1>4, <1>5, <1>6, <1>7, <1>8, Zenon DEF IInv

\* The guest masks the vector it was interrupted for.
LEMMA MaskInv ==
    ASSUME IInv, NEW v \in Vectors, NEW val \in UnmaskVal, Mask(v, val)
    PROVE  IInv'
  <1> DEFINE new == IF CqsOf(v) = {} THEN irq[v] ELSE IrqUnmaskWrite(irq[v], val)
  <1>1. /\ binding' = binding /\ unread' = unread /\ handler' = handler
        /\ irq' = [irq EXCEPT ![v] = new]
        /\ thread' = [thread EXCEPT ![v] = "poll"]
        /\ todo' = [todo EXCEPT ![v] = CqsOf(v)]
    <2>1. /\ unread' = unread /\ handler' = handler
          /\ thread' = [thread EXCEPT ![v] = "poll"]
          /\ todo' = [todo EXCEPT ![v] = CqsOf(v)]
      BY Zenon DEF Mask
    <2>2. CASE CqsOf(v) = {}
      <3>1. irq' = irq /\ binding' = binding
        BY <2>2, Zenon DEF Mask, vectors
      <3>2. irq = [irq EXCEPT ![v] = irq[v]]
        BY Zenon DEF IInv, WakeupTypes
      <3>3. new = irq[v]
        BY <2>2, Zenon
      <3> QED
        BY <2>1, <3>1, <3>2, <3>3, Zenon
    <2>3. CASE CqsOf(v) # {}
      <3>1. irq' = [irq EXCEPT ![v] = IrqUnmaskWrite(irq[v], val)] /\ binding' = binding
        BY <2>3, UnmaskThrough, Zenon DEF Mask
      <3>2. new = IrqUnmaskWrite(irq[v], val)
        BY <2>3, Zenon
      <3> QED
        BY <2>1, <3>1, <3>2, Zenon
    <2> QED
      BY <2>2, <2>3, Zenon
  <1>2. new \in Irq /\ Consistent(new)
    BY VectorInv, UnmaskWriteLemma, Zenon
  <1> HIDE DEF new
  <1>3. /\ irq'[v] = new /\ thread'[v] = "poll" /\ todo'[v] = CqsOf(v)
        /\ \A w \in Vectors : w # v => /\ irq'[w] = irq[w]
                                       /\ thread'[w] = thread[w]
                                       /\ todo'[w] = todo[w]
    BY <1>1, Zenon DEF IInv, WakeupTypes
  <1>4. WakeupTypes'
    BY <1>1, <1>2, Zenon DEF IInv, WakeupTypes, CqsOf
  <1>5. VectorsConsistent' /\ WaitArmed'
    BY <1>2, <1>3, Zenon DEF IInv, VectorsConsistent, WaitArmed
  <1>6. UnreadUsed'
    BY <1>1, Zenon DEF IInv, UnreadUsed
  <1>7. NoLostWakeup'
    <2>1. \A w \in Vectors : CqsOf(w)' = CqsOf(w)
      BY <1>1, Zenon DEF CqsOf
    <2>2. QED
      BY <1>1, <1>3, <2>1 DEF IInv, NoLostWakeup, MessageComing, IntrComing
  <1>8. LateCompletionPending'
    <2>1. \A w \in Vectors : CqsOf(w)' = CqsOf(w)
      BY <1>1, Zenon DEF CqsOf
    <2>2. QED
      BY <1>1, <1>3, <2>1 DEF IInv, LateCompletionPending, MessageComing, IntrComing
  <1>9. QED
    BY <1>4, <1>5, <1>6, <1>7, <1>8, Zenon DEF IInv

\* Every step of the device and of the guest keeps the invariant.
LEMMA NextInv == IInv /\ [WakeupNext]_wakeup => IInv'
  <1> SUFFICES ASSUME IInv, [WakeupNext]_wakeup PROVE IInv'
    BY Zenon
  <1>1. ASSUME NEW c \in Cqs, NEW is_tx \in BOOLEAN, Push(c, is_tx) PROVE IInv'
    BY <1>1, PushInv, Zenon
  <1>2. ASSUME NEW c \in Cqs,
               \/ DropCq(c)
               \/ \E intr \in BOOLEAN, v \in Vectors \cup {NoVector} : AddCq(c, intr, v)
        PROVE  IInv'
    BY <1>2, QueueStepInv, Zenon
  <1>3. CASE PushMore
    BY <1>3, PushMoreInv, Zenon
  <1>4. CASE HandlerEnds
    BY <1>4, HandlerEndsInv, Zenon
  <1>5. CASE TimePasses \/ \E v \in Vectors : Expire(v)
    BY <1>5, TimerStepInv, Zenon
  <1>6. CASE StartOver
    BY <1>6, StartOverInv, Zenon
  <1>7. ASSUME NEW v \in Vectors, NEW c \in Cqs, PollCq(v, c) PROVE IInv'
    BY <1>7, PollCqInv, Zenon
  <1>8. ASSUME NEW v \in Vectors, NEW val \in UnmaskVal, Rearm(v, val) PROVE IInv'
    BY <1>8, RearmInv, Zenon
  <1>9. ASSUME NEW v \in Vectors, NEW val \in UnmaskVal, Mask(v, val) PROVE IInv'
    BY <1>9, MaskInv, Zenon
  <1>10. ASSUME NEW v \in Vectors, Wake(v) \/ GiveUp(v) PROVE IInv'
    BY <1>10, WakeInv, Zenon
  <1>11. CASE UNCHANGED wakeup
    <2>1. WakeupTypes' /\ VectorsConsistent' /\ WaitArmed' /\ UnreadUsed'
      BY <1>11, Zenon DEF wakeup, vectors, guest, IInv, WakeupTypes, VectorsConsistent,
         WaitArmed, UnreadUsed, CqsOf
    <2>2. NoLostWakeup'
      BY <1>11, Zenon DEF wakeup, vectors, guest, IInv, NoLostWakeup, CqsOf, MessageComing, IntrComing
    <2>3. LateCompletionPending'
      BY <1>11, Zenon DEF wakeup, vectors, guest, IInv, LateCompletionPending, CqsOf,
         MessageComing, IntrComing
    <2> QED
      BY <2>1, <2>2, <2>3, Zenon DEF IInv
  <1>12. QED
    BY <1>1, <1>2, <1>3, <1>4, <1>5, <1>6, <1>7, <1>8, <1>9, <1>10, <1>11, Zenon DEF WakeupNext

\* A step beside the guest is a step of the device, or none.
LEMMA WakeupStep == IInv /\ [WakeupNext]_wakeup => [VectorNext]_vectors
  <1> SUFFICES ASSUME IInv, [WakeupNext]_wakeup PROVE [VectorNext]_vectors
    BY Zenon
  <1>1. CASE UNCHANGED vectors
    BY <1>1, Zenon
  <1>2. ASSUME NEW c \in Cqs, DropCq(c) PROVE VectorNext
    BY <1>2, Zenon DEF DropCq, VectorNext
  <1>3. ASSUME NEW c \in Cqs, NEW intr \in BOOLEAN, NEW v \in Vectors \cup {NoVector},
               AddCq(c, intr, v)
        PROVE  VectorNext
    BY <1>3, Zenon DEF AddCq, VectorNext
  <1>4. CASE HandlerEnds
    <2>1. CASE CqIntr(handler.cq, handler.is_tx)
      <3>1. handler.cq \in Cqs /\ handler.is_tx \in BOOLEAN
        BY <1>4, HandlerType, Zenon DEF HandlerEnds
      <3> QED
        BY <2>1, <3>1, Zenon DEF VectorNext
    <2> QED
      BY <1>1, <1>4, <2>1, Zenon DEF HandlerEnds
  <1>5. CASE TimePasses \/ StartOver
    BY <1>5, Zenon DEF TimePasses, StartOver, VectorNext
  <1>6. ASSUME NEW v \in Vectors, Expire(v) \/ Wake(v) PROVE VectorNext
    BY <1>6, Zenon DEF Expire, Wake, VectorNext
  <1>7. ASSUME NEW v \in Vectors, NEW val \in UnmaskVal, Rearm(v, val) \/ Mask(v, val)
        PROVE  [VectorNext]_vectors
    <2>1. CqsOf(v) \subseteq Cqs
      BY Zenon DEF CqsOf
    <2>2. CASE \E c \in CqsOf(v) : CqUnmaskWrite(c, val)
      BY <2>1, <2>2, Zenon DEF VectorNext
    <2> QED
      BY <1>1, <1>7, <2>2, Zenon DEF Rearm, Mask
  <1>8. ASSUME \/ PushMore
               \/ \E c \in Cqs, is_tx \in BOOLEAN : Push(c, is_tx)
               \/ \E v \in Vectors : GiveUp(v) \/ \E c \in Cqs : PollCq(v, c)
        PROVE  UNCHANGED vectors
    BY <1>8, Zenon DEF PushMore, Push, GiveUp, PollCq
  <1>9. CASE UNCHANGED wakeup
    BY <1>1, <1>9, Zenon DEF wakeup
  <1>10. CASE WakeupNext
    BY <1>1, <1>2, <1>3, <1>4, <1>5, <1>6, <1>7, <1>8, <1>10, Zenon DEF WakeupNext
  <1> QED
    BY <1>9, <1>10, Zenon

\* The device of IrqWakeup, with the guest reading and writing between the
\* steps of its handlers, is that of EnaVector: what holds of every sequence of
\* handlers of hw/ena.c holds there.
THEOREM GuestBesideDevice == WakeupSpec => VectorSpec
  <1>1. WakeupInit => VectorInit
    BY Zenon DEF WakeupInit
  <1> QED
    BY <1>1, InitInv, NextInv, WakeupStep, PTL DEF WakeupSpec, VectorSpec

\* A guest thread that polls, re-arms and sleeps never sleeps on a completion
\* whose message is not on the way, for any number of CQs and vectors, any
\* moderation delays and any interleaving with the device's handlers.
THEOREM NoWakeupLost == WakeupSpec => [](WakeupTypeOK /\ NoLostWakeup /\ LateCompletionPending)
  <1>1. IInv /\ VectorTypeOK => WakeupTypeOK /\ NoLostWakeup /\ LateCompletionPending
    BY Zenon DEF IInv, WakeupTypes, WakeupTypeOK
  <1>2. QED
    BY <1>1, InitInv, NextInv, GuestBesideDevice, VectorSafety, PTL DEF WakeupSpec

\* A completion that comes after a thread's last look at its CQ is pending for the
\* re-arm, has its message on the way, or its ena_cq_intr is still to run.
THEOREM LateCompletionsPend == WakeupSpec => []LateCompletionPending
BY NoWakeupLost, PTL
=============================================================================
