------------------------------- MODULE IrqOps -------------------------------
(***************************************************************************)
(* The interrupt state of one MSI-X vector (EnaIrq in hw/ena.h) and the    *)
(* functions of hw/ena.c that change it, each as an operator from a record *)
(* to a record.  The record carries, besides the fields of the struct, the *)
(* moderation timer (ticks of the virtual clock left, NotArmed when it is  *)
(* not running) and the MSI-X message the guest has not taken yet.         *)
(***************************************************************************)
EXTENDS Integers

CONSTANTS
    Vectors,     \* the IO vectors, 1 .. ENA_MSIX_VECTORS - 1
    NoVector,    \* ENA_MSIX_VECTOR_NONE: interrupts enabled, no vector
    MaxDelay     \* largest moderation delay, in ticks of the virtual clock

ASSUME MaxDelayAssumption == MaxDelay \in Nat
ASSUME NoVectorAssumption == NoVector \notin Vectors

NotArmed == -1

Irq == [unmasked    : BOOLEAN,
        rx_pending  : BOOLEAN,
        tx_pending  : BOOLEAN,
        rx_delay_us : 0..MaxDelay,
        tx_delay_us : 0..MaxDelay,
        moder_timer : {NotArmed} \cup 0..MaxDelay,
        msix        : BOOLEAN]

\* What a write to a CQ's unmask register can say.
UnmaskVal == [unmask : BOOLEAN, no_update : BOOLEAN,
              rx_delay : 0..MaxDelay, tx_delay : 0..MaxDelay]

\* A CQ as the interrupt code sees it.
CqBinding == [used : BOOLEAN, intr_enabled : BOOLEAN,
              msix_vector : Vectors \cup {NoVector}]

Armed(irq) == irq.moder_timer # NotArmed

Pending(irq) == irq.rx_pending \/ irq.tx_pending

-----------------------------------------------------------------------------
\* ena_dev_reset: timer_del, then every field up to the timer is zeroed.  A
\* message already sent to the guest stays sent.
IrqReset(irq) ==
    [unmasked |-> FALSE, rx_pending |-> FALSE, tx_pending |-> FALSE,
     rx_delay_us |-> 0, tx_delay_us |-> 0, moder_timer |-> NotArmed,
     msix |-> irq.msix]

\* Mutant: the interrupt leaves the pending flags set.
IrqFireKeepsPending(irq) ==
    [irq EXCEPT !.moder_timer = NotArmed, !.unmasked = FALSE, !.msix = TRUE]

\* ena_irq_fire, also the moderation timer's callback.
IrqFire(irq) ==
    [irq EXCEPT !.moder_timer = NotArmed, !.unmasked = FALSE,
                !.rx_pending = FALSE, !.tx_pending = FALSE, !.msix = TRUE]

\* Mutant: timer_mod in the place of timer_mod_anticipate.
ModRestart(timer, delay) == delay

\* timer_mod_anticipate: an armed timer only ever moves to an earlier time.
ModAnticipate(timer, delay) ==
    IF timer = NotArmed \/ delay < timer THEN delay ELSE timer

\* ena_irq_schedule.
IrqSchedule(irq, delay) ==
    IF delay = 0
    THEN IrqFire(irq)
    ELSE [irq EXCEPT !.moder_timer = ModAnticipate(@, delay)]

\* The vector a CQ interrupts through, if any.
HasVector(cq) == cq.intr_enabled /\ cq.msix_vector \in Vectors

\* ena_cq_intr, for a CQ with a vector whose state is irq.
IrqCompletion(irq, is_tx) ==
    IF irq.unmasked
    THEN IrqSchedule(irq, IF is_tx THEN irq.tx_delay_us ELSE irq.rx_delay_us)
    ELSE IF is_tx THEN [irq EXCEPT !.tx_pending = TRUE]
                  ELSE [irq EXCEPT !.rx_pending = TRUE]

\* ena_cq_unmask_write: the delays, the mask, then the two pending kinds in
\* the order of the code, each seeing what the one before it left.
SetDelays(irq, val) ==
    IF val.no_update
    THEN irq
    ELSE [irq EXCEPT !.rx_delay_us = val.rx_delay, !.tx_delay_us = val.tx_delay]

ScheduleRx(irq) ==
    IF irq.rx_pending THEN IrqSchedule(irq, irq.rx_delay_us) ELSE irq

ScheduleTx(irq) ==
    IF irq.tx_pending THEN IrqSchedule(irq, irq.tx_delay_us) ELSE irq

\* Mutant: only a pending RX completion is looked at.
IrqUnmaskWriteRxOnly(irq, val) ==
    LET new == [SetDelays(irq, val) EXCEPT !.unmasked = val.unmask] IN
    IF val.unmask THEN ScheduleRx(new) ELSE [new EXCEPT !.moder_timer = NotArmed]

IrqUnmaskWrite(irq, val) ==
    LET new == [SetDelays(irq, val) EXCEPT !.unmasked = val.unmask] IN
    IF val.unmask
    THEN ScheduleTx(ScheduleRx(new))
    ELSE [new EXCEPT !.moder_timer = NotArmed]

\* The virtual clock advances by one tick.
IrqTick(irq) ==
    [irq EXCEPT !.moder_timer = IF @ > 0 THEN @ - 1 ELSE @]

=============================================================================
