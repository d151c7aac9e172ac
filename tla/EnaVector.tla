------------------------------ MODULE EnaVector ------------------------------
(***************************************************************************)
(* Interrupt generation of the device (hw/ena.c), under any sequence of    *)
(* completions, unmask register writes, timer expiries, queue creations,   *)
(* queue destructions and resets.  Every handler runs under the BQL, so    *)
(* each one is a single step here; IrqWakeup adds the guest that runs      *)
(* beside the handlers.                                                    *)
(***************************************************************************)
EXTENDS IrqOps

CONSTANT Cqs     \* completion queue indices

VARIABLES
    irq,       \* s->irq[1..8]
    binding,   \* the interrupt binding of s->cq[]
    unsig      \* history: vectors with a completion no interrupt followed yet

vectors == <<irq, binding, unsig>>

Unbound == [used |-> FALSE, intr_enabled |-> FALSE, msix_vector |-> NoVector]

NewIrq == IrqReset([msix |-> FALSE])

VectorTypeOK ==
    /\ irq \in [Vectors -> Irq]
    /\ binding \in [Cqs -> CqBinding]
    /\ unsig \subseteq Vectors

VectorInit ==
    /\ irq = [v \in Vectors |-> NewIrq]
    /\ binding = [c \in Cqs |-> Unbound]
    /\ unsig = {}

-----------------------------------------------------------------------------
\* A completion was pushed to CQ c: ena_cq_intr.
CqIntr(c, is_tx) ==
    /\ binding[c].used
    /\ HasVector(binding[c])
    /\ LET v   == binding[c].msix_vector
           new == IrqCompletion(irq[v], is_tx)
       IN /\ irq' = [irq EXCEPT ![v] = new]
          /\ unsig' = IF irq[v].unmasked /\ ~new.unmasked
                      THEN unsig \ {v} ELSE unsig \cup {v}
    /\ UNCHANGED binding

\* A guest write to the unmask register of CQ c: ena_cq_unmask_write.
CqUnmaskWrite(c, val) ==
    /\ binding[c].used
    /\ HasVector(binding[c])
    /\ LET v   == binding[c].msix_vector
           new == IrqUnmaskWrite(irq[v], val)
       IN /\ irq' = [irq EXCEPT ![v] = new]
          /\ unsig' = IF val.unmask /\ ~new.unmasked THEN unsig \ {v} ELSE unsig
    /\ UNCHANGED binding

\* Mutant: the timer's callback sends only what was latched while masked.
ModerTimerPending(v) ==
    /\ irq[v].moder_timer = 0 /\ Pending(irq[v])
    /\ irq' = [irq EXCEPT ![v] = IrqFire(@)]
    /\ unsig' = unsig \ {v}
    /\ UNCHANGED binding

\* The moderation timer of v expires: ena_irq_moder_timer.
ModerTimer(v) ==
    /\ irq[v].moder_timer = 0
    /\ irq' = [irq EXCEPT ![v] = IrqFire(@)]
    /\ unsig' = unsig \ {v}
    /\ UNCHANGED binding

Tick ==
    /\ \E v \in Vectors : irq[v].moder_timer > 0
    /\ irq' = [v \in Vectors |-> IrqTick(irq[v])]
    /\ UNCHANGED <<binding, unsig>>

\* The guest takes the MSI-X message of v.
TakeMessage(v) ==
    /\ irq[v].msix
    /\ irq' = [irq EXCEPT ![v].msix = FALSE]
    /\ UNCHANGED <<binding, unsig>>

\* ena_create_cq and ena_destroy_cq, as far as interrupts are concerned: the
\* first unused index is taken, and the state of the vector is left alone by
\* both.  (The SQs a CQ has to outlive are in EnaQueues.)
BindCq(c, intr_enabled, v) ==
    /\ ~binding[c].used
    /\ \A d \in Cqs : d < c => binding[d].used
    /\ binding' = [binding EXCEPT ![c] =
                     [used |-> TRUE, intr_enabled |-> intr_enabled, msix_vector |-> v]]
    /\ UNCHANGED <<irq, unsig>>

UnbindCq(c) ==
    /\ binding[c].used
    /\ binding' = [binding EXCEPT ![c].used = FALSE]
    /\ UNCHANGED <<irq, unsig>>

\* ena_dev_reset.
ResetVectors ==
    /\ irq' = [v \in Vectors |-> IrqReset(irq[v])]
    /\ binding' = [c \in Cqs |-> Unbound]
    /\ unsig' = {}

VectorNext ==
    \/ \E c \in Cqs :
        \/ \E is_tx \in BOOLEAN : CqIntr(c, is_tx)
        \/ \E val \in UnmaskVal : CqUnmaskWrite(c, val)
        \/ \E intr \in BOOLEAN, v \in Vectors \cup {NoVector} : BindCq(c, intr, v)
        \/ UnbindCq(c)
    \/ \E v \in Vectors : ModerTimer(v) \/ TakeMessage(v)
    \/ Tick
    \/ ResetVectors

VectorSpec == VectorInit /\ [][VectorNext]_vectors

-----------------------------------------------------------------------------
\* A moderation timer runs only while its vector is unmasked: masking, firing
\* and reset all stop it, so no interrupt is sent on a vector the guest masked.
TimerOnlyUnmasked == \A v \in Vectors : Armed(irq[v]) => irq[v].unmasked

\* A completion latched as pending on a masked vector is scheduled as soon as
\* the vector is unmasked (the end of ena_cq_unmask_write), whatever happened
\* to the queues and the delays in between.
PendingScheduled ==
    \A v \in Vectors : irq[v].unmasked /\ Pending(irq[v]) => Armed(irq[v])

\* What will raise an interrupt (a running timer, a pending flag) always stands
\* for a completion no earlier interrupt covered: one interrupt per batch, and
\* "an unmask without a pending completion stays quiet".
NoSpuriousInterrupt ==
    \A v \in Vectors : Armed(irq[v]) \/ Pending(irq[v]) => v \in unsig

\* Once scheduled, an interrupt is never put off by later completions or by a
\* re-arm with other delays: an armed timer stops or gets closer.
NeverPostponed ==
    [][\A v \in Vectors :
          Armed(irq[v]) /\ Armed(irq'[v]) =>
             irq'[v].moder_timer <= irq[v].moder_timer]_vectors

\* What the tests say of unmasking ("unmasking delivers the pending
\* interrupt"): on an unmasked vector, a completion no interrupt covered yet
\* has its interrupt scheduled.  It fails: masking the vector stops the timer
\* of a moderated interrupt without latching the completion as pending.
UnsignalledScheduled ==
    \A v \in Vectors : irq[v].unmasked /\ v \in unsig => Armed(irq[v])

\* What the tests say of a new queue ("masked at creation"): the vector of a
\* CQ is masked when it is created as the only CQ of that vector.  It fails
\* when a destroyed CQ left the vector unmasked: neither ena_destroy_cq nor
\* ena_create_cq touches the vector, only ena_dev_reset does.
MaskedAtCreation ==
    [][\A c \in Cqs :
          /\ ~binding[c].used /\ binding'[c].used /\ HasVector(binding'[c])
          /\ ~\E d \in Cqs : binding[d].used /\ binding[d].msix_vector = binding'[c].msix_vector
          => ~irq'[binding'[c].msix_vector].unmasked]_vectors
=============================================================================
