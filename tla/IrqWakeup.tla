------------------------------ MODULE IrqWakeup ------------------------------
(***************************************************************************)
(* The interrupts of EnaVector beside the guest that relies on them.  The  *)
(* device runs its handlers under the BQL: between the DMA write of a      *)
(* completion (ena_cq_push) and the call of ena_cq_intr the guest can see  *)
(* the completion, but neither a register write nor a timer gets in.  The  *)
(* guest has one thread per vector, which polls the CQs of the vector,     *)
(* re-arms it through the unmask register and sleeps until the message     *)
(* (the interrupt-driven use README.md describes; the driver is external). *)
(***************************************************************************)
EXTENDS EnaVector

VARIABLES
    handler,  \* the CQ a running handler has pushed to, NoHandler when none runs
    unread,   \* CQs holding completions the guest has not read
    thread,   \* the guest thread of each vector: "poll", "wait" or "mask"
    todo      \* the CQs a polling thread has still to look at in this round

guest == <<unread, thread, todo>>
wakeup == <<vectors, handler, guest>>

NoHandler == [busy |-> FALSE]

CqsOf(v) == {c \in Cqs : /\ binding[c].used /\ binding[c].intr_enabled
                         /\ binding[c].msix_vector = v}

Bql == handler = NoHandler    \* the BQL is free

WakeupTypeOK ==
    /\ VectorTypeOK
    /\ handler \in {NoHandler} \cup [busy : {TRUE}, cq : Cqs, is_tx : BOOLEAN]
    /\ unread \subseteq Cqs
    /\ thread \in [Vectors -> {"poll", "wait", "mask"}]
    /\ todo \in [Vectors -> SUBSET Cqs]

WakeupInit ==
    /\ VectorInit
    /\ handler = NoHandler
    /\ unread = {}
    /\ thread = [v \in Vectors |-> "poll"]
    /\ todo = [v \in Vectors |-> {}]

-----------------------------------------------------------------------------
(* The device. *)

\* ena_cq_push from ena_tx_complete or ena_rx_receive_iov.
Push(c, is_tx) ==
    /\ Bql
    /\ binding[c].used
    /\ handler' = [busy |-> TRUE, cq |-> c, is_tx |-> is_tx]
    /\ unread' = unread \cup {c}
    /\ UNCHANGED <<vectors, thread, todo>>

\* ena_rx_receive_iov pushes one completion per buffer before ena_cq_intr.
PushMore ==
    /\ handler.busy
    /\ ~handler.is_tx
    /\ unread' = unread \cup {handler.cq}
    /\ UNCHANGED <<vectors, handler, thread, todo>>

\* The handler ends with ena_cq_intr, which does nothing without a vector.
HandlerEnds ==
    /\ handler.busy
    /\ IF HasVector(binding[handler.cq]) THEN CqIntr(handler.cq, handler.is_tx)
       ELSE UNCHANGED vectors
    /\ handler' = NoHandler
    /\ UNCHANGED guest

\* ena_irq_moder_timer waits for the BQL; the clock does not.
Expire(v) == Bql /\ ModerTimer(v) /\ UNCHANGED <<handler, guest>>
TimePasses == Tick /\ UNCHANGED <<handler, guest>>

\* ena_create_cq and ena_destroy_cq.  The guest does not poll a CQ it has
\* destroyed: what the CQ still held is forgotten.
AddCq(c, intr_enabled, v) ==
    Bql /\ BindCq(c, intr_enabled, v) /\ UNCHANGED <<handler, guest>>

DropCq(c) ==
    /\ Bql
    /\ UnbindCq(c)
    /\ unread' = unread \ {c}
    /\ todo' = [v \in Vectors |-> todo[v] \ {c}]
    /\ UNCHANGED <<handler, thread>>

\* ena_dev_reset.  The guest has stopped its threads: they start over.
StartOver ==
    /\ Bql
    /\ ResetVectors
    /\ unread' = {}
    /\ thread' = [v \in Vectors |-> "poll"]
    /\ todo' = [v \in Vectors |-> {}]
    /\ UNCHANGED handler

-----------------------------------------------------------------------------
(* The guest thread of vector v. *)

\* It reads CQ c until the phase bit says there is nothing more.
PollCq(v, c) ==
    /\ thread[v] = "poll"
    /\ c \in todo[v]
    /\ unread' = unread \ {c}
    /\ todo' = [todo EXCEPT ![v] = @ \ {c}]
    /\ UNCHANGED <<vectors, handler, thread>>

\* Every CQ was looked at: re-arm the vector through one of them
\* (ena_cq_unmask_write) and sleep.
Rearm(v, val) ==
    /\ Bql
    /\ thread[v] = "poll"
    /\ todo[v] = {}
    /\ val.unmask
    /\ \E c \in CqsOf(v) : CqUnmaskWrite(c, val)
    /\ thread' = [thread EXCEPT ![v] = "wait"]
    /\ UNCHANGED <<handler, unread, todo>>

\* The message wakes the thread.
Wake(v) ==
    /\ thread[v] = "wait"
    /\ TakeMessage(v)
    /\ thread' = [thread EXCEPT ![v] = "poll"]
    /\ todo' = [todo EXCEPT ![v] = CqsOf(v)]
    /\ UNCHANGED <<handler, unread>>

\* The thread wakes for another reason (a timeout, work elsewhere) and masks
\* the vector before it polls (ena_cq_unmask_write without the unmask bit).
GiveUp(v) ==
    /\ thread[v] = "wait"
    /\ thread' = [thread EXCEPT ![v] = "mask"]
    /\ UNCHANGED <<vectors, handler, unread, todo>>

Mask(v, val) ==
    /\ Bql
    /\ thread[v] = "mask"
    /\ ~val.unmask
    /\ IF CqsOf(v) = {} THEN UNCHANGED vectors
       ELSE \E c \in CqsOf(v) : CqUnmaskWrite(c, val)
    /\ thread' = [thread EXCEPT ![v] = "poll"]
    /\ todo' = [todo EXCEPT ![v] = CqsOf(v)]
    /\ UNCHANGED <<handler, unread>>

-----------------------------------------------------------------------------
WakeupNext ==
    \/ \E c \in Cqs :
        \/ \E is_tx \in BOOLEAN : Push(c, is_tx)
        \/ \E intr \in BOOLEAN, v \in Vectors \cup {NoVector} : AddCq(c, intr, v)
        \/ DropCq(c)
    \/ PushMore
    \/ HandlerEnds
    \/ TimePasses
    \/ StartOver
    \/ \E v \in Vectors :
        \/ Expire(v)
        \/ \E c \in Cqs : PollCq(v, c)
        \/ \E val \in UnmaskVal : Rearm(v, val) \/ Mask(v, val)
        \/ Wake(v)
        \/ GiveUp(v)

\* A handler that holds the BQL runs to its end and time passes (weak
\* fairness); the threads run when they can; whoever asks for the BQL again
\* and again is let in (strong fairness).
WakeupFairness ==
    /\ WF_wakeup(HandlerEnds)
    /\ WF_wakeup(TimePasses)
    /\ \A v \in Vectors :
        /\ SF_wakeup(Expire(v))
        /\ SF_wakeup(\E val \in UnmaskVal : Rearm(v, val))
        /\ SF_wakeup(\E val \in UnmaskVal : Mask(v, val))
        /\ WF_wakeup(\E c \in Cqs : PollCq(v, c))
        /\ WF_wakeup(Wake(v))

WakeupSpec == WakeupInit /\ [][WakeupNext]_wakeup

FairWakeupSpec == WakeupSpec /\ WakeupFairness

-----------------------------------------------------------------------------
\* The vector will send a message, or has sent one the guest has not taken.
MessageComing(v) == Armed(irq[v]) \/ irq[v].msix

\* A running handler has still to call ena_cq_intr for c.
IntrComing(c) == handler.busy /\ handler.cq = c

\* No lost wakeup: while a thread sleeps, a completion it has not read has its
\* message on the way, whatever the order of the push, the poll, the re-arm,
\* the mask write, the timer and the queue changes.
NoLostWakeup ==
    \A v \in Vectors : \A c \in CqsOf(v) \cap unread :
        thread[v] = "wait" => MessageComing(v) \/ IntrComing(c)

\* The same for a thread that has polled c and is about to re-arm: what came
\* after its look at c is pending on the vector.
LateCompletionPending ==
    \A v \in Vectors : \A c \in CqsOf(v) \cap unread :
        thread[v] = "poll" /\ c \notin todo[v] =>
            Pending(irq[v]) \/ MessageComing(v) \/ IntrComing(c)

\* Every completion on a CQ with a vector is read in the end, or its queue
\* goes away.
CompletionServed ==
    \A c \in Cqs : c \in unread /\ HasVector(binding[c]) ~> c \notin unread
=============================================================================
