------------------------------ MODULE EnaAdmin ------------------------------
(***************************************************************************)
(* The admin queue: ena_admin_process (hw/ena_admin.c) takes a burst of    *)
(* commands off the AQ, writes one completion each into the ACQ and raises *)
(* vector 0 once after the burst.  A command may itself post an event and  *)
(* raise that vector (AENQ_CONFIG).  The doorbell handler holds the BQL    *)
(* for the whole burst; the guest reads the ACQ, writes further commands   *)
(* and takes interrupts at any time.  What commands do to queues and       *)
(* features is in EnaQueues and EnaFeatures.                               *)
(***************************************************************************)
EXTENDS RingOps

CONSTANTS
    AqDepth,     \* entries of the AQ; those of the ACQ are Depth
    IdMod,       \* ENA_ADMIN_ACQ_COMMON_DESC_COMMAND_ID_MASK + 1
    Cmd          \* the commands the guest sends

Limit == IF AqDepth < Depth THEN AqDepth ELSE Depth
AqSlots == 0..(AqDepth - 1)

\* An admin command: its id and what ena_admin_exec makes of its opcode.
Op == {"plain", "aenq_config", "unknown"}

\* A completion: the id it answers, the status, the AQ head.
Status == {"executed", "bad_opcode"}
Completion == [command : 0..(IdMod - 1), status : Status, sq_head_indx : 0..(W - 1)]

ASSUME AqAssumption ==
    /\ AqDepth \in Nat \ {0}
    /\ \E m \in 1..W : W = m * AqDepth
    /\ IdMod \in Nat \ {0}
    /\ Cmd # {} /\ Cmd \subseteq [id : 0..(IdMod - 1), op : Op]
ASSUME CompletionAssumption == Data = Completion

VARIABLES
    ready,       \* bases and capabilities of both queues are set
    db,          \* REG(AQ_DB)
    aq_head,     \* s->aq_head
    pos,         \* s->acq_tail and s->acq_phase
    tail_reg,    \* REG(ACQ_TAIL)
    intr_mask,   \* REG(INTR_MASK)
    pc,          \* ena_admin_process: "idle", "fetch", "exec" or "answer"
    cur,         \* its command, as a sequence of at most one
    completed,   \* its flag
    aq, acq,     \* the two rings in guest memory
    tail,        \* the guest's AQ tail
    driver,      \* the guest's position in the ACQ
    isr,         \* the guest's handler of vector 0: "idle" or "poll"
    msg,         \* an MSI-X message of vector 0 is on its way
    sent,        \* history: commands whose completion the guest has not read
    fifo,        \* history: completions the guest has not read
    quiet        \* history: a burst ended masked, no message since

device == <<ready, db, aq_head, pos, tail_reg, intr_mask, pc, cur, completed>>
guest == <<tail, driver, isr, sent>>
vars == <<device, guest, aq, acq, msg, fifo, quiet>>

TypeOK ==
    /\ ready \in BOOLEAN /\ intr_mask \in BOOLEAN /\ completed \in BOOLEAN
    /\ msg \in BOOLEAN /\ quiet \in BOOLEAN
    /\ db \in 0..(W - 1) /\ aq_head \in 0..(W - 1) /\ tail_reg \in 0..(W - 1)
    /\ tail \in 0..(W - 1)
    /\ pos \in Position /\ driver \in Position
    /\ pc \in {"idle", "fetch", "exec", "answer"} /\ isr \in {"idle", "poll"}
    /\ cur \in Seq(Cmd) /\ sent \in Seq(Cmd) /\ fifo \in Seq(Completion)
    /\ aq \in [AqSlots -> Cmd] /\ acq \in [Slots -> Entry]

BlankAq == [i \in AqSlots |-> CHOOSE c \in Cmd : TRUE]
BlankAcq == [i \in Slots |-> [phase |-> FALSE, data |-> CHOOSE c \in Completion : TRUE]]

Init ==
    /\ ready = FALSE /\ db = 0 /\ aq_head = 0 /\ pos = Start /\ tail_reg = 0
    /\ intr_mask = FALSE /\ pc = "idle" /\ cur = <<>> /\ completed = FALSE
    /\ aq = BlankAq /\ acq = BlankAcq /\ tail = 0 /\ driver = Start
    /\ isr = "idle" /\ msg = FALSE /\ sent = <<>> /\ fifo = <<>> /\ quiet = FALSE

-----------------------------------------------------------------------------
\* Mutant: a burst that fills the AQ is refused.
AcceptsShort(t) == ready /\ (t - aq_head) % W < AqDepth

\* ena_admin_process goes on: the queues are set up and the tail t is at most
\* the depth of the AQ ahead.
Accepts(t) == ready /\ (t - aq_head) % W <= AqDepth

\* ena_reg_write of AQ_DB, with the guest's tail or one further ahead, as in
\* test_doorbell_past_depth.
Doorbell(t) ==
    /\ pc = "idle"
    /\ db' = t
    /\ pc' = IF Accepts(t) THEN "fetch" ELSE "idle"
    /\ completed' = FALSE
    /\ UNCHANGED <<ready, aq_head, pos, tail_reg, intr_mask, cur, guest,
                   aq, acq, msg, fifo, quiet>>

\* The loop of ena_admin_process reads the next command.
Fetch ==
    /\ pc = "fetch" /\ aq_head # db
    /\ cur' = <<aq[aq_head % AqDepth]>>
    /\ aq_head' = (aq_head + 1) % W
    /\ pc' = "exec"
    /\ UNCHANGED <<ready, db, pos, tail_reg, intr_mask, completed, guest,
                   aq, acq, msg, fifo, quiet>>

\* ena_admin_exec.
Exec(op) == IF op = "unknown" THEN "bad_opcode" ELSE "executed"

\* The command runs.  AENQ_CONFIG posts an event and interrupts when the event
\* queue takes it (EnaAenq), before the completion of the command is written.
Execute ==
    /\ pc = "exec"
    /\ msg' \in IF cur[1].op = "aenq_config" /\ ~intr_mask THEN {msg, TRUE} ELSE {msg}
    /\ pc' = "answer"
    /\ UNCHANGED <<ready, db, aq_head, pos, tail_reg, intr_mask, cur, completed, guest,
                   aq, acq, fifo, quiet>>

\* Mutant: the completion carries the head before the command.
AnswerOldHead(c, head) ==
    [command |-> c.id % IdMod, status |-> Exec(c.op), sq_head_indx |-> (head - 1) % W]

\* The completion of command c, head being the AQ head behind it.
Answer(c, head) ==
    [command |-> c.id % IdMod, status |-> Exec(c.op), sq_head_indx |-> head]

\* Mutant: a command that interrupted for its event needs no interrupt.
CompleteEvent ==
    /\ pc = "answer"
    /\ LET r == Answer(cur[1], aq_head)
       IN /\ acq' = Write(acq, pos, r)
          /\ fifo' = Append(fifo, r)
    /\ pos' = Advance(pos)
    /\ cur' = <<>> /\ pc' = "fetch"
    /\ completed' = (completed \/ cur[1].op # "aenq_config")
    /\ UNCHANGED <<ready, db, aq_head, tail_reg, intr_mask, guest, aq, msg, quiet>>

\* The rest of the loop body: answer and advance.
Complete ==
    /\ pc = "answer"
    /\ LET r == Answer(cur[1], aq_head)
       IN /\ acq' = Write(acq, pos, r)
          /\ fifo' = Append(fifo, r)
    /\ pos' = Advance(pos)
    /\ cur' = <<>> /\ completed' = TRUE /\ pc' = "fetch"
    /\ UNCHANGED <<ready, db, aq_head, tail_reg, intr_mask, guest, aq, msg, quiet>>

\* The end of ena_admin_process: the tail register and the interrupt.
Finish ==
    /\ pc = "fetch" /\ aq_head = db
    /\ tail_reg' = pos.idx
    /\ msg' = (msg \/ (completed /\ ~intr_mask))
    /\ quiet' = IF completed THEN intr_mask ELSE quiet
    /\ pc' = "idle"
    /\ UNCHANGED <<ready, db, aq_head, pos, intr_mask, cur, completed, guest,
                   aq, acq, fifo>>

\* ena_reg_write: bases and capabilities of both queues, once after a reset.
Setup ==
    /\ pc = "idle" /\ ~ready
    /\ ready' = TRUE
    /\ aq_head' = 0 /\ pos' = Start /\ tail_reg' = 0
    /\ UNCHANGED <<db, intr_mask, pc, cur, completed, guest, aq, acq, msg, fifo, quiet>>

\* ena_reg_write: INTR_MASK.
WriteIntrMask ==
    /\ pc = "idle"
    /\ intr_mask' = ~intr_mask
    /\ UNCHANGED <<ready, db, aq_head, pos, tail_reg, pc, cur, completed, guest,
                   aq, acq, msg, fifo, quiet>>

\* ena_dev_reset; the guest starts over with zeroed rings.
DevReset ==
    /\ pc = "idle"
    /\ ready' = FALSE /\ db' = 0 /\ aq_head' = 0 /\ pos' = Start /\ tail_reg' = 0
    /\ intr_mask' = FALSE /\ cur' = <<>> /\ completed' = FALSE
    /\ aq' = BlankAq /\ acq' = BlankAcq /\ tail' = 0 /\ driver' = Start
    /\ isr' = "idle" /\ sent' = <<>> /\ fifo' = <<>> /\ quiet' = FALSE
    /\ UNCHANGED <<pc, msg>>

-----------------------------------------------------------------------------
\* The guest writes a command; it keeps at most Limit of them unanswered.
Submit(c) ==
    /\ ready /\ Len(sent) < Limit
    /\ aq' = [aq EXCEPT ![tail % AqDepth] = c]
    /\ tail' = (tail + 1) % W
    /\ sent' = Append(sent, c)
    /\ UNCHANGED <<device, driver, isr, acq, msg, fifo, quiet>>

\* A thread that waits for its command, or the handler, reads a completion.
Poll ==
    /\ Ready(acq, driver)
    /\ driver' = Advance(driver)
    /\ sent' = Tail(sent)
    /\ fifo' = Tail(fifo)
    /\ UNCHANGED <<device, tail, isr, aq, acq, msg, quiet>>

TakeMessage ==
    /\ msg /\ isr = "idle"
    /\ msg' = FALSE /\ isr' = "poll"
    /\ UNCHANGED <<device, tail, driver, sent, aq, acq, fifo, quiet>>

Done ==
    /\ isr = "poll" /\ ~Ready(acq, driver)
    /\ isr' = "idle" /\ quiet' = FALSE
    /\ UNCHANGED <<device, tail, driver, sent, aq, acq, msg, fifo>>

Next ==
    \/ Doorbell(tail)
    \/ \E n \in (AqDepth + 1)..(W - 1) : Doorbell((aq_head + n) % W)
    \/ Fetch \/ Execute \/ Complete \/ Finish
    \/ Setup \/ WriteIntrMask \/ DevReset
    \/ \E c \in Cmd : Submit(c)
    \/ Poll \/ TakeMessage \/ Done

Spec == Init /\ [][Next]_vars

-----------------------------------------------------------------------------
(* What is checked.                                                        *)

\* No completion is lost, overwritten, repeated or taken early: the ACQ, read
\* from the guest's position, holds the unread completions in the order
\* ena_admin_process wrote them, however bursts, laps and reads interleave.
AdminQueue == Holds(acq, pos, driver, fifo)

\* Every completion answers the command it is read for: in order, with that
\* command's id and status and the AQ head just behind it, so a guest that
\* frees AQ entries up to sq_head_indx never frees an unread command.
Answered ==
    /\ Len(fifo) <= Len(sent)
    /\ \A k \in 1..Len(fifo) :
         /\ fifo[k].command = sent[k].id
         /\ fifo[k].status = Exec(sent[k].op)
         /\ fifo[k].sq_head_indx = (driver.idx + k) % W

\* A guest that sleeps is woken: unread completions come with a message on its
\* way, a running handler, a burst not yet finished, or interrupts masked at
\* its end.  The message of an event posted within the burst is not enough.
CompletionSignalled ==
    fifo # <<>> => msg \/ isr = "poll" \/ pc # "idle" \/ quiet

\* Between bursts the registers tell where the device is: ACQ_TAIL is the
\* position in the ACQ, and the queues have moved by the same number of entries.
RegistersCurrent ==
    pc = "idle" => tail_reg = pos.idx /\ aq_head = pos.idx

\* The doorbell handler runs to its end (it is straight C code under the BQL),
\* a guest that sent commands rings, and its threads and handler run.
Fairness ==
    /\ WF_vars(Fetch) /\ WF_vars(Execute) /\ WF_vars(Complete) /\ WF_vars(Finish)
    /\ WF_vars(Poll) /\ WF_vars(TakeMessage) /\ WF_vars(Done)
    /\ WF_vars(sent # <<>> /\ Doorbell(tail))
FairSpec == Init /\ [][Next]_vars /\ Fairness

\* The oldest unanswered command gets its answer, and the guest reads it, unless
\* it resets the device: no doorbell is refused or burst cut short for ever, up
\* to a full queue.
CommandsAnswered ==
    \A i \in 0..(W - 1) :
        (sent # <<>> /\ driver.idx = i) ~> (sent = <<>> \/ driver.idx # i)
=============================================================================
