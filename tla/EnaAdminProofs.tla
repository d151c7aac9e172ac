---------------------------- MODULE EnaAdminProofs ----------------------------
(***************************************************************************)
(* The admin queue, for all depths of its two rings and every set of       *)
(* commands.  Inv counts everything from the guest's position in the ACQ:  *)
(* behind it come the completions it has not read (fifo), the command the  *)
(* device works on (cur), and the commands still in the AQ, up to the tail *)
(* the guest keeps; and the doorbell of a burst lies among the last.  Then *)
(* EnaQueues, for any number of queues and any set of commands: what a     *)
(* CREATE_SQ checks about the CQ it binds to stays true because DESTROY_CQ *)
(* refuses a bound CQ and a CQ in use never changes.  Last EnaRegs, the    *)
(* register file through which the driver gets there.                      *)
(***************************************************************************)
EXTENDS EnaAdmin, EnaQueues, EnaRegs, RingOpsProofs

\* Commands the device has taken and the guest has no answer to yet.
Taken == Len(fifo) + Len(cur)

\* The guest's limit bounds what is under way, and no command is made up.
Counts == Len(cur) <= 1 /\ Taken <= Len(sent) /\ Len(sent) <= Limit

\* Both AQ indices follow from the guest's position in the ACQ.
Pointers ==
    /\ tail = (driver.idx + Len(sent)) % W
    /\ aq_head = (driver.idx + Taken) % W

\* The commands not taken yet are where the device will look for them.
Waiting ==
    \A k \in (Taken + 1)..Len(sent) :
        aq[(driver.idx + (k - 1)) % AqDepth] = sent[k]

\* The command the device works on is the first that has no completion.
Current ==
    /\ cur # <<>> <=> pc \in {"exec", "answer"}
    /\ cur # <<>> => cur[1] = sent[Len(fifo) + 1]

\* A burst ends at a command the guest has sent.
Rung == pc # "idle" => \E m \in Taken..Len(sent) : db = (driver.idx + m) % W

\* A burst that answered remembers to interrupt.
Signalled ==
    fifo # <<>> => msg \/ isr = "poll" \/ quiet \/ (pc # "idle" /\ completed)

\* Before the queues are set up nothing has happened.
Fresh ==
    ~ready => sent = <<>> /\ aq_head = 0 /\ pos = Start /\ tail_reg = 0 /\ pc = "idle"

TailCurrent == pc = "idle" => tail_reg = pos.idx

Inv ==
    /\ TypeOK /\ AdminQueue /\ Answered
    /\ Counts /\ Pointers /\ Waiting /\ Current /\ Rung
    /\ Signalled /\ Fresh /\ TailCurrent

-----------------------------------------------------------------------------
\* The sizes of the rings, and what the guest's limit is below.
LEMMA AdminSizes ==
    /\ Depth \in Nat \ {0} /\ W \in Nat \ {0} /\ Depth < W
    /\ AqDepth \in Nat \ {0} /\ \E m \in Int : W = m * AqDepth
    /\ Limit \in Nat /\ Limit <= Depth /\ Limit <= AqDepth
<1>1. Depth \in Nat \ {0} /\ W \in Nat \ {0} /\ Depth < W
  BY RingSizes, DepthBelowW, Zenon
<1>2. AqDepth \in Nat \ {0} /\ \E m \in Int : W = m * AqDepth
  <2>1. PICK m \in 1..W : W = m * AqDepth
    BY AqAssumption, Zenon
  <2>2. m \in Int
    BY <1>1
  <2> QED
    BY <2>1, <2>2, AqAssumption, Zenon
<1>3. Limit \in Nat /\ Limit <= Depth /\ Limit <= AqDepth
  BY <1>1, <1>2 DEF Limit
<1> QED
  BY <1>1, <1>2, <1>3, Zenon

\* The slots of the AQ do not notice that its indices wrap.
LEMMA AqIndex ==
    ASSUME NEW a \in Int
    PROVE  (a % W) % AqDepth = a % AqDepth
<1>1. PICK m \in Int : W = m * AqDepth
  BY AdminSizes, Zenon
<1>2. W \in Nat \ {0} /\ AqDepth \in Nat \ {0}
  BY AdminSizes, Zenon
<1>3. W = m * AqDepth => (a % W) % AqDepth = a % AqDepth
  BY <1>2, ModMod, Zenon
<1> QED
  BY <1>1, <1>3, Zenon

\* Nor when something is added to a wrapped index.
LEMMA AqWrap ==
    ASSUME NEW a \in Int, NEW k \in Int
    PROVE  ((a % W) + k) % AqDepth = (a + k) % AqDepth
<1>1. (a % W) + k \in Int /\ a + k \in Int
  <2>1. a % W \in 0..(W - 1)
    BY AdminSizes, DivMod, Zenon
  <2> QED
    BY <2>1, AdminSizes
<1>2. (((a % W) + k) % W) % AqDepth = ((a % W) + k) % AqDepth
  BY <1>1, AqIndex, Zenon
<1>3. ((a + k) % W) % AqDepth = (a + k) % AqDepth
  BY <1>1, AqIndex, Zenon
<1>4. ((a % W) + k) % W = (a + k) % W
  BY WrapAdd, Zenon
<1> QED
  BY <1>2, <1>3, <1>4, Zenon

\* The counts of the invariant are numbers.
LEMMA InvCounts ==
    ASSUME Inv
    PROVE  /\ Len(fifo) \in Nat /\ Len(cur) \in Nat /\ Len(sent) \in Nat /\ Taken \in Nat
           /\ Taken = Len(fifo) + Len(cur) /\ Len(cur) <= 1 /\ Taken <= Len(sent)
           /\ Len(sent) <= Limit /\ driver.idx \in 0..(W - 1) /\ driver.idx \in Int
           /\ driver \in Position /\ pos \in Position
           /\ fifo \in Seq(Completion) /\ cur \in Seq(Cmd) /\ sent \in Seq(Cmd)
<1>1. /\ fifo \in Seq(Completion) /\ cur \in Seq(Cmd) /\ sent \in Seq(Cmd)
      /\ driver \in Position /\ pos \in Position /\ Counts
  BY Zenon DEF Inv, TypeOK
<1>2. Len(fifo) \in Nat /\ Len(cur) \in Nat /\ Len(sent) \in Nat
  BY <1>1
<1>3. driver.idx \in 0..(W - 1) /\ driver.idx \in Int
  BY <1>1, AdminSizes DEF Position
<1>4. Taken \in Nat /\ Taken = Len(fifo) + Len(cur)
  BY <1>2 DEF Taken
<1> QED
  BY <1>1, <1>2, <1>3, <1>4, Zenon DEF Counts

\* The guest sees an entry exactly when a completion waits, and reads that one.
LEMMA AcqRead ==
    ASSUME Inv
    PROVE  /\ Ready(acq, driver) <=> fifo # <<>>
           /\ fifo # <<>> => /\ Advance(driver) \in Position
                             /\ Holds(acq, pos, Advance(driver), Tail(fifo))
<1>1. /\ acq \in [Slots -> Entry] /\ pos \in Position /\ driver \in Position
      /\ fifo \in Seq(Data) /\ Holds(acq, pos, driver, fifo)
  BY CompletionAssumption, Zenon DEF Inv, TypeOK, AdminQueue
<1> QED
  BY <1>1, ReadHolds, Zenon

-----------------------------------------------------------------------------
\* Steps that leave the queues and the burst alone.
LEMMA QuietStep ==
    ASSUME Inv, UNCHANGED <<aq_head, pos, cur, aq, acq, tail, driver, sent, fifo>>
    PROVE  AdminQueue' /\ Answered' /\ Counts' /\ Pointers' /\ Waiting'
<1>1. AdminQueue' /\ Answered'
  BY Zenon DEF Inv, AdminQueue, Answered
<1>2. Counts' /\ Pointers' /\ Waiting'
  BY Zenon DEF Inv, Counts, Pointers, Waiting, Taken
<1> QED
  BY <1>1, <1>2, Zenon

\* A doorbell starts a burst up to the guest's tail, or none.
LEMMA DoorbellInv == Inv /\ Doorbell(tail) => Inv'
<1> SUFFICES ASSUME Inv, Doorbell(tail) PROVE Inv'
  BY Zenon
<1>1. /\ pc = "idle" /\ db' = tail /\ pc' \in {"fetch", "idle"} /\ completed' = FALSE
      /\ (pc' = "fetch" => ready)
      /\ UNCHANGED <<ready, aq_head, pos, tail_reg, intr_mask, cur, tail, driver, isr,
                     sent, aq, acq, msg, fifo, quiet>>
  BY Zenon DEF Doorbell, Accepts, guest
<1>2. AdminQueue' /\ Answered' /\ Counts' /\ Pointers' /\ Waiting'
  BY <1>1, QuietStep, Zenon
<1>3. TypeOK'
  BY <1>1, Zenon DEF Inv, TypeOK
<1>4. Current' /\ TailCurrent' /\ Fresh' /\ Signalled'
  BY <1>1, Zenon DEF Inv, Current, TailCurrent, Fresh, Signalled
<1>5. Rung'
  <2>1. Len(sent) \in Taken..Len(sent) /\ db' = (driver.idx + Len(sent)) % W
    BY <1>1, InvCounts DEF Inv, Pointers
  <2> QED
    BY <1>1, <2>1, Zenon DEF Rung, Taken
<1> QED
  BY <1>2, <1>3, <1>4, <1>5, Zenon DEF Inv

\* A doorbell past the depth of the AQ starts none.
LEMMA DoorbellPastInv ==
    ASSUME Inv, NEW n \in (AqDepth + 1)..(W - 1), Doorbell((aq_head + n) % W)
    PROVE  Inv'
<1>1. aq_head \in 0..(W - 1) /\ aq_head \in Int /\ n \in 0..(W - 1) /\ n \in Int /\ n > AqDepth
  BY AdminSizes DEF Inv, TypeOK
<1>2. (((aq_head + n) % W) - aq_head) % W = n
  <2>1. aq_head + n \in Int /\ (aq_head + n) - aq_head = n
    BY <1>1
  <2>2. (((aq_head + n) % W) - (aq_head % W)) % W = ((aq_head + n) - aq_head) % W
    BY <1>1, <2>1, SubMod, Zenon
  <2>3. aq_head % W = aq_head /\ n % W = n
    BY <1>1, ModSmall, Zenon
  <2> QED
    BY <2>1, <2>2, <2>3, Zenon
<1>3. ~Accepts((aq_head + n) % W)
  <2>1. ~(n <= AqDepth)
    BY <1>1, AdminSizes
  <2> QED
    BY <1>2, <2>1, Zenon DEF Accepts
<1>4. (aq_head + n) % W \in 0..(W - 1)
  BY <1>1, WrapIndex
<1>5. /\ pc = "idle" /\ db' \in 0..(W - 1) /\ pc' = "idle" /\ completed' = FALSE
      /\ UNCHANGED <<ready, aq_head, pos, tail_reg, intr_mask, cur, tail, driver, isr,
                     sent, aq, acq, msg, fifo, quiet>>
  BY <1>3, <1>4, Zenon DEF Doorbell, guest
<1>6. AdminQueue' /\ Answered' /\ Counts' /\ Pointers' /\ Waiting'
  BY <1>5, QuietStep, Zenon
<1>7. TypeOK'
  BY <1>5, Zenon DEF Inv, TypeOK
<1>8. Current' /\ TailCurrent' /\ Fresh' /\ Signalled' /\ Rung'
  BY <1>5, Zenon DEF Inv, Current, TailCurrent, Fresh, Signalled, Rung
<1> QED
  BY <1>6, <1>7, <1>8, Zenon DEF Inv

\* A command runs; its event may interrupt.
LEMMA ExecuteInv == Inv /\ Execute => Inv'
<1> SUFFICES ASSUME Inv, Execute PROVE Inv'
  BY Zenon
<1>1. /\ pc = "exec" /\ pc' = "answer" /\ msg' \in {msg, TRUE}
      /\ UNCHANGED <<ready, db, aq_head, pos, tail_reg, intr_mask, cur, completed,
                     tail, driver, isr, sent, aq, acq, fifo, quiet>>
  BY Zenon DEF Execute, guest
<1>2. AdminQueue' /\ Answered' /\ Counts' /\ Pointers' /\ Waiting'
  BY <1>1, QuietStep, Zenon
<1>3. TypeOK'
  BY <1>1, Zenon DEF Inv, TypeOK
<1>4. Current' /\ TailCurrent' /\ Fresh' /\ Signalled'
  BY <1>1, Zenon DEF Inv, Current, TailCurrent, Fresh, Signalled
<1>5. Rung'
  BY <1>1, Zenon DEF Inv, Rung, Taken
<1> QED
  BY <1>2, <1>3, <1>4, <1>5, Zenon DEF Inv

\* The device takes the first command it has not taken: the one the guest sent.
LEMMA FetchInv == Inv /\ Fetch => Inv'
<1> SUFFICES ASSUME Inv, Fetch PROVE Inv'
  BY Zenon
<1> DEFINE n == Len(fifo)
           d == driver.idx
<1>1. /\ pc = "fetch" /\ aq_head # db /\ cur' = <<aq[aq_head % AqDepth]>>
      /\ aq_head' = (aq_head + 1) % W /\ pc' = "exec"
      /\ UNCHANGED <<ready, db, pos, tail_reg, intr_mask, completed, tail, driver, isr,
                     sent, aq, acq, msg, fifo, quiet>>
  BY Zenon DEF Fetch, guest
<1>2. cur = <<>> /\ Len(cur) = 0 /\ Taken = n /\ n \in Nat /\ d \in Int /\ n + 1 \in Nat
      /\ n <= Len(sent) /\ Len(sent) \in Nat
  <2>1. cur = <<>>
    BY <1>1, Zenon DEF Inv, Current
  <2>2. Len(cur) = 0
    BY <2>1, Zenon
  <2> QED
    BY <2>1, <2>2, InvCounts
<1>3. PICK m \in n..Len(sent) : db = (d + m) % W
  BY <1>1, <1>2, Zenon DEF Inv, Rung
<1>4. m \in (n + 1)..Len(sent)
  <2>1. aq_head = (d + n) % W
    BY <1>2, Zenon DEF Inv, Pointers
  <2>2. m # n
    BY <1>1, <1>3, <2>1, Zenon
  <2> QED
    BY <1>2, <1>3, <2>2
<1>5. n + 1 <= Len(sent) /\ n + 1 \in (n + 1)..Len(sent) /\ (n + 1) - 1 = n
  BY <1>2, <1>4
<1>6. aq[aq_head % AqDepth] = sent[n + 1]
  <2>1. aq[(d + ((n + 1) - 1)) % AqDepth] = sent[n + 1]
    BY <1>2, <1>5, Zenon DEF Inv, Waiting
  <2>2. d + n \in Int
    BY <1>2
  <2>3. aq_head % AqDepth = (d + n) % AqDepth
    BY <1>2, <2>2, AqIndex, Zenon DEF Inv, Pointers
  <2> QED
    BY <1>5, <2>1, <2>3, Zenon
<1>7. sent[n + 1] \in Cmd
  <2>1. n + 1 \in 1..Len(sent)
    BY <1>2, <1>5
  <2> QED
    BY <2>1, InvCounts
<1>8. cur' = <<sent[n + 1]>> /\ cur' \in Seq(Cmd) /\ Len(cur') = 1 /\ cur'[1] = sent[n + 1]
      /\ cur' # <<>>
  BY <1>1, <1>6, <1>7
<1>9. Taken' = n + 1
  BY <1>1, <1>8, Zenon DEF Taken
<1> HIDE DEF n, d
<1>10. aq_head' = (d + (n + 1)) % W /\ aq_head' \in 0..(W - 1)
  <2>1. d + n \in Int /\ 1 \in Int /\ (d + n) + 1 = d + (n + 1) /\ d + (n + 1) \in Int
    BY <1>2
  <2>2. aq_head = (d + n) % W
    BY <1>2, Zenon DEF Inv, Pointers, d
  <2>3. (((d + n) % W) + 1) % W = ((d + n) + 1) % W
    BY <2>1, WrapAdd, Zenon
  <2>4. aq_head' = (d + (n + 1)) % W
    BY <1>1, <2>1, <2>2, <2>3, Zenon
  <2> QED
    BY <2>1, <2>4, WrapIndex, Zenon
<1>11. AdminQueue' /\ Answered'
  BY <1>1, Zenon DEF Inv, AdminQueue, Answered
<1>12. Counts'
  BY <1>1, <1>5, <1>8, <1>9 DEF Inv, Counts
<1>13. Pointers'
  BY <1>1, <1>9, <1>10, Zenon DEF Inv, Pointers, d
<1>14. Waiting'
  <2>1. \A k \in ((n + 1) + 1)..Len(sent) : k \in (n + 1)..Len(sent)
    BY <1>2
  <2> QED
    BY <1>1, <1>2, <1>9, <2>1 DEF Inv, Waiting
<1>15. Current'
  BY <1>1, <1>8, Zenon DEF Current, n
<1>16. Rung'
  BY <1>1, <1>3, <1>4, <1>9, Zenon DEF Rung, d
<1>17. Signalled' /\ Fresh' /\ TailCurrent'
  BY <1>1, Zenon DEF Inv, Signalled, Fresh, TailCurrent
<1>18. TypeOK'
  BY <1>1, <1>8, <1>10, Zenon DEF Inv, TypeOK
<1> QED
  BY <1>11, <1>12, <1>13, <1>14, <1>15, <1>16, <1>17, <1>18, Zenon DEF Inv

\* A completion of the command the device works on.
LEMMA AnswerLemma ==
    ASSUME NEW c \in Cmd, NEW head \in 0..(W - 1)
    PROVE  /\ Answer(c, head) \in Completion
           /\ Answer(c, head).command = c.id
           /\ Answer(c, head).status = Exec(c.op)
           /\ Answer(c, head).sq_head_indx = head
<1>1. c.id \in 0..(IdMod - 1) /\ IdMod \in Nat \ {0} /\ c.id \in Int
  BY AqAssumption
<1>2. c.id % IdMod = c.id
  <2>1. c.id = IdMod * 0 + c.id
    BY <1>1
  <2> QED
    BY <1>1, <2>1, ModUnique
<1>3. Exec(c.op) \in Status
  BY Zenon DEF Exec, Status
<1> QED
  BY <1>1, <1>2, <1>3, Zenon DEF Answer, Completion

\* The answer goes to the next free entry of the ACQ and to the right command.
LEMMA CompleteInv == Inv /\ Complete => Inv'
<1> SUFFICES ASSUME Inv, Complete PROVE Inv'
  BY Zenon
<1> DEFINE n == Len(fifo)
           d == driver.idx
           r == Answer(cur[1], aq_head)
<1>1. /\ pc = "answer" /\ acq' = Write(acq, pos, r) /\ fifo' = Append(fifo, r)
      /\ pos' = Advance(pos) /\ cur' = <<>> /\ completed' = TRUE /\ pc' = "fetch"
      /\ UNCHANGED <<ready, db, aq_head, tail_reg, intr_mask, tail, driver, isr, sent,
                     aq, msg, quiet>>
  BY Zenon DEF Complete, guest
<1>2. cur # <<>> /\ Len(cur) = 1 /\ n \in Nat /\ n + 1 \in Nat /\ d \in Int
      /\ Taken = n + 1 /\ n + 1 <= Len(sent) /\ Len(sent) \in Nat
  <2>1. cur # <<>>
    BY <1>1, Zenon DEF Inv, Current
  <2>2. Len(cur) = 1
    <3>1. cur \in Seq(Cmd) /\ Len(cur) \in Nat /\ Len(cur) <= 1
      BY InvCounts, Zenon
    <3>2. Len(cur) # 0
      BY <2>1, <3>1
    <3>3. \A k \in Nat : k <= 1 /\ k # 0 => k = 1
      OBVIOUS
    <3> QED
      BY <3>1, <3>2, <3>3, Zenon
  <2> QED
    BY <2>1, <2>2, InvCounts, Zenon
<1>3. n < Depth
  BY <1>2, InvCounts, AdminSizes
<1>4. n + 1 \in 1..Len(sent)
  BY <1>2
<1>5. cur[1] = sent[n + 1] /\ sent[n + 1] \in Cmd
  BY <1>2, <1>4, InvCounts DEF Inv, Current
<1>6. aq_head \in 0..(W - 1) /\ aq_head = (d + (n + 1)) % W
  BY <1>2, Zenon DEF Inv, TypeOK, Pointers
<1>7. /\ r \in Completion /\ r.command = sent[n + 1].id /\ r.status = Exec(sent[n + 1].op)
      /\ r.sq_head_indx = (d + (n + 1)) % W
  BY <1>5, <1>6, AnswerLemma
<1> HIDE DEF r
<1>8. /\ acq' \in [Slots -> Entry] /\ pos' \in Position /\ AdminQueue'
  <2>1. /\ acq \in [Slots -> Entry] /\ pos \in Position /\ driver \in Position
        /\ fifo \in Seq(Data) /\ Holds(acq, pos, driver, fifo) /\ r \in Data
    BY <1>7, CompletionAssumption, Zenon DEF Inv, TypeOK, AdminQueue
  <2>2. Len(fifo) < Depth
    BY <1>3, Zenon
  <2> QED
    BY <1>1, <2>1, <2>2, WriteHolds, Zenon DEF AdminQueue
<1>9. /\ fifo' \in Seq(Completion) /\ Len(fifo') = n + 1 /\ fifo'[n + 1] = r
      /\ \A k \in 1..n : fifo'[k] = fifo[k]
  <2>1. fifo \in Seq(Completion)
    BY InvCounts, Zenon
  <2> QED
    BY <1>1, <1>7, <2>1
<1>10. Len(cur') = 0 /\ cur' \in Seq(Cmd)
  BY <1>1
<1>11. Taken' = n + 1 /\ Taken' = Taken
  BY <1>2, <1>9, <1>10 DEF Taken
<1> HIDE DEF n, d
<1>12. Answered'
  <2>1. ASSUME NEW k \in 1..(n + 1)
        PROVE  /\ fifo'[k].command = sent[k].id
               /\ fifo'[k].status = Exec(sent[k].op)
               /\ fifo'[k].sq_head_indx = (d + k) % W
    <3>1. CASE k = n + 1
      BY <1>7, <1>9, <3>1, Zenon
    <3>2. CASE k \in 1..n
      BY <1>9, <3>2, Zenon DEF Inv, Answered, n, d
    <3>3. k = n + 1 \/ k \in 1..n
      BY <1>2
    <3> QED
      BY <3>1, <3>2, <3>3, Zenon
  <2> QED
    BY <1>1, <1>2, <1>9, <2>1, Zenon DEF Answered, d
<1>13. Counts'
  BY <1>1, <1>2, <1>10, <1>11 DEF Inv, Counts
<1>14. Pointers' /\ Waiting'
  BY <1>1, <1>11, Zenon DEF Inv, Pointers, Waiting
<1>15. Current' /\ Signalled' /\ Fresh' /\ TailCurrent'
  BY <1>1, Zenon DEF Inv, Current, Signalled, Fresh, TailCurrent
<1>16. Rung'
  BY <1>1, <1>11, Zenon DEF Inv, Rung
<1>17. TypeOK'
  BY <1>1, <1>8, <1>9, <1>10, Zenon DEF Inv, TypeOK
<1> QED
  BY <1>8, <1>12, <1>13, <1>14, <1>15, <1>16, <1>17, Zenon DEF Inv

\* The end of a burst interrupts, or leaves the note that it was masked.
LEMMA FinishInv == Inv /\ Finish => Inv'
<1> SUFFICES ASSUME Inv, Finish PROVE Inv'
  BY Zenon
<1>1. /\ pc = "fetch" /\ tail_reg' = pos.idx /\ msg' = (msg \/ (completed /\ ~intr_mask))
      /\ quiet' = (IF completed THEN intr_mask ELSE quiet) /\ pc' = "idle"
      /\ UNCHANGED <<ready, db, aq_head, pos, intr_mask, cur, completed, tail, driver, isr,
                     sent, aq, acq, fifo>>
  BY Zenon DEF Finish, guest
<1>2. AdminQueue' /\ Answered' /\ Counts' /\ Pointers' /\ Waiting'
  BY <1>1, QuietStep, Zenon
<1>3. tail_reg' \in 0..(W - 1) /\ msg' \in BOOLEAN /\ quiet' \in BOOLEAN
  <2>1. tail_reg' \in 0..(W - 1)
    BY <1>1, InvCounts, Zenon DEF Position
  <2>2. msg' \in BOOLEAN /\ quiet' \in BOOLEAN
    BY <1>1, Zenon DEF Inv, TypeOK
  <2> QED
    BY <2>1, <2>2, Zenon
<1>4. TypeOK'
  BY <1>1, <1>3, Zenon DEF Inv, TypeOK
<1>5. Current' /\ TailCurrent' /\ Fresh' /\ Rung'
  BY <1>1, Zenon DEF Inv, Current, TailCurrent, Fresh, Rung
<1>6. Signalled'
  BY <1>1, Zenon DEF Inv, Signalled
<1> QED
  BY <1>2, <1>4, <1>5, <1>6, Zenon DEF Inv

\* Setting the queues up leaves them as the reset left them.
LEMMA SetupInv == Inv /\ Setup => Inv'
<1> SUFFICES ASSUME Inv, Setup PROVE Inv'
  BY Zenon
<1>1. /\ ready' = TRUE /\ pc = "idle"
      /\ UNCHANGED <<aq_head, pos, tail_reg, db, intr_mask, pc, cur, completed, tail,
                     driver, isr, sent, aq, acq, msg, fifo, quiet>>
  BY Zenon DEF Setup, guest, Inv, Fresh
<1>2. AdminQueue' /\ Answered' /\ Counts' /\ Pointers' /\ Waiting'
  BY <1>1, QuietStep, Zenon
<1>3. TypeOK'
  BY <1>1, Zenon DEF Inv, TypeOK
<1>4. Current' /\ TailCurrent' /\ Fresh' /\ Signalled' /\ Rung'
  BY <1>1, Zenon DEF Inv, Current, TailCurrent, Fresh, Signalled, Rung
<1> QED
  BY <1>2, <1>3, <1>4, Zenon DEF Inv

\* The guest masks or unmasks vector 0, takes its message, leaves its handler.
LEMMA InterruptInv == Inv /\ (WriteIntrMask \/ TakeMessage \/ Done) => Inv'
<1> SUFFICES ASSUME Inv, WriteIntrMask \/ TakeMessage \/ Done PROVE Inv'
  BY Zenon
<1>1. /\ UNCHANGED <<ready, db, aq_head, pos, tail_reg, pc, cur, completed, tail, driver,
                     sent, aq, acq, fifo>>
      /\ (isr' = "poll" \/ fifo = <<>> \/ UNCHANGED <<isr, msg, quiet>>)
  BY AcqRead, Zenon DEF WriteIntrMask, TakeMessage, Done, device, guest
<1>2. AdminQueue' /\ Answered' /\ Counts' /\ Pointers' /\ Waiting'
  BY <1>1, QuietStep, Zenon
<1>3. /\ intr_mask' \in BOOLEAN /\ msg' \in BOOLEAN /\ quiet' \in BOOLEAN
      /\ isr' \in {"idle", "poll"}
  <2>1. intr_mask \in BOOLEAN /\ msg \in BOOLEAN /\ quiet \in BOOLEAN /\ isr \in {"idle", "poll"}
    BY Zenon DEF Inv, TypeOK
  <2> QED
    BY <2>1, Zenon DEF WriteIntrMask, TakeMessage, Done, device, guest
<1>4. TypeOK'
  BY <1>1, <1>3, Zenon DEF Inv, TypeOK
<1>5. Current' /\ TailCurrent' /\ Fresh' /\ Signalled'
  BY <1>1, Zenon DEF Inv, Current, TailCurrent, Fresh, Signalled
<1>6. Rung'
  BY <1>1, Zenon DEF Inv, Rung, Taken
<1> QED
  BY <1>2, <1>4, <1>5, <1>6, Zenon DEF Inv

\* The state after a reset.
ResetState ==
    /\ ready = FALSE /\ db = 0 /\ aq_head = 0 /\ pos = Start /\ tail_reg = 0
    /\ intr_mask = FALSE /\ pc = "idle" /\ cur = <<>> /\ completed = FALSE
    /\ aq = BlankAq /\ acq = BlankAcq /\ tail = 0 /\ driver = Start /\ isr = "idle"
    /\ sent = <<>> /\ fifo = <<>> /\ quiet = FALSE /\ msg \in BOOLEAN

\* Nothing is under way in it.
LEMMA ResetInv == ResetState => Inv
<1> SUFFICES ASSUME ResetState PROVE Inv
  BY Zenon
<1> USE DEF ResetState
<1>1. 0 \in 0..(W - 1) /\ 0 + 0 = 0 /\ 0 % W = 0 /\ Start.idx = 0 /\ 0 \in Int
  <2>1. 0 \in 0..(W - 1)
    BY AdminSizes
  <2> QED
    BY <2>1, ModSmall DEF Start
<1>2. Len(cur) = 0 /\ Len(fifo) = 0 /\ Len(sent) = 0 /\ Taken = 0
  BY DEF Taken
<1>3. BlankAq \in [AqSlots -> Cmd]
  BY AqAssumption, Zenon DEF BlankAq
<1>4. /\ BlankAcq \in [Slots -> Entry] /\ \A i \in Slots : BlankAcq[i].phase = FALSE
  <2>1. Completion # {}
    <3>1. 0 \in 0..(IdMod - 1) /\ 0 \in 0..(W - 1) /\ "executed" \in Status
      BY AdminSizes, AqAssumption DEF Status
    <3>2. [command |-> 0, status |-> "executed", sq_head_indx |-> 0] \in Completion
      BY <3>1, Zenon DEF Completion
    <3> QED
      BY <3>2, Zenon
  <2>2. [phase |-> FALSE, data |-> CHOOSE c \in Completion : TRUE] \in Entry
    BY <2>1, CompletionAssumption, Zenon DEF Entry
  <2> QED
    BY <2>2, Zenon DEF BlankAcq
<1>5. Start \in Position /\ AdminQueue
  BY <1>4, StartHolds, Zenon DEF AdminQueue
<1>6. TypeOK
  <2>1. <<>> \in Seq(Cmd) /\ <<>> \in Seq(Completion)
    OBVIOUS
  <2> QED
    BY <1>1, <1>3, <1>4, <1>5, <2>1, Zenon DEF TypeOK
<1>7. Answered /\ Counts
  <2>1. \A k \in 1..Len(fifo) : FALSE
    BY <1>2
  <2>2. 0 <= 1 /\ 0 <= 0 /\ 0 <= Limit
    BY AdminSizes
  <2> QED
    BY <1>2, <2>1, <2>2, Zenon DEF Answered, Counts
<1>8. Pointers
  BY <1>1, <1>2, Zenon DEF Pointers
<1>9. Waiting
  BY <1>2 DEF Waiting
<1>10. Current /\ Rung /\ Signalled /\ Fresh /\ TailCurrent
  BY <1>1, Zenon DEF Current, Rung, Signalled, Fresh, TailCurrent
<1> QED
  BY <1>5, <1>6, <1>7, <1>8, <1>9, <1>10, Zenon DEF Inv

\* The device starts in that state.
LEMMA InitInv == Init => Inv
<1>1. Init => ResetState
  BY Zenon DEF Init, ResetState
<1> QED
  BY <1>1, ResetInv, Zenon

\* The same of the state a step leads to.
LEMMA ResetInvNext == (ResetState => Inv)'
BY ResetInv, PTL

\* A reset.
LEMMA DevResetInv == Inv /\ DevReset => Inv'
<1> SUFFICES ASSUME Inv, DevReset PROVE Inv'
  BY Zenon
<1>1. ResetState'
  BY Zenon DEF DevReset, ResetState, Inv, TypeOK
<1> QED
  BY <1>1, ResetInvNext, Zenon

\* A new command goes behind those that wait and overwrites none of them.
LEMMA SubmitInv ==
    ASSUME Inv, NEW c \in Cmd, Submit(c)
    PROVE  Inv'
<1> DEFINE s == Len(sent)
           d == driver.idx
           t == Taken
<1>1. /\ ready /\ s < Limit /\ aq' = [aq EXCEPT ![tail % AqDepth] = c]
      /\ tail' = (tail + 1) % W /\ sent' = Append(sent, c)
      /\ UNCHANGED <<ready, db, aq_head, pos, tail_reg, intr_mask, pc, cur, completed,
                     driver, isr, acq, msg, fifo, quiet>>
  BY Zenon DEF Submit, device
<1>2. s \in Nat /\ t \in Nat /\ t <= s /\ d \in Int /\ sent \in Seq(Cmd)
      /\ Len(fifo) \in Nat /\ Len(cur) \in Nat /\ t = Len(fifo) + Len(cur)
  BY InvCounts, Zenon
<1>3. /\ sent' \in Seq(Cmd) /\ Len(sent') = s + 1 /\ sent'[s + 1] = c
      /\ \A k \in 1..s : sent'[k] = sent[k]
  BY <1>1, <1>2
<1>4. Taken' = t
  BY <1>1, Zenon DEF Taken
<1>5. tail = (d + s) % W /\ d + s \in Int
  BY <1>2 DEF Inv, Pointers
<1> HIDE DEF s, d, t
<1>6. tail' = (d + (s + 1)) % W /\ tail' \in 0..(W - 1)
  <2>1. 1 \in Int /\ (d + s) + 1 = d + (s + 1) /\ d + (s + 1) \in Int
    BY <1>2
  <2>2. (((d + s) % W) + 1) % W = ((d + s) + 1) % W
    BY <1>5, <2>1, WrapAdd, Zenon
  <2>3. tail' = (d + (s + 1)) % W
    BY <1>1, <1>5, <2>1, <2>2, Zenon
  <2> QED
    BY <2>1, <2>3, WrapIndex, Zenon
<1>7. tail % AqDepth = (d + s) % AqDepth /\ tail % AqDepth \in AqSlots
  <2>1. tail % AqDepth = (d + s) % AqDepth
    BY <1>5, AqIndex, Zenon
  <2>2. (d + s) % AqDepth \in AqSlots
    BY <1>5, AdminSizes, DivMod, Zenon DEF AqSlots
  <2> QED
    BY <2>1, <2>2, Zenon
<1>8. aq \in [AqSlots -> Cmd] /\ aq' \in [AqSlots -> Cmd] /\ aq'[(d + s) % AqDepth] = c
  <2>1. aq \in [AqSlots -> Cmd]
    BY Zenon DEF Inv, TypeOK
  <2> QED
    BY <1>1, <1>7, <2>1, Zenon
<1>9. Waiting'
  <2>1. ASSUME NEW k \in (t + 1)..(s + 1)
        PROVE  aq'[(d + (k - 1)) % AqDepth] = sent'[k]
    <3>1. CASE k = s + 1
      <4>1. k - 1 = s
        BY <1>2, <3>1
      <4> QED
        BY <1>3, <1>8, <3>1, <4>1, Zenon
    <3>2. CASE k # s + 1
      <4>1. k \in (t + 1)..s /\ k \in 1..s
        BY <1>2, <3>2
      <4>2. aq[(d + (k - 1)) % AqDepth] = sent[k]
        BY <4>1, Zenon DEF Inv, Waiting, t, s, d
      <4>3. (d + (k - 1)) % AqDepth # (d + s) % AqDepth
        <5>1. /\ d + (k - 1) \in Int /\ d + (k - 1) < d + s
              /\ (d + s) - (d + (k - 1)) < AqDepth
          <6>1. s < AqDepth /\ AqDepth \in Nat
            BY <1>1, <1>2, AdminSizes
          <6> QED
            BY <1>2, <4>1, <6>1
        <5> QED
          BY <1>5, <5>1, AdminSizes, ModClose, Zenon
      <4>4. (d + (k - 1)) % AqDepth \in AqSlots
        <5>1. d + (k - 1) \in Int
          BY <1>2
        <5> QED
          BY <5>1, AdminSizes, DivMod, Zenon DEF AqSlots
      <4>5. aq'[(d + (k - 1)) % AqDepth] = aq[(d + (k - 1)) % AqDepth]
        BY <1>1, <1>7, <1>8, <4>3, <4>4, Zenon
      <4> QED
        BY <1>3, <4>1, <4>2, <4>5, Zenon
    <3> QED
      BY <3>1, <3>2, Zenon
  <2> QED
    BY <1>1, <1>3, <1>4, <2>1, Zenon DEF Waiting, d
<1>10. Counts' /\ Pointers'
  <2>1. Counts'
    BY <1>1, <1>2, <1>3, <1>4, AdminSizes DEF Inv, Counts, t
  <2>2. Pointers'
    BY <1>1, <1>3, <1>4, <1>6, Zenon DEF Inv, Pointers, d, t
  <2> QED
    BY <2>1, <2>2, Zenon
<1>11. AdminQueue' /\ Answered'
  <2>1. AdminQueue'
    BY <1>1, Zenon DEF Inv, AdminQueue
  <2>2. \A k \in 1..Len(fifo) : k \in 1..s
    BY <1>2
  <2>3. Len(fifo) <= s + 1
    BY <1>2
  <2> QED
    BY <1>1, <1>3, <2>1, <2>2, <2>3, Zenon DEF Inv, Answered
<1>12. Current'
  <2>1. ASSUME cur # <<>> PROVE Len(fifo) + 1 \in 1..s
    <3>1. Len(cur) # 0
      BY <2>1, InvCounts
    <3> QED
      BY <1>2, <3>1
  <2> QED
    BY <1>1, <1>3, <2>1, Zenon DEF Inv, Current
<1>13. Rung'
  <2>1. \A m \in t..s : m \in t..(s + 1)
    BY <1>2
  <2> QED
    BY <1>1, <1>3, <1>4, <2>1, Zenon DEF Inv, Rung, d, t, s
<1>14. Signalled' /\ Fresh' /\ TailCurrent'
  BY <1>1, Zenon DEF Inv, Signalled, Fresh, TailCurrent
<1>15. TypeOK'
  BY <1>1, <1>3, <1>6, <1>8, Zenon DEF Inv, TypeOK
<1> QED
  BY <1>9, <1>10, <1>11, <1>12, <1>13, <1>14, <1>15, Zenon DEF Inv

\* The guest reads the completion of its oldest command; everything it counts
\* from its position moves up by one.
LEMMA PollInv == Inv /\ Poll => Inv'
<1> SUFFICES ASSUME Inv, Poll PROVE Inv'
  BY Zenon
<1> DEFINE n == Len(fifo)
           s == Len(sent)
           d == driver.idx
           t == Taken
<1>1. /\ fifo # <<>> /\ driver' = Advance(driver) /\ sent' = Tail(sent) /\ fifo' = Tail(fifo)
      /\ UNCHANGED <<ready, db, aq_head, pos, tail_reg, intr_mask, pc, cur, completed,
                     tail, isr, aq, acq, msg, quiet>>
  BY AcqRead, Zenon DEF Poll, device
<1>2. /\ n \in Nat /\ s \in Nat /\ t \in Nat /\ Len(cur) \in Nat /\ t = n + Len(cur)
      /\ t <= s /\ d \in Int /\ sent \in Seq(Cmd) /\ fifo \in Seq(Completion)
      /\ s <= Limit
  BY InvCounts, Zenon
<1>3. n # 0
  BY <1>1, <1>2
<1>4. n >= 1 /\ t >= 1 /\ s >= 1 /\ s - 1 \in Nat /\ t - 1 \in Nat /\ n - 1 \in Nat
  BY <1>2, <1>3
<1>5. sent # <<>>
  BY <1>2, <1>4
<1>6. /\ fifo' \in Seq(Completion) /\ Len(fifo') = n - 1
      /\ \A k \in 1..(n - 1) : fifo'[k] = fifo[k + 1]
  BY <1>1, <1>2
<1>7. /\ sent' \in Seq(Cmd) /\ Len(sent') = s - 1
      /\ \A k \in 1..(s - 1) : sent'[k] = sent[k + 1]
  BY <1>1, <1>2, <1>5
<1>8. AdminQueue' /\ driver' \in Position
  BY <1>1, AcqRead, Zenon DEF AdminQueue
<1>9. driver'.idx = (d + 1) % W
  <2>1. driver \in Position /\ driver.phase = PhaseOf(driver.idx)
    BY InvCounts, Zenon DEF Inv, AdminQueue, Holds
  <2> QED
    BY <1>1, <2>1, AdvanceLemma, Zenon
<1> HIDE DEF n, s, d, t
<1>10. Taken' = t - 1
  <2>1. (n - 1) + Len(cur) = t - 1
    BY <1>2
  <2> QED
    BY <1>1, <1>6, <2>1, Zenon DEF Taken
<1>11. ASSUME NEW k \in Int
       PROVE  /\ (driver'.idx + k) % W = (d + (k + 1)) % W
              /\ (driver'.idx + k) % AqDepth = (d + (k + 1)) % AqDepth
  <2>1. d + 1 \in Int /\ (d + 1) + k = d + (k + 1)
    BY <1>2
  <2>2. /\ (((d + 1) % W) + k) % W = ((d + 1) + k) % W
        /\ (((d + 1) % W) + k) % AqDepth = ((d + 1) + k) % AqDepth
    BY <2>1, WrapAdd, AqWrap, Zenon
  <2> QED
    BY <1>9, <2>1, <2>2, Zenon
<1>12. Answered'
  <2>1. ASSUME NEW k \in 1..(n - 1)
        PROVE  /\ fifo'[k].command = sent'[k].id
               /\ fifo'[k].status = Exec(sent'[k].op)
               /\ fifo'[k].sq_head_indx = (driver'.idx + k) % W
    <3>1. k + 1 \in 1..n /\ k \in 1..(s - 1) /\ k \in Int
      BY <1>2, <1>4
    <3>2. /\ fifo[k + 1].command = sent[k + 1].id
          /\ fifo[k + 1].status = Exec(sent[k + 1].op)
          /\ fifo[k + 1].sq_head_indx = (d + (k + 1)) % W
      BY <3>1, Zenon DEF Inv, Answered, n, d
    <3>3. fifo'[k] = fifo[k + 1] /\ sent'[k] = sent[k + 1]
      BY <1>6, <1>7, <3>1, Zenon
    <3>4. (driver'.idx + k) % W = (d + (k + 1)) % W
      BY <1>11, <3>1, Zenon
    <3> QED
      BY <3>2, <3>3, <3>4, Zenon
  <2>2. n - 1 <= s - 1
    BY <1>2
  <2> QED
    BY <1>6, <1>7, <2>1, <2>2, Zenon DEF Answered
<1>13. Counts'
  <2>1. t - 1 <= s - 1 /\ s - 1 <= Limit
    BY <1>2, AdminSizes
  <2> QED
    BY <1>1, <1>7, <1>10, <2>1, Zenon DEF Inv, Counts
<1>14. Pointers'
  <2>1. /\ (driver'.idx + (s - 1)) % W = (d + ((s - 1) + 1)) % W
        /\ (driver'.idx + (t - 1)) % W = (d + ((t - 1) + 1)) % W
    BY <1>4, <1>11
  <2>2. (s - 1) + 1 = s /\ (t - 1) + 1 = t
    BY <1>2
  <2>3. tail = (d + s) % W /\ aq_head = (d + t) % W
    BY Zenon DEF Inv, Pointers, d, s, t
  <2> QED
    BY <1>1, <1>7, <1>10, <2>1, <2>2, <2>3, Zenon DEF Pointers
<1>15. Waiting'
  <2>1. ASSUME NEW k \in ((t - 1) + 1)..(s - 1)
        PROVE  aq'[(driver'.idx + (k - 1)) % AqDepth] = sent'[k]
    <3>1. /\ k - 1 \in Int /\ (k - 1) + 1 = (k + 1) - 1
          /\ k + 1 \in (t + 1)..s /\ k \in 1..(s - 1)
      BY <1>2, <1>4
    <3>2. aq[(d + ((k + 1) - 1)) % AqDepth] = sent[k + 1]
      BY <3>1, Zenon DEF Inv, Waiting, t, s, d
    <3>3. (driver'.idx + (k - 1)) % AqDepth = (d + ((k - 1) + 1)) % AqDepth
      BY <1>11, <3>1, Zenon
    <3>4. sent'[k] = sent[k + 1]
      BY <1>7, <3>1, Zenon
    <3> QED
      BY <1>1, <3>1, <3>2, <3>3, <3>4, Zenon
  <2> QED
    BY <1>7, <1>10, <2>1, Zenon DEF Waiting
<1>16. Current'
  <2>1. ASSUME cur # <<>> PROVE cur[1] = sent'[(n - 1) + 1]
    <3>1. Len(cur) # 0
      BY <2>1, InvCounts
    <3>2. n \in 1..(s - 1) /\ (n - 1) + 1 = n
      BY <1>2, <1>4, <3>1
    <3>3. cur[1] = sent[n + 1]
      BY <2>1, Zenon DEF Inv, Current, n
    <3> QED
      BY <1>7, <3>2, <3>3, Zenon
  <2> QED
    BY <1>1, <1>6, <2>1, Zenon DEF Inv, Current
<1>17. Rung'
  <2>1. ASSUME NEW m \in t..s, db = (d + m) % W
        PROVE  m - 1 \in (t - 1)..(s - 1) /\ db = (driver'.idx + (m - 1)) % W
    <3>1. m - 1 \in (t - 1)..(s - 1) /\ m - 1 \in Int /\ (m - 1) + 1 = m
      BY <1>2
    <3>2. (driver'.idx + (m - 1)) % W = (d + ((m - 1) + 1)) % W
      BY <1>11, <3>1, Zenon
    <3> QED
      BY <2>1, <3>1, <3>2, Zenon
  <2> QED
    BY <1>1, <1>7, <1>10, <2>1, Zenon DEF Inv, Rung, d, t, s
<1>18. Signalled' /\ Fresh' /\ TailCurrent'
  <2>1. ready
    BY <1>5, Zenon DEF Inv, Fresh
  <2> QED
    BY <1>1, <2>1, Zenon DEF Inv, Signalled, Fresh, TailCurrent
<1>19. TypeOK'
  BY <1>1, <1>6, <1>7, <1>8, Zenon DEF Inv, TypeOK
<1> QED
  BY <1>8, <1>12, <1>13, <1>14, <1>15, <1>16, <1>17, <1>18, <1>19, Zenon DEF Inv

\* Every step of the device and of the guest preserves the invariant.
LEMMA NextInv == Inv /\ [Next]_vars => Inv'
<1> SUFFICES ASSUME Inv, [Next]_vars PROVE Inv'
  BY Zenon
<1>1. CASE UNCHANGED vars
  <2>1. UNCHANGED <<ready, db, aq_head, pos, tail_reg, intr_mask, pc, cur, completed, tail,
                    driver, isr, sent, aq, acq, msg, fifo, quiet>>
    BY <1>1, Zenon DEF vars, device, guest
  <2>2. AdminQueue' /\ Answered' /\ Counts' /\ Pointers' /\ Waiting'
    BY <2>1, QuietStep, Zenon
  <2>3. TypeOK'
    BY <2>1, Zenon DEF Inv, TypeOK
  <2>4. Current' /\ TailCurrent' /\ Fresh' /\ Signalled' /\ Rung'
    BY <2>1, Zenon DEF Inv, Current, TailCurrent, Fresh, Signalled, Rung, Taken
  <2> QED
    BY <2>2, <2>3, <2>4, Zenon DEF Inv
<1>2. ASSUME NEW n \in (AqDepth + 1)..(W - 1), Doorbell((aq_head + n) % W) PROVE Inv'
  BY <1>2, DoorbellPastInv, Zenon
<1>3. ASSUME NEW c \in Cmd, Submit(c) PROVE Inv'
  BY <1>3, SubmitInv, Zenon
<1> QED
  BY <1>1, <1>2, <1>3, DoorbellInv, FetchInv, ExecuteInv, CompleteInv, FinishInv, SetupInv,
     InterruptInv, DevResetInv, PollInv, Zenon DEF Next

\* ena_admin_process answers every command it takes, in order and with that
\* command's id, status and AQ head, overwrites no completion, signals what it
\* answered and leaves its registers in step, for all depths of the two rings.
THEOREM AdminSafety ==
    Spec => [](TypeOK /\ AdminQueue /\ Answered /\ CompletionSignalled /\ RegistersCurrent)
<1>1. ASSUME Inv PROVE CompletionSignalled
  BY <1>1, Zenon DEF Inv, Signalled, CompletionSignalled
<1>2. ASSUME Inv PROVE RegistersCurrent
  <2>1. ASSUME pc = "idle" PROVE aq_head = pos.idx /\ tail_reg = pos.idx
    <3>1. cur = <<>> /\ tail_reg = pos.idx
      BY <1>2, <2>1, Zenon DEF Inv, Current, TailCurrent
    <3>2. Taken = Len(fifo)
      BY <1>2, <3>1, InvCounts DEF Taken
    <3>3. pos.idx = (driver.idx + Len(fifo)) % W /\ aq_head = (driver.idx + Taken) % W
      BY <1>2, Zenon DEF Inv, AdminQueue, Holds, Pointers
    <3> QED
      BY <3>1, <3>2, <3>3, Zenon
  <2> QED
    BY <2>1, Zenon DEF RegistersCurrent
<1>3. Inv => TypeOK /\ AdminQueue /\ Answered /\ CompletionSignalled /\ RegistersCurrent
  BY <1>1, <1>2, Zenon DEF Inv
<1> QED
  BY <1>3, InitInv, NextInv, PTL DEF Spec

\* Every completion the guest reads answers the command it is read for.
THEOREM CompletionsAnswer == Spec => []Answered
BY AdminSafety, PTL

\* No completion of ena_admin_process is left without an interrupt that was not
\* masked.
THEOREM CompletionsSignalled == Spec => []CompletionSignalled
BY AdminSafety, PTL

\* Between bursts ACQ_TAIL and the AQ head agree with the position in the ACQ.
THEOREM RegistersInStep == Spec => []RegistersCurrent
BY AdminSafety, PTL

-----------------------------------------------------------------------------
(* EnaQueues: the tables of queues.                                        *)

\* LLQ is enabled only together with one of the entry sizes it offers.
LlqConfigured == llq.enabled => llq.entry_size \in LlqEntrySizes

QueuesInv == QueuesTypeOK /\ LlqConfigured /\ SqBound /\ LlqInSlice

\* A free entry is an unused index of the table.
LEMMA FreeEntry ==
    ASSUME NEW S, NEW q, DOMAIN q = S, NEW i \in FirstFree(q)
    PROVE  i \in S /\ ~q[i].used
BY Zenon DEF FirstFree

\* The device starts with no queue in use (ena_dev_reset).
LEMMA QueuesInitInv == QueuesInit => QueuesInv
<1> SUFFICES ASSUME QueuesInit PROVE QueuesInv
  BY Zenon
<1>1. NoCq \in Cq /\ NoSq \in Sq /\ ~NoSq.used
  BY Zenon DEF NoCq, NoSq, Cq, Sq
<1>2. QueuesTypeOK
  BY <1>1, Zenon DEF QueuesInit, QueuesTypeOK, NoLlq, QueueStatus
<1>3. \A i \in SqIdx : ~sq[i].used
  BY <1>1, Zenon DEF QueuesInit
<1> QED
  BY <1>2, <1>3, Zenon DEF QueuesInv, SqBound, LlqInSlice, LlqConfigured, QueuesInit, NoLlq

\* CREATE_CQ fills an unused entry, so no SQ in use is bound to it.
LEMMA CreateCqInv ==
    ASSUME QueuesInv, NEW c \in CqCmd, CreateCq(c)
    PROVE  QueuesInv'
<1>1. sq' = sq /\ llq' = llq /\ ind_tbl' = ind_tbl /\ resp' \in QueueStatus
  BY Zenon DEF CreateCq, CreateCqStatus, QueueStatus
<1>2. CASE resp' # "success" /\ cq' = cq
  BY <1>1, <1>2, Zenon DEF QueuesInv, QueuesTypeOK, LlqConfigured, SqBound, LlqInSlice
<1>3. CASE \E i \in FirstFree(cq) : cq' = [cq EXCEPT ![i] = NewCq(c)]
  <2>1. PICK i \in FirstFree(cq) : cq' = [cq EXCEPT ![i] = NewCq(c)]
    BY <1>3, Zenon
  <2>2. i \in CqIdx /\ ~cq[i].used
    BY <2>1, FreeEntry, Zenon DEF QueuesInv, QueuesTypeOK
  <2>3. NewCq(c) \in Cq
    BY DEF NewCq, Cq, CqCmd
  <2>4. QueuesTypeOK'
    BY <1>1, <2>1, <2>2, <2>3, Zenon DEF QueuesInv, QueuesTypeOK
  <2>5. \A k \in CqIdx : cq[k].used => cq'[k] = cq[k]
    BY <2>1, <2>2, Zenon DEF QueuesInv, QueuesTypeOK
  <2>6. LlqConfigured' /\ SqBound' /\ LlqInSlice'
    BY <1>1, <2>5, Zenon DEF QueuesInv, LlqConfigured, SqBound, LlqInSlice
  <2> QED
    BY <2>4, <2>6, Zenon DEF QueuesInv
<1> QED
  BY <1>2, <1>3, Zenon DEF CreateCq

\* DESTROY_CQ touches a CQ only when no SQ in use is bound to it.
LEMMA DestroyCqInv ==
    ASSUME QueuesInv, NEW idx, DestroyCq(idx)
    PROVE  QueuesInv'
<1>1. sq' = sq /\ llq' = llq /\ ind_tbl' = ind_tbl /\ resp' \in QueueStatus
  BY Zenon DEF DestroyCq, QueueStatus
<1>2. CASE cq' = cq
  BY <1>1, <1>2, Zenon DEF QueuesInv, QueuesTypeOK, LlqConfigured, SqBound, LlqInSlice
<1>3. CASE /\ idx \in CqIdx
           /\ ~\E i \in SqIdx : sq[i].used /\ sq[i].cq_idx = idx
           /\ cq' = [cq EXCEPT ![idx].used = FALSE]
  <2>1. cq[idx] \in Cq
    BY <1>3, Zenon DEF QueuesInv, QueuesTypeOK
  <2>2. [cq[idx] EXCEPT !.used = FALSE] \in Cq
    BY <2>1, Zenon DEF Cq
  <2>3. QueuesTypeOK'
    BY <1>1, <1>3, <2>2, Zenon DEF QueuesInv, QueuesTypeOK
  <2>4. \A k \in CqIdx : k # idx => cq'[k] = cq[k]
    BY <1>3, Zenon DEF QueuesInv, QueuesTypeOK
  <2>5. LlqConfigured' /\ SqBound' /\ LlqInSlice'
    BY <1>1, <1>3, <2>4 DEF QueuesInv, LlqConfigured, SqBound, LlqInSlice
  <2> QED
    BY <2>3, <2>5, Zenon DEF QueuesInv
<1> QED
  BY <1>2, <1>3, Zenon DEF DestroyCq

\* CREATE_SQ stores a queue that passed its checks.
LEMMA CreateSqInv ==
    ASSUME QueuesInv, NEW c \in SqCmd, CreateSq(c)
    PROVE  QueuesInv'
<1>1. cq' = cq /\ llq' = llq /\ ind_tbl' = ind_tbl /\ resp' \in QueueStatus
  BY Zenon DEF CreateSq, CreateSqStatus, QueueStatus
<1>2. CASE resp' # "success" /\ sq' = sq
  BY <1>1, <1>2, Zenon DEF QueuesInv, QueuesTypeOK, LlqConfigured, SqBound, LlqInSlice
<1>3. CASE /\ resp' = "success"
           /\ \E i \in FirstFree(sq) : sq' = [sq EXCEPT ![i] = NewSq(c)]
  <2>1. PICK i \in FirstFree(sq) : sq' = [sq EXCEPT ![i] = NewSq(c)]
    BY <1>3, Zenon
  <2>2. i \in SqIdx
    BY <2>1, FreeEntry, Zenon DEF QueuesInv, QueuesTypeOK
  <2>3. /\ c.cq_idx \in CqIdx /\ cq[c.cq_idx].used
        /\ ~(c.depth > cq[c.cq_idx].depth)
        /\ ~(c.dir = "rx" /\ cq[c.cq_idx].entry_size < RxCdescBytes)
        /\ c.dir \in {"tx", "rx"}
        /\ c.placement = "dev" => /\ c.dir = "tx" /\ llq.enabled
                                  /\ ~(c.depth * llq.entry_size > LlqQueueBytes)
    BY <1>3, Zenon DEF CreateSq, CreateSqStatus
  <2>4. llq.entry_size \in Nat
    <3>1. llq \in [enabled : BOOLEAN, entry_size : LlqEntrySizes \cup {0}]
      BY Zenon DEF QueuesInv, QueuesTypeOK
    <3>2. LlqEntrySizes \cup {0} \subseteq Nat
      BY LlqAssumption
    <3> QED
      BY <3>1, <3>2, Zenon
  <2>5. NewSq(c) \in Sq
    <3>1. c.cq_idx \in Nat /\ c.depth \in Nat
      BY Zenon DEF SqCmd
    <3>2. (IF c.placement = "dev" THEN llq.entry_size ELSE 0) \in Nat
      BY <2>4, Zenon
    <3>3. (c.dir = "tx") \in BOOLEAN /\ (c.placement = "dev") \in BOOLEAN
      BY Zenon
    <3> QED
      BY <3>1, <3>2, <3>3, Zenon DEF NewSq, Sq
  <2>6. QueuesTypeOK'
    BY <1>1, <2>1, <2>2, <2>5, Zenon DEF QueuesInv, QueuesTypeOK
  <2>7. \A k \in SqIdx : k # i => sq'[k] = sq[k]
    BY <2>1, <2>2, Zenon DEF QueuesInv, QueuesTypeOK
  <2>8. sq'[i] = NewSq(c)
    BY <2>1, <2>2, Zenon DEF QueuesInv, QueuesTypeOK
  <2>9. /\ NewSq(c).cq_idx = c.cq_idx /\ NewSq(c).depth = c.depth
        /\ NewSq(c).is_tx = (c.dir = "tx") /\ NewSq(c).llq = (c.placement = "dev")
        /\ NewSq(c).llq => NewSq(c).entry_size = llq.entry_size
    BY Zenon DEF NewSq
  <2>10. cq[c.cq_idx] \in Cq
    BY <2>3, Zenon DEF QueuesInv, QueuesTypeOK
  <2>11. c.depth <= cq[c.cq_idx].depth
    BY <2>3, <2>10 DEF Cq, SqCmd
  <2>12. c.dir = "rx" => cq[c.cq_idx].entry_size >= RxCdescBytes
    BY <2>3, <2>10, CdescAssumption DEF Cq
  <2>13. SqBound'
    <3> DEFINE Bound(x) == /\ x.cq_idx \in CqIdx
                           /\ cq[x.cq_idx].used
                           /\ x.depth <= cq[x.cq_idx].depth
                           /\ x.is_tx \/ cq[x.cq_idx].entry_size >= RxCdescBytes
    <3>1. \A k \in SqIdx : sq[k].used => Bound(sq[k])
      BY Zenon DEF QueuesInv, SqBound
    <3>2. Bound(NewSq(c))
      BY <2>3, <2>9, <2>11, <2>12, Zenon
    <3>3. cq' = cq
      BY <1>1, Zenon
    <3> HIDE DEF Bound
    <3>4. \A k \in SqIdx : sq'[k].used => Bound(sq'[k])
      BY <2>7, <2>8, <3>1, <3>2, Zenon
    <3> QED
      BY <3>3, <3>4, Zenon DEF SqBound, Bound
  <2>14. c.placement = "dev" => /\ c.dir = "tx"
                                /\ llq.entry_size \in LlqEntrySizes
                                /\ c.depth * llq.entry_size <= LlqQueueBytes
    <3> SUFFICES ASSUME c.placement = "dev" PROVE c.depth * llq.entry_size <= LlqQueueBytes
      BY <2>3, Zenon DEF QueuesInv, LlqConfigured
    <3>1. c.depth \in Nat /\ llq.entry_size \in Nat
      BY <2>4, Zenon DEF SqCmd
    <3>2. c.depth * llq.entry_size \in Nat
      BY <3>1
    <3> QED
      BY <2>3, <3>2, LlqAssumption
  <2>15. LlqInSlice'
    BY <1>1, <2>7, <2>8, <2>9, <2>14, Zenon DEF QueuesInv, LlqInSlice
  <2> QED
    BY <1>1, <2>6, <2>13, <2>15, Zenon DEF QueuesInv, LlqConfigured
<1> QED
  BY <1>2, <1>3, Zenon DEF CreateSq

\* DESTROY_SQ only takes a queue out of use.
LEMMA DestroySqInv ==
    ASSUME QueuesInv, NEW idx, NEW is_tx, DestroySq(idx, is_tx)
    PROVE  QueuesInv'
<1>1. cq' = cq /\ llq' = llq /\ ind_tbl' = ind_tbl /\ resp' \in QueueStatus
  BY Zenon DEF DestroySq, QueueStatus
<1>2. CASE sq' = sq
  BY <1>1, <1>2, Zenon DEF QueuesInv, QueuesTypeOK, LlqConfigured, SqBound, LlqInSlice
<1>3. CASE idx \in SqIdx /\ sq' = [sq EXCEPT ![idx].used = FALSE]
  <2>1. sq[idx] \in Sq
    BY <1>3, Zenon DEF QueuesInv, QueuesTypeOK
  <2>2. [sq[idx] EXCEPT !.used = FALSE] \in Sq
    BY <2>1, Zenon DEF Sq
  <2>3. QueuesTypeOK'
    BY <1>1, <1>3, <2>2, Zenon DEF QueuesInv, QueuesTypeOK
  <2>4. ~sq'[idx].used /\ \A k \in SqIdx : k # idx => sq'[k] = sq[k]
    BY <1>3, <2>1, Zenon DEF QueuesInv, QueuesTypeOK, Sq
  <2>5. LlqConfigured' /\ SqBound' /\ LlqInSlice'
    BY <1>1, <2>4, Zenon DEF QueuesInv, LlqConfigured, SqBound, LlqInSlice
  <2> QED
    BY <2>3, <2>5, Zenon DEF QueuesInv
<1> QED
  BY <1>2, <1>3, Zenon DEF DestroySq

\* Setting LLQ leaves the queues in use alone.
LEMMA QueuesLlq ==
    ASSUME QueuesInv, NEW supported \in BOOLEAN, NEW size \in LlqEntrySizes,
           SetLlq(supported, size)
    PROVE  QueuesInv'
<1>1. sq' = sq /\ cq' = cq /\ ind_tbl' = ind_tbl /\ resp' \in QueueStatus
  BY Zenon DEF SetLlq, QueueStatus
<1>2. llq' = llq \/ llq' = [enabled |-> TRUE, entry_size |-> size]
  BY Zenon DEF SetLlq
<1>3. llq' \in [enabled : BOOLEAN, entry_size : LlqEntrySizes \cup {0}]
  <2>1. llq \in [enabled : BOOLEAN, entry_size : LlqEntrySizes \cup {0}]
    BY Zenon DEF QueuesInv, QueuesTypeOK
  <2>2. [enabled |-> TRUE, entry_size |-> size]
          \in [enabled : BOOLEAN, entry_size : LlqEntrySizes \cup {0}]
    BY Zenon
  <2> QED
    BY <1>2, <2>1, <2>2, Zenon
<1>4. LlqConfigured'
  BY <1>2 DEF QueuesInv, LlqConfigured
<1>5. QueuesTypeOK'
  BY <1>1, <1>3, Zenon DEF QueuesInv, QueuesTypeOK
<1> QED
  BY <1>1, <1>4, <1>5, Zenon DEF QueuesInv, SqBound, LlqInSlice

\* The indirection table names RX queues in use when it is set.
LEMMA QueuesRss ==
    ASSUME QueuesInv, NEW tbl \in [Buckets -> 0..NumSq], SetIndTable(tbl)
    PROVE  QueuesInv'
<1>1. sq' = sq /\ cq' = cq /\ llq' = llq /\ resp' \in QueueStatus
  BY Zenon DEF SetIndTable, QueueStatus
<1>2. ind_tbl' \in [Buckets -> Nat]
  BY QueueCountAssumption DEF SetIndTable, QueuesInv, QueuesTypeOK
<1> QED
  BY <1>1, <1>2, Zenon DEF QueuesInv, QueuesTypeOK, LlqConfigured, SqBound, LlqInSlice

\* Every admin command and the device reset preserve the invariant.
LEMMA QueuesNextInv == QueuesInv /\ [QueuesNext]_queues => QueuesInv'
<1> SUFFICES ASSUME QueuesInv, [QueuesNext]_queues PROVE QueuesInv'
  BY Zenon
<1>1. CASE UNCHANGED queues
  BY <1>1, Zenon DEF queues, QueuesInv, QueuesTypeOK, LlqConfigured, SqBound, LlqInSlice
<1>2. ASSUME NEW c \in CqCmds, CreateCq(c) PROVE QueuesInv'
  BY <1>2, CreateCqInv, CmdAssumption, Zenon
<1>3. ASSUME NEW c \in SqCmds, CreateSq(c) PROVE QueuesInv'
  BY <1>3, CreateSqInv, CmdAssumption, Zenon
<1>4. ASSUME NEW idx \in 0..NumCq, DestroyCq(idx) PROVE QueuesInv'
  BY <1>4, DestroyCqInv, Zenon
<1>5. ASSUME NEW idx \in 0..NumSq, NEW is_tx \in BOOLEAN, DestroySq(idx, is_tx)
      PROVE  QueuesInv'
  BY <1>5, DestroySqInv, Zenon
<1>6. ASSUME NEW supported \in BOOLEAN, NEW size \in LlqEntrySizes,
             SetLlq(supported, size)
      PROVE  QueuesInv'
  BY <1>6, QueuesLlq, Zenon
<1>7. ASSUME NEW tbl \in [Buckets -> 0..NumSq], SetIndTable(tbl) PROVE QueuesInv'
  BY <1>7, QueuesRss, Zenon
<1>8. CASE ResetQueues
  <2>1. QueuesTypeOK /\ resp' = resp
    BY <1>8, Zenon DEF QueuesInv, ResetQueues
  <2>2. NoCq \in Cq /\ NoSq \in Sq /\ ~NoSq.used
    BY Zenon DEF NoCq, NoSq, Cq, Sq
  <2>3. QueuesTypeOK'
    BY <1>8, <2>1, <2>2, Zenon DEF ResetQueues, QueuesTypeOK, NoLlq
  <2>4. \A i \in SqIdx : ~sq'[i].used
    BY <1>8, <2>2, Zenon DEF ResetQueues
  <2> QED
    BY <1>8, <2>3, <2>4, Zenon DEF QueuesInv, ResetQueues, NoLlq, LlqConfigured, SqBound, LlqInSlice
<1> QED
  BY <1>1, <1>2, <1>3, <1>4, <1>5, <1>6, <1>7, <1>8, Zenon DEF QueuesNext

\* Every SQ in use is bound to a live CQ with a slot for each of its
\* descriptors, and every LLQ ring stays in its slice of the BAR.
THEOREM QueueSafety == QueuesSpec => [](QueuesTypeOK /\ SqBound /\ LlqInSlice)
<1>1. QueuesInv => QueuesTypeOK /\ SqBound /\ LlqInSlice
  BY Zenon DEF QueuesInv
<1> QED
  BY <1>1, QueuesInitInv, QueuesNextInv, PTL DEF QueuesSpec

\* Every LLQ ring stays in its slice of the BAR.
THEOREM LlqRingsInSlice == QueuesSpec => []LlqInSlice
BY QueueSafety, PTL

\* A command changes a queue only by taking it into or out of use, and never
\* the CQ of a queue in use.
THEOREM QueuesStable == QueuesSpec => QueueStable
<1> DEFINE Stable == \A i \in SqIdx : sq[i].used /\ sq'[i].used =>
                        /\ sq'[i] = sq[i]
                        /\ cq'[sq[i].cq_idx] = cq[sq[i].cq_idx]
<1>1. QueuesInv /\ [QueuesNext]_queues => Stable
  <2> SUFFICES ASSUME QueuesInv, [QueuesNext]_queues, NEW i \in SqIdx,
                      sq[i].used, sq'[i].used
               PROVE  sq'[i] = sq[i] /\ cq'[sq[i].cq_idx] = cq[sq[i].cq_idx]
    BY Zenon DEF Stable
  <2> HIDE DEF Stable
  <2>0. /\ sq[i].cq_idx \in CqIdx /\ cq[sq[i].cq_idx].used
        /\ DOMAIN cq = CqIdx /\ DOMAIN sq = SqIdx
    BY Zenon DEF QueuesInv, SqBound, QueuesTypeOK
  <2>1. CASE UNCHANGED queues
    BY <2>1, Zenon DEF queues
  <2>2. ASSUME NEW c \in CqCmds, CreateCq(c)
        PROVE  sq'[i] = sq[i] /\ cq'[sq[i].cq_idx] = cq[sq[i].cq_idx]
    BY <2>0, <2>2, Zenon DEF CreateCq, FirstFree
  <2>3. ASSUME NEW c \in SqCmds, CreateSq(c)
        PROVE  sq'[i] = sq[i] /\ cq'[sq[i].cq_idx] = cq[sq[i].cq_idx]
    BY <2>0, <2>3, Zenon DEF CreateSq, FirstFree
  <2>4. ASSUME NEW idx \in 0..NumCq, DestroyCq(idx)
        PROVE  sq'[i] = sq[i] /\ cq'[sq[i].cq_idx] = cq[sq[i].cq_idx]
    BY <2>0, <2>4, Zenon DEF DestroyCq
  <2>5. ASSUME NEW idx \in 0..NumSq, NEW is_tx \in BOOLEAN, DestroySq(idx, is_tx)
        PROVE  sq'[i] = sq[i] /\ cq'[sq[i].cq_idx] = cq[sq[i].cq_idx]
    <3>1. cq' = cq
      BY <2>5, Zenon DEF DestroySq
    <3>2. CASE sq' = sq
      BY <3>1, <3>2, Zenon
    <3>3. CASE idx \in SqIdx /\ sq' = [sq EXCEPT ![idx].used = FALSE]
      <4>1. sq[idx] \in Sq
        BY <3>3, Zenon DEF QueuesInv, QueuesTypeOK
      <4>2. ~[sq[idx] EXCEPT !.used = FALSE].used
        BY <4>1, Zenon DEF Sq
      <4> QED
        BY <2>0, <3>1, <3>3, <4>2, Zenon
    <3> QED
      BY <2>5, <3>2, <3>3, Zenon DEF DestroySq
  <2>6. ASSUME NEW supported \in BOOLEAN, NEW size \in LlqEntrySizes,
               SetLlq(supported, size)
        PROVE  sq'[i] = sq[i] /\ cq'[sq[i].cq_idx] = cq[sq[i].cq_idx]
    BY <2>6, Zenon DEF SetLlq
  <2>7. ASSUME NEW tbl \in [Buckets -> 0..NumSq], SetIndTable(tbl)
        PROVE  sq'[i] = sq[i] /\ cq'[sq[i].cq_idx] = cq[sq[i].cq_idx]
    BY <2>7, Zenon DEF SetIndTable
  <2>8. CASE ResetQueues
    BY <2>8, Zenon DEF ResetQueues, NoSq
  <2> QED
    BY <2>1, <2>2, <2>3, <2>4, <2>5, <2>6, <2>7, <2>8, Zenon DEF QueuesNext
<1>2. QueuesInv /\ [QueuesNext]_queues => [Stable]_queues
  BY <1>1, Zenon
<1> QED
  BY <1>2, QueuesInitInv, QueuesNextInv, PTL DEF QueuesSpec, QueueStable

-----------------------------------------------------------------------------
(* EnaRegs: the register file.                                             *)

\* The file keeps its registers, and the driver reads at an offset.
FileOk == DOMAIN reg = Regs /\ off \in Offsets

\* Inductive.
FileInv == FileOk /\ ReadAnswered /\ CleanAfterReset

\* A register write leaves a file of the same registers.
LEMMA WriteKeepsFile ==
    ASSUME DOMAIN reg = Regs, NEW r \in Regs, NEW v
    PROVE  DOMAIN RegWrite(r, v) = Regs
BY Zenon DEF RegWrite, DevCtlWrite, ResetRegs, Regs, ReadOnly,
       Tails, Plain

\* The file ena_dev_reset leaves has no queue and no read in flight.
LEMMA FileInit == RegsInit => FileInv
BY Zenon DEF RegsInit, FileInv, FileOk, ResetRegs, ReadAnswered,
       CleanAfterReset, Offsets, Regs, ReadOnly

\* A register write outside the handshake, or one that keeps the queues off.
LEMMA StepInv ==
    ASSUME FileInv, NEW from, NEW r \in Regs, NEW v, NEW to,
           Step(from, r, v, to),
           CleanAfterReset'
    PROVE  FileInv'
<1>1. /\ read = "none" /\ reg' = RegWrite(r, v) /\ off' = off /\ read' = read
  BY Zenon DEF Step
<1>2. FileOk'
  BY <1>1, WriteKeepsFile, Zenon DEF FileInv, FileOk, Offsets, Regs, ReadOnly,
     Tails, Plain
<1>3. ReadAnswered'
  BY <1>1, Zenon DEF ReadAnswered
<1> QED
  BY <1>2, <1>3, Zenon DEF FileInv

\* The handshake: the reset clears the queues and the rest of it leaves them.
LEMMA HandshakeInv ==
    ASSUME FileInv, Probe \/ Reset \/ Address \/ Clear
    PROVE  FileInv'
<1>0. DOMAIN reg = Regs /\ CleanAfterReset
  BY Zenon DEF FileInv, FileOk
<1>1. CASE Probe
  <2>1. Step("probe", "MMIO_RESP", 1, "reset")
    BY <1>1, Zenon DEF Probe
  <2>2. CleanAfterReset'
    BY <2>1, Zenon DEF Step, CleanAfterReset
  <2> QED
    BY <2>1, <2>2, StepInv, Zenon DEF Regs, Plain
<1>2. CASE Reset
  <2>1. PICK from : Step(from, "DEV_CTL", 1, "address")
    BY <1>2, Zenon DEF Reset
  <2>2. CleanAfterReset'
    BY <2>1, Zenon DEF Step, CleanAfterReset, RegWrite, DevCtlWrite,
       ResetRegs, Regs, ReadOnly, Tails, Plain
  <2> QED
    BY <2>1, <2>2, StepInv, Zenon DEF Regs
<1>3. CASE Address
  <2>1. Step("address", "MMIO_RESP", 1, "wait")
    BY <1>3, Zenon DEF Address
  <2>2. CleanAfterReset'
    BY <1>0, <2>1, Zenon DEF Step, CleanAfterReset, RegWrite,
       Regs, ReadOnly, Tails, Plain
  <2> QED
    BY <2>1, <2>2, StepInv, Zenon DEF Regs, Plain
<1>4. CASE Clear
  <2>1. Step("clear", "DEV_CTL", 0, "settle")
    BY <1>4, Zenon DEF Clear
  <2>2. CleanAfterReset'
    BY <1>0, <2>1 DEF Step, CleanAfterReset, RegWrite, DevCtlWrite,
       Regs, ReadOnly, Tails, Plain
  <2> QED
    BY <2>1, <2>2, StepInv, Zenon DEF Regs
<1> QED
  BY <1>1, <1>2, <1>3, <1>4, Zenon

\* A driver that is up writes what it likes.
LEMMA ConfigureInv ==
    ASSUME FileInv, Configure
    PROVE  FileInv'
<1>1. PICK r \in Regs, v \in 0..1 : Step("up", r, v, "up")
  BY Zenon DEF Configure
<1>2. CleanAfterReset'
  BY <1>1, Zenon DEF Step, CleanAfterReset
<1> QED
  BY <1>1, <1>2, StepInv, Zenon

\* A completion is reported only while the admin queue is set up.
LEMMA BumpInv ==
    ASSUME FileInv, Bump
    PROVE  FileInv'
<1>1. /\ reg["AQ_BASE"] # 0 /\ reg' = [reg EXCEPT !["ACQ_TAIL"] = @ + 1]
      /\ UNCHANGED <<response, seq, read, off, stage, at_request>>
  BY Zenon DEF Bump, reader
<1>2. FileOk'
  BY <1>1, Zenon DEF FileInv, FileOk, Regs, Offsets
<1>3. ReadAnswered'
  BY <1>1, Zenon DEF FileInv, FileOk, ReadAnswered, Regs, Plain
<1>4. CleanAfterReset'
  BY <1>1, Zenon DEF FileInv, CleanAfterReset
<1> QED
  BY <1>2, <1>3, <1>4, Zenon DEF FileInv

\* The readless reads, their ends, and the restarts.
LEMMA ReadInv ==
    ASSUME FileInv,
           \/ \E o \in Offsets : ReadStart(o)
           \/ ReadRequest \/ ReadDone \/ ReadTimeout
           \/ \E m \in BOOLEAN : Restart(m)
    PROVE  FileInv'
<1>0. DOMAIN reg = Regs /\ off \in Offsets /\ CleanAfterReset
  BY Zenon DEF FileInv, FileOk
<1>1. CASE \E o \in Offsets : ReadStart(o)
  <2>1. /\ read' = "poisoned" /\ off' \in Offsets /\ reg' = reg /\ stage' = stage
    BY <1>1, Zenon DEF ReadStart
  <2> QED
    BY <1>0, <2>1, Zenon DEF FileInv, FileOk, ReadAnswered, CleanAfterReset,
           Regs, Offsets
<1>2. CASE ReadRequest
  <2>1. /\ response' = Readless(seq, off) /\ reg' = reg /\ stage' = stage
        /\ at_request' = (IF off \in Regs THEN reg[off] ELSE Ones)
        /\ seq' = seq /\ off' = off
    BY <1>2, Zenon DEF ReadRequest
  <2>2. ASSUME reg["MMIO_RESP"] # 0, off # "unaligned"
        PROVE  response' = [id |-> seq, off |-> off, val |-> at_request']
    <3>1. off \in Regs \/ off = "beyond"
      BY <1>0, <2>2, Zenon DEF Offsets
    <3>2. "beyond" \notin Regs
      BY Zenon DEF Regs, ReadOnly, Tails, Plain
    <3> QED
      BY <2>1, <2>2, <3>1, <3>2, Zenon DEF Readless, FileRead
  <2>3. ReadAnswered'
    BY <2>1, <2>2, Zenon DEF ReadAnswered
  <2> QED
    BY <1>0, <2>1, <2>3, Zenon DEF FileInv, FileOk, CleanAfterReset,
           Regs, Offsets
<1>3. CASE ReadDone \/ ReadTimeout
  <2>1. /\ read' = "none" /\ reg' = reg /\ off' = off
        /\ stage' \in {"address", "wait", "clear", "settle"} =>
             stage \in {"address", "wait", "clear", "settle"}
    BY <1>3, Zenon DEF ReadDone, ReadTimeout
  <2> QED
    BY <1>0, <2>1, Zenon DEF FileInv, FileOk, ReadAnswered, CleanAfterReset,
           Regs, Offsets
<1>4. CASE \E m \in BOOLEAN : Restart(m)
  <2>1. /\ read' = "none" /\ off' = "VERSION" /\ stage' = "probe"
        /\ reg' = reg \/ reg' = ResetRegs
    BY <1>4, Zenon DEF Restart
  <2> QED
    BY <1>0, <2>1, Zenon DEF FileInv, FileOk, ReadAnswered, CleanAfterReset,
       ResetRegs, Offsets, Regs, ReadOnly
<1> QED
  BY <1>1, <1>2, <1>3, <1>4, Zenon

\* Every step keeps the invariant.
LEMMA FileNext == FileInv /\ [RegsNext]_registers => FileInv'
<1> SUFFICES ASSUME FileInv, [RegsNext]_registers PROVE FileInv'
  BY Zenon
<1>1. CASE UNCHANGED registers
  BY <1>1, Zenon DEF registers, FileInv, FileOk, ReadAnswered, CleanAfterReset
<1>2. CASE RegsNext
  BY <1>2, HandshakeInv, ConfigureInv, BumpInv, ReadInv, Zenon DEF RegsNext
<1> QED
  BY <1>1, <1>2, Zenon

\* For every width of the request ids, every value of the read-only registers
\* and any number of restarts: a readless read (ena_mmio_readless) is answered
\* with its own id and the value the register had at the request.
THEOREM ReadsAnswered == RegsSpec => []ReadAnswered
<1>1. FileInv => ReadAnswered
  BY Zenon DEF FileInv
<1> QED
  BY <1>1, FileInit, FileNext, PTL DEF RegsSpec

\* A driver in the reset handshake of ena_dev_ctl_write finds the admin queue
\* of its predecessor gone and the read-only registers untouched, wherever that
\* one was interrupted.
THEOREM ResetsClean == RegsSpec => []CleanAfterReset
<1>1. FileInv => CleanAfterReset
  BY Zenon DEF FileInv
<1> QED
  BY <1>1, FileInit, FileNext, PTL DEF RegsSpec

-----------------------------------------------------------------------------
(* EnaQueues again: the queue of a frame, found as the least of a set.     *)

INSTANCE WellFoundedInduction

\* Every set of SQ indices that is not empty has a first member.
LEMMA FirstIndex ==
    ASSUME NEW S, S \subseteq SqIdx, S # {}
    PROVE  \E i \in S : {k \in S : \A j \in S : k <= j} = {i}
<1>1. S \subseteq Nat
  BY QueueCountAssumption DEF SqIdx
<1>2. PICK i \in S : \A j \in S : ~(<<j, i>> \in OpToRel(<, Nat))
  BY <1>1, WFMin, NatLessThanWellFounded, Zenon
<1>3. \A j \in S : ~(j < i)
  BY <1>1, <1>2, Zenon DEF OpToRel
<1>4. \A j \in S : i <= j
  BY <1>1, <1>3
<1>5. \A k \in S : (\A j \in S : k <= j) => k = i
  BY <1>1, <1>4
<1> QED
  BY <1>4, <1>5, Zenon

\* While the guest has an RX queue every frame has exactly one, stale entries
\* of the indirection table included.
LEMMA RxQueueAlwaysLive == RxQueueLive
<1>1. RxQueueLive
  <2> SUFFICES ASSUME NEW b \in Buckets
               PROVE  /\ RxSq(b) \subseteq UsedRx
                      /\ UsedRx # {} => \E i \in UsedRx : RxSq(b) = {i}
    BY Zenon DEF RxQueueLive
  <2>1. RxSq(b) \subseteq UsedRx
    BY Zenon DEF RxSq
  <2>2. UsedRx \subseteq SqIdx
    BY Zenon DEF UsedRx
  <2>3. ASSUME UsedRx # {} PROVE \E i \in UsedRx : RxSq(b) = {i}
    BY <2>2, <2>3, FirstIndex, Zenon DEF RxSq
  <2> QED
    BY <2>1, <2>3, Zenon
<1> QED
  BY <1>1, Zenon

\* ena_rx_sq finds the RX queue of every frame in every reachable state.
THEOREM RxQueuesLive == QueuesSpec => []RxQueueLive
BY RxQueueAlwaysLive, PTL
=============================================================================
