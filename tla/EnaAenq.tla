------------------------------- MODULE EnaAenq -------------------------------
(***************************************************************************)
(* The asynchronous event notification queue: ena_aenq_post and its        *)
(* callers in hw/ena.c (the link callback of the net layer, the keep-alive *)
(* timer, the AENQ_CONFIG feature), the registers the guest sets it up     *)
(* with, and a guest that follows tests/ena_qos.c.  Handlers run under the *)
(* BQL and are one step each.  The guest polls the ring in memory, so it   *)
(* may read between any two handlers.                                      *)
(***************************************************************************)
EXTENDS RingOps

CONSTANTS
    Interval      \* ENA_KEEP_ALIVE_INTERVAL_MS, in ticks of the virtual clock

Groups == {"link_change", "keep_alive"}    \* ENA_SUPPORTED_AENQ_GROUPS
Event == {"up", "down", "keep_alive"}      \* group and what it carries
NotArmed == -1

ASSUME IntervalAssumption == Interval \in Nat \ {0}
ASSUME EventAssumption == Data = Event

VARIABLES
    ready,        \* AENQ_BASE and AENQ_CAPS are set
    head_db,      \* REG(AENQ_HEAD_DB)
    pos,          \* s->aenq_tail and s->aenq_phase
    tail_reg,     \* REG(AENQ_TAIL)
    groups,       \* s->aenq_groups
    timer,        \* s->keep_alive_timer: ticks left or NotArmed
    link,         \* the link state of the net layer, "up" or "down"
    intr_mask,    \* REG(INTR_MASK)
    ring,         \* the event ring in guest memory
    driver,       \* the guest's read position
    isr,          \* the guest: "idle", or "poll" in its handler of vector 0
    msg,          \* an MSI-X message of vector 0 is on its way
    view,         \* the last link state the guest read
    fifo,         \* history: events posted and not read yet
    missed,       \* history: the last link event was due and not posted
    quiet         \* history: an event was posted while masked, no message since

device == <<ready, head_db, pos, tail_reg, groups, timer, link, intr_mask>>
guest == <<driver, isr, view>>
vars == <<device, guest, ring, msg, fifo, missed, quiet>>

TypeOK ==
    /\ ready \in BOOLEAN /\ intr_mask \in BOOLEAN /\ msg \in BOOLEAN
    /\ missed \in BOOLEAN /\ quiet \in BOOLEAN
    /\ head_db \in 0..(W - 1) /\ tail_reg \in 0..(W - 1)
    /\ pos \in Position /\ driver \in Position
    /\ groups \subseteq Groups
    /\ timer \in {NotArmed} \cup 0..Interval
    /\ link \in {"up", "down"} /\ view \in {"up", "down", "unknown"}
    /\ isr \in {"idle", "poll"}
    /\ ring \in [Slots -> Entry]
    /\ fifo \in Seq(Event)

Blank == [i \in Slots |-> [phase |-> FALSE, data |-> "keep_alive"]]

Init ==
    /\ ready = FALSE /\ head_db = 0 /\ pos = Start /\ tail_reg = 0
    /\ groups = {} /\ timer = NotArmed /\ link = "up" /\ intr_mask = FALSE
    /\ ring = Blank /\ driver = Start /\ isr = "idle" /\ msg = FALSE
    /\ view = "unknown" /\ fifo = <<>> /\ missed = FALSE /\ quiet = FALSE

-----------------------------------------------------------------------------
\* Entries the guest has given the device, as a 16-bit difference.
Credit == (head_db - pos.idx) % W

\* Mutant: a doorbell further ahead than the ring is deep counts as credit,
\* and so does one that is equal to the tail.
CanPostUnchecked(gs, group) == ready /\ group \in gs

\* Mutant: events of groups that are not enabled are posted.
CanPostAnyGroup(gs, group) == ready /\ Credit <= Depth /\ Credit # 0

\* The early returns of ena_aenq_post, for the groups gs: queue not set up,
\* group not enabled, head doorbell out of range, queue full.
CanPost(gs, group) ==
    /\ ready
    /\ group \in gs
    /\ Credit <= Depth
    /\ Credit # 0

\* Mutant: only the first unread event raises an interrupt.
AdminIntrFirst ==
    /\ msg' = (msg \/ (~intr_mask /\ fifo = <<>>))
    /\ quiet' = intr_mask

\* ena_admin_intr: a masked interrupt is not remembered.
AdminIntr ==
    /\ msg' = (msg \/ ~intr_mask)
    /\ quiet' = intr_mask

\* ena_aenq_post.
AenqPost(gs, group, e) ==
    \/ /\ CanPost(gs, group)
       /\ ring' = Write(ring, pos, e)
       /\ pos' = Advance(pos)
       /\ tail_reg' = pos'.idx
       /\ fifo' = Append(fifo, e)
       /\ AdminIntr
    \/ /\ ~CanPost(gs, group)
       /\ UNCHANGED <<ring, pos, tail_reg, fifo, msg, quiet>>

\* ena_post_link_change, for link state up.  missed is history only.
PostLinkChange(gs, up) ==
    /\ AenqPost(gs, "link_change", up)
    /\ missed' = ("link_change" \in gs /\ ~CanPost(gs, "link_change"))

-----------------------------------------------------------------------------
\* ena_nc_link_status_changed.
LinkStatusChanged ==
    /\ link' \in {"up", "down"} \ {link}
    /\ PostLinkChange(groups, link')
    /\ UNCHANGED <<ready, head_db, groups, timer, intr_mask, guest>>

\* Mutant: a link that is down when the group is enabled goes unreported.
AenqConfigSilent(gs) ==
    /\ groups' = gs
    /\ timer' = IF "keep_alive" \in gs THEN Interval ELSE NotArmed
    /\ UNCHANGED <<ready, head_db, link, intr_mask, guest>>
    /\ UNCHANGED <<ring, pos, tail_reg, fifo, msg, quiet, missed>>

\* Mutant: disabling the group leaves the timer running.
AenqConfigTimer(gs) ==
    /\ groups' = gs
    /\ IF "link_change" \in gs
       THEN PostLinkChange(gs, link)
       ELSE UNCHANGED <<ring, pos, tail_reg, fifo, msg, quiet, missed>>
    /\ timer' = IF "keep_alive" \in gs THEN Interval ELSE timer
    /\ UNCHANGED <<ready, head_db, link, intr_mask, guest>>

\* ena_aenq_config, the AENQ_CONFIG feature with supported groups.
AenqConfig(gs) ==
    /\ groups' = gs
    /\ IF "link_change" \in gs
       THEN PostLinkChange(gs, link)
       ELSE UNCHANGED <<ring, pos, tail_reg, fifo, msg, quiet, missed>>
    /\ timer' = IF "keep_alive" \in gs THEN Interval ELSE NotArmed
    /\ UNCHANGED <<ready, head_db, link, intr_mask, guest>>

\* ena_keep_alive, the callback of the timer: it posts and starts over.
KeepAlive ==
    /\ timer = 0
    /\ AenqPost(groups, "keep_alive", "keep_alive")
    /\ timer' = Interval
    /\ UNCHANGED <<ready, head_db, groups, link, intr_mask, guest, missed>>

\* The virtual clock advances; it cannot pass a timer that is due.
Tick ==
    /\ timer > 0
    /\ timer' = timer - 1
    /\ UNCHANGED <<ready, head_db, pos, tail_reg, groups, link, intr_mask, guest,
                   ring, msg, fifo, missed, quiet>>

\* ena_dev_reset, from DEV_CTL or a system reset.  A guest in its handler
\* leaves it.
DevReset ==
    /\ ready' = FALSE /\ head_db' = 0 /\ pos' = Start /\ tail_reg' = 0
    /\ groups' = {} /\ timer' = NotArmed /\ intr_mask' = FALSE
    /\ isr' = "idle" /\ driver' = Start /\ view' = "unknown"
    /\ fifo' = <<>> /\ ring' = Blank /\ missed' = FALSE /\ quiet' = FALSE
    /\ UNCHANGED <<link, msg>>

\* ena_reg_write: base and capabilities of a zeroed ring, after a reset or
\* again later.  The head doorbell of the old ring stays.  The guest first
\* disables the groups, so that no event comes between its writes, and it
\* gives up what it has not read.
WriteCaps ==
    /\ ~ready \/ groups = {}
    /\ ready' = TRUE
    /\ pos' = Start
    /\ tail_reg' = 0
    /\ ring' = Blank /\ driver' = Start /\ fifo' = <<>>
    /\ UNCHANGED <<head_db, groups, timer, link, intr_mask, isr, view,
                   msg, missed, quiet>>

\* ena_reg_write: the head doorbell, a ring ahead of what the guest has read.
WriteHeadDb ==
    /\ ready
    /\ head_db' = (driver.idx + Depth) % W
    /\ UNCHANGED <<ready, pos, tail_reg, groups, timer, link, intr_mask, guest,
                   ring, msg, fifo, missed, quiet>>

\* ena_reg_write: a head doorbell further ahead than the ring is deep, as in
\* test_head_past_depth, with nothing left to read.
WriteHeadDbPast ==
    /\ ready /\ fifo = <<>>
    /\ \E n \in (Depth + 1)..(W - 1) : head_db' = (driver.idx + n) % W
    /\ UNCHANGED <<ready, pos, tail_reg, groups, timer, link, intr_mask, guest,
                   ring, msg, fifo, missed, quiet>>

\* ena_reg_write: INTR_MASK.
WriteIntrMask ==
    /\ intr_mask' = ~intr_mask
    /\ UNCHANGED <<ready, head_db, pos, tail_reg, groups, timer, link, guest,
                   ring, msg, fifo, missed, quiet>>

-----------------------------------------------------------------------------
\* The guest takes the message and polls in its handler.
TakeMessage ==
    /\ msg /\ isr = "idle"
    /\ msg' = FALSE
    /\ isr' = "poll"
    /\ UNCHANGED <<device, driver, view, ring, fifo, missed, quiet>>

\* ena_aenq_poll: an entry in the guest's phase is a new event.
Poll ==
    /\ isr = "poll"
    /\ Ready(ring, driver)
    /\ LET e == ring[driver.idx % Depth].data
       IN view' = IF e \in {"up", "down"} THEN e ELSE view
    /\ driver' = Advance(driver)
    /\ fifo' = Tail(fifo)
    /\ UNCHANGED <<device, isr, ring, msg, missed, quiet>>

\* The guest finds nothing new and leaves its handler.
Done ==
    /\ isr = "poll"
    /\ ~Ready(ring, driver)
    /\ isr' = "idle"
    /\ quiet' = FALSE
    /\ UNCHANGED <<device, driver, view, ring, msg, fifo, missed>>

Next ==
    \/ LinkStatusChanged
    \/ \E gs \in SUBSET Groups : AenqConfig(gs)
    \/ KeepAlive \/ Tick \/ DevReset
    \/ WriteCaps \/ WriteHeadDb \/ WriteHeadDbPast \/ WriteIntrMask
    \/ TakeMessage \/ Poll \/ Done

Spec == Init /\ [][Next]_vars

-----------------------------------------------------------------------------
\* The guest reads the events in the order they were posted, each once, none
\* overwritten before it is read and none taken early, over any number of
\* laps and wraps of the indices: the credit check of ena_aenq_post is enough.
AenqQueue == Holds(ring, pos, driver, fifo)

\* The keep-alive timer runs exactly while its group is enabled, although its
\* callback always starts it again: none survives a reset or a reconfiguration.
KeepAliveArmed == timer # NotArmed <=> "keep_alive" \in groups

\* x is the last link state reported: in the last link event not read yet, or
\* else read.
Reported(x) ==
    \/ \E k \in 1..Len(fifo) :
         fifo[k] = x /\ \A j \in (k + 1)..Len(fifo) : fifo[j] = "keep_alive"
    \/ view = x /\ \A j \in 1..Len(fifo) : fifo[j] = "keep_alive"

\* While link events are enabled the guest has been told the present link state,
\* from the moment it enables them, unless the last event found no free entry.
LinkReported == "link_change" \in groups /\ ~missed => Reported(link)

\* An event that waits in the ring has an interrupt on its way or a handler
\* polling, also when it was posted just as the handler made its last poll,
\* unless it was posted masked: that one is never signalled later.
EventSignalled == fifo # <<>> => msg \/ isr = "poll" \/ quiet

-----------------------------------------------------------------------------
\* The events in the ring from the guest's position up to the device's.
Unread == Contents(ring, pos, driver)

Service == INSTANCE EventService WITH Capacity <- Depth, queue <- Unread

\* The ring with its doorbell, phases and wrapping indices is the queue that
\* EventService describes: every step of device and guest is a step of that
\* queue or leaves it alone.
ImplementsService == Service!Spec
=============================================================================
