------------------------------- MODULE EnaRegs -------------------------------
(***************************************************************************)
(* The register file (hw/ena.c): plain and read-only registers, the        *)
(* readless reads, which answer into guest memory at an address that is    *)
(* itself held in registers a reset clears, and the reset handshake        *)
(* through DEV_CTL and DEV_STS.  The driver follows ena_dev_reset and      *)
(* ena_readless of the tests; it may die at any point and start over, with *)
(* or without a reset of the machine.                                      *)
(***************************************************************************)
EXTENDS Integers

CONSTANTS
    Identity,      \* values of VERSION, CONTROLLER_VERSION, CAPS, CAPS_EXT
    IdW,           \* 2^16: request ids wrap here
    Poison,        \* 0xdead
    MaxBumps,      \* at least 1: bound on the completions the device reports
    MaxRestarts    \* bound on the restarts of the driver

ASSUME IdAssumption ==
    IdW \in Nat \ {0} /\ Poison \in 1..(IdW - 1) /\ MaxBumps \in Nat \ {0}

ReadOnly == {"VERSION", "CAPS"}
Tails == {"ACQ_TAIL"}
Plain == {"MMIO_RESP", "AQ_BASE", "INTR_MASK"}
Regs == ReadOnly \union Tails \union Plain \union {"AQ_CAPS", "DEV_CTL", "DEV_STS"}

\* DEV_STS: READY and RESET_IN_PROGRESS are never set together.
READY == 1
IN_PROGRESS == 8

\* Offsets a readless read may name: a register, past the file, off a word.
Offsets == Regs \union {"beyond", "unaligned"}
Ones == -1    \* 0xffffffff

VARIABLES
    reg,         \* s->reg
    response,    \* the response in guest memory
    seq,         \* the driver's request id
    read,        \* its readless read: "none", "poisoned" or "polling"
    off,         \* the offset it reads
    stage,       \* where the driver is: "probe", "reset", "address", "wait",
                 \* "clear", "settle", "up" or "gone"
    restarts,    \* how often it has died
    at_request   \* history: the register when the device answered

registers == <<reg, response, seq, read, off, stage, restarts, at_request>>
reader == <<seq, read, off, stage, restarts>>

\* The register file ena_dev_reset leaves.
ResetRegs == [r \in Regs |-> IF r \in ReadOnly THEN Identity[r]
                             ELSE IF r = "DEV_STS" THEN READY ELSE 0]

RegsInit ==
    /\ reg = ResetRegs
    /\ response = [id |-> 0, off |-> "VERSION", val |-> 0]
    /\ seq = 0 /\ read = "none" /\ off = "VERSION" /\ stage = "probe" /\ restarts = 0
    /\ at_request = 0

-----------------------------------------------------------------------------
(* The device.                                                             *)

\* Mutant: the file has one register more.
FileReadPast(o) == IF o = "beyond" THEN 0 ELSE reg[o]

\* ena_reg_file_read.
FileRead(o) == IF o = "beyond" THEN Ones ELSE reg[o]

\* ena_mmio_readless: the response that is in memory afterwards.
Readless(id, o) ==
    IF reg["MMIO_RESP"] = 0 \/ o = "unaligned" THEN response
    ELSE [id |-> id, off |-> o, val |-> FileRead(o)]

\* Mutant: a reset keeps the registers of the queues.
DevCtlWriteKeep(v) ==
    IF v = 1
    THEN [reg EXCEPT !["MMIO_RESP"] = 0, !["DEV_CTL"] = 1, !["DEV_STS"] = IN_PROGRESS]
    ELSE [reg EXCEPT !["DEV_CTL"] = 0, !["DEV_STS"] = READY]

\* Mutant: the write of 0 leaves the status alone.
DevCtlWriteStuck(v) ==
    IF v = 1
    THEN [ResetRegs EXCEPT !["DEV_CTL"] = 1, !["DEV_STS"] = IN_PROGRESS]
    ELSE [reg EXCEPT !["DEV_CTL"] = 0]

\* ena_dev_ctl_write: v is 1 for the reset bit with any reason.
DevCtlWrite(v) ==
    IF v = 1
    THEN [ResetRegs EXCEPT !["DEV_CTL"] = 1, !["DEV_STS"] = IN_PROGRESS]
    ELSE [reg EXCEPT !["DEV_CTL"] = 0,
                     !["DEV_STS"] = IF @ = IN_PROGRESS THEN READY ELSE @]

\* ena_reg_write, without the doorbells: what it leaves in the file.  The
\* capabilities stand for those of both admin queues; writing them resets the
\* tail (EnaAdmin).
RegWrite(r, v) ==
    CASE r = "DEV_CTL" -> DevCtlWrite(v)
      [] r \in ReadOnly \union Tails \union {"DEV_STS"} -> reg
      [] r = "AQ_CAPS" -> [reg EXCEPT ![r] = v, !["ACQ_TAIL"] = 0]
      [] r \in Plain -> [reg EXCEPT ![r] = v]

\* ena_admin_process reports a completion.
Bump ==
    /\ reg["AQ_BASE"] # 0 /\ reg["AQ_CAPS"] # 0 /\ reg["ACQ_TAIL"] < MaxBumps
    /\ reg' = [reg EXCEPT !["ACQ_TAIL"] = @ + 1]
    /\ UNCHANGED <<response, reader, at_request>>

-----------------------------------------------------------------------------
(* The driver.                                                             *)

\* A register write that takes the driver from one stage to the next.
Step(from, r, v, to) ==
    /\ stage = from /\ read = "none"
    /\ reg' = RegWrite(r, v)
    /\ stage' = to
    /\ UNCHANGED <<response, seq, read, off, restarts, at_request>>

\* ena_readless: the next id, and a response that cannot be taken for it.
ReadStart(o) ==
    /\ read = "none"
    /\ stage \in {"wait", "settle"} => o = "DEV_STS"
    /\ stage \in {"wait", "settle", "up"}
    /\ seq' = (seq + 1) % IdW
    /\ response' = [response EXCEPT !.id = (seq' + Poison) % IdW]
    /\ read' = "poisoned" /\ off' = o
    /\ UNCHANGED <<reg, stage, restarts, at_request>>

\* The write of MMIO_REG_READ.
ReadRequest ==
    /\ read = "poisoned"
    /\ response' = Readless(seq, off)
    /\ at_request' = IF off \in Regs THEN reg[off] ELSE Ones
    /\ read' = "polling"
    /\ UNCHANGED <<reg, seq, off, stage, restarts>>

\* The driver finds its answer and goes on when it is the one it waits for.
ReadDone ==
    /\ read = "polling" /\ response.id = seq
    /\ read' = "none"
    /\ stage' = IF stage = "wait" /\ response.val = IN_PROGRESS THEN "clear"
                ELSE IF stage = "settle" /\ response.val = READY THEN "up"
                ELSE stage
    /\ UNCHANGED <<reg, response, seq, off, restarts, at_request>>

\* It gives up; in the middle of the handshake it gives the device up.
ReadTimeout ==
    /\ read = "polling" /\ response.id # seq
    /\ read' = "none"
    /\ stage' = IF stage = "up" THEN "up" ELSE "gone"
    /\ UNCHANGED <<reg, response, seq, off, restarts, at_request>>

\* The driver dies and starts over; the machine may have been reset, which is
\* ena_qdev_reset_hold.
Restart(machine) ==
    /\ restarts < MaxRestarts
    /\ restarts' = restarts + 1
    /\ stage' = "probe" /\ read' = "none" /\ seq' = 0 /\ off' = "VERSION"
    /\ response' = [id |-> 0, off |-> "VERSION", val |-> 0]
    /\ reg' = IF machine THEN ResetRegs ELSE reg
    /\ UNCHANGED at_request

Probe == Step("probe", "MMIO_RESP", 1, "reset")
Reset == \/ Step("reset", "DEV_CTL", 1, "address")
         \/ Step("up", "DEV_CTL", 1, "address")
Address == Step("address", "MMIO_RESP", 1, "wait")
Clear == Step("clear", "DEV_CTL", 0, "settle")
Configure == \E r \in Regs, v \in 0..1 : ~(r = "DEV_CTL" /\ v = 1) /\ Step("up", r, v, "up")

RegsNext ==
    \/ Bump
    \/ Probe \/ Reset \/ Address \/ Clear \/ Configure
    \/ \E o \in Offsets : ReadStart(o)
    \/ ReadRequest \/ ReadDone \/ ReadTimeout
    \/ \E m \in BOOLEAN : Restart(m)

\* The driver goes on once it has begun; the machine stops restarting it.
RegsFairness ==
    /\ WF_registers(Probe) /\ WF_registers(stage = "reset" /\ Reset) /\ WF_registers(Address)
    /\ WF_registers(Clear) /\ WF_registers(stage # "up" /\ ReadStart("DEV_STS"))
    /\ WF_registers(ReadRequest) /\ WF_registers(ReadDone) /\ WF_registers(ReadTimeout)
RegsSpec == RegsInit /\ [][RegsNext]_registers
FairRegsSpec == RegsSpec /\ RegsFairness

-----------------------------------------------------------------------------
(* What is checked.                                                        *)

\* A readless read of a word is answered at once, with the request's own id and
\* the value the register had at the request, while the address is set: the
\* driver never times out inside the handshake, nor takes an old answer for a
\* new one when its ids wrap.
ReadAnswered ==
    read = "polling" /\ reg["MMIO_RESP"] # 0 /\ off # "unaligned" =>
        response = [id |-> seq, off |-> off, val |-> at_request]

\* A driver in the handshake finds none of the queues its predecessor set up:
\* the admin queue stays off until it writes both registers itself.
CleanAfterReset ==
    stage \in {"address", "wait", "clear", "settle"} =>
        /\ \A r \in {"AQ_BASE", "AQ_CAPS", "ACQ_TAIL", "INTR_MASK"} : reg[r] = 0
        /\ \A r \in ReadOnly : reg[r] = Identity[r]

\* The handshake ends: a driver that probes or resets the device gets it up.
ComesUp == (stage # "up") ~> (stage = "up")
=============================================================================
