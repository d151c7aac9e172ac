------------------------------ MODULE EnaQueues ------------------------------
(***************************************************************************)
(* The IO queues of the device as the admin commands make and unmake them  *)
(* (hw/ena_admin.c), the two features that bear on them (LLQ and the RSS   *)
(* indirection table) and the choice of the RX queue of a frame            *)
(* (ena_rx_sq in hw/ena_rx.c).  One step is one command, which the device  *)
(* executes under the BQL.  Ring addresses are abstracted to "given or     *)
(* not"; ring positions are in EnaTx, interrupt bindings in EnaVector.     *)
(***************************************************************************)
EXTENDS Integers

CONSTANTS
    NumSq, NumCq,         \* ENA_MAX_SQ, ENA_MAX_CQ
    MinDepth, MaxDepth,   \* ENA_MIN_QUEUE_DEPTH, ENA_MAX_QUEUE_DEPTH
    NumVectors,           \* ENA_MSIX_VECTORS
    VectorNone,           \* ENA_MSIX_VECTOR_NONE
    LlqEntrySizes,        \* {ENA_LLQ_ENTRY_SIZE, ENA_LLQ_LARGE_ENTRY_SIZE}
    LlqQueueBytes,        \* ENA_LLQ_QUEUE_BYTES
    RxCdescBytes,         \* sizeof(struct ena_eth_io_rx_cdesc_base)
    Buckets,              \* indices of the RSS indirection table
    CqCmds, SqCmds        \* the CREATE_CQ and CREATE_SQ commands a guest sends

CqCmd == [depth : Nat, words : Nat, ba : BOOLEAN, intr : BOOLEAN, vector : Nat]

SqCmd == [dir : {"tx", "rx", "none"}, placement : {"host", "dev", "none"},
          completion : {"desc", "head"}, contiguous : BOOLEAN,
          cq_idx : Nat, depth : Nat, ba : BOOLEAN, writeback : BOOLEAN]

ASSUME QueueCountAssumption == NumSq \in Nat /\ NumCq \in Nat
ASSUME LlqAssumption == LlqEntrySizes \subseteq Nat /\ LlqQueueBytes \in Nat
ASSUME CdescAssumption == RxCdescBytes \in Nat
ASSUME CmdAssumption == CqCmds \subseteq CqCmd /\ SqCmds \subseteq SqCmd

SqIdx == 0..(NumSq - 1)
CqIdx == 0..(NumCq - 1)

VARIABLES
    cq,         \* s->cq[]
    sq,         \* s->sq[]
    llq,        \* s->llq_enabled, s->llq_entry_size
    ind_tbl,    \* s->rss.ind_tbl[]
    resp        \* the status the last command was answered with

queues == <<cq, sq, llq, ind_tbl, resp>>

Cq == [used : BOOLEAN, depth : Nat, entry_size : Nat,
       intr_enabled : BOOLEAN, msix_vector : Nat]

Sq == [used : BOOLEAN, is_tx : BOOLEAN, llq : BOOLEAN, cq_idx : Nat,
       depth : Nat, entry_size : Nat]

QueueStatus == {"success", "illegal_parameter", "resource_allocation_failure",
           "resource_busy", "unsupported_opcode"}

QueuesTypeOK ==
    /\ cq \in [CqIdx -> Cq]
    /\ sq \in [SqIdx -> Sq]
    /\ llq \in [enabled : BOOLEAN, entry_size : LlqEntrySizes \cup {0}]
    /\ ind_tbl \in [Buckets -> Nat]
    /\ resp \in QueueStatus

NoCq == [used |-> FALSE, depth |-> 0, entry_size |-> 0,
         intr_enabled |-> FALSE, msix_vector |-> 0]

NoSq == [used |-> FALSE, is_tx |-> FALSE, llq |-> FALSE, cq_idx |-> 0,
         depth |-> 0, entry_size |-> 0]

NoLlq == [enabled |-> FALSE, entry_size |-> 0]

QueuesInit ==
    /\ cq = [i \in CqIdx |-> NoCq]
    /\ sq = [i \in SqIdx |-> NoSq]
    /\ llq = NoLlq
    /\ ind_tbl = [b \in Buckets |-> 0]
    /\ resp = "success"

-----------------------------------------------------------------------------
\* ena_valid_depth.
ValidDepth(depth) ==
    /\ \E k \in 0..15 : depth = 2^k
    /\ depth \in MinDepth..MaxDepth

\* Mutant: the search ends at the last used entry.
FirstFreeOffByOne(q) ==
    {i \in DOMAIN q : \A j \in DOMAIN q : j < i => q[j].used}

\* The first unused entry of a queue table, if there is one.
FirstFree(q) ==
    {i \in DOMAIN q : ~q[i].used /\ \A j \in DOMAIN q : j < i => q[j].used}

UsedRx == {i \in SqIdx : sq[i].used /\ ~sq[i].is_tx}

\* The answer of ena_create_cq.
CreateCqStatus(c) ==
    IF \/ ~ValidDepth(c.depth)
       \/ c.words \notin {2, 4, 8}
       \/ ~c.ba
       \/ c.intr /\ c.vector # VectorNone /\ c.vector \notin 1..(NumVectors - 1)
    THEN "illegal_parameter"
    ELSE IF FirstFree(cq) = {} THEN "resource_allocation_failure"
    ELSE "success"

\* The answer of ena_create_sq, its checks in its order.  "abort" stands for
\* ena_unsupported: the process ends.
CreateSqStatus(c) ==
    IF \/ c.dir \notin {"tx", "rx"}
       \/ c.placement \notin {"host", "dev"}
       \/ c.placement = "dev" /\ (c.dir # "tx" \/ ~llq.enabled)
    THEN "illegal_parameter"
    ELSE IF c.completion # "desc" THEN "unsupported_opcode"
    ELSE IF \/ ~c.contiguous
            \/ c.cq_idx \notin CqIdx
            \/ ~cq[c.cq_idx].used
            \/ ~ValidDepth(c.depth)
            \/ c.depth > cq[c.cq_idx].depth
            \/ c.placement = "host" /\ ~c.ba
            \/ c.dir = "rx" /\ cq[c.cq_idx].entry_size < RxCdescBytes
    THEN "illegal_parameter"
    ELSE IF c.writeback THEN "abort"
    ELSE IF FirstFree(sq) = {} THEN "resource_allocation_failure"
    ELSE IF c.placement = "dev" /\ c.depth * llq.entry_size > LlqQueueBytes
    THEN "illegal_parameter"
    ELSE "success"

NewCq(c) ==
    [used |-> TRUE, depth |-> c.depth, entry_size |-> c.words * 4,
     intr_enabled |-> c.intr, msix_vector |-> c.vector]

NewSq(c) ==
    [used |-> TRUE, is_tx |-> c.dir = "tx", llq |-> c.placement = "dev",
     cq_idx |-> c.cq_idx, depth |-> c.depth,
     entry_size |-> IF c.placement = "dev" THEN llq.entry_size ELSE 0]

-----------------------------------------------------------------------------
\* ena_create_cq.
CreateCq(c) ==
    /\ resp' = CreateCqStatus(c)
    /\ \/ /\ resp' = "success"
          /\ \E i \in FirstFree(cq) : cq' = [cq EXCEPT ![i] = NewCq(c)]
       \/ resp' # "success" /\ UNCHANGED cq
    /\ UNCHANGED <<sq, llq, ind_tbl>>

\* Mutant: the CQ goes although an SQ completes into it.
DestroyCqBusy(idx) ==
    /\ IF idx \notin CqIdx \/ ~cq[idx].used
       THEN resp' = "illegal_parameter" /\ UNCHANGED cq
       ELSE resp' = "success" /\ cq' = [cq EXCEPT ![idx].used = FALSE]
    /\ UNCHANGED <<sq, llq, ind_tbl>>

\* ena_destroy_cq: refused while an SQ completes into the CQ.
DestroyCq(idx) ==
    /\ IF idx \notin CqIdx \/ ~cq[idx].used
       THEN resp' = "illegal_parameter" /\ UNCHANGED cq
       ELSE IF \E i \in SqIdx : sq[i].used /\ sq[i].cq_idx = idx
       THEN resp' = "resource_busy" /\ UNCHANGED cq
       ELSE resp' = "success" /\ cq' = [cq EXCEPT ![idx].used = FALSE]
    /\ UNCHANGED <<sq, llq, ind_tbl>>

\* ena_create_sq.
CreateSq(c) ==
    /\ CreateSqStatus(c) # "abort"
    /\ resp' = CreateSqStatus(c)
    /\ \/ /\ resp' = "success"
          /\ \E i \in FirstFree(sq) : sq' = [sq EXCEPT ![i] = NewSq(c)]
       \/ resp' # "success" /\ UNCHANGED sq
    /\ UNCHANGED <<cq, llq, ind_tbl>>

\* ena_destroy_sq: the direction has to match; the indirection table keeps
\* naming the SQ.
DestroySq(idx, is_tx) ==
    /\ IF idx \notin SqIdx \/ ~sq[idx].used \/ sq[idx].is_tx # is_tx
       THEN resp' = "illegal_parameter" /\ UNCHANGED sq
       ELSE resp' = "success" /\ sq' = [sq EXCEPT ![idx].used = FALSE]
    /\ UNCHANGED <<cq, llq, ind_tbl>>

\* Mutant: the new entry size also applies to the LLQ SQs in use.
SetLlqLive(supported, entry_size) ==
    /\ supported
    /\ resp' = "success"
    /\ llq' = [enabled |-> TRUE, entry_size |-> entry_size]
    /\ sq' = [i \in SqIdx |->
                 IF sq[i].llq THEN [sq[i] EXCEPT !.entry_size = entry_size] ELSE sq[i]]
    /\ UNCHANGED <<cq, ind_tbl>>

\* ena_set_feature, ENA_ADMIN_LLQ; supported: the layout fields of the command
\* are the ones the device offers.
SetLlq(supported, entry_size) ==
    /\ IF supported
       THEN /\ resp' = "success"
            /\ llq' = [enabled |-> TRUE, entry_size |-> entry_size]
       ELSE resp' = "illegal_parameter" /\ UNCHANGED llq
    /\ UNCHANGED <<cq, sq, ind_tbl>>

\* ena_set_feature, ENA_ADMIN_RSS_INDIRECTION_TABLE_CONFIG: all entries are
\* checked before any is stored.
SetIndTable(tbl) ==
    /\ IF \A b \in Buckets : tbl[b] \in UsedRx
       THEN resp' = "success" /\ ind_tbl' = tbl
       ELSE resp' = "illegal_parameter" /\ UNCHANGED ind_tbl
    /\ UNCHANGED <<cq, sq, llq>>

\* ena_dev_reset.
ResetQueues ==
    /\ cq' = [i \in CqIdx |-> NoCq]
    /\ sq' = [i \in SqIdx |-> NoSq]
    /\ llq' = NoLlq
    /\ ind_tbl' = [b \in Buckets |-> 0]
    /\ UNCHANGED resp

QueuesNext ==
    \/ \E c \in CqCmds : CreateCq(c)
    \/ \E c \in SqCmds : CreateSq(c)
    \/ \E idx \in 0..NumCq : DestroyCq(idx)
    \/ \E idx \in 0..NumSq, is_tx \in BOOLEAN : DestroySq(idx, is_tx)
    \/ \E supported \in BOOLEAN, size \in LlqEntrySizes : SetLlq(supported, size)
    \/ \E tbl \in [Buckets -> 0..NumSq] : SetIndTable(tbl)
    \/ ResetQueues

QueuesSpec == QueuesInit /\ [][QueuesNext]_queues

-----------------------------------------------------------------------------
\* Mutant: the entry of the indirection table is used unchecked.
RxSqUnchecked(b) == {ind_tbl[b]}

\* ena_rx_sq: the RX SQ of a frame in hash bucket b, as a set that is empty
\* when there is none.
RxSq(b) ==
    IF ind_tbl[b] \in UsedRx
    THEN {ind_tbl[b]}
    ELSE {i \in UsedRx : \A j \in UsedRx : i <= j}

\* Every SQ in use completes into a CQ in use that has a slot for each of its
\* descriptors and, for RX, room for an RX completion.  It makes the assertion
\* of ena_cq_push hold and the tests of cq[].used in the data path redundant.
SqBound ==
    \A i \in SqIdx : sq[i].used =>
        /\ sq[i].cq_idx \in CqIdx
        /\ cq[sq[i].cq_idx].used
        /\ sq[i].depth <= cq[sq[i].cq_idx].depth
        /\ sq[i].is_tx \/ cq[sq[i].cq_idx].entry_size >= RxCdescBytes

\* The ring of an LLQ SQ lies within its slice of the memory BAR, with the
\* entry size it was created with, also after the LLQ feature was set again;
\* only TX SQs are LLQ SQs.
LlqInSlice ==
    \A i \in SqIdx : sq[i].used /\ sq[i].llq =>
        /\ sq[i].is_tx
        /\ sq[i].entry_size \in LlqEntrySizes
        /\ sq[i].depth * sq[i].entry_size <= LlqQueueBytes

\* While the guest has an RX queue every hash bucket has exactly one, whatever
\* became of the queues the indirection table names: a destroyed queue, or its
\* index reused by a TX queue, falls back to the first RX queue.
RxQueueLive ==
    \A b \in Buckets :
        /\ RxSq(b) \subseteq UsedRx
        /\ UsedRx # {} => \E i \in UsedRx : RxSq(b) = {i}

\* No command changes a queue that stays in use, nor the CQ it completes into.
QueueStable ==
    [][\A i \in SqIdx : sq[i].used /\ sq'[i].used =>
          /\ sq'[i] = sq[i]
          /\ cq'[sq[i].cq_idx] = cq[sq[i].cq_idx]]_queues

\* What the comment in ena_create_sq says ("one completion slot per submitted
\* descriptor"): a CQ has a slot for every descriptor the SQs bound to it can
\* hold.  It fails: the depth of each SQ is compared with the CQ on its own.
OneSlotPerDescriptor ==
    \A i, j \in SqIdx :
        i # j /\ sq[i].used /\ sq[j].used /\ sq[i].cq_idx = sq[j].cq_idx
        => sq[i].depth + sq[j].depth <= cq[sq[i].cq_idx].depth
=============================================================================
