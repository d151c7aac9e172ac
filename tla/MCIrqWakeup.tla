----------------------------- MODULE MCIrqWakeup -----------------------------
(* An RX and a TX CQ that may share the vector; delays 0 and 1.            *)
EXTENDS IrqWakeup
MCVectors == {1}
MCCqs == 0..1
MCNoVector == 99
MCMaxDelay == 1
=============================================================================
