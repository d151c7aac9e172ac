----------------------------- MODULE MCEnaRegs -----------------------------
(* Request ids that wrap after four reads, two restarts of the driver.     *)
EXTENDS EnaRegs
MCIdentity == [r \in ReadOnly |-> 5]
=============================================================================
