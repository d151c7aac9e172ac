------------------------------ MODULE MCEnaAenq ------------------------------
(* A ring of two entries; the indices wrap after two pairs of laps.        *)
EXTENDS EnaAenq
MCDepth == 2
MCW == 8
MCInterval == 1
MCData == {"up", "down", "keep_alive"}
=============================================================================
