----------------------------- MODULE MCEnaVector -----------------------------
(* Two CQs that share the one vector or not; delays 0..2.                  *)
EXTENDS EnaVector
MCVectors == {1}
MCCqs == 0..1
MCNoVector == 99
MCMaxDelay == 2
=============================================================================
