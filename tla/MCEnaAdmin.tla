----------------------------- MODULE MCEnaAdmin -----------------------------
(* An AQ and an ACQ of two entries, which one burst can fill; the indices  *)
(* wrap after four laps.                                                   *)
EXTENDS EnaAdmin
MCDepth == 2
MCAqDepth == 2
MCW == 8
MCIdMod == 2
MCCmd == {[id |-> 0, op |-> "unknown"], [id |-> 1, op |-> "aenq_config"]}
MCData == Completion
=============================================================================
