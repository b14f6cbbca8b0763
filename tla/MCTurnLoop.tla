----------------------------- MODULE MCTurnLoop -----------------------------
(* Instances of TurnLoop for TLC. *)
EXTENDS TurnLoop

CONSTANTS t, h

MCAsker == {t, h}
MCAnnounced == {t}
=============================================================================
