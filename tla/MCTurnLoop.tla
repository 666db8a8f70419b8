----------------------------- MODULE MCTurnLoop -----------------------------
(* Small instances of TurnLoop for TLC. *)
EXTENDS TurnLoop
=============================================================================
