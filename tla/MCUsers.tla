------------------------------- MODULE MCUsers -------------------------------
(* Small instances of Users for TLC. *)
EXTENDS Users, TLC

\* Requests are interchangeable.
SlotSymmetry == Permutations(Slots)
=============================================================================
