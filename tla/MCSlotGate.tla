----------------------------- MODULE MCSlotGate -----------------------------
(* SlotGate for TLC: the job ids are interchangeable. *)
EXTENDS SlotGate, TLC

JobSymmetry == Permutations(Jobs)
=============================================================================
