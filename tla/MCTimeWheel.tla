----------------------------- MODULE MCTimeWheel -----------------------------
(***************************************************************************)
(* Small instances of TimeWheel for TLC: timeouts below zero, below SI, up *)
(* to two rotations and a slot, and those that come back to the slot they  *)
(* are added from.                                                         *)
(***************************************************************************)
EXTENDS TimeWheel

MCTimeouts == {-1} \cup 0 .. (2 * N + 1) * SI

=============================================================================
