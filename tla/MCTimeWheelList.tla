--------------------------- MODULE MCTimeWheelList ---------------------------
(***************************************************************************)
(* Small instances of TimeWheelList for TLC.                               *)
(***************************************************************************)
EXTENDS TimeWheelList, TLC

MCTimeouts == {-1} \cup 0 .. N + 1

TimerSymmetry == Permutations(Timers)

=============================================================================
