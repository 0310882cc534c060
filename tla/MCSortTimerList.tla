-------------------------- MODULE MCSortTimerList --------------------------
(***************************************************************************)
(* Small instances of SortTimerList for TLC.                               *)
(***************************************************************************)
EXTENDS SortTimerList, TLC

TimerSymmetry == Permutations(Timers)

=============================================================================
