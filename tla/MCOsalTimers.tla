---------------------------- MODULE MCOsalTimers ----------------------------
(***************************************************************************)
(* Model values for OsalTimers: timers that differ only in their names.     *)
(***************************************************************************)
EXTENDS OsalTimers, TLC

TimerSymmetry == Permutations(TimerIds)
=============================================================================
