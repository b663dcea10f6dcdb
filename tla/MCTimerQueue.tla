---------------------------- MODULE MCTimerQueue ----------------------------
(***************************************************************************)
(* Instances of TimerQueue for TLC.                                        *)
(***************************************************************************)
EXTENDS TimerQueue, TLC

CONSTANTS x, y, z

TwoTimers == {x, y}
ThreeTimers == {x, y, z}

\* 0 is Timestamp::invalid().
MCMoments == {0, 3}
MCDelays == {0, 2}

\* Timers are interchangeable (safety runs only).
Symmetry == Permutations(ThreeTimers)
=============================================================================
