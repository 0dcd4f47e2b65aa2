--------------------------- MODULE MCLaunchQueue ---------------------------
(* Up to two rows; the nightly launch retries once, the weekly one runs once. *)
EXTENDS LaunchQueue, TLC

CONSTANTS nightly, weekly
One == {1}
Two == {1, 2}
MCServes == [w \in Worker |-> Launch]
MCMaxParallel == [l \in Launch |-> 1]
MCMaxRuns == [l \in Launch |-> IF l = weekly THEN 1 ELSE 0]
MCMaxAttempts == [l \in Launch |-> IF l = weekly THEN 1 ELSE 2]
MCSymmetry == Permutations(Worker)
=============================================================================
