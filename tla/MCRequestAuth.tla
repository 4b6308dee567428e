----------------------------- MODULE MCRequestAuth -----------------------------
(* Instances of RequestAuth for TLC. *)
EXTENDS RequestAuth, TLC

SteadyWallClock == {0}
SteppedWallClock == {-1, 0}

\* One signed before the process started, which has its last acceptance soon after, and
\* one signed a second after.
OldAndNewTimestamps == {-3, 1}

TaskSymmetry == Permutations(Requests)
=============================================================================
