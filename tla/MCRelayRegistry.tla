-------------------------- MODULE MCRelayRegistry --------------------------
(* Small instances of RelayRegistry for TLC.                               *)
EXTENDS RelayRegistry, TLC

\* Video ports stand for themselves: add_drone takes the lowest free one.
TwoPorts   == 1..2
ThreadSymmetry == Permutations(Workers) \cup Permutations(Streams)
Symmetry == ThreadSymmetry \cup Permutations(RelayObjs) \cup Permutations(DroneNames) \cup Permutations(RelayNames)

Careful  == {"linger"}
OverlapTimeout   == {"overlap_timeout"}
Reregister       == {"reregister"}
Adders           == {"overlap_add", "overlap_drone", "overlap_timeout", "reregister"}
=============================================================================
