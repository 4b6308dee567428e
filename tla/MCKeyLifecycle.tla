---------------------------- MODULE MCKeyLifecycle ----------------------------
(* Instances of KeyLifecycle for TLC. *)
EXTENDS KeyLifecycle, TLC

IdSymmetry == Permutations(Keys) \cup Permutations(Groups) \cup Permutations(Tasks)
=============================================================================
