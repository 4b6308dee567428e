---------------------------- MODULE MCGroupGrants ----------------------------
(* Instances of GroupGrants for TLC. *)
EXTENDS GroupGrants, TLC

IdSymmetry == Permutations(Keys) \cup Permutations(Groups) \cup Permutations(Names)
                  \cup Permutations(Tasks)
=============================================================================
