-------------------------------- MODULE MCBoot --------------------------------
EXTENDS Boot, TLC
MCSymmetry == Permutations(Instances) \cup Permutations(Keys)
=============================================================================
