------------------------------- MODULE MCRecords -------------------------------
EXTENDS Records, TLC
CONSTANTS writer, deleter, g1, g2
MCRights == {<<writer, g1, "write">>, <<deleter, g1, "delete">>}
MCSymmetry == Permutations(Tasks)
=============================================================================
