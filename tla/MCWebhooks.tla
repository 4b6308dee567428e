------------------------------ MODULE MCWebhooks ------------------------------
EXTENDS Webhooks, FiniteSets, TLC
CONSTANTS k1, k2, g1, g2, a1
MCReaders == {<<k1, g1>>}
MCExisting ==
    {row \in Rows({0, Coined + 1}) : Sound(row) /\ row.aim = a1 /\ row.group = g1 /\ row.owner = k1}
Named(put) == {f \in {"aim", "mode", "apikey", "group"} : put[f] # "keep"}
MCPayloads ==
    {put \in Puts({0}) : \/ Cardinality(Named(put)) <= 1
                         \/ Cardinality(Named(put)) = 2 /\ "group" \notin Named(put)}
MCSymmetry == Permutations(Tasks) \cup Permutations(Hooks)
=============================================================================
