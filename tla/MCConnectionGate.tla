-------------------------- MODULE MCConnectionGate --------------------------
EXTENDS ConnectionGate, TLC

CONSTANTS t1, t2, r1, r2

MCTerminals == {t1, t2}
MCTerminals1 == {t1}
MCReqIds == {r1, r2}
Symmetry == Permutations(MCTerminals) \cup Permutations(MCReqIds)
Symmetry1 == Permutations(MCReqIds)

\* At most one callback, delayed call or request under way.
FewCalls ==
    Len(queue) + Cardinality({c \in Calls : calls[c] > 0})
        + Cardinality(UNION {sent[i] : i \in Instances}) + Cardinality(asked) <= 1
=============================================================================
