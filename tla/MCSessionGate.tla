---------------------------- MODULE MCSessionGate ----------------------------
EXTENDS SessionGate, TLC

CONSTANTS t1, t2, c1, c2

MCTerminals == {t1, t2}
MCTransports == {c1, c2}
Symmetry == Permutations(MCTerminals) \cup Permutations(MCTransports)
=============================================================================
