--------------------------- MODULE MCSessionClaims ---------------------------
EXTENDS SessionClaims, TLC

CONSTANTS t1, t2, a, b, c, local, work

\* A local session in one terminal and two remote ones in the other.
MCTargetOf == [s \in {a, b, c} |-> IF s = a THEN local ELSE work]
MCHome == [s \in {a, b, c} |-> IF s = a THEN t1 ELSE t2]

\* At most two gestures or lookups under way, one dialog and one key; of
\* presses, inventories and picked targets three, or four around a switch-off while
\* the local session has no claim; only the local session quits, before a
\* switch-off, and c claims only where no target is picked, nothing is switched off
\* and no session quits; the focus leaves the terminals only before a press;
\* nothing is followed after the mode went off for good.
FewPending ==
    /\ Len(handlers) + Cardinality(calls) + Cardinality(workers) <= 2
    /\ Cardinality(choices) <= 1
    /\ keys[a] + keys[b] + keys[c] <= 1
    /\ presses + inventories <= 3 /\ presses + picks <= 2
    /\ presses + inventories + picks > 3 => offs > 0 /\ keys[a] + claim[a].seq = 0
    /\ {b, c} \subseteq alive /\ (a \in alive \/ picks + offs = 0)
    /\ keys[c] + claim[c].seq > 0 => a \in alive /\ picks + offs = 0 /\ inventories <= 1
    /\ focused = None => presses = 0
    /\ manual \/ inventories < MaxInventories
=============================================================================
