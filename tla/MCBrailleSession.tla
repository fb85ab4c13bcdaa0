-------------------------- MODULE MCBrailleSession --------------------------
EXTENDS BrailleSession

\* A second focus takes the place of two changes or losses, a loss that of a change.
FewDisturbances ==
    /\ period > 1 => changes + losses <= 1
    /\ losses > 0 => changes <= 1
=============================================================================
