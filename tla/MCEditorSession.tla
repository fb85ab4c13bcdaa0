-------------------------- MODULE MCEditorSession --------------------------
EXTENDS EditorSession

\* One use at a time, and the two that may end one another.
MCFeatureSets == {{"exploration"}, {"context"}, {"choice"}, {"clipboard"},
                  {"exploration", "context"}}

\* A third gesture only where it can meet a full table of requests, and two
\* uses together only while nothing else goes wrong; a loss and a second focus
\* meet one gesture.  A prompt does not depend on the cursor's place.  The
\* terminals are alike, so that it does not matter which one is focused first.
FewDisturbances ==
    /\ losses > 0 /\ period > 1 => gestures <= 1
    /\ gestures > 2 => features = {"exploration"}
    /\ gestures > 2 \/ Cardinality(features) > 1 => losses = 0 /\ period <= 1
    /\ features = {"choice"} => moves = 0 /\ (losses > 0 => period <= 1)
    /\ period = 1 => focus \in {Away, CHOOSE t \in Terminals : TRUE}
============================================================================
