------------------------------ MODULE Silencing ------------------------------
(***************************************************************************)
(* What the add-on promises about silence, without the machinery.  NVDA's  *)
(* own speech for the focused terminal is withheld only while one instance *)
(* speaks for it, the one that serves this terminal.  Everything else gives *)
(* the terminal its voice back, and starting to speak is a step of its own: *)
(* no switch, change of focus or change of service begins it.              *)
(***************************************************************************)
CONSTANTS Terminals, Instances, None

VARIABLES
    on,         \* Neovim mode
    focus,      \* the focused terminal, or None
    serves,     \* the instance that serves each terminal, or None
    speaker     \* the instance that speaks for the focused terminal, or None

vars == <<on, focus, serves, speaker>>

Init ==
    /\ on = FALSE /\ focus = None /\ speaker = None
    /\ serves = [t \in Terminals |-> None]

TurnOn ==
    /\ ~on /\ on' = TRUE
    /\ UNCHANGED <<focus, serves, speaker>>

TurnOff ==
    /\ on /\ on' = FALSE
    /\ serves' = [t \in Terminals |-> None] /\ speaker' = None
    /\ UNCHANGED focus

MoveFocus(t) ==
    /\ t # focus /\ focus' = t
    /\ speaker' = None
    /\ UNCHANGED <<on, serves>>

Silence ==
    /\ on /\ focus # None /\ serves[focus] # None
    /\ speaker = None /\ speaker' = serves[focus]
    /\ UNCHANGED <<on, focus, serves>>

Release ==
    /\ speaker # None /\ speaker' = None
    /\ UNCHANGED <<on, focus, serves>>

\* A new instance replaces the one that served t, there and everywhere else.
Replace(t, i) ==
    /\ on /\ focus = t
    /\ \A x \in Terminals : serves[x] # i
    /\ serves' = [x \in Terminals |-> IF x = t THEN i
                                      ELSE IF serves[x] = serves[t] THEN None ELSE serves[x]]
    /\ speaker' = IF speaker = None THEN None ELSE i
    /\ UNCHANGED <<on, focus>>

\* An instance that exists already comes to serve t, and no other terminal.
Take(t, i) ==
    /\ on /\ focus = t
    /\ serves' = [x \in Terminals |-> IF x = t THEN i
                                      ELSE IF serves[x] = i THEN None ELSE serves[x]]
    /\ speaker' \in {None, IF serves[t] = i THEN speaker ELSE None}
    /\ UNCHANGED <<on, focus>>

\* The terminals ts are served no longer.
Leave(ts) ==
    /\ serves' = [x \in Terminals |-> IF x \in ts THEN None ELSE serves[x]]
    /\ speaker' = IF focus \in ts THEN None ELSE speaker
    /\ UNCHANGED <<on, focus>>

Next ==
    \/ TurnOn \/ TurnOff \/ Silence \/ Release
    \/ \E t \in Terminals \cup {None} : MoveFocus(t)
    \/ \E t \in Terminals, i \in Instances : Replace(t, i) \/ Take(t, i)
    \/ \E ts \in SUBSET Terminals : Leave(ts)

Spec == Init /\ [][Next]_vars
=============================================================================
