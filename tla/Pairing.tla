------------------------------- MODULE Pairing -------------------------------
(***************************************************************************)
(* Which Neovim each terminal shows, without the requests, threads and      *)
(* dialogs that lead there.  A connection begins in the focused terminal    *)
(* while the mode is on and replaces the one this terminal had; one that    *)
(* lives may be moved to the focused terminal; and when a connection ends,  *)
(* no terminal shows it any more and nothing is believed of it.            *)
(*                                                                         *)
(* ConnectionGate and SessionClaims both implement it: they are two views   *)
(* of one table of connections.                                            *)
(***************************************************************************)
CONSTANTS Terminals, Instances, None

VARIABLES
    on,         \* Neovim mode
    focus,      \* the focused terminal, or None
    live,       \* the instances that have a client
    serves,     \* the instance each terminal shows, or None
    heard       \* the instances that have authenticated themselves

vars == <<on, focus, live, serves, heard>>

Init ==
    /\ on = FALSE /\ focus = None
    /\ live = {} /\ heard = {}
    /\ serves = [t \in Terminals |-> None]

TurnOn ==
    /\ ~on /\ on' = TRUE
    /\ UNCHANGED <<focus, live, serves, heard>>

TurnOff ==
    /\ on /\ on' = FALSE
    /\ live' = {} /\ heard' = {}
    /\ serves' = [t \in Terminals |-> None]
    /\ UNCHANGED focus

MoveFocus(t) ==
    /\ focus' = t
    /\ UNCHANGED <<on, live, serves, heard>>

Freed(i) == [x \in Terminals |-> IF serves[x] = i THEN None ELSE serves[x]]

\* Instance i leaves the tables, and those in new join them.
Ends(i, new) ==
    /\ live' = (live \cup new) \ {i}
    /\ heard' = heard \ {i}

Start(t, i) ==
    /\ on /\ focus = t
    /\ i \notin live
    /\ Ends(serves[t], {i})
    /\ serves' = [Freed(serves[t]) EXCEPT ![t] = i]
    /\ UNCHANGED <<on, focus>>

Move(t, i) ==
    /\ on /\ focus = t
    /\ i \in live
    /\ serves' = [Freed(i) EXCEPT ![t] = i]
    /\ UNCHANGED <<on, focus, live, heard>>

End(t) ==
    /\ serves[t] # None
    /\ Ends(serves[t], {})
    /\ serves' = Freed(serves[t])
    /\ UNCHANGED <<on, focus>>

Hear(i) ==
    /\ i \in live /\ heard' = heard \cup {i}
    /\ UNCHANGED <<on, focus, live, serves>>

Unhear(i) ==
    /\ heard' = heard \ {i}
    /\ UNCHANGED <<on, focus, live, serves>>

Next ==
    \/ TurnOn \/ TurnOff
    \/ \E t \in Terminals \cup {None} : MoveFocus(t)
    \/ \E t \in Terminals : End(t) \/ \E i \in Instances : Start(t, i) \/ Move(t, i)
    \/ \E i \in Instances : Hear(i) \/ Unhear(i)

Spec == Init /\ [][Next]_vars

\* While the mode is off there is no connection; a shown one lives, in one
\* terminal at most; and only one that lives is believed.
Sound ==
    /\ ~on => live = {}
    /\ heard \subseteq live
    /\ \A t \in Terminals : serves[t] # None => serves[t] \in live
    /\ \A t, x \in Terminals : serves[t] # None /\ serves[t] = serves[x] => t = x
=============================================================================
