------------------------------ MODULE ClientLink ------------------------------
(***************************************************************************)
(* What a client of one Neovim promises to the add-on, whatever carries it: *)
(* the states it tells and the events it hands over come in this order.  A  *)
(* connection opens with a state, further ones follow while it is up, and a *)
(* loss takes the state back before the next attempt; once stop() is over   *)
(* nothing comes any more.  The transports of ConnectionGate are such links.*)
(***************************************************************************)
CONSTANTS States, None

VARIABLES
    link,     \* new, connecting, up, down, or none once the client has stopped
    state     \* the last state handed over, None without a connection

vars == <<link, state>>

Init == link = "new" /\ state = None

Connect ==
    /\ link \in {"new", "down"}
    /\ link' = "connecting"
    /\ UNCHANGED state

Open ==
    /\ link = "connecting"
    /\ link' = "up" /\ state' \in States

Deliver ==
    /\ link = "up"
    /\ state' \in States
    /\ UNCHANGED link

Lose ==
    /\ link \in {"connecting", "up"}
    /\ link' = "down" /\ state' = None

Stop ==
    /\ link # "none"
    /\ link' = "none" /\ state' \in {state, None}

Next == Connect \/ Open \/ Deliver \/ Lose \/ Stop

Spec == Init /\ [][Next]_vars
=============================================================================
