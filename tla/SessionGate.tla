----------------------------- MODULE SessionGate -----------------------------
(***************************************************************************)
(* SessionGate, write by write.  NVDA's main thread opens the gate with     *)
(* separate assignments and without the gate's lock; a transport thread     *)
(* that loses its connection runs gate.disconnect() under that lock at any  *)
(* moment between them.  Two places open the gate, in different orders:     *)
(* confirm_foreground_instance binds first, the fullState branch of         *)
(* _handleEvent binds last.                                                 *)
(***************************************************************************)
CONSTANTS
    Terminals,   \* terminal identities of a supported frontend
    Transports,  \* transport threads
    Main,        \* NVDA's main thread
    None

ASSUME NoneAssumption == None \notin Terminals /\ None \notin Transports \cup {Main}
ASSUME MainAssumption == Main \notin Transports

Threads == Transports \cup {Main}

VARIABLES
    manual, authenticated, nvimActive, passthrough, focused, bound,
    lock,       \* the thread inside the gate's RLock
    step,       \* the assignment a thread makes next
    goal,       \* the terminal the main thread is opening for, or turning to
    overtaken   \* the opening during which a disconnect began

fields == <<manual, authenticated, nvimActive, passthrough, focused, bound>>
vars == <<fields, lock, step, goal, overtaken>>

Closing == {"closeAuth", "closeActive", "closePass", "closeBound"}
Confirming == {"confirmAuth", "confirmActive", "confirmPass"}
Filling == {"fullAuth", "fullActive", "fullBound"}

Suppressing ==
    /\ manual /\ authenticated /\ nvimActive /\ ~passthrough
    /\ focused # None /\ focused = bound

Init ==
    /\ manual = FALSE /\ authenticated = FALSE /\ nvimActive = FALSE
    /\ passthrough = FALSE /\ focused = None /\ bound = None
    /\ lock = None
    /\ step = [p \in Threads |-> "idle"]
    /\ goal = None
    /\ overtaken = "none"

-----------------------------------------------------------------------------
Then(p, label) == step' = [step EXCEPT ![p] = label]

(* gate.disconnect(), on any thread.                                        *)

\* A disconnect that begins between the first and the last assignment of an
\* opening overtakes it.
Overtaken ==
    IF step[Main] \in Confirming THEN "confirm"
    ELSE IF step[Main] \in {"fullActive", "fullBound"} THEN "full"
    ELSE overtaken

Disconnect(p) ==
    /\ p \in Transports
    /\ step[p] = "idle" /\ lock = None
    /\ lock' = p
    /\ Then(p, "closeAuth")
    /\ overtaken' = Overtaken
    /\ UNCHANGED <<fields, goal>>

\* Mutant: disconnect leaves the authentication alone.
CloseAuthSkipped(p) ==
    /\ step[p] = "closeAuth"
    /\ Then(p, "closeActive")
    /\ UNCHANGED <<fields, lock, goal, overtaken>>

CloseAuth(p) ==
    /\ step[p] = "closeAuth"
    /\ authenticated' = FALSE
    /\ Then(p, "closeActive")
    /\ UNCHANGED <<manual, nvimActive, passthrough, focused, bound, lock, goal, overtaken>>

CloseActive(p) ==
    /\ step[p] = "closeActive"
    /\ nvimActive' = FALSE
    /\ Then(p, "closePass")
    /\ UNCHANGED <<manual, authenticated, passthrough, focused, bound, lock, goal, overtaken>>

ClosePass(p) ==
    /\ step[p] = "closePass"
    /\ passthrough' = FALSE
    /\ Then(p, "closeBound")
    /\ UNCHANGED <<manual, authenticated, nvimActive, focused, bound, lock, goal, overtaken>>

CloseBound(p) ==
    /\ step[p] = "closeBound"
    /\ bound' = None
    /\ lock' = None
    /\ Then(p, IF p = Main THEN "turn" ELSE "idle")
    /\ UNCHANGED <<manual, authenticated, nvimActive, passthrough, focused, goal, overtaken>>

-----------------------------------------------------------------------------
(* The main thread.                                                         *)

\* disable(), fail-open handling, and a focus that moves to t.
MainDisconnect(on, t) ==
    /\ step[Main] = "idle" /\ lock = None
    /\ on => manual
    /\ on = manual \/ t = focused
    /\ manual' = on
    /\ lock' = Main
    /\ goal' = t
    /\ overtaken' = "none"
    /\ Then(Main, "closeAuth")
    /\ UNCHANGED <<authenticated, nvimActive, passthrough, focused, bound>>

Turn ==
    /\ step[Main] = "turn"
    /\ focused' = goal
    /\ Then(Main, "idle")
    /\ UNCHANGED <<manual, authenticated, nvimActive, passthrough, bound, lock, goal, overtaken>>

Enable ==
    /\ step[Main] = "idle" /\ ~manual /\ focused # None
    /\ manual' = TRUE
    /\ UNCHANGED <<authenticated, nvimActive, passthrough, focused, bound, lock, step,
                   goal, overtaken>>

\* confirm_foreground_instance: binding, authentication, activity, passthrough.
Confirm ==
    /\ step[Main] = "idle" /\ focused # None
    /\ goal' = focused
    /\ bound' = focused
    /\ overtaken' = "none"
    /\ Then(Main, "confirmAuth")
    /\ UNCHANGED <<manual, authenticated, nvimActive, passthrough, focused, lock>>

ConfirmAuth ==
    /\ step[Main] = "confirmAuth"
    /\ authenticated' = TRUE
    /\ Then(Main, "confirmActive")
    /\ UNCHANGED <<manual, nvimActive, passthrough, focused, bound, lock, goal, overtaken>>

ConfirmActive ==
    /\ step[Main] = "confirmActive"
    /\ nvimActive' = TRUE
    /\ Then(Main, "confirmPass")
    /\ UNCHANGED <<manual, authenticated, passthrough, focused, bound, lock, goal, overtaken>>

ConfirmPass ==
    /\ step[Main] = "confirmPass"
    /\ passthrough' \in BOOLEAN
    /\ Then(Main, "idle")
    /\ UNCHANGED <<manual, authenticated, nvimActive, focused, bound, lock, goal, overtaken>>

\* _handleEvent: passthrough, authentication, activity, binding.
HandleFullState ==
    /\ step[Main] = "idle" /\ focused # None /\ manual
    /\ goal' = focused
    /\ passthrough' \in BOOLEAN
    /\ overtaken' = "none"
    /\ Then(Main, "fullAuth")
    /\ UNCHANGED <<manual, authenticated, nvimActive, focused, bound, lock>>

FullAuth ==
    /\ step[Main] = "fullAuth"
    /\ authenticated' = TRUE
    /\ Then(Main, "fullActive")
    /\ UNCHANGED <<manual, nvimActive, passthrough, focused, bound, lock, goal, overtaken>>

FullActive ==
    /\ step[Main] = "fullActive"
    /\ nvimActive' = TRUE
    /\ Then(Main, "fullBound")
    /\ UNCHANGED <<manual, authenticated, passthrough, focused, bound, lock, goal, overtaken>>

FullBound ==
    /\ step[Main] = "fullBound"
    /\ bound' = goal
    /\ Then(Main, "idle")
    /\ UNCHANGED <<manual, authenticated, nvimActive, passthrough, focused, lock, goal,
                   overtaken>>

Next ==
    \/ \E p \in Threads :
        Disconnect(p) \/ CloseAuth(p) \/ CloseActive(p) \/ ClosePass(p) \/ CloseBound(p)
    \/ \E on \in BOOLEAN, t \in Terminals \cup {None} : MainDisconnect(on, t)
    \/ Turn \/ Enable
    \/ Confirm \/ ConfirmAuth \/ ConfirmActive \/ ConfirmPass
    \/ HandleFullState \/ FullAuth \/ FullActive \/ FullBound

Spec == Init /\ [][Next]_vars

-----------------------------------------------------------------------------
TypeOK ==
    /\ manual \in BOOLEAN /\ authenticated \in BOOLEAN
    /\ nvimActive \in BOOLEAN /\ passthrough \in BOOLEAN
    /\ focused \in Terminals \cup {None} /\ bound \in Terminals \cup {None}
    /\ lock \in Threads \cup {None}
    /\ step \in [Threads -> {"idle", "turn"} \cup Closing \cup Confirming \cup Filling]
    /\ goal \in Terminals \cup {None}
    /\ overtaken \in {"none", "confirm", "full"}

\* A disconnect that begins while the main thread is opening the gate wins: once
\* it is through, the terminal is not silenced, whatever assignments the opening
\* still had to make and in whichever of its two orders it makes them.
DisconnectWins ==
    overtaken # "none" /\ (\A p \in Transports : step[p] = "idle") => ~Suppressing
=============================================================================
